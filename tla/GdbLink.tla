------------------------------ MODULE GdbLink -------------------------------
(* The connection with the debugger above the tokens (see TokenStream): the *)
(* rules of scanner.l, gdb_packet_analysis, the retransmission of the last  *)
(* packet (gdb_protocol.c), and a debugger that follows the protocol: one    *)
(* request at a time, sent again on "-", its answer acknowledged by "+" or   *)
(* asked for again by "-".  A fault of the line breaks the checksum of a     *)
(* packet; the debugger's user may interrupt while an answer is awaited,     *)
(* which sends a character outside of any packet.  The handler of a request  *)
(* runs between the acknowledgement and the answer, and may never end: it     *)
(* waits for the mutex, and may be cont.  kill, which shuts the connection    *)
(* down, is the subject of Simulator.                                         *)
EXTENDS Naturals, Sequences

CONSTANTS MaxRequests,    \* a bound on the requests of the debugger
          MaxFaults,      \* a bound on the packets the line damages
          MaxInterrupts,  \* a bound on the interrupts of the user
          MAX_ERROR_SIZE, \* the size of the buffer of invalid characters
          None            \* no packet was sent

ASSUME LinkAssumption ==
    /\ MaxRequests \in Nat
    /\ MaxFaults \in Nat
    /\ MaxInterrupts \in Nat
    /\ MAX_ERROR_SIZE \in Nat /\ MAX_ERROR_SIZE >= 2
    /\ None \notin Nat

VARIABLES asked,       \* the number of the debugger's current request
          phase,       \* what the debugger waits for
          answers,     \* the requests whose answers the debugger took
          faults,      \* the packets damaged so far
          interrupts,  \* the interrupts sent so far
          toServer,    \* the tokens on their way to the scanner
          toClient,    \* what the simulator wrote and the debugger has not read
          len,         \* the number of invalid characters collected
          packet,      \* the request the last packet answers
          running,     \* the request whose handler runs, if any
          executed     \* the requests whose handlers were called

client == <<asked, phase, answers>>
line == <<faults, interrupts, toServer, toClient>>
server == <<len, packet, running, executed>>
vars == <<client, line, server>>

Token(kind, n) == [kind |-> kind, of |-> n]
Ack == Token("+", 0)
Resend == Token("-", 0)
Interrupt == Token("stray", 0)

Init ==
    /\ asked = 0 /\ phase = "ready" /\ answers = <<>>
    /\ faults = 0 /\ interrupts = 0
    /\ toServer = <<>> /\ toClient = <<>>
    /\ len = 0 /\ packet = None /\ running = None /\ executed = <<>>

(* A packet is put on the line after some tokens, and may be damaged there. *)
Sent(channel, tokens, n) ==
    \/ /\ channel' = channel \o tokens \o <<Token("packet", n)>>
       /\ UNCHANGED faults
    \/ /\ faults < MaxFaults
       /\ channel' = channel \o tokens \o <<Token("damaged", n)>>
       /\ faults' = faults + 1

-----------------------------------------------------------------------------
(* The debugger. *)
Ask ==
    /\ phase = "ready"
    /\ asked < MaxRequests
    /\ asked' = asked + 1
    /\ phase' = "ack"
    /\ Sent(toServer, <<>>, asked')
    /\ UNCHANGED <<answers, interrupts, toClient, server>>

Reads(token) ==
    /\ toClient # <<>>
    /\ Head(toClient) = token
    /\ toClient' = Tail(toClient)

Acknowledged ==
    /\ phase = "ack"
    /\ Reads(Ack)
    /\ phase' = "answer"
    /\ UNCHANGED <<asked, answers, faults, interrupts, toServer, server>>

AskAgain ==
    /\ phase = "ack"
    /\ Reads(Resend)
    /\ Sent(toServer, <<>>, asked)
    /\ UNCHANGED <<client, interrupts, server>>

(* A packet where an acknowledgement is due is acknowledged and dropped. *)
DropPacket ==
    /\ phase = "ack"
    /\ \E n \in 1 .. asked : Reads(Token("packet", n)) \/ Reads(Token("damaged", n))
    /\ toServer' = Append(toServer, Ack)
    /\ UNCHANGED <<client, faults, interrupts, server>>

TakeAnswer ==
    /\ phase = "answer"
    /\ \E n \in 1 .. asked :
         /\ Reads(Token("packet", n))
         /\ answers' = Append(answers, n)
    /\ phase' = "ready"
    /\ toServer' = Append(toServer, Ack)
    /\ UNCHANGED <<asked, faults, interrupts, server>>

RefuseAnswer ==
    /\ phase = "answer"
    /\ \E n \in 1 .. asked : Reads(Token("damaged", n))
    /\ toServer' = Append(toServer, Resend)
    /\ UNCHANGED <<client, faults, interrupts, server>>

(* Where an answer is due, anything before the next packet is skipped. *)
Skip ==
    /\ phase = "answer"
    /\ Reads(Ack) \/ Reads(Resend)
    /\ UNCHANGED <<client, faults, interrupts, toServer, server>>

UserInterrupts ==
    /\ phase = "answer"
    /\ interrupts < MaxInterrupts
    /\ interrupts' = interrupts + 1
    /\ toServer' = Append(toServer, Interrupt)
    /\ UNCHANGED <<client, faults, toClient, server>>

Client ==
    \/ Acknowledged \/ AskAgain \/ DropPacket \/ TakeAnswer \/ RefuseAnswer \/ Skip

-----------------------------------------------------------------------------
(* The simulator, whose thread reads while no handler runs. *)
Receives(kind) ==
    /\ running = None
    /\ toServer # <<>>
    /\ Head(toServer).kind = kind
    /\ toServer' = Tail(toServer)

(* handle_error: invalid characters before a token ask for a retransmission. *)
handle_error == IF len > 0 THEN <<Resend>> ELSE <<>>

\* Mutant: the invalid characters are not forgotten.
ReceiveAck_kept ==
    /\ Receives("+")
    /\ toClient' = toClient \o handle_error
    /\ UNCHANGED <<client, faults, interrupts, server>>

(* Rule "+". *)
ReceiveAck ==
    /\ Receives("+")
    /\ toClient' = toClient \o handle_error
    /\ len' = 0
    /\ UNCHANGED <<client, faults, interrupts, packet, running, executed>>

\* Mutant: the packet is not sent again.
ReceiveResend_lost ==
    /\ Receives("-")
    /\ toClient' = toClient \o handle_error
    /\ len' = 0
    /\ UNCHANGED <<client, faults, interrupts, packet, running, executed>>

(* Rule "-": gdb_transmit_packet, which writes nothing before a first packet. *)
ReceiveResend ==
    /\ Receives("-")
    /\ IF packet = None
       THEN toClient' = toClient \o handle_error /\ UNCHANGED faults
       ELSE Sent(toClient, handle_error, packet)
    /\ len' = 0
    /\ UNCHANGED <<client, interrupts, packet, running, executed>>

(* gdb_packet_analysis of a packet whose checksum is right, until the handler *)
(* is called.                                                                 *)
ReceivePacket ==
    /\ Receives("packet")
    /\ toClient' = toClient \o handle_error \o <<Ack>>
    /\ running' = Head(toServer).of
    /\ executed' = Append(executed, running')
    /\ len' = 0
    /\ UNCHANGED <<client, faults, interrupts, packet>>

(* gdb_send_data at the end of the handler: the answer is kept and sent. *)
HandlerEnds ==
    /\ running # None
    /\ packet' = running
    /\ Sent(toClient, <<>>, running)
    /\ running' = None
    /\ UNCHANGED <<client, interrupts, toServer, len, executed>>

\* Mutant: the analysis does not stop at a wrong checksum.
ReceiveDamaged_runs ==
    /\ Receives("damaged")
    /\ toClient' = toClient \o handle_error \o <<Resend>>
    /\ running' = Head(toServer).of
    /\ executed' = Append(executed, running')
    /\ len' = 0
    /\ UNCHANGED <<client, faults, interrupts, packet>>

(* gdb_packet_analysis of a packet whose checksum is wrong. *)
ReceiveDamaged ==
    /\ Receives("damaged")
    /\ toClient' = toClient \o handle_error \o <<Resend>>
    /\ len' = 0
    /\ UNCHANGED <<client, faults, interrupts, packet, running, executed>>

(* add_character_to_error, which makes room in the buffer where it is full. *)
ReceiveStray ==
    /\ Receives("stray")
    /\ IF len > MAX_ERROR_SIZE - 2
       THEN toClient' = toClient \o handle_error /\ len' = 1
       ELSE len' = len + 1 /\ UNCHANGED toClient
    /\ UNCHANGED <<client, faults, interrupts, packet, running, executed>>

Server == ReceiveAck \/ ReceiveResend \/ ReceivePacket \/ ReceiveDamaged \/ ReceiveStray

-----------------------------------------------------------------------------
Next == Ask \/ Client \/ UserInterrupts \/ Server \/ HandlerEnds

Spec == Init /\ [][Next]_vars

(* The debugger reads what is written to it, and the thread of the connection *)
(* what it receives; the user is free to ask and to interrupt, and a handler  *)
(* need not end.                                                              *)
FairSpec == Spec /\ WF_vars(Client) /\ WF_vars(Server)

(* As long as the user has not interrupted, and whatever packets the line     *)
(* damages in either direction, every request is executed exactly once and    *)
(* the debugger takes the answer of its own request: the retransmissions of   *)
(* both sides never execute a request again nor bring an older answer.        *)
Exactly == INSTANCE RequestAnswer

ExactlyOnce ==
    /\ Exactly!Init
    /\ [][interrupts' = 0 => [Exactly!Next]_(Exactly!vars)]_vars

(* An interrupt is answered, at the next token, by a request of               *)
(* retransmission that the debugger takes for its next request, which is then *)
(* executed twice.  On a line without faults the executions in excess never   *)
(* outnumber the interrupts, and no request is left out or out of order; with *)
(* faults too, the answers taken lag by no more than the interrupts, and      *)
(* never run ahead of their requests.                                         *)
ExcessPaidByInterrupts ==
    /\ faults = 0 =>
         /\ Len(executed) <= asked + interrupts
         /\ \A i \in 1 .. Len(executed) - 1 : executed[i + 1] - executed[i] \in {0, 1}
    /\ \A i \in 1 .. Len(answers) : answers[i] <= i /\ i <= answers[i] + interrupts

(* Where the handlers end, those of cont too, the debugger is never left      *)
(* without its answer, interrupts or not; the line, the rules of the scanner   *)
(* and the retransmissions of both sides lose none.                           *)
AlwaysAnswered == []<>(running = None) => (phase # "ready" ~> phase = "ready")

=============================================================================
