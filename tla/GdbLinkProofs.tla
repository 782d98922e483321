--------------------------- MODULE GdbLinkProofs ----------------------------
(* A line that damages packets and a user who does not interrupt: for any    *)
(* number of requests and of faults, the rules of the scanner and the         *)
(* retransmissions of both sides execute each request once, and bring the     *)
(* debugger the answer of its own request.  And a user who interrupts: what   *)
(* is executed in excess, and how late answers are, never exceeds the         *)
(* interrupts.                                                                *)
EXTENDS GdbLink, FiniteSetTheorems, SequenceTheorems, TLAPS

-----------------------------------------------------------------------------
(* The queues of this protocol are short: what is read from them and added   *)
(* to them.                                                                  *)

\* A sequence of two elements is their pair.
LEMMA Pair ==
  ASSUME NEW a, NEW b, NEW s \in Seq({a, b}), Len(s) = 2, s[1] = a, s[2] = b
  PROVE  s = <<a, b>>
<1>1. <<a, b>> \in Seq({a, b}) /\ Len(<<a, b>>) = 2
  OBVIOUS
<1>2. <<a, b>>[1] = a /\ <<a, b>>[2] = b
  OBVIOUS
<1>3. \A i \in 1 .. Len(s) : s[i] = <<a, b>>[i]
  <2>1. 1 .. Len(s) = {1, 2}
    OBVIOUS
  <2>. QED
    BY <2>1, <1>2
<1>. QED
  BY <1>1, <1>3, SeqEqual

\* The first and the rest of one or two tokens.
LEMMA ShortQueues ==
  ASSUME NEW a, NEW b
  PROVE /\ <<a>> # <<>> /\ Head(<<a>>) = a /\ Tail(<<a>>) = <<>>
        /\ <<a, b>> # <<>> /\ Head(<<a, b>>) = a /\ Tail(<<a, b>>) = <<b>>
  OBVIOUS

\* One token added.
LEMMA Appended ==
  ASSUME NEW a, NEW b
  PROVE Append(<<>>, a) = <<a>> /\ Append(<<a>>, b) = <<a, b>>
<1>1. <<a>> \in Seq({a, b}) /\ Len(<<a>>) = 1 /\ <<a>>[1] = a
  OBVIOUS
<1>2. /\ Append(<<a>>, b) \in Seq({a, b}) /\ Len(Append(<<a>>, b)) = 2
      /\ Append(<<a>>, b)[1] = a /\ Append(<<a>>, b)[2] = b
  BY <1>1, AppendProperties
<1>3. Append(<<>>, a) = <<a>>
  OBVIOUS
<1>. QED
  BY <1>2, <1>3, Pair

\* Some tokens added to at most one.
LEMMA Concatenated ==
  ASSUME NEW a, NEW b
  PROVE /\ <<>> \o <<>> = <<>> /\ <<>> \o <<a>> = <<a>> /\ <<a>> \o <<>> = <<a>>
        /\ <<a>> \o <<b>> = <<a, b>>
<1>1. <<a>> \in Seq({a, b}) /\ <<b>> \in Seq({a, b}) /\ <<>> \in Seq({a, b})
  OBVIOUS
<1>2. <<a>> \o <<b>> \in Seq({a, b}) /\ Len(<<a>> \o <<b>>) = 2
  BY <1>1, ConcatProperties
<1>3. (<<a>> \o <<b>>)[1] = a /\ (<<a>> \o <<b>>)[2] = b
  BY <1>1, ConcatProperties
<1>4. <<a>> \o <<b>> = <<a, b>>
  BY <1>2, <1>3, Pair
<1>. QED
  BY <1>1, <1>4, ConcatEmptySeq

-----------------------------------------------------------------------------
(* The configurations of one exchange, in their order. *)
Requested == {Token("packet", asked), Token("damaged", asked)}

\* The answer was taken; its acknowledgement may be on its way.
Idle ==
    /\ phase = "ready" /\ toClient = <<>> /\ toServer \in {<<>>, <<Ack>>} /\ running = None
    /\ Len(executed) = asked /\ Len(answers) = asked

\* The request is on its way.
Asked ==
    /\ phase = "ack" /\ toClient = <<>> /\ running = None
    /\ \E m \in Requested : toServer \in {<<m>>, <<Ack, m>>}
    /\ Len(executed) + 1 = asked /\ Len(answers) + 1 = asked

\* The request came damaged.
Refused ==
    /\ phase = "ack" /\ toClient = <<Resend>> /\ toServer = <<>> /\ running = None
    /\ Len(executed) + 1 = asked /\ Len(answers) + 1 = asked

Called ==
    /\ Len(executed) = asked /\ executed[Len(executed)] = asked
    /\ Len(answers) + 1 = asked

\* The handler runs, and the acknowledgement is to be read.
Started == phase = "ack" /\ toServer = <<>> /\ toClient = <<Ack>> /\ running = asked /\ Called

\* The acknowledgement is read, and the handler runs still.
Runs == phase = "answer" /\ toServer = <<>> /\ toClient = <<>> /\ running = asked /\ Called

\* The handler has ended.
Done == Called /\ packet = asked /\ running = None

\* The request is executed; nothing of the answer is read.
Executed ==
    /\ phase = "ack" /\ toServer = <<>> /\ Done
    /\ \E m \in Requested : toClient = <<Ack, m>>

\* The acknowledgement is read.
Answered ==
    /\ phase = "answer" /\ toServer = <<>> /\ Done
    /\ \E m \in Requested : toClient = <<m>>

\* The answer came damaged.
Repeated ==
    /\ phase = "answer" /\ toServer = <<Resend>> /\ toClient = <<>> /\ Done

\* The inductive invariant.
Inv == /\ asked \in Nat /\ executed \in Seq(Nat) /\ answers \in Seq(Nat)
       /\ interrupts = 0 /\ len = 0
       /\ Idle \/ Asked \/ Refused \/ Started \/ Runs \/ Executed \/ Answered \/ Repeated

\* The kinds tell the tokens apart.
LEMMA Kinds ==
  /\ Ack.kind = "+" /\ Resend.kind = "-" /\ Ack # Resend
  /\ \A n : /\ Token("packet", n).kind = "packet" /\ Token("packet", n).of = n
            /\ Token("damaged", n).kind = "damaged" /\ Token("damaged", n).of = n
BY DEF Ack, Resend, Token

\* Nothing was asked: both are idle.
LEMMA InitInv == Init => Inv /\ Exactly!Init
BY DEF Init, Inv, Idle, Exactly!Init

\* What each step keeps and what the promise makes of it.
Step == Inv' /\ [Exactly!Next]_(Exactly!vars)

\* A request is sent: it is on its way, in the abstract specification too.
LEMMA AskStep == Inv /\ Ask => Step
<1>. SUFFICES ASSUME Inv, Ask PROVE Step
  OBVIOUS
<1>1. Idle
  BY DEF Ask, Inv, Idle, Asked, Refused, Started, Runs, Executed, Answered, Repeated
<1>2. PICK m \in {Token("packet", asked'), Token("damaged", asked')} :
        toServer' = (toServer \o <<>>) \o <<m>>
  BY DEF Ask, Sent
<1>3. toServer' \in {<<m>>, <<Ack, m>>}
  BY <1>1, <1>2, Concatenated DEF Idle
<1>4. Asked'
  BY <1>1, <1>3 DEF Ask, Idle, Asked, Requested, Inv, server
<1>5. Exactly!Ask
  BY <1>1 DEF Ask, Idle, Exactly!Ask, server
<1>. QED
  BY <1>4, <1>5 DEF Step, Inv, Exactly!Next, Ask, server

\* The acknowledgement of a packet changes nothing the abstract one sees.
LEMMA AcknowledgedStep == Inv /\ Acknowledged => Step
<1>. SUFFICES ASSUME Inv, Acknowledged PROVE Step
  OBVIOUS
<1>1. toClient # <<>> /\ Head(toClient) = Ack /\ toClient' = Tail(toClient)
  BY DEF Acknowledged, Reads
<1>2. Started \/ Executed
  BY <1>1, Kinds, ShortQueues
     DEF Acknowledged, Inv, Idle, Asked, Refused, Started, Runs, Executed, Answered, Repeated
<1>3. CASE Started
  <2>1. toClient' = <<>>
    BY <1>1, <1>3, ShortQueues DEF Started
  <2>2. Runs'
    BY <1>3, <2>1 DEF Acknowledged, Started, Runs, Called, server
  <2>. QED
    BY <2>2 DEF Step, Inv, Acknowledged, server, Exactly!vars
<1>4. CASE Executed
  <2>1. \E m \in Requested : toClient' = <<m>>
    BY <1>1, <1>4, ShortQueues DEF Executed
  <2>2. Answered'
    BY <1>4, <2>1 DEF Acknowledged, Executed, Answered, Requested, Done, Called, server
  <2>. QED
    BY <2>2 DEF Step, Inv, Acknowledged, server, Exactly!vars
<1>. QED
  BY <1>2, <1>3, <1>4

\* A refused packet is sent again.
LEMMA AskAgainStep == Inv /\ AskAgain => Step
<1>. SUFFICES ASSUME Inv, AskAgain PROVE Step
  OBVIOUS
<1>1. toClient # <<>> /\ Head(toClient) = Resend /\ toClient' = Tail(toClient)
  BY DEF AskAgain, Reads
<1>2. Refused
  BY <1>1, Kinds, ShortQueues
     DEF AskAgain, Inv, Idle, Asked, Refused, Started, Runs, Executed, Answered, Repeated
<1>3. PICK m \in Requested : toServer' = (toServer \o <<>>) \o <<m>>
  BY DEF AskAgain, Sent, Requested
<1>4. toServer' = <<m>> /\ toClient' = <<>>
  BY <1>1, <1>2, <1>3, Concatenated, ShortQueues DEF Refused
<1>5. Asked'
  BY <1>2, <1>4 DEF AskAgain, Refused, Asked, Requested, client, server
<1>. QED
  BY <1>5 DEF Step, Inv, AskAgain, client, server, Exactly!vars

\* No packet comes where an acknowledgement is due.
LEMMA DropPacketStep == Inv /\ DropPacket => Step
<1>. SUFFICES ASSUME Inv, DropPacket PROVE FALSE
  OBVIOUS
<1>1. /\ phase = "ack" /\ toClient # <<>>
      /\ Head(toClient).kind \in {"packet", "damaged"}
  BY Kinds DEF DropPacket, Reads
<1>. QED
  BY <1>1, Kinds, ShortQueues
     DEF Inv, Idle, Asked, Refused, Started, Runs, Executed, Answered, Repeated

\* The client takes the answer that was executed for its request.
LEMMA TakeAnswerStep == Inv /\ TakeAnswer => Step
<1>. SUFFICES ASSUME Inv, TakeAnswer PROVE Step
  OBVIOUS
<1>1. PICK n : /\ toClient # <<>> /\ Head(toClient) = Token("packet", n)
               /\ toClient' = Tail(toClient) /\ answers' = Append(answers, n)
  BY DEF TakeAnswer, Reads
<1>2. Answered
  BY <1>1, Kinds, ShortQueues
     DEF TakeAnswer, Inv, Idle, Asked, Refused, Started, Runs, Executed, Answered, Repeated
<1>3. PICK m \in Requested : toClient = <<m>>
  BY <1>2 DEF Answered
<1>4. m = Token("packet", n) /\ toClient' = <<>>
  BY <1>1, <1>3, ShortQueues
<1>5. n = asked
  BY <1>4, Kinds DEF Requested
<1>6. toServer' = <<Ack>>
  BY <1>2, Appended DEF TakeAnswer, Answered
<1>7. answers' \in Seq(Nat) /\ Len(answers') = asked
  BY <1>1, <1>2, <1>5, AppendProperties DEF Inv, Answered, Done, Called
<1>8. Idle'
  BY <1>2, <1>4, <1>6, <1>7 DEF TakeAnswer, Answered, Done, Called, Idle, server
<1>9. Exactly!Answer
  BY <1>1, <1>2, <1>5 DEF Exactly!Answer, TakeAnswer, Answered, Done, Called, Inv, server
<1>. QED
  BY <1>7, <1>8, <1>9 DEF Step, Inv, Exactly!Next, TakeAnswer, server

\* A damaged answer is asked for again, not executed again.
LEMMA RefuseAnswerStep == Inv /\ RefuseAnswer => Step
<1>. SUFFICES ASSUME Inv, RefuseAnswer PROVE Step
  OBVIOUS
<1>1. PICK n : /\ toClient # <<>> /\ Head(toClient) = Token("damaged", n)
               /\ toClient' = Tail(toClient)
  BY DEF RefuseAnswer, Reads
<1>2. Answered
  BY <1>1, Kinds, ShortQueues
     DEF RefuseAnswer, Inv, Idle, Asked, Refused, Started, Runs, Executed, Answered, Repeated
<1>3. toClient' = <<>> /\ toServer' = <<Resend>>
  BY <1>1, <1>2, ShortQueues, Appended DEF Answered, RefuseAnswer
<1>4. Repeated'
  BY <1>2, <1>3 DEF RefuseAnswer, Answered, Repeated, Done, Called, client, server
<1>. QED
  BY <1>4 DEF Step, Inv, RefuseAnswer, client, server, Exactly!vars

\* Where an answer is due, it is what comes.
LEMMA SkipStep == Inv /\ Skip => Step
<1>. SUFFICES ASSUME Inv, Skip PROVE FALSE
  OBVIOUS
<1>1. /\ phase = "answer" /\ toClient # <<>>
      /\ Head(toClient) \in {Ack, Resend}
  BY DEF Skip, Reads
<1>. QED
  BY <1>1, Kinds, ShortQueues
     DEF Inv, Idle, Asked, Refused, Started, Runs, Executed, Answered, Repeated, Requested

-----------------------------------------------------------------------------
\* The simulator has an acknowledgement to read only where it answered.
LEMMA ReceiveAckStep == Inv /\ ReceiveAck => Step
<1>. SUFFICES ASSUME Inv, ReceiveAck PROVE Step
  OBVIOUS
<1>1. toServer # <<>> /\ Head(toServer).kind = "+" /\ toServer' = Tail(toServer)
  BY DEF ReceiveAck, Receives
<1>2. toClient' = toClient \o <<>>
  BY DEF ReceiveAck, handle_error, Inv
<1>3. Idle \/ Asked
  BY <1>1, Kinds, ShortQueues DEF Inv, Idle, Asked, Refused, Started, Runs, Executed, Answered, Repeated
<1>4. CASE Idle
  <2>1. toServer' = <<>> /\ toClient' = <<>>
    BY <1>1, <1>2, <1>4, ShortQueues, Concatenated DEF Idle
  <2>2. Idle'
    BY <1>4, <2>1 DEF Idle, ReceiveAck, client
  <2>. QED
    BY <2>2 DEF Step, Inv, ReceiveAck, client, Exactly!vars
<1>5. CASE Asked
  <2>1. PICK m \in Requested : toServer = <<Ack, m>>
    BY <1>1, <1>5, Kinds, ShortQueues DEF Asked, Requested
  <2>2. toServer' = <<m>> /\ toClient' = <<>>
    BY <1>1, <1>2, <1>5, <2>1, ShortQueues, Concatenated DEF Asked
  <2>3. Asked'
    BY <1>5, <2>2 DEF Asked, Requested, ReceiveAck, client
  <2>. QED
    BY <2>3 DEF Step, Inv, ReceiveAck, client, Exactly!vars
<1>. QED
  BY <1>3, <1>4, <1>5

\* The packet kept for the client is sent again, as it was.
LEMMA ReceiveResendStep == Inv /\ ReceiveResend => Step
<1>. SUFFICES ASSUME Inv, ReceiveResend PROVE Step
  OBVIOUS
<1>1. toServer # <<>> /\ Head(toServer).kind = "-" /\ toServer' = Tail(toServer)
  BY DEF ReceiveResend, Receives
<1>2. Repeated
  BY <1>1, Kinds, ShortQueues
     DEF Inv, Idle, Asked, Refused, Started, Runs, Executed, Answered, Repeated, Requested
<1>3. packet = asked /\ packet # None
  BY <1>2, LinkAssumption DEF Inv, Repeated, Done, Called
<1>4. PICK m \in Requested : toClient' = (toClient \o <<>>) \o <<m>>
  BY <1>3, SMTT(20) DEF ReceiveResend, Sent, handle_error, Inv, Requested
<1>5. toClient' = <<m>> /\ toServer' = <<>>
  BY <1>1, <1>2, <1>4, ShortQueues, Concatenated DEF Repeated
<1>6. Answered'
  BY <1>2, <1>5 DEF ReceiveResend, Repeated, Answered, Requested, Done, Called, client
<1>. QED
  BY <1>6 DEF Step, Inv, ReceiveResend, client, Exactly!vars

\* The simulator executes a request once: a second copy is never on the way.
LEMMA ReceivePacketStep == Inv /\ ReceivePacket => Step
<1>. SUFFICES ASSUME Inv, ReceivePacket PROVE Step
  OBVIOUS
<1>1. toServer # <<>> /\ Head(toServer).kind = "packet" /\ toServer' = Tail(toServer)
  BY DEF ReceivePacket, Receives
<1>2. Asked
  BY <1>1, Kinds, ShortQueues
     DEF Inv, Idle, Asked, Refused, Started, Runs, Executed, Answered, Repeated, Requested
<1>3. toServer = <<Token("packet", asked)>>
  BY <1>1, <1>2, Kinds, ShortQueues DEF Asked, Requested
<1>4. Head(toServer).of = asked /\ toServer' = <<>>
  BY <1>1, <1>3, Kinds, ShortQueues
<1>5. toClient' = (toClient \o <<>>) \o <<Ack>>
  BY DEF ReceivePacket, handle_error, Inv
<1>6. toClient' = <<Ack>>
  BY <1>2, <1>5, Concatenated DEF Asked
<1>7. executed' = Append(executed, asked) /\ running' = asked
  BY <1>4 DEF ReceivePacket
<1>8. /\ executed' \in Seq(Nat) /\ Len(executed') = asked
      /\ executed'[Len(executed')] = asked
  BY <1>2, <1>7, AppendProperties DEF Inv, Asked
<1>9. Started'
  BY <1>2, <1>4, <1>6, <1>7, <1>8 DEF ReceivePacket, Asked, Started, Called, client
<1>10. Exactly!Execute
  BY <1>2, <1>7 DEF Exactly!Execute, ReceivePacket, Asked, Inv, client
<1>. QED
  BY <1>8, <1>9, <1>10 DEF Step, Inv, Exactly!Next, ReceivePacket, client

\* The answer follows the acknowledgement, read or not, when the handler ends.
LEMMA HandlerEndsStep == Inv /\ HandlerEnds => Step
<1>. SUFFICES ASSUME Inv, HandlerEnds PROVE Step
  OBVIOUS
<1>1. (Started \/ Runs) /\ running = asked
  BY DEF HandlerEnds, Inv, Idle, Asked, Refused, Started, Runs, Executed, Answered, Repeated, Done
<1>2. PICK m \in Requested : toClient' = (toClient \o <<>>) \o <<m>>
  BY <1>1 DEF HandlerEnds, Sent, Requested
<1>3. CASE Started
  <2>1. toClient' = <<Ack, m>>
    BY <1>2, <1>3, Concatenated DEF Started
  <2>2. Executed'
    BY <1>1, <1>3, <2>1 DEF HandlerEnds, Started, Executed, Requested, Done, Called, client
  <2>. QED
    BY <2>2 DEF Step, Inv, HandlerEnds, client, Exactly!vars
<1>4. CASE Runs
  <2>1. toClient' = <<m>>
    BY <1>2, <1>4, Concatenated DEF Runs
  <2>2. Answered'
    BY <1>1, <1>4, <2>1 DEF HandlerEnds, Runs, Answered, Requested, Done, Called, client
  <2>. QED
    BY <2>2 DEF Step, Inv, HandlerEnds, client, Exactly!vars
<1>. QED
  BY <1>1, <1>3, <1>4

\* A damaged packet is refused and not executed.
LEMMA ReceiveDamagedStep == Inv /\ ReceiveDamaged => Step
<1>. SUFFICES ASSUME Inv, ReceiveDamaged PROVE Step
  OBVIOUS
<1>1. toServer # <<>> /\ Head(toServer).kind = "damaged" /\ toServer' = Tail(toServer)
  BY DEF ReceiveDamaged, Receives
<1>2. Asked
  BY <1>1, Kinds, ShortQueues
     DEF Inv, Idle, Asked, Refused, Started, Runs, Executed, Answered, Repeated, Requested
<1>3. PICK m \in Requested : toServer = <<m>>
  BY <1>1, <1>2, Kinds, ShortQueues DEF Asked, Requested
<1>4. toServer' = <<>>
  BY <1>1, <1>3, ShortQueues
<1>5. toClient' = (toClient \o <<>>) \o <<Resend>>
  BY DEF ReceiveDamaged, handle_error, Inv
<1>6. toClient' = <<Resend>>
  BY <1>2, <1>5, Concatenated DEF Asked
<1>7. Refused'
  BY <1>2, <1>4, <1>6 DEF ReceiveDamaged, Asked, Refused, client
<1>. QED
  BY <1>7 DEF Step, Inv, ReceiveDamaged, client, Exactly!vars

\* Without interrupts there is no character outside a packet.
LEMMA ReceiveStrayStep == Inv /\ ReceiveStray => Step
<1>. SUFFICES ASSUME Inv, ReceiveStray PROVE FALSE
  OBVIOUS
<1>1. toServer # <<>> /\ Head(toServer).kind = "stray"
  BY DEF ReceiveStray, Receives
<1>. QED
  BY <1>1, Kinds, ShortQueues
     DEF Inv, Idle, Asked, Refused, Started, Runs, Executed, Answered, Repeated, Requested

-----------------------------------------------------------------------------
\* Every step of the link is one of the abstract specification or none.
LEMMA NextStep == Inv /\ [Next]_vars /\ interrupts' = 0 => Step
<1>. SUFFICES ASSUME Inv, [Next]_vars, interrupts' = 0 PROVE Step
  OBVIOUS
<1>1. CASE Client
  BY <1>1, AcknowledgedStep, AskAgainStep, DropPacketStep, TakeAnswerStep,
     RefuseAnswerStep, SkipStep DEF Client
<1>2. CASE Server
  BY <1>2, ReceiveAckStep, ReceiveResendStep, ReceivePacketStep,
     ReceiveDamagedStep, ReceiveStrayStep DEF Server
<1>3. CASE UserInterrupts
  BY <1>3 DEF UserInterrupts, Inv
<1>4. CASE UNCHANGED vars
  BY <1>4 DEF vars, client, line, server, Step, Inv, Idle, Asked, Refused, Started, Runs, Executed,
     Answered, Repeated, Done, Called, Requested, Exactly!vars
<1>. QED
  BY <1>1, <1>2, <1>3, <1>4, AskStep, HandlerEndsStep DEF Next

\* The invariant of an exchange holds until the user's first interrupt.
UntilInterrupted == interrupts \in Nat /\ (interrupts = 0 => Inv)

\* Interrupts are never taken back.
LEMMA InterruptsGrow ==
  ASSUME interrupts \in Nat, [Next]_vars
  PROVE  interrupts' \in Nat /\ (interrupts' = 0 => interrupts = 0)
<1>1. CASE UserInterrupts
  BY <1>1 DEF UserInterrupts
<1>2. CASE Ask \/ Client \/ HandlerEnds
  BY <1>2 DEF Ask, HandlerEnds, Client, Acknowledged, AskAgain, DropPacket, TakeAnswer, RefuseAnswer, Skip
<1>3. CASE Server
  BY <1>3 DEF Server, ReceiveAck, ReceiveResend, ReceivePacket, ReceiveDamaged, ReceiveStray
<1>4. CASE UNCHANGED vars
  BY <1>4 DEF vars, line
<1>. QED
  BY <1>1, <1>2, <1>3, <1>4 DEF Next

(* As long as the user does not interrupt, and whatever the line damages, the *)
(* requests are executed one at a time, each once, and each gets its answer.  *)
THEOREM LinkIsExactlyOnce == Spec => ExactlyOnce
<1>1. Init => UntilInterrupted /\ Exactly!Init
  BY InitInv DEF Init, UntilInterrupted
<1>2. UntilInterrupted /\ [Next]_vars
        => UntilInterrupted' /\ (interrupts' = 0 => [Exactly!Next]_(Exactly!vars))
  <2>. SUFFICES ASSUME UntilInterrupted, [Next]_vars
                PROVE UntilInterrupted' /\ (interrupts' = 0 => [Exactly!Next]_(Exactly!vars))
    OBVIOUS
  <2>1. interrupts' \in Nat /\ (interrupts' = 0 => Inv)
    BY InterruptsGrow DEF UntilInterrupted
  <2>2. interrupts' = 0 => Step
    BY <2>1, NextStep
  <2>. QED
    BY <2>1, <2>2 DEF UntilInterrupted, Step
<1>. QED
  BY <1>1, <1>2, PTL DEF Spec, ExactlyOnce

-----------------------------------------------------------------------------
(* With interrupts the queues grow, and what they hold is counted.           *)

(* Tokens are counted by their kinds, from the head of a channel.            *)
Tokens == [kind : {"packet", "damaged", "+", "-", "stray"}, of : Nat]
Weight(e, K) == IF e.kind \in K THEN 1 ELSE 0
Upto(s, K, p) == Cardinality({i \in 1 .. p : s[i].kind \in K})
Whole(s, K) == Upto(s, K, Len(s))

\* What is counted is a number, and nothing at the start.
LEMMA UptoType ==
  ASSUME NEW s, NEW K, NEW p \in Nat
  PROVE  /\ Upto(s, K, p) \in Nat /\ Upto(s, K, 0) = 0
         /\ IsFiniteSet({i \in 1 .. p : s[i].kind \in K})
<1>1. IsFiniteSet({i \in 1 .. p : s[i].kind \in K})
  <2>1. IsFiniteSet(1 .. p)
    BY FS_Interval
  <2>2. {i \in 1 .. p : s[i].kind \in K} \in SUBSET (1 .. p)
    OBVIOUS
  <2>. QED
    BY ONLY <2>1, <2>2, FS_Subset
<1>2. {i \in 1 .. 0 : s[i].kind \in K} = {}
  OBVIOUS
<1>. QED
  BY <1>1, <1>2, FS_CardinalityType, FS_EmptySet DEF Upto

\* A count is a number.
LEMMA UptoNat == \A s, K : \A p \in Nat : Upto(s, K, p) \in Nat
BY UptoType

\* The next token counts for its kind.
LEMMA UptoNext ==
  ASSUME NEW s, NEW K, NEW p \in Nat
  PROVE  Upto(s, K, p + 1) = Upto(s, K, p) + Weight(s[p + 1], K)
<1>. DEFINE Counted(q) == {i \in 1 .. q : s[i].kind \in K}
<1>1. CASE s[p + 1].kind \in K
  <2>1. Counted(p + 1) = Counted(p) \cup {p + 1} /\ p + 1 \notin Counted(p)
    BY <1>1
  <2>2. IsFiniteSet(Counted(p))
    BY UptoType
  <2>. HIDE DEF Counted
  <2>3. Cardinality(Counted(p + 1)) = Cardinality(Counted(p)) + 1
    BY <2>1, <2>2, FS_AddElement
  <2>. QED
    BY <1>1, <2>3 DEF Upto, Weight, Counted
<1>2. CASE s[p + 1].kind \notin K
  <2>1. Counted(p + 1) = Counted(p)
    BY <1>2
  <2>2. Upto(s, K, p + 1) = Upto(s, K, p)
    BY <2>1 DEF Upto
  <2>3. Upto(s, K, p) \in Nat /\ Weight(s[p + 1], K) = 0
    BY <1>2, UptoType DEF Weight
  <2>. QED
    BY <2>2, <2>3
<1>. QED
  BY <1>1, <1>2

\* Channels alike at the start count alike there.
LEMMA UptoSame ==
  ASSUME NEW s, NEW t, NEW K, NEW p \in Nat, \A i \in 1 .. p : t[i] = s[i]
  PROVE  Upto(t, K, p) = Upto(s, K, p)
<1>1. {i \in 1 .. p : t[i].kind \in K} = {i \in 1 .. p : s[i].kind \in K}
  OBVIOUS
<1>. QED
  BY <1>1 DEF Upto

\* More tokens do not count less.
LEMMA UptoGrows ==
  ASSUME NEW s, NEW K, NEW p \in Nat, NEW q \in Nat, p <= q
  PROVE  Upto(s, K, p) <= Upto(s, K, q)
<1>1. {i \in 1 .. p : s[i].kind \in K} \subseteq {i \in 1 .. q : s[i].kind \in K}
  OBVIOUS
<1>. QED
  BY <1>1, UptoType, FS_Subset DEF Upto

\* One token written, after which the counts of the others are what they were.
LEMMA CountAppend ==
  ASSUME NEW s \in Seq(Tokens), NEW e \in Tokens
  PROVE  /\ Append(s, e) \in Seq(Tokens) /\ Len(Append(s, e)) = Len(s) + 1
         /\ Append(s, e)[Len(s) + 1] = e
         /\ \A i \in 1 .. Len(s) : Append(s, e)[i] = s[i]
         /\ \A K : \A p \in 0 .. Len(s) : Upto(Append(s, e), K, p) = Upto(s, K, p)
         /\ \A K : Whole(Append(s, e), K) = Whole(s, K) + Weight(e, K)
<1>. DEFINE t == Append(s, e)
<1>1. /\ t \in Seq(Tokens) /\ Len(t) = Len(s) + 1 /\ t[Len(s) + 1] = e
      /\ \A i \in 1 .. Len(s) : t[i] = s[i]
  BY AppendProperties
<1>2. Len(s) \in Nat
  BY LenProperties
<1>. HIDE DEF t
<1>3. ASSUME NEW K, NEW p \in 0 .. Len(s) PROVE Upto(t, K, p) = Upto(s, K, p)
  <2>1. p \in Nat /\ \A i \in 1 .. p : t[i] = s[i]
    BY <1>1, <1>2
  <2>. QED
    BY <2>1, UptoSame
<1>4. ASSUME NEW K PROVE Whole(t, K) = Whole(s, K) + Weight(e, K)
  <2>1. Upto(t, K, Len(s) + 1) = Upto(t, K, Len(s)) + Weight(e, K)
    BY <1>1, <1>2, UptoNext
  <2>2. Upto(t, K, Len(s)) = Upto(s, K, Len(s))
    BY <1>2, <1>3
  <2>. QED
    BY <1>1, <2>1, <2>2 DEF Whole
<1>. QED
  BY <1>1, <1>3, <1>4 DEF t

\* One token read: the others count as much less as it weighs.
LEMMA CountTail ==
  ASSUME NEW s \in Seq(Tokens), s # <<>>
  PROVE  /\ Tail(s) \in Seq(Tokens) /\ Len(Tail(s)) = Len(s) - 1 /\ Len(s) \in Nat \ {0}
         /\ Head(s) = s[1] /\ Head(s) \in Tokens
         /\ \A i \in 1 .. Len(s) - 1 : Tail(s)[i] = s[i + 1]
         /\ \A K : \A p \in 0 .. Len(s) - 1 :
              Upto(s, K, p + 1) = Upto(Tail(s), K, p) + Weight(Head(s), K)
         /\ \A K : Whole(s, K) = Whole(Tail(s), K) + Weight(Head(s), K)
<1>. DEFINE t == Tail(s)
<1>1. /\ t \in Seq(Tokens) /\ Len(t) = Len(s) - 1 /\ Len(s) \in Nat \ {0}
      /\ Head(s) = s[1] /\ Head(s) \in Tokens
      /\ \A i \in 1 .. Len(s) - 1 : t[i] = s[i + 1]
  BY HeadTailProperties, LenProperties, EmptySeq
<1>. HIDE DEF t
<1>2. ASSUME NEW K, NEW p \in 0 .. Len(s) - 1
      PROVE  Upto(s, K, p + 1) = Upto(t, K, p) + Weight(Head(s), K)
  <2>. DEFINE Rest == {i \in 2 .. p + 1 : s[i].kind \in K}
              Read == {i \in 1 .. p : t[i].kind \in K}
              f == [i \in Read |-> i + 1]
  <2>1. p \in Nat
    BY <1>1
  <2>2. IsFiniteSet(Read) /\ Cardinality(Read) = Upto(t, K, p)
    BY <2>1, UptoType DEF Upto
  <2>3. ExistsBijection(Read, Rest)
    <3>1. \A i \in 1 .. p : t[i] = s[i + 1]
      BY <1>1, <2>1
    <3>2. f \in [Read -> Rest]
      BY <2>1, <3>1
    <3>3. \A a, b \in Read : f[a] = f[b] => a = b
      BY <2>1
    <3>4. \A j \in Rest : \E i \in Read : f[i] = j
      <4>1. TAKE j \in Rest
      <4>2. j - 1 \in Read /\ f[j - 1] = j
        BY <2>1, <3>1
      <4>. QED
        BY <4>2
    <3>. HIDE DEF f, Read, Rest
    <3>5. f \in Bijection(Read, Rest)
      BY <3>2, <3>3, <3>4 DEF Bijection, Injection, Surjection, IsInjective
    <3>. QED
      BY <3>5 DEF ExistsBijection
  <2>4. IsFiniteSet(Rest) /\ Cardinality(Rest) = Upto(t, K, p)
    <3>. HIDE DEF Read, Rest
    <3>. QED
      BY <2>2, <2>3, FS_Bijection
  <2>5. {i \in 1 .. p + 1 : s[i].kind \in K}
          = IF Head(s).kind \in K THEN Rest \cup {1} ELSE Rest
    BY <1>1, <2>1
  <2>6. 1 \notin Rest
    OBVIOUS
  <2>7. Upto(s, K, p + 1)
          = IF Head(s).kind \in K THEN Cardinality(Rest \cup {1}) ELSE Cardinality(Rest)
    BY <2>5 DEF Upto
  <2>. HIDE DEF Rest
  <2>8. Cardinality(Rest \cup {1}) = Cardinality(Rest) + 1
    BY <2>4, <2>6, FS_AddElement
  <2>9. Upto(t, K, p) \in Nat
    BY <2>1, UptoType
  <2>. QED
    BY <2>4, <2>7, <2>8, <2>9 DEF Weight
<1>3. ASSUME NEW K PROVE Whole(s, K) = Whole(t, K) + Weight(Head(s), K)
  <2>1. Len(s) - 1 \in 0 .. Len(s) - 1 /\ (Len(s) - 1) + 1 = Len(s)
    BY <1>1
  <2>2. Upto(s, K, (Len(s) - 1) + 1) = Upto(t, K, Len(s) - 1) + Weight(Head(s), K)
    BY <2>1, <1>2
  <2>. QED
    BY <1>1, <2>1, <2>2 DEF Whole
<1>. QED
  BY <1>1, <1>2, <1>3 DEF t

\* A count of more kinds is not less.
LEMMA UptoKinds ==
  ASSUME NEW s, NEW K, NEW L, K \subseteq L, NEW p \in Nat
  PROVE  Upto(s, K, p) <= Upto(s, L, p)
<1>1. {i \in 1 .. p : s[i].kind \in K} \subseteq {i \in 1 .. p : s[i].kind \in L}
  OBVIOUS
<1>. QED
  BY <1>1, UptoType, FS_Subset DEF Upto

\* The kinds that are counted.
Answers == {"packet", "damaged"}                \* to the debugger: answers
Replies == {"packet", "damaged", "-"}           \* and refusals
Refusals == {"-"}
Work == {"packet", "-"}                         \* to the simulator: it answers these
Units == {"packet", "damaged", "-", "stray"}    \* and refuses, or may refuse, those
Demands == {"packet", "stray"}

\* What a step of the debugger does to the channels: it reads a token or none,
\* which weighs nothing, and writes one or none.
MayRead(c, c1, h) == (c1 = c /\ h = Ack) \/ (c # <<>> /\ c1 = Tail(c) /\ h = Head(c))
MayWrite(s, s1, e) == s1 = s \/ s1 = Append(s, e)

\* The weight of what is read is taken from the others.
LEMMA MayReadWeighs ==
  ASSUME NEW c \in Seq(Tokens), NEW c1, NEW h \in Tokens, MayRead(c, c1, h), NEW K, "+" \notin K
  PROVE  \E d \in {0, 1} :
           /\ d = Weight(h, K)
           /\ \/ c1 = c /\ d = 0
              \/ c # <<>> /\ c1 = Tail(c) /\ d = Weight(Head(c), K)
<1>1. Weight(h, K) \in {0, 1} /\ Weight(Ack, K) = 0
  BY DEF Weight, Ack, Token
<1>2. CASE c1 = c /\ h = Ack
  BY <1>1, <1>2
<1>3. CASE c # <<>> /\ c1 = Tail(c) /\ h = Head(c)
  <2>. DEFINE d == Weight(h, K)
  <2>1. d \in {0, 1} /\ d = Weight(Head(c), K)
    BY <1>1, <1>3
  <2>. QED
    BY <1>3, <2>1
<1>. QED
  BY <1>2, <1>3 DEF MayRead

\* What a step of the simulator does to them: it reads a token, and writes some;
\* those that are answers answer the request m.
Receive(s, s1, h) == s # <<>> /\ s1 = Tail(s) /\ h = Head(s)
Wrote(c, c1, m) ==
    /\ c1 \in Seq(Tokens) /\ Len(c) <= Len(c1)
    /\ \A i \in 1 .. Len(c) : c1[i] = c[i]
    /\ \A i \in 1 .. Len(c1) : i > Len(c) /\ c1[i].kind \in Answers => c1[i].of = m

\* Tokens are written one by one.
LEMMA WroteMore ==
  ASSUME NEW c \in Seq(Tokens), NEW m
  PROVE  /\ Wrote(c, c, m)
         /\ \A c1 : \A e \in Tokens :
              Wrote(c, c1, m) /\ (e.kind \in Answers => e.of = m) => Wrote(c, Append(c1, e), m)
<1>1. Len(c) \in Nat
  BY LenProperties
<1>2. Wrote(c, c, m)
  BY <1>1 DEF Wrote
<1>3. ASSUME NEW c1, NEW e \in Tokens, Wrote(c, c1, m), e.kind \in Answers => e.of = m
      PROVE  Wrote(c, Append(c1, e), m)
  <2>. DEFINE c2 == Append(c1, e)
  <2>1. c1 \in Seq(Tokens) /\ Len(c1) \in Nat
    BY <1>3, LenProperties DEF Wrote
  <2>2. /\ c2 \in Seq(Tokens) /\ Len(c2) = Len(c1) + 1 /\ c2[Len(c1) + 1] = e
        /\ \A i \in 1 .. Len(c1) : c2[i] = c1[i]
    BY <2>1, CountAppend
  <2>. HIDE DEF c2
  <2>3. Len(c) <= Len(c2) /\ \A i \in 1 .. Len(c) : c2[i] = c[i]
    BY <1>1, <1>3, <2>1, <2>2 DEF Wrote
  <2>4. ASSUME NEW i \in 1 .. Len(c2), i > Len(c), c2[i].kind \in Answers
        PROVE  c2[i].of = m
    <3>1. i \in 1 .. Len(c1) \/ i = Len(c1) + 1
      BY <2>1, <2>2
    <3>. QED
      BY <1>3, <2>2, <2>4, <3>1 DEF Wrote
  <2>. QED
    BY <2>2, <2>3, <2>4 DEF Wrote, c2
<1>. QED
  BY <1>2, <1>3

-----------------------------------------------------------------------------
(* The inductive invariant with faults and interrupts.  What the debugger     *)
(* waits for and what its user's interrupts cause goes around between the two  *)
(* channels: a request, its refusal, its answer, the request of another copy   *)
(* of it, a character outside of a packet.                                     *)

(* What is, or will be, written to the debugger, and the request that the     *)
(* packet sent last answers or will answer, when the running handler ends.    *)
Line == IF running = None THEN toClient ELSE Append(toClient, Token("packet", running))
Kept == IF running = None THEN packet ELSE running

Typed == toClient \in Seq(Tokens) /\ running \in Nat \cup {None}

Awaited == IF phase = "ready" THEN 0 ELSE 1
Collected == IF len > 0 THEN 1 ELSE 0
Number == IF Kept = None THEN 0 ELSE Kept

LinkTyped ==
    /\ asked \in Nat /\ phase \in {"ready", "ack", "answer"}
    /\ answers \in Seq(Nat) /\ Len(answers) + Awaited = asked
    /\ faults \in Nat /\ interrupts \in Nat
    /\ toServer \in Seq(Tokens) /\ Line \in Seq(Tokens)
    /\ len \in Nat /\ Kept \in Nat \cup {None} /\ executed \in Seq(Nat)
    /\ executed = <<>> <=> Kept = None
    /\ executed # <<>> => executed[Len(executed)] = Kept

\* The requests on their way are in order, after the one executed last.
Ordered ==
    /\ Number <= asked
    /\ \A i \in 1 .. Len(toServer) : toServer[i].kind = "packet" =>
         Number <= toServer[i].of /\ toServer[i].of <= asked
    /\ \A i, j \in 1 .. Len(toServer) :
         i < j /\ toServer[i].kind = "packet" /\ toServer[j].kind = "packet"
           => toServer[i].of <= toServer[j].of

\* On a line without faults, none of the requests is missing.
Complete ==
    faults = 0 =>
      /\ \A i \in 1 .. Len(toServer) : toServer[i].kind # "damaged"
      /\ \A n \in Nat : Number < n /\ n <= asked =>
           \E i \in 1 .. Len(toServer) : toServer[i].kind = "packet" /\ toServer[i].of = n

\* What is counted in both channels, and x outside of them, is n at most.
Within(K, L, c, s, x, n) == Whole(c, K) + Whole(s, L) + x <= n

\* What is written, and what is kept, weighs no more than what was kept and the
\* token that is read.
Paid(K, L, c, c1, x, x1, g) == Whole(c1, K) + x1 <= Whole(c, K) + x + Weight(g, L)

\* One thing goes around for the request that waits, and one for each interrupt.
Bounded == Within(Replies, Units, Line, toServer, Collected, interrupts + Awaited)

\* How late an answer may be: to a request that is followed by as many as were
\* interrupted, and when n is asked last, the k-th answer on its way is no later.
Late(n, b, k, of) == n + k <= of + b

\* The answers on their way in a channel.
AnswersLateIn(c, n, b) ==
    \A p \in 1 .. Len(c) : c[p].kind \in Answers => Late(n, b, Upto(c, Answers, p), c[p].of)

\* The answers to come, when the first p tokens of the other are received.
ComingIn(c, s, p) == Whole(c, Answers) + Upto(s, Work, p)
ComingLateIn(c, s, n, b, m) ==
    \A p \in 0 .. Len(s) : ComingIn(c, s, p) > 0 =>
      \/ Late(n, b, ComingIn(c, s, p), m)
      \/ \E i \in 1 .. p : s[i].kind = "packet" /\ Late(n, b, ComingIn(c, s, p), s[i].of)

AnswersLate == AnswersLateIn(Line, asked, interrupts + Awaited)
ComingLate == ComingLateIn(Line, toServer, asked, interrupts + Awaited, Number)

\* On a line without faults, a request is executed again only for an interrupt.
Excess ==
    faults = 0 =>
      /\ Within(Refusals, Demands, Line, toServer, Collected + Len(executed), asked + interrupts)
      /\ \A i \in 1 .. Len(executed) - 1 : executed[i + 1] - executed[i] \in {0, 1}

AnswersLag == \A i \in 1 .. Len(answers) : answers[i] <= i /\ i <= answers[i] + interrupts

LagInv == LinkTyped /\ Ordered /\ Complete /\ Bounded /\ AnswersLate /\ ComingLate /\ Excess /\ AnswersLag

-----------------------------------------------------------------------------
(* What a token read and a token written make of each part of the invariant. *)

\* The debugger adds at the end of what is under way.
LEMMA ClientOrdered ==
  ASSUME LinkTyped, Ordered, NEW e \in Tokens, Kept' = Kept, asked' \in Nat, asked <= asked',
         toServer' = toServer \/ toServer' = Append(toServer, e),
         e.kind = "packet" => e.of = asked'
  PROVE  Ordered'
<1>1. Number' = Number /\ Number \in Nat /\ asked \in Nat /\ Len(toServer) \in Nat
  BY LenProperties DEF Number, LinkTyped
<1>2. \A i \in 1 .. Len(toServer) : toServer[i] \in Tokens
  BY ElementOfSeq DEF LinkTyped
<1>3. \A i \in 1 .. Len(toServer) : toServer[i].of \in Nat
  BY <1>2 DEF Tokens
<1>4. CASE toServer' = toServer
  BY <1>1, <1>3, <1>4 DEF Ordered
<1>5. CASE toServer' = Append(toServer, e)
  <2>1. /\ Len(toServer') = Len(toServer) + 1 /\ toServer'[Len(toServer) + 1] = e
        /\ \A i \in 1 .. Len(toServer) : toServer'[i] = toServer[i]
    BY <1>5, CountAppend DEF LinkTyped
  <2>2. Number' <= asked'
    BY <1>1 DEF Ordered
  <2>3. ASSUME NEW i \in 1 .. Len(toServer'), toServer'[i].kind = "packet"
        PROVE  Number' <= toServer'[i].of /\ toServer'[i].of <= asked'
    <3>1. CASE i = Len(toServer) + 1
      BY <2>1, <2>2, <2>3, <3>1
    <3>2. CASE i \in 1 .. Len(toServer)
      BY <1>1, <1>3, <2>1, <2>3, <3>2 DEF Ordered
    <3>. QED
      BY <1>1, <2>1, <3>1, <3>2
  <2>4. ASSUME NEW i \in 1 .. Len(toServer'), NEW j \in 1 .. Len(toServer'),
               i < j, toServer'[i].kind = "packet", toServer'[j].kind = "packet"
        PROVE  toServer'[i].of <= toServer'[j].of
    <3>1. i \in 1 .. Len(toServer)
      BY <1>1, <2>1, <2>4
    <3>2. CASE j = Len(toServer) + 1
      <4>1. toServer'[j].of = asked'
        BY <2>1, <2>4, <3>2
      <4>. QED
        BY <2>3, <2>4, <4>1
    <3>3. CASE j \in 1 .. Len(toServer)
      BY <2>1, <2>4, <3>1, <3>3 DEF Ordered
    <3>. QED
      BY <1>1, <2>1, <3>2, <3>3
  <2>. QED
    BY <2>2, <2>3, <2>4 DEF Ordered
<1>. QED
  BY <1>4, <1>5

\* A request that is not damaged comes before the debugger's next one.
LEMMA ClientComplete ==
  ASSUME LinkTyped, Complete, NEW e \in Tokens, Kept' = Kept,
         toServer' = toServer \/ toServer' = Append(toServer, e),
         faults' = 0 => faults = 0 /\ e.kind # "damaged",
         \/ asked' = asked
         \/ /\ asked' = asked + 1 /\ toServer' = Append(toServer, e)
            /\ faults' = 0 => e.kind = "packet" /\ e.of = asked'
  PROVE  Complete'
<1>. SUFFICES ASSUME faults' = 0 PROVE Complete'
  BY DEF Complete
<1>1. Number' = Number /\ Number \in Nat /\ asked \in Nat /\ Len(toServer) \in Nat
  BY LenProperties DEF Number, LinkTyped
<1>2. CASE toServer' = toServer /\ asked' = asked
  BY <1>1, <1>2 DEF Complete
<1>3. CASE toServer' = Append(toServer, e)
  <2>1. /\ Len(toServer') = Len(toServer) + 1 /\ toServer'[Len(toServer) + 1] = e
        /\ \A i \in 1 .. Len(toServer) : toServer'[i] = toServer[i]
    BY <1>3, CountAppend DEF LinkTyped
  <2>2. ASSUME NEW i \in 1 .. Len(toServer') PROVE toServer'[i].kind # "damaged"
    <3>1. i = Len(toServer) + 1 \/ i \in 1 .. Len(toServer)
      BY <1>1, <2>1
    <3>. QED
      BY <2>1, <3>1 DEF Complete
  <2>3. ASSUME NEW n \in Nat, Number' < n, n <= asked'
        PROVE  \E i \in 1 .. Len(toServer') :
                 toServer'[i].kind = "packet" /\ toServer'[i].of = n
    <3>1. CASE n <= asked
      <4>1. PICK i \in 1 .. Len(toServer) : toServer[i].kind = "packet" /\ toServer[i].of = n
        BY <1>1, <2>3, <3>1 DEF Complete
      <4>2. i \in 1 .. Len(toServer') /\ toServer'[i] = toServer[i]
        BY <1>1, <2>1
      <4>. QED
        BY <4>1, <4>2
    <3>2. CASE n > asked
      <4>1. n = asked' /\ e.kind = "packet" /\ e.of = asked'
        BY <1>1, <2>3, <3>2
      <4>2. Len(toServer) + 1 \in 1 .. Len(toServer')
        BY <1>1, <2>1
      <4>. QED
        BY <2>1, <4>1, <4>2
    <3>. QED
      BY <1>1, <3>1, <3>2
  <2>. QED
    BY <2>2, <2>3 DEF Complete
<1>. QED
  BY <1>2, <1>3

\* What is read of the answers makes the others as much less late.
LEMMA ClientLate ==
  ASSUME NEW c \in Seq(Tokens), NEW c1 \in Seq(Tokens), NEW s \in Seq(Tokens), NEW s1 \in Seq(Tokens),
         NEW n \in Nat, NEW n1 \in Nat, NEW b \in Nat, NEW b1 \in Nat, NEW m \in Nat,
         NEW h \in Tokens, NEW e \in Tokens,
         AnswersLateIn(c, n, b), ComingLateIn(c, s, n, b, m), MayRead(c, c1, h), MayWrite(s, s1, e),
         Weight(e, Refusals) <= Weight(h, Answers),
         n1 + Weight(e, Refusals) + b <= n + b1 + Weight(h, Answers),
         e.kind = "packet" => e.of = n1 /\ Whole(c1, Answers) + Whole(s1, Work) <= b1
  PROVE  AnswersLateIn(c1, n1, b1) /\ ComingLateIn(c1, s1, n1, b1, m)
<1>1. PICK d \in {0, 1} :
        /\ d = Weight(h, Answers)
        /\ (c1 = c /\ d = 0) \/ (c # <<>> /\ c1 = Tail(c) /\ d = Weight(Head(c), Answers))
  <2>1. "+" \notin Answers
    BY DEF Answers
  <2>. QED
    BY ONLY <2>1, MayRead(c, c1, h), MayReadWeighs
<1>2. PICK r \in {0, 1} : r = Weight(e, Refusals)
  BY DEF Weight
<1>3. r <= d /\ n1 + r + b <= n + b1 + d
  BY <1>1, <1>2
<1>4. s1 = s \/ s1 = Append(s, e)
  BY DEF MayWrite
<1>5. Len(c) \in Nat /\ Len(c1) \in Nat /\ Len(s) \in Nat /\ Len(s1) \in Nat
  BY LenProperties
<1>6. /\ \A i \in 1 .. Len(s) : s[i].of \in Nat
      /\ \A i \in 1 .. Len(c) : c[i].of \in Nat
  <2>1. /\ \A i \in 1 .. Len(s) : s[i] \in Tokens
        /\ \A i \in 1 .. Len(c) : c[i] \in Tokens
    BY ElementOfSeq
  <2>. QED
    BY <2>1 DEF Tokens
<1>7. ASSUME NEW k \in Nat, NEW x \in Nat, Late(n, b, k + d, x)
      PROVE  Late(n1, b1, k + r, x) /\ Late(n1, b1, k, x)
  <2>1. n + (k + d) <= x + b /\ n1 + r + b <= n + b1 + d
    BY <1>7, <1>3 DEF Late
  <2>. QED
    BY ONLY <2>1 DEF Late
<1>8. ASSUME NEW p \in 1 .. Len(c1), c1[p].kind \in Answers
      PROVE  Late(n1, b1, Upto(c1, Answers, p), c1[p].of)
  <2>0. p \in Nat
    BY <1>5
  <2>1. Upto(c1, Answers, p) \in Nat
    BY <2>0, UptoNat
  <2>2. CASE c1 = c /\ d = 0
    <3>1. Late(n, b, Upto(c1, Answers, p) + d, c1[p].of)
      BY <1>8, <2>1, <2>2 DEF AnswersLateIn
    <3>. QED
      BY <1>6, <1>7, <2>1, <2>2, <3>1
  <2>3. CASE c # <<>> /\ c1 = Tail(c) /\ d = Weight(Head(c), Answers)
    <3>1. Len(c1) = Len(c) - 1
      BY <2>3, CountTail
    <3>2. p + 1 \in 1 .. Len(c) /\ p \in 0 .. Len(c) - 1 /\ p \in 1 .. Len(c) - 1
      BY <1>5, <2>0, <3>1
    <3>3. c1[p] = c[p + 1] /\ Upto(c, Answers, p + 1) = Upto(c1, Answers, p) + d
      BY <2>3, <3>2, CountTail
    <3>4. Late(n, b, Upto(c1, Answers, p) + d, c1[p].of) /\ c1[p].of \in Nat
      BY <1>6, <1>8, <3>2, <3>3 DEF AnswersLateIn
    <3>. QED
      BY <1>7, <2>1, <3>4
  <2>. QED
    BY <1>1, <2>2, <2>3
<1>9. PICK w \in Nat : w = Whole(c1, Answers) /\ w + d = Whole(c, Answers)
  <2>1. Whole(c, Answers) \in Nat /\ Whole(c1, Answers) \in Nat
    BY <1>5, UptoNat DEF Whole
  <2>2. CASE c1 = c /\ d = 0
    BY <2>1, <2>2
  <2>3. CASE c # <<>> /\ c1 = Tail(c) /\ d = Weight(Head(c), Answers)
    BY <2>1, <2>3, CountTail
  <2>. QED
    BY <1>1, <2>2, <2>3
<1>10. ASSUME NEW p \in 0 .. Len(s), NEW t \in {0, r}, w + Upto(s, Work, p) + t > 0
      PROVE  \/ Late(n1, b1, w + Upto(s, Work, p) + t, m)
             \/ \E i \in 1 .. p : /\ s[i].kind = "packet"
                                  /\ Late(n1, b1, w + Upto(s, Work, p) + t, s[i].of)
  <2>0. p \in Nat
    BY <1>5
  <2>1. PICK u \in Nat : u = Upto(s, Work, p)
    BY <2>0, UptoNat
  <2>2. ComingIn(c, s, p) = (w + u) + d /\ ComingIn(c, s, p) > 0
    <3>1. ComingIn(c, s, p) = (w + d) + u
      BY <1>9, <2>1 DEF ComingIn
    <3>2. w + u + t > 0
      BY <1>10, <2>1
    <3>3. t <= d /\ t \in Nat
      BY <1>3
    <3>. QED
      BY ONLY <3>1, <3>2, <3>3
  <2>3. \/ Late(n, b, (w + u) + d, m)
        \/ \E i \in 1 .. p : s[i].kind = "packet" /\ Late(n, b, (w + u) + d, s[i].of)
    BY <2>2 DEF ComingLateIn
  <2>4. ASSUME NEW x \in Nat, Late(n, b, (w + u) + d, x)
        PROVE  Late(n1, b1, w + u + t, x)
    <3>1. w + u \in Nat
      OBVIOUS
    <3>2. Late(n1, b1, (w + u) + r, x) /\ Late(n1, b1, w + u, x)
      BY <1>7, <2>4, <3>1
    <3>3. w + u + 0 = w + u
      OBVIOUS
    <3>4. CASE t = r
      BY <3>2, <3>4
    <3>5. CASE t = 0
      BY <3>2, <3>3, <3>5
    <3>. QED
      BY <3>4, <3>5
  <2>5. \A i \in 1 .. p : s[i].of \in Nat
    BY <1>5, <1>6, <2>0
  <2>. QED
    BY <2>1, <2>3, <2>4, <2>5
<1>11. ASSUME NEW p \in 0 .. Len(s1), ComingIn(c1, s1, p) > 0
      PROVE  \/ Late(n1, b1, ComingIn(c1, s1, p), m)
             \/ \E i \in 1 .. p : s1[i].kind = "packet" /\ Late(n1, b1, ComingIn(c1, s1, p), s1[i].of)
  <2>0. p \in Nat
    BY <1>5
  <2>1. CASE /\ p \in 0 .. Len(s) /\ Upto(s1, Work, p) = Upto(s, Work, p)
             /\ \A i \in 1 .. p : s1[i] = s[i]
    <3>1. Upto(s, Work, p) \in Nat
      BY <2>0, UptoNat
    <3>2. ComingIn(c1, s1, p) = w + Upto(s, Work, p) + 0
      BY <1>9, <2>1, <3>1 DEF ComingIn
    <3>. QED
      BY <1>10, <1>11, <2>1, <3>2
  <2>2. CASE s1 = s
    BY <2>1, <2>2
  <2>3. CASE s1 = Append(s, e)
    <3>1. /\ Len(s1) = Len(s) + 1 /\ s1[Len(s) + 1] = e
          /\ \A i \in 1 .. Len(s) : s1[i] = s[i]
          /\ \A q \in 0 .. Len(s) : Upto(s1, Work, q) = Upto(s, Work, q)
          /\ Whole(s1, Work) = Whole(s, Work) + Weight(e, Work)
      BY <2>3, CountAppend
    <3>2. CASE p \in 0 .. Len(s)
      BY <1>5, <2>1, <3>1, <3>2
    <3>3. CASE p = Len(s) + 1
      <4>1. ComingIn(c1, s1, p) = Whole(c1, Answers) + Whole(s1, Work)
        BY <3>1, <3>3 DEF ComingIn, Whole
      <4>2. PICK u \in Nat : u = Upto(s, Work, Len(s))
        BY <1>5, UptoNat
      <4>3. CASE e.kind = "packet"
        <5>1. PICK x \in Nat : x = ComingIn(c1, s1, p)
          <6>1. Upto(s1, Work, p) \in Nat
            BY <2>0, UptoNat
          <6>. QED
            BY <1>9, <6>1 DEF ComingIn
        <5>2. x <= b1
          BY <4>1, <4>3, <5>1
        <5>3. Late(n1, b1, x, n1)
          BY <5>2 DEF Late
        <5>4. p \in 1 .. p /\ s1[p] = e
          BY <1>5, <3>1, <3>3
        <5>. QED
          BY <4>3, <5>1, <5>3, <5>4
      <4>4. CASE e.kind # "packet"
        <5>1. Weight(e, Work) = r
          BY <1>2, <4>4 DEF Weight, Work, Refusals
        <5>2. ComingIn(c1, s1, p) = w + Upto(s, Work, Len(s)) + r
          BY <1>9, <3>1, <4>1, <4>2, <5>1 DEF Whole
        <5>3. Len(s) \in 0 .. Len(s) /\ r \in {0, r}
          BY <1>5
        <5>4. \/ Late(n1, b1, ComingIn(c1, s1, p), m)
              \/ \E i \in 1 .. Len(s) :
                   s[i].kind = "packet" /\ Late(n1, b1, ComingIn(c1, s1, p), s[i].of)
          BY <1>10, <1>11, <5>2, <5>3
        <5>5. \A i \in 1 .. Len(s) : i \in 1 .. p /\ s1[i] = s[i]
          BY <1>5, <3>1, <3>3
        <5>. QED
          BY <5>4, <5>5
      <4>. QED
        BY <4>3, <4>4
    <3>. QED
      BY <1>5, <3>1, <3>2, <3>3
  <2>. QED
    BY <1>4, <2>2, <2>3
<1>. QED
  BY <1>8, <1>11 DEF AnswersLateIn, ComingLateIn

\* What the simulator writes for what it reads is as late as what it read, and
\* the requests it reads are later and later.
LEMMA ServerLate ==
  ASSUME NEW c \in Seq(Tokens), NEW c1, NEW s \in Seq(Tokens), NEW s1, NEW g \in Tokens,
         NEW n \in Nat, NEW b \in Nat, NEW m \in Nat, NEW m1 \in Nat,
         AnswersLateIn(c, n, b), ComingLateIn(c, s, n, b, m), Receive(s, s1, g), Wrote(c, c1, m1),
         m <= m1, g.kind = "packet" => m1 = g.of,
         Paid(Answers, Work, c, c1, 0, 0, g)
  PROVE  AnswersLateIn(c1, n, b) /\ ComingLateIn(c1, s1, n, b, m1)
<1>0. /\ s # <<>> /\ s1 = Tail(s) /\ g = Head(s)
      /\ c1 \in Seq(Tokens) /\ Len(c) <= Len(c1)
      /\ \A i \in 1 .. Len(c) : c1[i] = c[i]
      /\ \A i \in 1 .. Len(c1) : i > Len(c) /\ c1[i].kind \in Answers => c1[i].of = m1
  BY DEF Receive, Wrote
<1>1. /\ Len(c) \in Nat /\ Len(c1) \in Nat /\ Len(s) \in Nat \ {0} /\ Len(s1) = Len(s) - 1
      /\ Head(s) = s[1] /\ \A i \in 1 .. Len(s) - 1 : s1[i] = s[i + 1]
      /\ \A p \in 0 .. Len(s) - 1 : Upto(s, Work, p + 1) = Upto(s1, Work, p) + Weight(Head(s), Work)
  BY <1>0, LenProperties, CountTail
<1>2. \A i \in 1 .. Len(s) : s[i].of \in Nat
  <2>1. \A i \in 1 .. Len(s) : s[i] \in Tokens
    BY ElementOfSeq
  <2>. QED
    BY <2>1 DEF Tokens
<1>3. PICK w \in Nat, w1 \in Nat, h \in {0, 1} :
        w = Whole(c, Answers) /\ w1 = Whole(c1, Answers) /\ h = Weight(g, Work)
  BY <1>0, <1>1, UptoNat DEF Whole, Weight
<1>4. ASSUME NEW x \in Nat, NEW y \in Nat, NEW k \in Nat, NEW l \in Nat, x <= y, k <= l, Late(n, b, l, x)
      PROVE  Late(n, b, k, y)
  <2>1. x <= y /\ k <= l /\ n + l <= x + b
    BY <1>4 DEF Late
  <2>. QED
    BY ONLY <2>1 DEF Late
<1>5. ASSUME NEW p \in 0 .. Len(s1), ComingIn(c1, s1, p) > 0
      PROVE  \/ Late(n, b, ComingIn(c1, s1, p), m1)
             \/ \E i \in 1 .. p : s1[i].kind = "packet" /\ Late(n, b, ComingIn(c1, s1, p), s1[i].of)
  <2>0. p \in Nat /\ p + 1 \in 0 .. Len(s) /\ p \in 0 .. Len(s) - 1
    BY <1>1
  <2>1. PICK u \in Nat : u = Upto(s1, Work, p)
    BY <2>0, UptoNat
  <2>2. ComingIn(c1, s1, p) = w1 + u
    BY <1>3, <2>1 DEF ComingIn
  <2>3. ComingIn(c, s, p + 1) = w + (u + h)
    BY <1>0, <1>1, <1>3, <2>0, <2>1 DEF ComingIn
  <2>4. w1 <= w + h
    BY <1>3 DEF Paid
  <2>5. w1 + u > 0
    BY <1>5, <2>2
  <2>6. w + (u + h) > 0 /\ w1 + u <= w + (u + h) /\ w1 + u \in Nat /\ w + (u + h) \in Nat
    BY ONLY <2>4, <2>5
  <2>7. CASE Late(n, b, w + (u + h), m)
    BY <1>4, <2>2, <2>6, <2>7
  <2>8. ASSUME NEW i \in 1 .. p + 1, s[i].kind = "packet", Late(n, b, w + (u + h), s[i].of)
        PROVE  \/ Late(n, b, w1 + u, m1)
               \/ \E j \in 1 .. p : s1[j].kind = "packet" /\ Late(n, b, w1 + u, s1[j].of)
    <3>1. s[i].of \in Nat /\ i \in Nat
      BY <1>1, <1>2, <2>0
    <3>2. Late(n, b, w1 + u, s[i].of)
      BY <1>4, <2>6, <2>8, <3>1
    <3>3. CASE i = 1
      BY <1>0, <1>1, <2>8, <3>2, <3>3
    <3>4. CASE i # 1
      <4>1. i - 1 \in 1 .. p /\ i - 1 \in 1 .. Len(s) - 1 /\ (i - 1) + 1 = i
        BY <1>1, <2>0, <3>1, <3>4
      <4>2. s1[i - 1] = s[i]
        BY <1>1, <4>1
      <4>. QED
        BY <2>8, <3>2, <4>1, <4>2
    <3>. QED
      BY <3>3, <3>4
  <2>9. \/ Late(n, b, w + (u + h), m)
        \/ \E i \in 1 .. p + 1 : s[i].kind = "packet" /\ Late(n, b, w + (u + h), s[i].of)
    BY <2>0, <2>3, <2>6 DEF ComingLateIn
  <2>. QED
    BY <2>2, <2>7, <2>8, <2>9
<1>6. ASSUME NEW p \in 1 .. Len(c1), c1[p].kind \in Answers
      PROVE  Late(n, b, Upto(c1, Answers, p), c1[p].of)
  <2>0. p \in Nat /\ p - 1 \in Nat /\ (p - 1) + 1 = p
    BY <1>1
  <2>1. CASE p \in 1 .. Len(c)
    <3>1. \A i \in 1 .. p : c1[i] = c[i]
      BY <1>0, <1>1, <2>1
    <3>2. Upto(c1, Answers, p) = Upto(c, Answers, p)
      BY <2>0, <3>1, UptoSame
    <3>3. c1[p] = c[p]
      BY <1>0, <2>1
    <3>. QED
      BY <1>6, <2>1, <3>2, <3>3 DEF AnswersLateIn
  <2>2. CASE p > Len(c)
    <3>1. c1[p].of = m1
      BY <1>0, <1>6, <2>2
    <3>2. PICK v \in Nat, x \in Nat : v = Upto(c1, Answers, p - 1) /\ x = Upto(c1, Answers, p)
      BY <2>0, UptoNat
    <3>3. x = v + 1
      <4>1. PICK q \in Nat : q = p - 1 /\ q + 1 = p
        BY ONLY <2>0
      <4>2. Upto(c1, Answers, q + 1) = Upto(c1, Answers, q) + Weight(c1[q + 1], Answers)
        BY ONLY <4>1, UptoNext
      <4>3. Weight(c1[p], Answers) = 1
        BY ONLY <1>6 DEF Weight
      <4>4. Upto(c1, Answers, p) = Upto(c1, Answers, p - 1) + 1
        BY ONLY <4>1, <4>2, <4>3, Zenon
      <4>. QED
        BY ONLY <3>2, <4>4
    <3>4. x <= w1
      BY <1>1, <1>3, <2>0, <3>2, UptoGrows DEF Whole
    <3>5. Upto(s1, Work, 0) = 0
      BY UptoType
    <3>6. ComingIn(c1, s1, 0) = w1 /\ 0 \in 0 .. Len(s1) /\ w1 > 0
      BY <1>1, <1>3, <3>3, <3>4, <3>5 DEF ComingIn
    <3>7. Late(n, b, w1, m1)
      BY <1>5, <3>6
    <3>. QED
      BY <1>4, <3>1, <3>2, <3>4, <3>7
  <2>. QED
    BY <1>1, <2>0, <2>1, <2>2
<1>. QED
  BY <1>5, <1>6 DEF AnswersLateIn, ComingLateIn

\* The simulator executes the first of what is on its way.
LEMMA ServerOrdered ==
  ASSUME LinkTyped, Ordered, Complete, NEW g \in Tokens, Receive(toServer, toServer', g), asked' = asked,
         Number' = IF g.kind = "packet" THEN g.of ELSE Number,
         faults' = 0 => faults = 0
  PROVE  Number' \in Nat /\ Number <= Number' /\ Ordered' /\ Complete'
<1>. DEFINE s == toServer
            s1 == Tail(toServer)
<1>0. s # <<>> /\ toServer' = s1 /\ g = Head(s)
  BY DEF Receive
<1>1. /\ Len(s) \in Nat \ {0} /\ Len(s1) = Len(s) - 1 /\ Head(s) = s[1] /\ Head(s) \in Tokens
      /\ \A i \in 1 .. Len(s) - 1 : s1[i] = s[i + 1]
  BY <1>0, CountTail DEF LinkTyped
<1>2. Number \in Nat /\ asked \in Nat
  BY DEF LinkTyped, Number
<1>3. \A i \in 1 .. Len(s1) : i + 1 \in 1 .. Len(s) /\ s1[i] = s[i + 1]
  BY <1>1
<1>4. 1 \in 1 .. Len(s)
  BY <1>1
<1>5. Number' \in Nat /\ Number <= Number' /\ Number' <= asked
  <2>1. CASE g.kind = "packet"
    <3>1. Number' = g.of /\ g.of \in Nat
      BY <2>1 DEF Tokens
    <3>. QED
      BY <1>0, <1>1, <1>4, <2>1, <3>1 DEF Ordered
  <2>2. CASE g.kind # "packet"
    BY <1>2, <2>2 DEF Ordered
  <2>. QED
    BY <2>1, <2>2
<1>6. ASSUME NEW i \in 1 .. Len(s1), s1[i].kind = "packet"
      PROVE  Number' <= s1[i].of /\ s1[i].of <= asked
  <2>1. i + 1 \in 1 .. Len(s) /\ s1[i] = s[i + 1] /\ 1 < i + 1
    BY <1>1, <1>3
  <2>2. CASE g.kind = "packet"
    BY <1>0, <1>1, <1>4, <1>6, <2>1, <2>2 DEF Ordered
  <2>3. CASE g.kind # "packet"
    BY <1>6, <2>1, <2>3 DEF Ordered
  <2>. QED
    BY <2>2, <2>3
<1>7. ASSUME NEW i \in 1 .. Len(s1), NEW j \in 1 .. Len(s1), i < j,
             s1[i].kind = "packet", s1[j].kind = "packet"
      PROVE  s1[i].of <= s1[j].of
  <2>1. /\ i + 1 \in 1 .. Len(s) /\ s1[i] = s[i + 1]
        /\ j + 1 \in 1 .. Len(s) /\ s1[j] = s[j + 1]
    BY <1>3
  <2>2. i + 1 < j + 1
    BY <1>1, <1>7
  <2>. QED
    BY <1>7, <2>1, <2>2 DEF Ordered
<1>8. Complete'
  <2>. SUFFICES ASSUME faults' = 0 PROVE Complete'
    BY DEF Complete
  <2>1. \A i \in 1 .. Len(s1) : s1[i].kind # "damaged"
    BY <1>3 DEF Complete
  <2>2. ASSUME NEW n \in Nat, Number' < n, n <= asked
        PROVE  \E i \in 1 .. Len(s1) : s1[i].kind = "packet" /\ s1[i].of = n
    <3>1. Number < n
      BY <1>2, <1>5, <2>2
    <3>2. PICK i \in 1 .. Len(s) : s[i].kind = "packet" /\ s[i].of = n
      BY <2>2, <3>1 DEF Complete
    <3>3. i # 1
      <4>1. CASE i = 1
        <5>1. Number' = n
          BY <1>0, <1>1, <3>2, <4>1
        <5>. QED
          BY <2>2, <5>1
      <4>. QED
        BY <4>1
    <3>4. i - 1 \in 1 .. Len(s1) /\ (i - 1) + 1 = i
      BY <1>1, <3>3
    <3>5. s1[i - 1] = s[i]
      BY <1>3, <3>4
    <3>. QED
      BY <3>2, <3>4, <3>5
  <2>. QED
    BY <1>0, <2>1, <2>2 DEF Complete
<1>9. Ordered'
  BY <1>0, <1>5, <1>6, <1>7 DEF Ordered
<1>. QED
  BY <1>5, <1>8, <1>9

\* A sum over both channels, when the debugger reads and writes a token.
LEMMA ClientWithin ==
  ASSUME NEW K, NEW L, NEW c \in Seq(Tokens), NEW c1 \in Seq(Tokens), NEW s \in Seq(Tokens),
         NEW s1 \in Seq(Tokens), NEW x \in Nat, NEW n \in Nat, NEW n1 \in Nat,
         NEW h \in Tokens, NEW e \in Tokens, "+" \notin K, Within(K, L, c, s, x, n),
         MayRead(c, c1, h), MayWrite(s, s1, e), n + Weight(e, L) <= n1 + Weight(h, K)
  PROVE  Within(K, L, c1, s1, x, n1)
<1>0. PICK d \in {0, 1} :
        /\ d = Weight(h, K)
        /\ (c1 = c /\ d = 0) \/ (c # <<>> /\ c1 = Tail(c) /\ d = Weight(Head(c), K))
  BY MayReadWeighs
<1>1. PICK w \in Nat, w1 \in Nat, u \in Nat, u1 \in Nat, g \in {0, 1} :
        /\ w = Whole(c, K) /\ w1 = Whole(c1, K) /\ u = Whole(s, L) /\ u1 = Whole(s1, L)
        /\ g = Weight(e, L)
  <2>1. Len(c) \in Nat /\ Len(c1) \in Nat /\ Len(s) \in Nat /\ Len(s1) \in Nat
    BY LenProperties
  <2>. QED
    BY <2>1, UptoNat DEF Whole, Weight
<1>2. w = w1 + d
  <2>1. CASE c1 = c /\ d = 0
    BY <1>1, <2>1
  <2>2. CASE c # <<>> /\ c1 = Tail(c) /\ d = Weight(Head(c), K)
    BY <1>1, <2>2, CountTail
  <2>. QED
    BY <1>0, <2>1, <2>2
<1>3. u1 <= u + g
  <2>1. CASE s1 = s
    BY <1>1, <2>1
  <2>2. CASE s1 = Append(s, e)
    BY <1>1, <2>2, CountAppend
  <2>. QED
    BY <2>1, <2>2 DEF MayWrite
<1>4. w + u + x <= n
  BY <1>1 DEF Within
<1>5. n + g <= n1 + d
  BY <1>0, <1>1
<1>6. w1 + u1 + x <= n1
  BY ONLY <1>2, <1>3, <1>4, <1>5
<1>. QED
  BY <1>1, <1>6 DEF Within

\* The same when the simulator reads a token.
LEMMA ServerWithin ==
  ASSUME NEW K, NEW L, NEW c \in Seq(Tokens), NEW c1 \in Seq(Tokens), NEW s \in Seq(Tokens), NEW s1,
         NEW g \in Tokens, Receive(s, s1, g), NEW x \in Nat, NEW x1 \in Nat, NEW n \in Nat,
         Within(K, L, c, s, x, n), Paid(K, L, c, c1, x, x1, g)
  PROVE  Within(K, L, c1, s1, x1, n)
<1>0. s # <<>> /\ s1 = Tail(s) /\ g = Head(s)
  BY DEF Receive
<1>1. PICK w \in Nat, w1 \in Nat, u \in Nat, u1 \in Nat, h \in {0, 1} :
        /\ w = Whole(c, K) /\ w1 = Whole(c1, K) /\ u = Whole(s, L) /\ u1 = Whole(s1, L)
        /\ h = Weight(g, L)
  <2>1. Len(c) \in Nat /\ Len(c1) \in Nat /\ Len(s) \in Nat /\ Len(s1) \in Nat
    BY <1>0, LenProperties, CountTail
  <2>. QED
    BY <2>1, UptoNat DEF Whole, Weight
<1>2. u = u1 + h
  BY <1>0, <1>1, CountTail
<1>3. w + u + x <= n
  BY <1>1 DEF Within
<1>4. w1 + x1 <= w + x + h
  BY <1>1 DEF Paid
<1>5. w1 + u1 + x1 <= n
  BY ONLY <1>2, <1>3, <1>4
<1>. QED
  BY <1>1, <1>5 DEF Within

-----------------------------------------------------------------------------
(* One step of the debugger, and one of the simulator. *)

\* Where the simulator does nothing and none is read, they are what they were.
LEMMA LineKept ==
  /\ toClient' = toClient /\ UNCHANGED server => Line' = Line
  /\ UNCHANGED server => Kept' = Kept
BY DEF server, Line, Kept

\* A step of the debugger: h is the token it reads, and e the one it writes.
LEMMA ClientStep ==
  ASSUME LagInv, NEW h \in Tokens, NEW e \in Tokens, UNCHANGED server,
         phase' \in {"ready", "ack", "answer"}, faults' \in Nat, interrupts' \in Nat,
         answers' \in Seq(Nat), Len(answers') + Awaited' = asked', AnswersLag',
         MayRead(Line, Line', h), MayWrite(toServer, toServer', e),
         \/ asked' = asked
         \/ /\ asked' = asked + 1 /\ toServer' = Append(toServer, e)
            /\ faults' = 0 => e.kind = "packet",
         e.kind = "packet" => e.of = asked',
         faults' = 0 => faults = 0 /\ e.kind # "damaged",
         NEW b \in Nat, NEW b1 \in Nat, b = interrupts + Awaited, b1 = interrupts' + Awaited',
         Weight(e, Refusals) <= Weight(h, Answers),
         asked' + Weight(e, Refusals) + b <= asked + b1 + Weight(h, Answers),
         b + Weight(e, Units) <= b1 + Weight(h, Replies),
         asked + interrupts + Weight(e, Demands) <= asked' + interrupts' + Weight(h, Refusals)
  PROVE  LagInv'
<1>0. interrupts' \in Nat
  OBVIOUS
<1>1. /\ asked \in Nat /\ asked' \in Nat /\ asked <= asked' /\ interrupts \in Nat
      /\ toServer \in Seq(Tokens) /\ Line \in Seq(Tokens) /\ Len(executed) \in Nat
      /\ LinkTyped /\ Ordered /\ Complete
  <2>1. LinkTyped /\ Ordered /\ Complete
    BY DEF LagInv
  <2>2. /\ asked \in Nat /\ interrupts \in Nat /\ toServer \in Seq(Tokens) /\ Line \in Seq(Tokens)
        /\ executed \in Seq(Nat)
    BY ONLY <2>1 DEF LinkTyped
  <2>3. Len(executed) \in Nat
    BY ONLY <2>2, LenProperties
  <2>4. asked' \in Nat /\ asked <= asked'
    BY <2>2, SMTT(20)
  <2>. QED
    BY <2>1, <2>2, <2>3, <2>4
<1>2. Kept' = Kept /\ len' = len /\ executed' = executed
  BY LineKept DEF server
<1>3. Number \in Nat /\ Number' = Number /\ Collected \in {0, 1} /\ Collected' = Collected
  <2>1. Kept \in Nat \cup {None} /\ len \in Nat
    BY <1>1 DEF LinkTyped
  <2>2. Number \in Nat /\ Collected \in {0, 1}
    BY ONLY <2>1 DEF Number, Collected
  <2>3. Number' = Number
    BY ONLY <1>2 DEF Number
  <2>4. Collected' = Collected
    BY ONLY <1>2 DEF Collected
  <2>. QED
    BY <2>2, <2>3, <2>4
<1>4. toServer' \in Seq(Tokens) /\ Line' \in Seq(Tokens)
  <2>1. toServer' = toServer \/ toServer' = Append(toServer, e)
    BY DEF MayWrite
  <2>2. toServer' \in Seq(Tokens)
    BY ONLY <1>1, <2>1, CountAppend
  <2>3. Line' = Line \/ (Line # <<>> /\ Line' = Tail(Line))
    BY DEF MayRead
  <2>4. Line' \in Seq(Tokens)
    BY ONLY <1>1, <2>3, CountTail
  <2>. QED
    BY ONLY <2>2, <2>4
<1>5. LinkTyped'
  BY <1>1, <1>2, <1>4 DEF LinkTyped
<1>6. Ordered'
  BY <1>1, <1>2, ClientOrdered DEF MayWrite
<1>7. Complete'
  BY <1>1, <1>2, ClientComplete DEF MayWrite
<1>8. /\ "+" \notin Answers /\ "+" \notin Replies /\ "+" \notin Refusals
      /\ Answers \subseteq Replies /\ Work \subseteq Units
  BY DEF Answers, Replies, Refusals, Work, Units
<1>9. MayRead(Line, Line', h) /\ MayWrite(toServer, toServer', e)
  OBVIOUS
<1>10. Within(Replies, Units, Line', toServer', Collected', b1)
  <2>1. Within(Replies, Units, Line, toServer, Collected, b)
    BY DEF LagInv, Bounded
  <2>2. b + Weight(e, Units) <= b1 + Weight(h, Replies) /\ Collected \in Nat
    BY <1>3
  <2>3. Within(Replies, Units, Line', toServer', Collected, b1)
    BY ONLY <1>1, <1>4, <1>8, <1>9, <2>1, <2>2, ClientWithin
  <2>. QED
    BY <1>3, <2>3
<1>11. Whole(Line', Answers) + Whole(toServer', Work) <= b1
  <2>. DEFINE c == Line'
              s == toServer'
  <2>1. PICK w \in Nat, w1 \in Nat, u \in Nat, u1 \in Nat, x \in Nat :
          /\ w = Whole(c, Answers) /\ w1 = Whole(c, Replies)
          /\ u = Whole(s, Work) /\ u1 = Whole(s, Units) /\ x = Collected'
    <3>1. Len(c) \in Nat /\ Len(s) \in Nat
      BY <1>4, LenProperties
    <3>. QED
      BY <1>3, <3>1, UptoNat DEF Whole
  <2>2. w <= w1 /\ u <= u1
    <3>1. Len(c) \in Nat /\ Len(s) \in Nat
      BY <1>4, LenProperties
    <3>. HIDE DEF c, s
    <3>. QED
      BY <1>8, <2>1, <3>1, UptoKinds DEF Whole
  <2>3. w1 + u1 + x <= b1
    BY <1>10, <2>1 DEF Within
  <2>4. w + u <= b1
    BY ONLY <2>2, <2>3
  <2>. QED
    BY <2>1, <2>4
<1>12. AnswersLateIn(Line', asked', b1) /\ ComingLateIn(Line', toServer', asked', b1, Number)
  <2>1. AnswersLateIn(Line, asked, b) /\ ComingLateIn(Line, toServer, asked, b, Number)
    BY DEF LagInv, AnswersLate, ComingLate
  <2>2. /\ Weight(e, Refusals) <= Weight(h, Answers)
        /\ asked' + Weight(e, Refusals) + b <= asked + b1 + Weight(h, Answers)
        /\ e.kind = "packet" => e.of = asked' /\ Whole(Line', Answers) + Whole(toServer', Work) <= b1
    BY <1>11
  <2>. QED
    BY ONLY <1>1, <1>3, <1>4, <1>9, <2>1, <2>2, ClientLate
<1>13. ASSUME faults' = 0
       PROVE  Within(Refusals, Demands, Line', toServer', Collected' + Len(executed'), asked' + interrupts')
  <2>1. Within(Refusals, Demands, Line, toServer, Collected + Len(executed), asked + interrupts)
    BY <1>13 DEF LagInv, Excess
  <2>2. asked + interrupts + Weight(e, Demands) <= asked' + interrupts' + Weight(h, Refusals)
    OBVIOUS
  <2>3. /\ Collected + Len(executed) \in Nat /\ asked + interrupts \in Nat /\ asked' + interrupts' \in Nat
    <3>1. Collected \in Nat /\ Len(executed) \in Nat /\ asked \in Nat /\ interrupts \in Nat
      BY <1>1, <1>3
    <3>2. asked' \in Nat /\ interrupts' \in Nat
      BY <1>1
    <3>3. Collected + Len(executed) \in Nat /\ asked + interrupts \in Nat
      BY ONLY <3>1
    <3>4. asked' + interrupts' \in Nat
      <4>1. \A x, y \in Nat : x + y \in Nat
        OBVIOUS
      <4>. QED
        BY ONLY <3>2, <4>1, Zenon
    <3>. QED
      BY ONLY <3>3, <3>4
  <2>4. Within(Refusals, Demands, Line', toServer', Collected + Len(executed), asked' + interrupts')
    BY ONLY <1>1, <1>4, <1>8, <1>9, <2>1, <2>2, <2>3, ClientWithin
  <2>. QED
    BY <1>2, <1>3, <2>4
<1>14. Excess'
  BY <1>2, <1>13 DEF LagInv, Excess
<1>. QED
  BY <1>3, <1>5, <1>6, <1>7, <1>10, <1>12, <1>14 DEF LagInv, Bounded, AnswersLate, ComingLate

\* On a line without faults, the request received is the one executed last, for
\* an interrupt, or the next.
LEMMA NextExecuted ==
  ASSUME LinkTyped, Ordered, Complete, faults = 0, NEW g \in Tokens, g.kind = "packet",
         Receive(toServer, toServer', g)
  PROVE  Number \in Nat /\ g.of \in Nat /\ Number <= g.of /\ g.of <= Number + 1
<1>1. /\ Len(toServer) \in Nat \ {0} /\ g = toServer[1] /\ g.of \in Nat
      /\ Number \in Nat /\ asked \in Nat
  BY CountTail DEF LinkTyped, Receive, Tokens, Number
<1>2. 1 \in 1 .. Len(toServer) /\ Number <= g.of /\ g.of <= asked
  BY <1>1 DEF Ordered
<1>3. CASE g.of > Number + 1
  <2>1. Number + 1 \in Nat /\ Number < Number + 1 /\ Number + 1 <= asked
    BY <1>1, <1>2, <1>3
  <2>2. PICK i \in 1 .. Len(toServer) : toServer[i].kind = "packet" /\ toServer[i].of = Number + 1
    BY <2>1 DEF Complete
  <2>3. i # 1
    BY <1>1, <1>3, <2>2
  <2>4. g.of <= Number + 1
    BY <1>1, <1>2, <2>2, <2>3 DEF Ordered
  <2>. QED
    BY <1>1, <1>3, <2>4
<1>. QED
  BY <1>1, <1>2, <1>3

\* A step of the simulator, which reads the token g.
LEMMA ServerStep ==
  ASSUME LagInv, NEW g \in Tokens, Receive(toServer, toServer', g), UNCHANGED client,
         interrupts' = interrupts, faults' \in Nat, faults' = 0 => faults = 0, len' \in Nat,
         \/ g.kind # "packet" /\ Kept' = Kept /\ executed' = executed
         \/ g.kind = "packet" /\ Kept' = g.of /\ executed' = Append(executed, g.of),
         Wrote(Line, Line', Number'),
         Paid(Answers, Work, Line, Line', 0, 0, g),
         Paid(Replies, Units, Line, Line', Collected, Collected', g),
         faults' = 0 => Paid(Refusals, Demands, Line, Line', Collected + Len(executed),
                             Collected' + Len(executed'), g)
  PROVE  LagInv'
<1>1. LinkTyped /\ Ordered /\ Complete
  BY DEF LagInv
<1>2. /\ asked \in Nat /\ asked' = asked /\ interrupts \in Nat /\ answers' = answers
      /\ phase' = phase /\ Awaited' = Awaited /\ Awaited \in {0, 1}
      /\ toServer \in Seq(Tokens) /\ Line \in Seq(Tokens) /\ executed \in Seq(Nat)
      /\ Number \in Nat /\ Collected \in {0, 1} /\ Collected' \in {0, 1}
  BY <1>1 DEF LinkTyped, client, Awaited, Number, Collected
<1>3. Line' \in Seq(Tokens) /\ toServer' \in Seq(Tokens)
  <2>1. Line' \in Seq(Tokens)
    BY DEF Wrote
  <2>2. toServer # <<>> /\ toServer' = Tail(toServer)
    BY DEF Receive
  <2>. QED
    BY <1>2, <2>1, <2>2, CountTail
<1>4. g.of \in Nat
  BY DEF Tokens
<1>5. /\ Kept' \in Nat \cup {None} /\ executed' \in Seq(Nat)
      /\ executed' = <<>> <=> Kept' = None
      /\ executed' # <<>> => executed'[Len(executed')] = Kept'
      /\ Number' = IF g.kind = "packet" THEN g.of ELSE Number
      /\ Len(executed') \in Nat
  <2>1. CASE g.kind # "packet" /\ Kept' = Kept /\ executed' = executed
    BY <1>1, <1>2, <2>1, LenProperties DEF LinkTyped, Number
  <2>2. CASE g.kind = "packet" /\ Kept' = g.of /\ executed' = Append(executed, g.of)
    <3>1. /\ executed' \in Seq(Nat) /\ Len(executed') = Len(executed) + 1 /\ Len(executed) \in Nat
          /\ executed'[Len(executed) + 1] = g.of
      BY <1>2, <1>4, <2>2, AppendProperties, LenProperties
    <3>2. executed' # <<>> /\ Kept' # None
      BY <1>4, <2>2, <3>1, LinkAssumption
    <3>. QED
      BY <1>4, <2>2, <3>1, <3>2 DEF Number
  <2>. QED
    BY <2>1, <2>2
<1>6. LinkTyped'
  BY <1>1, <1>2, <1>3, <1>5 DEF LinkTyped
<1>7. Number' \in Nat /\ Number <= Number' /\ Ordered' /\ Complete'
  BY <1>1, <1>2, <1>5, ServerOrdered
<1>8. Bounded'
  <2>1. Within(Replies, Units, Line, toServer, Collected, interrupts + Awaited)
    BY DEF LagInv, Bounded
  <2>2. Collected \in Nat /\ Collected' \in Nat /\ interrupts + Awaited \in Nat
    BY <1>2
  <2>3. Within(Replies, Units, Line', toServer', Collected', interrupts + Awaited)
    BY ONLY <1>2, <1>3, <2>1, <2>2, ServerWithin, Receive(toServer, toServer', g),
       Paid(Replies, Units, Line, Line', Collected, Collected', g)
  <2>. QED
    BY <1>2, <2>3 DEF Bounded
<1>9. AnswersLate' /\ ComingLate'
  <2>1. /\ AnswersLateIn(Line, asked, interrupts + Awaited)
        /\ ComingLateIn(Line, toServer, asked, interrupts + Awaited, Number)
    BY DEF LagInv, AnswersLate, ComingLate
  <2>2. interrupts + Awaited \in Nat
    BY <1>2
  <2>3. g.kind = "packet" => Number' = g.of
    BY <1>5
  <2>4. /\ AnswersLateIn(Line', asked, interrupts + Awaited)
        /\ ComingLateIn(Line', toServer', asked, interrupts + Awaited, Number')
    BY ONLY <1>2, <1>7, <2>1, <2>2, <2>3, ServerLate, Receive(toServer, toServer', g),
       Wrote(Line, Line', Number'),
       Paid(Answers, Work, Line, Line', 0, 0, g)
  <2>. QED
    BY <1>2, <2>4 DEF AnswersLate, ComingLate
<1>10. Excess'
  <2>. SUFFICES ASSUME faults' = 0 PROVE Excess'
    BY DEF Excess
  <2>1. Within(Refusals, Demands, Line', toServer', Collected' + Len(executed'), asked + interrupts)
    <3>1. Within(Refusals, Demands, Line, toServer, Collected + Len(executed), asked + interrupts)
      BY DEF LagInv, Excess
    <3>2. Len(executed) \in Nat
      BY <1>2, LenProperties
    <3>3. Collected + Len(executed) \in Nat /\ asked + interrupts \in Nat
      BY <1>2, <3>2
    <3>4. Collected' + Len(executed') \in Nat
      <4>1. \A x, y \in Nat : x + y \in Nat
        OBVIOUS
      <4>2. Collected' \in Nat
        BY <1>2
      <4>. QED
        BY ONLY <1>5, <4>1, <4>2, Zenon
    <3>5. Paid(Refusals, Demands, Line, Line', Collected + Len(executed),
               Collected' + Len(executed'), g)
      OBVIOUS
    <3>. QED
      BY ONLY <1>2, <1>3, <3>1, <3>3, <3>4, <3>5, ServerWithin, Receive(toServer, toServer', g)
  <2>2. ASSUME NEW i \in 1 .. Len(executed') - 1
        PROVE  executed'[i + 1] - executed'[i] \in {0, 1}
    <3>1. CASE executed' = executed
      BY <2>2, <3>1 DEF LagInv, Excess
    <3>2. CASE g.kind = "packet" /\ executed' = Append(executed, g.of)
      <4>1. /\ Len(executed') = Len(executed) + 1 /\ Len(executed) \in Nat
            /\ executed'[Len(executed) + 1] = g.of
            /\ \A j \in 1 .. Len(executed) : executed'[j] = executed[j]
        BY <1>2, <1>4, <3>2, AppendProperties, LenProperties
      <4>2. CASE i < Len(executed)
        <5>1. i \in 1 .. Len(executed) - 1 /\ i \in 1 .. Len(executed) /\ i + 1 \in 1 .. Len(executed)
          BY <4>1, <4>2
        <5>. QED
          BY <4>1, <5>1 DEF LagInv, Excess
      <4>3. CASE i = Len(executed)
        <5>1. i \in 1 .. Len(executed) /\ executed # <<>>
          BY <1>2, <4>1, <4>3
        <5>2. executed'[i] = Number
          BY <1>1, <1>2, <4>1, <4>3, <5>1, LinkAssumption DEF LinkTyped, Number
        <5>3. Number <= g.of /\ g.of <= Number + 1
          BY <1>1, <3>2, NextExecuted
        <5>4. g.of - Number \in {0, 1}
          BY ONLY <1>2, <1>4, <5>3
        <5>. QED
          BY <4>1, <4>3, <5>2, <5>4
      <4>. QED
        BY <4>1, <4>2, <4>3
    <3>. QED
      BY <3>1, <3>2
  <2>. QED
    BY <1>2, <2>1, <2>2 DEF Excess
<1>11. AnswersLag'
  BY <1>2 DEF LagInv, AnswersLag
<1>. QED
  BY <1>6, <1>7, <1>8, <1>9, <1>10, <1>11 DEF LagInv

-----------------------------------------------------------------------------
(* The actions. *)

\* What each token counts for.
LEMMA Weighs ==
  ASSUME NEW g \in Tokens
  PROVE  /\ g.kind = "packet" => /\ Weight(g, Answers) = 1 /\ Weight(g, Replies) = 1
                                 /\ Weight(g, Refusals) = 0 /\ Weight(g, Work) = 1
                                 /\ Weight(g, Units) = 1 /\ Weight(g, Demands) = 1
         /\ g.kind = "damaged" => /\ Weight(g, Answers) = 1 /\ Weight(g, Replies) = 1
                                  /\ Weight(g, Refusals) = 0 /\ Weight(g, Work) = 0
                                  /\ Weight(g, Units) = 1 /\ Weight(g, Demands) = 0
         /\ g.kind = "+" => /\ Weight(g, Answers) = 0 /\ Weight(g, Replies) = 0
                            /\ Weight(g, Refusals) = 0 /\ Weight(g, Work) = 0
                            /\ Weight(g, Units) = 0 /\ Weight(g, Demands) = 0
         /\ g.kind = "-" => /\ Weight(g, Answers) = 0 /\ Weight(g, Replies) = 1
                            /\ Weight(g, Refusals) = 1 /\ Weight(g, Work) = 1
                            /\ Weight(g, Units) = 1 /\ Weight(g, Demands) = 0
         /\ g.kind = "stray" => /\ Weight(g, Answers) = 0 /\ Weight(g, Replies) = 0
                                /\ Weight(g, Refusals) = 0 /\ Weight(g, Work) = 0
                                /\ Weight(g, Units) = 1 /\ Weight(g, Demands) = 1
BY DEF Weight, Answers, Replies, Refusals, Work, Units, Demands

\* The tokens that are written and read.
LEMMA Written ==
  /\ Ack \in Tokens /\ Resend \in Tokens /\ Interrupt \in Tokens
  /\ Ack.kind = "+" /\ Resend.kind = "-" /\ Interrupt.kind = "stray"
  /\ \A n \in Nat : /\ Token("packet", n) \in Tokens /\ Token("damaged", n) \in Tokens
                    /\ Token("packet", n).kind = "packet" /\ Token("packet", n).of = n
                    /\ Token("damaged", n).kind = "damaged" /\ Token("damaged", n).of = n
BY DEF Ack, Resend, Interrupt, Token, Tokens

\* A packet put on the line is damaged for a fault.
Puts(c, c1, n, f, f1) ==
    \/ c1 = c \o <<Token("packet", n)>> /\ f1 = f
    \/ c1 = c \o <<Token("damaged", n)>> /\ f1 = f + 1
LEMMA SentPacket ==
  ASSUME NEW c \in Seq(Tokens), NEW n \in Nat, NEW c1, NEW f \in Nat, NEW f1, Puts(c, c1, n, f, f1)
  PROVE  \E e \in Tokens :
           /\ e.kind \in {"packet", "damaged"} /\ e.of = n /\ c1 = Append(c, e)
           /\ f1 \in Nat /\ (f1 = 0 => f = 0 /\ e.kind = "packet")
<1>1. \A e : c \o <<e>> = Append(c, e)
  OBVIOUS
<1>2. CASE c1 = c \o <<Token("packet", n)>> /\ f1 = f
  BY <1>1, <1>2, Written
<1>3. CASE c1 = c \o <<Token("damaged", n)>> /\ f1 = f + 1
  <2>1. c1 = Append(c, Token("damaged", n))
    BY <1>1, <1>3
  <2>2. f1 \in Nat /\ f1 # 0
    BY <1>3
  <2>. QED
    BY <2>1, <2>2, Written
<1>. QED
  BY <1>2, <1>3 DEF Puts

\* Nothing is under way at first.
LEMMA InitLag == Init => LagInv /\ Typed
<1>. SUFFICES ASSUME Init PROVE LagInv /\ Typed
  OBVIOUS
<1>1. <<>> \in Seq(Tokens) /\ <<>> \in Seq(Nat) /\ Len(<<>>) = 0
  OBVIOUS
<1>2. \A K : Whole(<<>>, K) = 0 /\ Upto(<<>>, K, 0) = 0
  BY <1>1, UptoType DEF Whole
<1>3. Line = <<>> /\ Kept = None /\ Typed
  BY <1>1 DEF Init, Line, Kept, Typed
<1>8. LinkTyped /\ Number = 0 /\ Awaited = 0 /\ Collected = 0
  BY <1>1, <1>3 DEF Init, LinkTyped, Number, Awaited, Collected
<1>4. Ordered /\ Complete /\ AnswersLag
  BY <1>1, <1>3, <1>8 DEF Init, Ordered, Complete, AnswersLag
<1>5. Bounded
  BY <1>2, <1>3, <1>8 DEF Init, Bounded, Within
<1>6. AnswersLate /\ ComingLate
  BY <1>1, <1>2, <1>3 DEF Init, AnswersLate, AnswersLateIn, ComingLate, ComingLateIn, ComingIn
<1>7. Excess
  BY <1>1, <1>2, <1>3, <1>8 DEF Init, Excess, Within
<1>. QED
  BY <1>3, <1>8, <1>4, <1>5, <1>6, <1>7 DEF LagInv

\* The next request: it is waited for.
LEMMA AskLags == LagInv /\ Ask => LagInv'
<1>. SUFFICES ASSUME LagInv, Ask PROVE LagInv'
  OBVIOUS
<1>1. /\ asked \in Nat /\ toServer \in Seq(Tokens) /\ faults \in Nat /\ interrupts \in Nat
      /\ answers \in Seq(Nat) /\ Len(answers) + Awaited = asked
  BY DEF LagInv, LinkTyped
<1>2. phase = "ready" /\ asked' = asked + 1 /\ phase' = "ack" /\ answers' = answers
      /\ interrupts' = interrupts /\ Line' = Line /\ UNCHANGED server
  BY LineKept DEF Ask
<1>3. Awaited = 0 /\ Awaited' = 1 /\ asked' \in Nat
  BY <1>1, <1>2 DEF Awaited
<1>4. PICK e \in Tokens :
        /\ e.kind \in {"packet", "damaged"} /\ e.of = asked' /\ toServer' = Append(toServer, e)
        /\ faults' \in Nat /\ (faults' = 0 => faults = 0 /\ e.kind = "packet")
  <2>1. toServer \o <<>> = toServer
    BY <1>1, ConcatEmptySeq
  <2>2. Puts(toServer, toServer', asked', faults, faults')
    BY <2>1 DEF Ask, Sent, Puts
  <2>. QED
    BY ONLY <1>1, <1>3, <2>2, SentPacket
<1>5. MayRead(Line, Line', Ack) /\ MayWrite(toServer, toServer', e)
  BY <1>2, <1>4 DEF MayRead, MayWrite
<1>6. AnswersLag' /\ Len(answers') + Awaited' = asked' /\ answers' \in Seq(Nat)
  BY <1>1, <1>2, <1>3 DEF LagInv, AnswersLag
<1>7. /\ Weight(e, Refusals) = 0 /\ Weight(e, Units) = 1 /\ Weight(e, Demands) \in {0, 1}
      /\ Weight(Ack, Answers) = 0 /\ Weight(Ack, Replies) = 0 /\ Weight(Ack, Refusals) = 0
  BY <1>4, Weighs, Written
<1>8. PICK b \in Nat, b1 \in Nat :
        b = interrupts + Awaited /\ b1 = interrupts' + Awaited' /\ b1 = b + 1
  BY <1>1, <1>2, <1>3
<1>9. /\ Weight(e, Refusals) <= Weight(Ack, Answers)
      /\ asked' + Weight(e, Refusals) + b <= asked + b1 + Weight(Ack, Answers)
      /\ b + Weight(e, Units) <= b1 + Weight(Ack, Replies)
      /\ asked + interrupts + Weight(e, Demands) <= asked' + interrupts' + Weight(Ack, Refusals)
  BY <1>1, <1>2, <1>7, <1>8
<1>10. Ack \in Tokens
  BY Written
<1>11. /\ phase' \in {"ready", "ack", "answer"} /\ interrupts' \in Nat
       /\ asked' = asked + 1 /\ toServer' = Append(toServer, e) /\ UNCHANGED server
       /\ (faults' = 0 => e.kind = "packet") /\ (e.kind = "packet" => e.of = asked')
       /\ (faults' = 0 => faults = 0 /\ e.kind # "damaged")
  BY <1>1, <1>2, <1>4
<1>. QED
  BY ONLY LagInv, <1>4, <1>5, <1>6, <1>8, <1>9, <1>10, <1>11, ClientStep

\* A token the debugger reads is the first of those written.
LEMMA ReadsToken ==
  ASSUME Typed, NEW token, Reads(token), running' = running
  PROVE  /\ Line # <<>> /\ Head(Line) = token /\ Line' = Tail(Line)
         /\ MayRead(Line, Line', token)
<1>1. toClient # <<>> /\ Head(toClient) = token /\ toClient' = Tail(toClient)
  BY DEF Reads
<1>2. ASSUME NEW e \in Tokens
      PROVE  /\ Append(toClient, e) # <<>> /\ Head(Append(toClient, e)) = token
             /\ Append(Tail(toClient), e) = Tail(Append(toClient, e))
  <2>1. toClient \in Seq(Tokens)
    BY DEF Typed
  <2>. QED
    BY ONLY <1>1, <1>2, <2>1
<1>3. Line # <<>> /\ Head(Line) = token /\ Line' = Tail(Line)
  <2>1. CASE running = None
    BY <1>1, <2>1 DEF Line
  <2>2. CASE running # None
    <3>1. Token("packet", running) \in Tokens
      BY <2>2, Written DEF Typed
    <3>. QED
      BY <1>1, <1>2, <2>2, <3>1 DEF Line
  <2>. QED
    BY <2>1, <2>2
<1>. QED
  BY <1>3 DEF MayRead

\* What the invariant says of the debugger's own state.
LEMMA ClientTyped ==
  ASSUME LagInv
  PROVE  /\ asked \in Nat /\ toServer \in Seq(Tokens) /\ Line \in Seq(Tokens)
         /\ faults \in Nat /\ interrupts \in Nat
         /\ answers \in Seq(Nat) /\ Len(answers) + Awaited = asked
         /\ phase \in {"ready", "ack", "answer"} /\ AnswersLag
BY DEF LagInv, LinkTyped

\* A step that changes neither the request that is asked for nor the interrupts.
LEMMA SameRequest ==
  ASSUME LagInv, NEW h \in Tokens, NEW e \in Tokens, UNCHANGED <<client, interrupts, server>>,
         MayRead(Line, Line', h), MayWrite(toServer, toServer', e), faults' \in Nat,
         e.kind = "packet" => e.of = asked,
         faults' = 0 => faults = 0 /\ e.kind # "damaged",
         Weight(e, Refusals) <= Weight(h, Answers), Weight(e, Units) <= Weight(h, Replies),
         Weight(e, Demands) <= Weight(h, Refusals)
  PROVE  LagInv'
<1>1. /\ asked \in Nat /\ interrupts \in Nat /\ phase' = phase /\ asked' = asked
      /\ answers' = answers /\ interrupts' = interrupts /\ UNCHANGED server /\ Awaited' = Awaited
      /\ Awaited \in {0, 1} /\ answers' \in Seq(Nat) /\ Len(answers') + Awaited' = asked'
      /\ phase' \in {"ready", "ack", "answer"} /\ AnswersLag'
  BY ClientTyped DEF client, Awaited, AnswersLag
<1>2. PICK b \in Nat : b = interrupts + Awaited /\ b = interrupts' + Awaited'
  BY <1>1
<1>3. PICK r \in {0, 1}, u \in {0, 1}, d \in {0, 1}, ha \in {0, 1}, hr \in {0, 1}, hf \in {0, 1} :
        /\ r = Weight(e, Refusals) /\ u = Weight(e, Units) /\ d = Weight(e, Demands)
        /\ ha = Weight(h, Answers) /\ hr = Weight(h, Replies) /\ hf = Weight(h, Refusals)
  BY DEF Weight
<1>4. /\ Weight(e, Refusals) <= Weight(h, Answers)
      /\ asked' + Weight(e, Refusals) + b <= asked + b + Weight(h, Answers)
      /\ b + Weight(e, Units) <= b + Weight(h, Replies)
      /\ asked + interrupts + Weight(e, Demands) <= asked' + interrupts' + Weight(h, Refusals)
  <2>1. r <= ha /\ u <= hr /\ d <= hf
    BY <1>3
  <2>. QED
    BY ONLY <1>1, <1>2, <1>3, <2>1, SMTT(20)
<1>5. /\ MayRead(Line, Line', h) /\ MayWrite(toServer, toServer', e) /\ faults' \in Nat
      /\ e.kind = "packet" => e.of = asked'
      /\ faults' = 0 => faults = 0 /\ e.kind # "damaged"
      /\ interrupts' \in Nat
  BY <1>1
<1>. QED
  BY ONLY LagInv, <1>1, <1>2, <1>4, <1>5, ClientStep

\* The acknowledgement of the request, of which one more answer may come.
LEMMA AcknowledgedLags == LagInv /\ Typed /\ Acknowledged => LagInv'
<1>. SUFFICES ASSUME LagInv, Typed, Acknowledged PROVE LagInv'
  OBVIOUS
<1>1. /\ phase = "ack" /\ phase' = "answer"
      /\ UNCHANGED <<asked, answers, faults, interrupts, toServer, server>>
      /\ MayRead(Line, Line', Ack)
  BY ReadsToken DEF Acknowledged, server
<1>2. /\ asked \in Nat /\ interrupts \in Nat /\ Awaited' = Awaited /\ Awaited \in {0, 1}
      /\ answers' \in Seq(Nat) /\ Len(answers') + Awaited' = asked' /\ asked' = asked
      /\ phase' \in {"ready", "ack", "answer"} /\ AnswersLag' /\ interrupts' = interrupts
      /\ UNCHANGED server
  BY <1>1, ClientTyped DEF Awaited, AnswersLag
<1>3. PICK b \in Nat : b = interrupts + Awaited /\ b = interrupts' + Awaited'
  BY <1>2
<1>4. /\ Ack \in Tokens /\ Ack.kind = "+" /\ faults' \in Nat /\ faults' = faults
      /\ MayRead(Line, Line', Ack) /\ MayWrite(toServer, toServer', Ack)
      /\ interrupts' \in Nat
  BY <1>1, Written, ClientTyped DEF MayWrite
<1>5. /\ Weight(Ack, Refusals) = 0 /\ Weight(Ack, Answers) = 0 /\ Weight(Ack, Replies) = 0
      /\ Weight(Ack, Units) = 0 /\ Weight(Ack, Demands) = 0
  BY <1>4, Weighs
<1>6. /\ Weight(Ack, Refusals) <= Weight(Ack, Answers)
      /\ asked' + Weight(Ack, Refusals) + b <= asked + b + Weight(Ack, Answers)
      /\ b + Weight(Ack, Units) <= b + Weight(Ack, Replies)
      /\ asked + interrupts + Weight(Ack, Demands) <= asked' + interrupts' + Weight(Ack, Refusals)
  BY <1>2, <1>5
<1>. QED
  BY ONLY LagInv, <1>2, <1>3, <1>4, <1>6, ClientStep

\* A request goes out again for each refusal that comes in.
LEMMA AskAgainLags == LagInv /\ Typed /\ AskAgain => LagInv'
<1>. SUFFICES ASSUME LagInv, Typed, AskAgain PROVE LagInv'
  OBVIOUS
<1>1. asked \in Nat /\ toServer \in Seq(Tokens) /\ faults \in Nat
  BY ClientTyped
<1>2. MayRead(Line, Line', Resend) /\ UNCHANGED <<client, interrupts, server>>
  BY ReadsToken DEF AskAgain, server
<1>3. PICK e \in Tokens :
        /\ e.kind \in {"packet", "damaged"} /\ e.of = asked /\ toServer' = Append(toServer, e)
        /\ faults' \in Nat /\ (faults' = 0 => faults = 0 /\ e.kind = "packet")
  <2>1. toServer \o <<>> = toServer
    BY <1>1, ConcatEmptySeq
  <2>2. Puts(toServer, toServer', asked, faults, faults')
    BY <2>1 DEF AskAgain, Sent, Puts
  <2>. QED
    BY ONLY <1>1, <2>2, SentPacket
<1>4. Resend \in Tokens /\ MayWrite(toServer, toServer', e)
  BY <1>3, Written DEF MayWrite
<1>5. /\ Weight(e, Refusals) <= Weight(Resend, Answers) /\ Weight(e, Units) <= Weight(Resend, Replies)
      /\ Weight(e, Demands) <= Weight(Resend, Refusals)
  BY <1>3, Weighs, Written
<1>. QED
  BY <1>2, <1>3, <1>4, <1>5, SameRequest

\* A packet that is dropped leaves less to come.
LEMMA DropPacketLags == LagInv /\ Typed /\ DropPacket => LagInv'
<1>. SUFFICES ASSUME LagInv, Typed, DropPacket PROVE LagInv'
  OBVIOUS
<1>1. asked \in Nat /\ faults \in Nat
  BY ClientTyped
<1>2. PICK n \in 1 .. asked : Reads(Token("packet", n)) \/ Reads(Token("damaged", n))
  BY DEF DropPacket
<1>3. PICK h \in Tokens : h.kind \in {"packet", "damaged"} /\ MayRead(Line, Line', h)
  BY <1>1, <1>2, ReadsToken, Written DEF DropPacket, server
<1>4. /\ MayWrite(toServer, toServer', Ack) /\ UNCHANGED <<client, interrupts, server>>
      /\ faults' = faults /\ Ack \in Tokens /\ Ack.kind = "+"
  BY Written DEF DropPacket, MayWrite
<1>5. /\ Weight(Ack, Refusals) <= Weight(h, Answers) /\ Weight(Ack, Units) <= Weight(h, Replies)
      /\ Weight(Ack, Demands) <= Weight(h, Refusals)
  BY <1>3, <1>4, Weighs
<1>. QED
  BY <1>1, <1>3, <1>4, <1>5, SameRequest

\* A damaged answer is replaced by the demand of another.
LEMMA RefuseAnswerLags == LagInv /\ Typed /\ RefuseAnswer => LagInv'
<1>. SUFFICES ASSUME LagInv, Typed, RefuseAnswer PROVE LagInv'
  OBVIOUS
<1>1. asked \in Nat /\ faults \in Nat
  BY ClientTyped
<1>2. PICK n \in 1 .. asked : Reads(Token("damaged", n))
  BY DEF RefuseAnswer
<1>3. PICK h \in Tokens : h.kind = "damaged" /\ MayRead(Line, Line', h)
  BY <1>1, <1>2, ReadsToken, Written DEF RefuseAnswer, server
<1>4. /\ MayWrite(toServer, toServer', Resend) /\ UNCHANGED <<client, interrupts, server>>
      /\ faults' = faults /\ Resend \in Tokens /\ Resend.kind = "-"
  BY Written DEF RefuseAnswer, MayWrite
<1>5. /\ Weight(Resend, Refusals) <= Weight(h, Answers) /\ Weight(Resend, Units) <= Weight(h, Replies)
      /\ Weight(Resend, Demands) <= Weight(h, Refusals)
  BY <1>3, <1>4, Weighs
<1>. QED
  BY <1>1, <1>3, <1>4, <1>5, SameRequest

\* What is skipped brings nothing.
LEMMA SkipLags == LagInv /\ Typed /\ Skip => LagInv'
<1>. SUFFICES ASSUME LagInv, Typed, Skip PROVE LagInv'
  OBVIOUS
<1>1. PICK h \in Tokens : h.kind \in {"+", "-"} /\ MayRead(Line, Line', h)
  BY ReadsToken, Written DEF Skip, server
<1>2. /\ MayWrite(toServer, toServer', Ack) /\ UNCHANGED <<client, interrupts, server>>
      /\ faults' = faults /\ faults \in Nat /\ Ack \in Tokens /\ Ack.kind = "+"
  BY Written, ClientTyped DEF Skip, MayWrite
<1>3. /\ Weight(Ack, Refusals) <= Weight(h, Answers) /\ Weight(Ack, Units) <= Weight(h, Replies)
      /\ Weight(Ack, Demands) <= Weight(h, Refusals)
  BY <1>1, <1>2, Weighs
<1>. QED
  BY <1>1, <1>2, <1>3, SameRequest

\* An interrupt brings at most one answer too many.
LEMMA UserInterruptsLags == LagInv /\ UserInterrupts => LagInv'
<1>. SUFFICES ASSUME LagInv, UserInterrupts PROVE LagInv'
  OBVIOUS
<1>1. /\ interrupts' = interrupts + 1 /\ toServer' = Append(toServer, Interrupt)
      /\ UNCHANGED <<client, faults, server>> /\ Line' = Line
  BY LineKept DEF UserInterrupts
<1>2. /\ asked \in Nat /\ interrupts \in Nat /\ Awaited' = Awaited /\ Awaited \in {0, 1}
      /\ answers' \in Seq(Nat) /\ Len(answers') + Awaited' = asked' /\ asked' = asked
      /\ phase' \in {"ready", "ack", "answer"} /\ interrupts' = interrupts + 1
      /\ UNCHANGED server /\ interrupts' \in Nat
  BY <1>1, ClientTyped DEF Awaited, client
<1>3. AnswersLag'
  <2>1. \A i \in 1 .. Len(answers) : answers[i] \in Nat
    BY ClientTyped, ElementOfSeq
  <2>2. \A i \in 1 .. Len(answers) : answers[i] <= i /\ i <= answers[i] + interrupts
    BY ClientTyped DEF AnswersLag
  <2>3. ASSUME NEW i \in 1 .. Len(answers) PROVE answers[i] <= i /\ i <= answers[i] + (interrupts + 1)
    BY <1>2, <2>1, <2>2
  <2>4. answers' = answers
    BY <1>1 DEF client
  <2>. QED
    BY <1>2, <2>3, <2>4 DEF AnswersLag
<1>4. PICK b \in Nat, b1 \in Nat :
        b = interrupts + Awaited /\ b1 = interrupts' + Awaited' /\ b1 = b + 1
  BY <1>2
<1>5. /\ Ack \in Tokens /\ Interrupt \in Tokens /\ Interrupt.kind = "stray" /\ faults' \in Nat
      /\ faults' = faults /\ MayRead(Line, Line', Ack) /\ MayWrite(toServer, toServer', Interrupt)
  BY <1>1, Written, ClientTyped DEF MayRead, MayWrite
<1>6. /\ Weight(Interrupt, Refusals) = 0 /\ Weight(Interrupt, Units) = 1 /\ Weight(Interrupt, Demands) = 1
      /\ Weight(Ack, Answers) = 0 /\ Weight(Ack, Replies) = 0 /\ Weight(Ack, Refusals) = 0
  BY <1>5, Weighs, Written
<1>7. /\ Weight(Interrupt, Refusals) <= Weight(Ack, Answers)
      /\ asked' + Weight(Interrupt, Refusals) + b <= asked + b1 + Weight(Ack, Answers)
      /\ b + Weight(Interrupt, Units) <= b1 + Weight(Ack, Replies)
      /\ asked + interrupts + Weight(Interrupt, Demands) <= asked' + interrupts' + Weight(Ack, Refusals)
  BY <1>2, <1>4, <1>6
<1>. QED
  BY ONLY LagInv, <1>2, <1>3, <1>4, <1>5, <1>7, ClientStep

\* The answer that is taken is at most as late as the interrupts make it.
LEMMA TakeAnswerLags == LagInv /\ Typed /\ TakeAnswer => LagInv'
<1>. SUFFICES ASSUME LagInv, Typed, TakeAnswer PROVE LagInv'
  OBVIOUS
<1>1. PICK n \in 1 .. asked : Reads(Token("packet", n)) /\ answers' = Append(answers, n)
  BY DEF TakeAnswer
<1>. DEFINE h == Token("packet", n)
<1>2. /\ asked \in Nat /\ interrupts \in Nat /\ answers \in Seq(Nat) /\ n \in Nat
      /\ Awaited = 1 /\ Awaited' = 0 /\ Len(answers) + 1 = asked /\ asked' = asked
      /\ interrupts' = interrupts /\ UNCHANGED server /\ phase' \in {"ready", "ack", "answer"}
      /\ faults' = faults /\ faults' \in Nat /\ interrupts' \in Nat
  BY ClientTyped DEF TakeAnswer, Awaited
<1>3. /\ answers' \in Seq(Nat) /\ Len(answers') = Len(answers) + 1 /\ answers'[Len(answers) + 1] = n
      /\ \A i \in 1 .. Len(answers) : answers'[i] = answers[i]
  BY <1>1, <1>2, AppendProperties
<1>4. /\ h \in Tokens /\ h.kind = "packet" /\ h.of = n /\ MayRead(Line, Line', h)
      /\ Ack \in Tokens /\ Ack.kind = "+" /\ MayWrite(toServer, toServer', Ack)
  BY <1>1, <1>2, Written, ReadsToken DEF TakeAnswer, MayWrite, server
<1>5. asked <= n + interrupts
  <2>1. Line # <<>> /\ Head(Line) = h /\ Line \in Seq(Tokens)
    BY <1>1, <1>2, ClientTyped, ReadsToken DEF server
  <2>2. Line[1] = h /\ 1 \in 1 .. Len(Line)
    BY <2>1, CountTail
  <2>3. Upto(Line, Answers, 0) = 0 /\ Weight(h, Answers) = 1
    BY <1>4, UptoType, Weighs
  <2>4. Upto(Line, Answers, 0 + 1) = Upto(Line, Answers, 0) + Weight(Line[0 + 1], Answers)
    BY UptoNext
  <2>5. Upto(Line, Answers, 1) = 1
    BY <2>2, <2>3, <2>4
  <2>6. h.kind \in Answers
    BY <1>4 DEF Answers
  <2>7. Late(asked, interrupts + Awaited, 1, n)
    BY <1>4, <2>2, <2>5, <2>6 DEF LagInv, AnswersLate, AnswersLateIn
  <2>8. asked + 1 <= n + (interrupts + 1)
    BY <1>2, <2>7 DEF Late
  <2>. QED
    BY ONLY <1>2, <2>8
<1>6. AnswersLag'
  <2>1. \A i \in 1 .. Len(answers) : answers[i] <= i /\ i <= answers[i] + interrupts
    BY ClientTyped DEF AnswersLag
  <2>2. n <= Len(answers) + 1 /\ Len(answers) + 1 <= n + interrupts
    BY <1>2, <1>5
  <2>3. Len(answers) \in Nat
    BY <1>2, LenProperties
  <2>4. \A i \in 1 .. Len(answers') : i \in 1 .. Len(answers) \/ i = Len(answers) + 1
    BY <1>3, <2>3
  <2>5. \A i \in 1 .. Len(answers') : answers'[i] <= i /\ i <= answers'[i] + interrupts
    BY <1>3, <2>1, <2>2, <2>4
  <2>. QED
    BY <1>2, <2>5 DEF AnswersLag
<1>7. Len(answers') + Awaited' = asked'
  BY <1>2, <1>3
<1>8. PICK b \in Nat, b1 \in Nat :
        b = interrupts + Awaited /\ b1 = interrupts' + Awaited' /\ b = b1 + 1
  BY <1>2
<1>. HIDE DEF h
<1>9. /\ Weight(Ack, Refusals) = 0 /\ Weight(Ack, Units) = 0 /\ Weight(Ack, Demands) = 0
      /\ Weight(h, Answers) = 1 /\ Weight(h, Replies) = 1 /\ Weight(h, Refusals) = 0
  BY <1>4, Weighs
<1>10. /\ Weight(Ack, Refusals) <= Weight(h, Answers)
       /\ asked' + Weight(Ack, Refusals) + b <= asked + b1 + Weight(h, Answers)
       /\ b + Weight(Ack, Units) <= b1 + Weight(h, Replies)
       /\ asked + interrupts + Weight(Ack, Demands) <= asked' + interrupts' + Weight(h, Refusals)
  BY <1>2, <1>8, <1>9
<1>. QED
  BY ONLY LagInv, <1>2, <1>3, <1>4, <1>6, <1>7, <1>8, <1>10, ClientStep

\* What is written, and what is kept then, is paid by what is read.
LEMMA Pays ==
  ASSUME NEW K, NEW L, NEW c, NEW c1, NEW g, NEW x \in Nat, NEW x1 \in Nat, NEW a \in Nat, NEW p \in Nat,
         Whole(c, K) \in Nat, Whole(c1, K) = Whole(c, K) + a, Weight(g, L) = p, a + x1 <= x + p
  PROVE  Paid(K, L, c, c1, x, x1, g)
BY DEF Paid

\* Where a token is due, what was collected is refused.
Flushed == Line \o handle_error
LEMMA Flushes ==
  ASSUME Line \in Seq(Tokens), len \in Nat, NEW m
  PROVE  /\ Flushed \in Seq(Tokens) /\ Wrote(Line, Flushed, m)
         /\ Whole(Flushed, Answers) = Whole(Line, Answers)
         /\ Whole(Flushed, Replies) = Whole(Line, Replies) + Collected
         /\ Whole(Flushed, Refusals) = Whole(Line, Refusals) + Collected
<1>1. /\ Whole(Line, Answers) \in Nat /\ Whole(Line, Replies) \in Nat
      /\ Whole(Line, Refusals) \in Nat
  BY LenProperties, UptoNat DEF Whole
<1>2. CASE len > 0
  <2>1. Flushed = Append(Line, Resend) /\ Collected = 1
    BY <1>2 DEF Flushed, handle_error, Collected
  <2>2. Resend \in Tokens /\ Resend.kind = "-" /\ "-" \notin Answers
    BY Written DEF Answers
  <2>3. Wrote(Line, Flushed, m) /\ Flushed \in Seq(Tokens)
    BY <2>1, <2>2, WroteMore, CountAppend
  <2>4. /\ Whole(Flushed, Answers) = Whole(Line, Answers) + 0
        /\ Whole(Flushed, Replies) = Whole(Line, Replies) + 1
        /\ Whole(Flushed, Refusals) = Whole(Line, Refusals) + 1
    BY <2>1, <2>2, CountAppend, Weighs
  <2>. QED
    BY <1>1, <2>1, <2>3, <2>4
<1>3. CASE ~ (len > 0)
  <2>1. Flushed = Line /\ Collected = 0
    BY <1>3, ConcatEmptySeq DEF Flushed, handle_error, Collected
  <2>. QED
    BY <1>1, <2>1, WroteMore
<1>. QED
  BY <1>2, <1>3

\* The token that is received.
LEMMA Received ==
  ASSUME LagInv, NEW kind, Receives(kind)
  PROVE  \E g \in Tokens : g = Head(toServer) /\ g.kind = kind /\ Receive(toServer, toServer', g)
BY CountTail DEF LagInv, LinkTyped, Receives, Receive

\* What the invariant says of the simulator's state.
LEMMA ServerTyped ==
  ASSUME LagInv
  PROVE  /\ faults \in Nat /\ toServer \in Seq(Tokens) /\ Line \in Seq(Tokens)
         /\ len \in Nat /\ Kept \in Nat \cup {None} /\ executed \in Seq(Nat)
         /\ Number \in Nat /\ Len(executed) \in Nat /\ Collected \in {0, 1}
         /\ \A K : Whole(Line, K) \in Nat
BY LenProperties, UptoNat DEF LagInv, LinkTyped, Number, Collected, Whole

\* A step of the simulator that writes a answers and r refusals, and then has
\* collected k and executed x more.
LEMMA ServerWrites ==
  ASSUME LagInv, NEW g \in Tokens, Receive(toServer, toServer', g),
         UNCHANGED <<client, interrupts>>, faults' \in Nat, faults' = 0 => faults = 0, len' \in Nat,
         Wrote(Line, Line', Number'), NEW x \in {0, 1},
         \/ g.kind # "packet" /\ Kept' = Kept /\ executed' = executed /\ x = 0
         \/ g.kind = "packet" /\ Kept' = g.of /\ executed' = Append(executed, g.of) /\ x = 1,
         NEW a \in Nat, NEW r \in Nat, NEW k \in Nat, k = Collected',
         Whole(Line', Answers) = Whole(Line, Answers) + a,
         Whole(Line', Replies) = Whole(Line, Replies) + (a + r),
         Whole(Line', Refusals) = Whole(Line, Refusals) + r,
         NEW gw \in Nat, NEW gu \in Nat, NEW gd \in Nat,
         gw = Weight(g, Work), gu = Weight(g, Units), gd = Weight(g, Demands),
         a <= gw, a + r + k <= Collected + gu, faults' = 0 => r + k + x <= Collected + gd
  PROVE  LagInv'
<1>1. /\ Len(executed) \in Nat /\ Collected \in Nat /\ \A K : Whole(Line, K) \in Nat
      /\ Len(executed') = Len(executed) + x
  <2>1. /\ Len(executed) \in Nat /\ Collected \in {0, 1} /\ \A K : Whole(Line, K) \in Nat
        /\ executed \in Seq(Nat) /\ g.of \in Nat
    BY ServerTyped DEF Tokens
  <2>2. CASE executed' = executed /\ x = 0
    BY ONLY <2>1, <2>2
  <2>3. CASE executed' = Append(executed, g.of) /\ x = 1
    BY ONLY <2>1, <2>3, AppendProperties
  <2>. QED
    BY <2>2, <2>3
<1>2. PICK n \in Nat, q \in Nat : n = Len(executed) /\ q = Collected
  BY <1>1
<1>3. q + n \in Nat /\ k + (n + x) \in Nat /\ a + r \in Nat
  BY ONLY <1>2
<1>4. a + 0 <= 0 + gw /\ (a + r) + k <= q + gu
  <2>1. a <= gw /\ a + r + k <= q + gu
    BY <1>2
  <2>. QED
    BY ONLY <2>1
<1>5. faults' = 0 => r + (k + (n + x)) <= (q + n) + gd
  <2>1. faults' = 0 => r + k + x <= q + gd
    BY <1>2
  <2>. QED
    BY ONLY <2>1
<1>6. Paid(Answers, Work, Line, Line', 0, 0, g)
  BY <1>1, <1>4, Pays
<1>7. Paid(Replies, Units, Line, Line', q, k, g)
  BY <1>1, <1>3, <1>4, Pays
<1>8. faults' = 0 => Paid(Refusals, Demands, Line, Line', q + n, k + (n + x), g)
  BY <1>1, <1>3, <1>5, Pays
<1>9. /\ Paid(Replies, Units, Line, Line', Collected, Collected', g)
      /\ faults' = 0 => Paid(Refusals, Demands, Line, Line', Collected + Len(executed),
                             Collected' + Len(executed'), g)
  BY <1>1, <1>2, <1>7, <1>8
<1>. QED
  BY <1>6, <1>9, ServerStep

\* One more token after the refusal of what was collected.
LEMMA FlushesAnd ==
  ASSUME Line \in Seq(Tokens), len \in Nat, NEW m, NEW e \in Tokens, e.kind \in Answers => e.of = m
  PROVE  /\ Append(Flushed, e) \in Seq(Tokens) /\ Wrote(Line, Append(Flushed, e), m)
         /\ Whole(Append(Flushed, e), Answers) = Whole(Line, Answers) + Weight(e, Answers)
         /\ Whole(Append(Flushed, e), Replies)
              = Whole(Line, Replies) + Collected + Weight(e, Replies)
         /\ Whole(Append(Flushed, e), Refusals)
              = Whole(Line, Refusals) + Collected + Weight(e, Refusals)
<1>1. Flushed \in Seq(Tokens) /\ Wrote(Line, Flushed, m)
  BY Flushes
<1>2. Append(Flushed, e) \in Seq(Tokens) /\ Wrote(Line, Append(Flushed, e), m)
  BY <1>1, WroteMore, CountAppend
<1>3. \A K : Whole(Append(Flushed, e), K) = Whole(Flushed, K) + Weight(e, K)
  BY <1>1, CountAppend
<1>. QED
  BY <1>2, <1>3, Flushes

\* What collects nothing has collected nothing.
LEMMA Forgotten == len' = 0 => Collected' = 0 /\ len' \in Nat
BY DEF Collected

\* An acknowledgement is not answered.
LEMMA ReceiveAckLags == LagInv /\ ReceiveAck => LagInv'
<1>. SUFFICES ASSUME LagInv, ReceiveAck PROVE LagInv'
  OBVIOUS
<1>1. PICK g \in Tokens : g.kind = "+" /\ Receive(toServer, toServer', g)
  BY Received DEF ReceiveAck
<1>2. /\ UNCHANGED <<client, interrupts>> /\ faults' \in Nat /\ (faults' = 0 => faults = 0)
      /\ Line' = Flushed /\ len' = 0 /\ Kept' = Kept /\ executed' = executed
      /\ Number' = Number
  BY ServerTyped DEF ReceiveAck, Receives, Flushed, Number, Line, Kept
<1>3. PICK w \in {0, 1} : w = Collected
  BY ServerTyped
<1>4. /\ Wrote(Line, Line', Number')
      /\ Whole(Line', Answers) = Whole(Line, Answers) + 0
      /\ Whole(Line', Replies) = Whole(Line, Replies) + (0 + w)
      /\ Whole(Line', Refusals) = Whole(Line, Refusals) + w
  <2>1. /\ \A K : Whole(Line, K) \in Nat
        /\ Line \in Seq(Tokens) /\ len \in Nat
    BY ServerTyped
  <2>2. /\ Wrote(Line, Flushed, Number)
        /\ Whole(Flushed, Answers) = Whole(Line, Answers)
        /\ Whole(Flushed, Replies) = Whole(Line, Replies) + w
        /\ Whole(Flushed, Refusals) = Whole(Line, Refusals) + w
    BY <1>3, <2>1, Flushes
  <2>3. /\ Whole(Flushed, Answers) = Whole(Line, Answers) + 0
        /\ Whole(Flushed, Replies) = Whole(Line, Replies) + (0 + w)
    BY ONLY <2>1, <2>2
  <2>. QED
    BY <1>2, <2>2, <2>3
<1>5. Weight(g, Work) = 0 /\ Weight(g, Units) = 0 /\ Weight(g, Demands) = 0
  BY <1>1, Weighs
<1>6. 0 <= 0 /\ 0 + w + 0 <= Collected + 0 /\ w + 0 + 0 <= Collected + 0
  BY <1>3
<1>7. Collected' = 0 /\ len' \in Nat
  BY <1>2, Forgotten
<1>. QED
  BY ONLY LagInv, <1>1, <1>2, <1>4, <1>5, <1>6, <1>7, ServerWrites

\* The answer kept in packet is an answer to what was executed last.
LEMMA ReceiveResendLags == LagInv /\ ReceiveResend => LagInv'
<1>. SUFFICES ASSUME LagInv, ReceiveResend PROVE LagInv'
  OBVIOUS
<1>1. PICK g \in Tokens : g.kind = "-" /\ Receive(toServer, toServer', g)
  BY Received DEF ReceiveResend
<1>2. /\ UNCHANGED <<client, interrupts>> /\ len' = 0 /\ Kept' = Kept /\ executed' = executed
      /\ Number' = Number /\ Collected' = 0 /\ len' \in Nat
  BY Forgotten DEF ReceiveResend, Receives, Number, Kept
<1>3. /\ Line \in Seq(Tokens) /\ len \in Nat /\ faults \in Nat /\ Number \in Nat
      /\ \A K : Whole(Line, K) \in Nat
  BY ServerTyped
<1>4. PICK w \in {0, 1} : w = Collected
  BY ServerTyped
<1>5. PICK a \in {0, 1} :
        /\ Wrote(Line, Line', Number')
        /\ Whole(Line', Answers) = Whole(Line, Answers) + a
        /\ Whole(Line', Replies) = Whole(Line, Replies) + (a + w)
        /\ Whole(Line', Refusals) = Whole(Line, Refusals) + w
        /\ faults' \in Nat /\ (faults' = 0 => faults = 0)
  <2>1. CASE Kept = None
    <3>1. Line' = Flushed /\ faults' = faults
      BY <2>1 DEF ReceiveResend, Receives, Flushed, Line, Kept
    <3>2. /\ Wrote(Line, Flushed, Number)
          /\ Whole(Flushed, Answers) = Whole(Line, Answers)
          /\ Whole(Flushed, Replies) = Whole(Line, Replies) + w
          /\ Whole(Flushed, Refusals) = Whole(Line, Refusals) + w
      BY <1>3, <1>4, Flushes
    <3>3. /\ Whole(Flushed, Answers) = Whole(Line, Answers) + 0
          /\ Whole(Flushed, Replies) = Whole(Line, Replies) + (0 + w)
      BY ONLY <1>3, <3>2
    <3>. QED
      BY <1>2, <1>3, <3>1, <3>2, <3>3
  <2>2. CASE Kept # None
    <3>1. Number = Kept
      BY <2>2 DEF Number
    <3>2. Flushed \in Seq(Tokens)
      BY <1>3, Flushes
    <3>3. PICK e \in Tokens :
            /\ e.kind \in {"packet", "damaged"} /\ e.of = Number /\ Line' = Append(Flushed, e)
            /\ faults' \in Nat /\ (faults' = 0 => faults = 0 /\ e.kind = "packet")
      <4>1. Puts(Flushed, Line', Number, faults, faults')
        BY <2>2, <3>1 DEF ReceiveResend, Receives, Sent, Puts, Flushed, Line, Kept
      <4>. QED
        BY ONLY <1>3, <3>2, <4>1, SentPacket
    <3>4. Weight(e, Answers) = 1 /\ Weight(e, Replies) = 1 /\ Weight(e, Refusals) = 0
      BY <3>3, Weighs
    <3>5. /\ Wrote(Line, Line', Number)
          /\ Whole(Line', Answers) = Whole(Line, Answers) + 1
          /\ Whole(Line', Replies) = Whole(Line, Replies) + w + 1
          /\ Whole(Line', Refusals) = Whole(Line, Refusals) + w + 0
      BY <1>3, <1>4, <3>3, <3>4, FlushesAnd
    <3>6. /\ Whole(Line', Replies) = Whole(Line, Replies) + (1 + w)
          /\ Whole(Line', Refusals) = Whole(Line, Refusals) + w
      BY ONLY <1>3, <3>5
    <3>. QED
      BY <1>2, <3>3, <3>5, <3>6
  <2>. QED
    BY <2>1, <2>2
<1>6. Weight(g, Work) = 1 /\ Weight(g, Units) = 1 /\ Weight(g, Demands) = 0
  BY <1>1, Weighs
<1>7. a <= 1 /\ a + w + 0 <= Collected + 1 /\ w + 0 + 0 <= Collected + 0
  BY <1>4
<1>. QED
  BY ONLY LagInv, <1>1, <1>2, <1>5, <1>6, <1>7, ServerWrites

\* A request is executed and answered once where it was on its way.
LEMMA ReceivePacketLags == LagInv /\ ReceivePacket => LagInv'
<1>. SUFFICES ASSUME LagInv, ReceivePacket PROVE LagInv'
  OBVIOUS
<1>1. PICK g \in Tokens :
        g = Head(toServer) /\ g.kind = "packet" /\ Receive(toServer, toServer', g)
  BY Received DEF ReceivePacket
<1>2. /\ UNCHANGED <<client, interrupts>> /\ len' = 0 /\ Kept' = g.of
      /\ executed' = Append(executed, g.of) /\ Collected' = 0 /\ len' \in Nat
  <2>1. g.of # None
    BY LinkAssumption DEF Tokens
  <2>. QED
    BY <1>1, <2>1, Forgotten DEF ReceivePacket, Kept
<1>3. /\ Line \in Seq(Tokens) /\ len \in Nat /\ faults \in Nat /\ g.of \in Nat
      /\ \A K : Whole(Line, K) \in Nat
  BY ServerTyped DEF Tokens
<1>4. Number' = g.of
  BY <1>2, <1>3, LinkAssumption DEF Number
<1>5. PICK w \in {0, 1} : w = Collected
  BY ServerTyped
<1>6. /\ Append(Flushed, Ack) \in Seq(Tokens) /\ Wrote(Line, Append(Flushed, Ack), g.of)
      /\ Whole(Append(Flushed, Ack), Answers) = Whole(Line, Answers) + 0
      /\ Whole(Append(Flushed, Ack), Replies) = Whole(Line, Replies) + w + 0
      /\ Whole(Append(Flushed, Ack), Refusals) = Whole(Line, Refusals) + w + 0
  <2>1. Ack \in Tokens /\ Ack.kind = "+" /\ Ack.kind \notin Answers
    BY Written DEF Answers
  <2>2. Weight(Ack, Answers) = 0 /\ Weight(Ack, Replies) = 0 /\ Weight(Ack, Refusals) = 0
    BY <2>1, Weighs
  <2>. QED
    BY <1>3, <1>5, <2>1, <2>2, FlushesAnd
<1>7. PICK e \in Tokens :
        /\ e.kind \in {"packet", "damaged"} /\ e.of = g.of /\ Line' = Append(Append(Flushed, Ack), e)
        /\ faults' \in Nat /\ (faults' = 0 => faults = 0 /\ e.kind = "packet")
  <2>1. toClient' = Append(Flushed, Ack) /\ running' = g.of /\ faults' = faults
    BY <1>1 DEF ReceivePacket, Receives, Flushed, Line
  <2>2. g.of # None
    BY <1>3, LinkAssumption
  <2>. QED
    BY <1>3, <2>1, <2>2, Written DEF Line
<1>8. /\ Wrote(Line, Line', Number')
      /\ Whole(Line', Answers) = Whole(Line, Answers) + 1
      /\ Whole(Line', Replies) = Whole(Line, Replies) + (1 + w)
      /\ Whole(Line', Refusals) = Whole(Line, Refusals) + w
  <2>1. Weight(e, Answers) = 1 /\ Weight(e, Replies) = 1 /\ Weight(e, Refusals) = 0
    BY <1>7, Weighs
  <2>2. \A K : Whole(Line', K) = Whole(Append(Flushed, Ack), K) + Weight(e, K)
    BY ONLY <1>6, <1>7, CountAppend
  <2>3. Wrote(Line, Line', g.of)
    BY ONLY <1>3, <1>6, <1>7, WroteMore
  <2>. QED
    BY ONLY <1>3, <1>4, <1>6, <2>1, <2>2, <2>3
<1>9. Weight(g, Work) = 1 /\ Weight(g, Units) = 1 /\ Weight(g, Demands) = 1
  BY <1>1, Weighs
<1>10. 1 <= 1 /\ 1 + w + 0 <= Collected + 1 /\ w + 0 + 1 <= Collected + 1
  BY <1>5
<1>. QED
  BY ONLY LagInv, <1>1, <1>2, <1>7, <1>8, <1>9, <1>10, ServerWrites

\* A damaged request is refused, which happens on a line with faults only.
LEMMA ReceiveDamagedLags == LagInv /\ ReceiveDamaged => LagInv'
<1>. SUFFICES ASSUME LagInv, ReceiveDamaged PROVE LagInv'
  OBVIOUS
<1>1. PICK g \in Tokens : g.kind = "damaged" /\ Receive(toServer, toServer', g)
  BY Received DEF ReceiveDamaged
<1>2. /\ UNCHANGED <<client, interrupts>> /\ len' = 0 /\ Kept' = Kept /\ executed' = executed
      /\ Number' = Number /\ Collected' = 0 /\ len' \in Nat /\ faults' = faults
      /\ Line' = Append(Flushed, Resend)
  BY Forgotten DEF ReceiveDamaged, Receives, Number, Flushed, Line, Kept
<1>3. /\ Line \in Seq(Tokens) /\ len \in Nat /\ faults' \in Nat /\ (faults' = 0 => faults = 0)
      /\ \A K : Whole(Line, K) \in Nat
  BY <1>2, ServerTyped
<1>4. PICK w \in {0, 1} : w = Collected
  BY ServerTyped
<1>5. /\ Wrote(Line, Line', Number')
      /\ Whole(Line', Answers) = Whole(Line, Answers) + 0
      /\ Whole(Line', Replies) = Whole(Line, Replies) + (0 + (w + 1))
      /\ Whole(Line', Refusals) = Whole(Line, Refusals) + (w + 1)
  <2>1. Resend \in Tokens /\ Resend.kind = "-" /\ Resend.kind \notin Answers
    BY Written DEF Answers
  <2>2. Weight(Resend, Answers) = 0 /\ Weight(Resend, Replies) = 1 /\ Weight(Resend, Refusals) = 1
    BY <2>1, Weighs
  <2>3. /\ Wrote(Line, Line', Number')
        /\ Whole(Line', Answers) = Whole(Line, Answers) + 0
        /\ Whole(Line', Replies) = Whole(Line, Replies) + w + 1
        /\ Whole(Line', Refusals) = Whole(Line, Refusals) + w + 1
    BY <1>2, <1>3, <1>4, <2>1, <2>2, FlushesAnd
  <2>. QED
    BY ONLY <1>3, <2>3
<1>6. Weight(g, Work) = 0 /\ Weight(g, Units) = 1 /\ Weight(g, Demands) = 0
  BY <1>1, Weighs
<1>7. faults' # 0
  <2>1. toServer # <<>> /\ toServer \in Seq(Tokens) /\ g = Head(toServer)
    BY <1>1, ServerTyped DEF Receive
  <2>2. 1 \in 1 .. Len(toServer) /\ toServer[1].kind = "damaged"
    BY <1>1, <2>1, CountTail
  <2>. QED
    BY <1>2, <2>2 DEF LagInv, Complete
<1>8. /\ 0 <= 0 /\ 0 + (w + 1) + 0 <= Collected + 1 /\ w + 1 \in Nat
      /\ faults' = 0 => (w + 1) + 0 + 0 <= Collected + 0
  BY <1>4, <1>7
<1>. QED
  BY ONLY LagInv, <1>1, <1>2, <1>3, <1>5, <1>6, <1>8, ServerWrites

\* A character outside of a packet is collected, and refused once.
LEMMA ReceiveStrayLags == LagInv /\ ReceiveStray => LagInv'
<1>. SUFFICES ASSUME LagInv, ReceiveStray PROVE LagInv'
  OBVIOUS
<1>1. PICK g \in Tokens : g.kind = "stray" /\ Receive(toServer, toServer', g)
  BY Received DEF ReceiveStray
<1>2. /\ UNCHANGED <<client, interrupts>> /\ Kept' = Kept /\ executed' = executed
      /\ Number' = Number /\ faults' = faults
  BY DEF ReceiveStray, Receives, Number, Kept
<1>3. /\ Line \in Seq(Tokens) /\ len \in Nat /\ faults' \in Nat /\ (faults' = 0 => faults = 0)
      /\ \A K : Whole(Line, K) \in Nat
  BY <1>2, ServerTyped
<1>4. PICK w \in {0, 1} : w = Collected
  BY ServerTyped
<1>5. Weight(g, Work) = 0 /\ Weight(g, Units) = 1 /\ Weight(g, Demands) = 1
  BY <1>1, Weighs
<1>6. CASE len > MAX_ERROR_SIZE - 2
  <2>1. Line' = Flushed /\ len' = 1 /\ len' \in Nat /\ Collected' = 1
    BY <1>6 DEF ReceiveStray, Receives, Flushed, Collected, Line
  <2>2. /\ Wrote(Line, Flushed, Number)
        /\ Whole(Flushed, Answers) = Whole(Line, Answers)
        /\ Whole(Flushed, Replies) = Whole(Line, Replies) + w
        /\ Whole(Flushed, Refusals) = Whole(Line, Refusals) + w
    BY <1>3, <1>4, Flushes
  <2>3. /\ Whole(Flushed, Answers) = Whole(Line, Answers) + 0
        /\ Whole(Flushed, Replies) = Whole(Line, Replies) + (0 + w)
    BY ONLY <1>3, <2>2
  <2>4. /\ Wrote(Line, Line', Number')
        /\ Whole(Line', Answers) = Whole(Line, Answers) + 0
        /\ Whole(Line', Replies) = Whole(Line, Replies) + (0 + w)
        /\ Whole(Line', Refusals) = Whole(Line, Refusals) + w
    BY <1>2, <2>1, <2>2, <2>3
  <2>5. 0 <= 0 /\ 0 + w + 1 <= Collected + 1 /\ w + 1 + 0 <= Collected + 1
    BY <1>4
  <2>. QED
    BY ONLY LagInv, <1>1, <1>2, <1>3, <1>5, <2>1, <2>4, <2>5, ServerWrites
<1>7. CASE ~ (len > MAX_ERROR_SIZE - 2)
  <2>1. Line' = Line /\ len' = len + 1 /\ len' \in Nat /\ Collected' = 1
    BY <1>3, <1>7 DEF ReceiveStray, Receives, Collected, Line
  <2>2. /\ Whole(Line, Answers) = Whole(Line, Answers) + 0
        /\ Whole(Line, Replies) = Whole(Line, Replies) + (0 + 0)
        /\ Whole(Line, Refusals) = Whole(Line, Refusals) + 0
    BY ONLY <1>3
  <2>3. /\ Wrote(Line, Line', Number')
        /\ Whole(Line', Answers) = Whole(Line, Answers) + 0
        /\ Whole(Line', Replies) = Whole(Line, Replies) + (0 + 0)
        /\ Whole(Line', Refusals) = Whole(Line, Refusals) + 0
    BY <1>2, <1>3, <2>1, <2>2, WroteMore
  <2>4. 0 <= 0 /\ 0 + 0 + 1 <= Collected + 1 /\ 0 + 1 + 0 <= Collected + 1
    BY <1>4
  <2>. QED
    BY ONLY LagInv, <1>1, <1>2, <1>3, <1>5, <2>1, <2>3, <2>4, ServerWrites
<1>. QED
  BY <1>6, <1>7

\* Channels whose tokens of the kinds K are at the same places, for the same
\* requests.
Alike(c1, c2, K) ==
    /\ c1 \in Seq(Tokens) /\ c2 \in Seq(Tokens) /\ Len(c1) = Len(c2) /\ Len(c1) \in Nat
    /\ \A i \in 1 .. Len(c1) : c2[i].of = c1[i].of /\ (c2[i].kind \in K <=> c1[i].kind \in K)
    /\ \A p \in 0 .. Len(c1) : Upto(c2, K, p) = Upto(c1, K, p)
    /\ Whole(c2, K) = Whole(c1, K)

\* A packet that comes damaged counts for as much as one that does not.
LEMMA DamageCounts ==
  ASSUME NEW c \in Seq(Tokens), NEW d \in Tokens, NEW e \in Tokens, d.of = e.of,
         NEW K, d.kind \in K <=> e.kind \in K
  PROVE  \A c1, c2 : c1 = Append(c, d) /\ c2 = Append(c, e) => Alike(c1, c2, K)
<1>. SUFFICES ASSUME NEW c1, NEW c2, c1 = Append(c, d), c2 = Append(c, e) PROVE Alike(c1, c2, K)
  OBVIOUS
<1>1. /\ c1 \in Seq(Tokens) /\ Len(c1) = Len(c) + 1 /\ c1[Len(c) + 1] = d
      /\ c2 \in Seq(Tokens) /\ Len(c2) = Len(c) + 1 /\ c2[Len(c) + 1] = e
      /\ \A i \in 1 .. Len(c) : c1[i] = c[i] /\ c2[i] = c[i]
      /\ Len(c) \in Nat
  BY CountAppend, LenProperties
<1>3. ASSUME NEW i \in 1 .. Len(c1)
      PROVE  c2[i].of = c1[i].of /\ (c2[i].kind \in K <=> c1[i].kind \in K)
  <2>1. i \in 1 .. Len(c) \/ i = Len(c) + 1
    BY <1>1
  <2>. QED
    BY <1>1, <2>1
<1>4. ASSUME NEW p \in 0 .. Len(c1) PROVE Upto(c2, K, p) = Upto(c1, K, p)
  <2>1. 1 .. p \subseteq 1 .. Len(c1)
    BY <1>1
  <2>2. {i \in 1 .. p : c2[i].kind \in K} = {i \in 1 .. p : c1[i].kind \in K}
    BY <1>3, <2>1
  <2>. QED
    BY <2>2 DEF Upto
<1>5. Len(c1) \in 0 .. Len(c1) /\ Len(c1) = Len(c2) /\ Len(c1) \in Nat
  BY <1>1
<1>. QED
  BY <1>1, <1>3, <1>4, <1>5 DEF Whole, Alike

\* The answer that was to come has come, damaged perhaps.
LEMMA HandlerEndsLags == LagInv /\ Typed /\ HandlerEnds => LagInv'
<1>. SUFFICES ASSUME LagInv, Typed, HandlerEnds PROVE LagInv'
  OBVIOUS
<1>1. /\ running \in Nat /\ Kept = running /\ Kept' = running /\ Number' = Number
      /\ Line = Append(toClient, Token("packet", running)) /\ Line' = toClient'
      /\ toClient \in Seq(Tokens) /\ UNCHANGED <<client, interrupts, toServer, len, executed>>
      /\ Awaited' = Awaited /\ Collected' = Collected
  BY DEF HandlerEnds, Typed, Kept, Number, Line, client, Awaited, Collected
<1>2. PICK e \in Tokens :
        /\ e.kind \in {"packet", "damaged"} /\ e.of = running /\ toClient' = Append(toClient, e)
        /\ faults' \in Nat /\ (faults' = 0 => faults = 0 /\ e.kind = "packet")
  <2>1. toClient \o <<>> = toClient
    BY <1>1, ConcatEmptySeq
  <2>2. Puts(toClient, toClient', running, faults, faults') /\ faults \in Nat
    BY <2>1, ServerTyped DEF HandlerEnds, Sent, Puts
  <2>. QED
    BY ONLY <1>1, <2>2, SentPacket
<1>3. PICK d \in Tokens : d.kind = "packet" /\ d.of = running /\ Line = Append(toClient, d)
  BY <1>1, Written
<1>4. d.kind \in Answers /\ e.kind \in Answers /\ d.of = e.of /\ Line' = Append(toClient, e)
  BY <1>1, <1>2, <1>3 DEF Answers
<1>5. ASSUME NEW K \in {Answers, Replies, Refusals} PROVE Alike(Line, Line', K)
  <2>1. d.kind \in K <=> e.kind \in K
    BY <1>2, <1>3, <1>5 DEF Answers, Replies, Refusals
  <2>. QED
    BY <1>1, <1>3, <1>4, <2>1, DamageCounts
<1>6. /\ asked' = asked /\ answers' = answers /\ phase' = phase /\ interrupts' = interrupts
      /\ toServer' = toServer /\ len' = len /\ executed' = executed
  BY <1>1 DEF client
<1>7. LinkTyped' /\ Ordered' /\ Complete' /\ AnswersLag'
  <2>1. LinkTyped'
    BY <1>1, <1>2, <1>5, <1>6 DEF LagInv, LinkTyped, Alike
  <2>2. Ordered' /\ AnswersLag'
    BY <1>1, <1>6 DEF LagInv, Ordered, AnswersLag
  <2>3. Complete'
    BY <1>1, <1>2, <1>6 DEF LagInv, Complete
  <2>. QED
    BY <2>1, <2>2, <2>3
<1>8. Bounded' /\ Excess'
  <2>1. Whole(Line', Replies) = Whole(Line, Replies) /\ Whole(Line', Refusals) = Whole(Line, Refusals)
    BY <1>5 DEF Alike
  <2>2. Bounded'
    BY <1>1, <1>6, <2>1 DEF LagInv, Bounded, Within
  <2>3. Excess'
    BY <1>1, <1>2, <1>6, <2>1 DEF LagInv, Excess, Within
  <2>. QED
    BY <2>2, <2>3
<1>9. AnswersLate'
  <2>1. AnswersLateIn(Line, asked, interrupts + Awaited)
    BY DEF LagInv, AnswersLate
  <2>2. ASSUME NEW p \in 1 .. Len(Line'), Line'[p].kind \in Answers
        PROVE  Late(asked, interrupts + Awaited, Upto(Line', Answers, p), Line'[p].of)
    <3>1. /\ p \in 1 .. Len(Line) /\ p \in 0 .. Len(Line) /\ Line[p].kind \in Answers
          /\ Line'[p].of = Line[p].of /\ Upto(Line', Answers, p) = Upto(Line, Answers, p)
      BY <1>5, <2>2 DEF Alike
    <3>. QED
      BY <2>1, <3>1 DEF AnswersLateIn
  <2>. QED
    BY <1>1, <1>6, <2>2 DEF AnswersLate, AnswersLateIn
<1>10. ComingLate'
  <2>1. Whole(Line', Answers) = Whole(Line, Answers)
    BY <1>5 DEF Alike
  <2>2. ComingLateIn(Line, toServer, asked, interrupts + Awaited, Number)
    BY DEF LagInv, ComingLate
  <2>3. ComingLateIn(Line', toServer, asked, interrupts + Awaited, Number)
    BY <2>1, <2>2 DEF ComingLateIn, ComingIn
  <2>. QED
    BY <1>1, <1>6, <2>3 DEF ComingLate
<1>. QED
  BY <1>7, <1>8, <1>9, <1>10 DEF LagInv

Flushing == toClient \o handle_error

\* The channel to the debugger holds tokens.
LEMMA TypedStep == LagInv /\ Typed /\ [Next]_vars => Typed'
<1>. SUFFICES ASSUME LagInv, Typed, [Next]_vars PROVE Typed'
  OBVIOUS
<1>1. toClient \in Seq(Tokens) /\ running \in Nat \cup {None}
  BY DEF Typed
<1>2. ASSUME NEW token, Reads(token) PROVE toClient' \in Seq(Tokens)
  BY <1>1, <1>2, CountTail DEF Reads
<1>3. CASE Ask \/ UserInterrupts \/ UNCHANGED vars
  BY <1>3 DEF Ask, UserInterrupts, vars, line, server, Typed
<1>4. CASE Client
  <2>1. running' = running /\ \E token : Reads(token)
    BY <1>4 DEF Client, Acknowledged, AskAgain, DropPacket, TakeAnswer, RefuseAnswer, Skip, server
  <2>. QED
    BY <1>1, <1>2, <2>1 DEF Typed
<1>5. handle_error \in Seq(Tokens) /\ <<Ack>> \in Seq(Tokens) /\ <<Resend>> \in Seq(Tokens)
  BY Written DEF handle_error
<1>6. \A c \in Seq(Tokens) : toClient \o c \in Seq(Tokens)
  BY <1>1, ConcatProperties
<1>7. Flushing \in Seq(Tokens) /\ Flushing \o <<Ack>> \in Seq(Tokens) /\ Flushing \o <<Resend>> \in Seq(Tokens)
  BY <1>5, <1>6, ConcatProperties DEF Flushing
<1>8. ASSUME NEW c \in Seq(Tokens), NEW n \in Nat, Puts(c, toClient', n, faults, faults')
      PROVE  toClient' \in Seq(Tokens)
  <2>1. \A e : c \o <<e>> = Append(c, e)
    OBVIOUS
  <2>. QED
    <3>1. \E e \in Tokens : toClient' = Append(c, e)
      BY <1>8, <2>1, Written DEF Puts
    <3>2. \A e \in Tokens : Append(c, e) \in Seq(Tokens)
      BY CountAppend
    <3>. QED
      BY ONLY <3>1, <3>2
<1>9. CASE ReceiveAck \/ ReceiveStray
  BY <1>1, <1>7, <1>9 DEF ReceiveAck, ReceiveStray, Typed, Flushing
<1>10. CASE ReceiveDamaged
  BY <1>1, <1>7, <1>10 DEF ReceiveDamaged, Typed, Flushing
<1>11. CASE ReceivePacket
  <2>1. Head(toServer).of \in Nat
    <3>1. PICK g \in Tokens : g = Head(toServer)
      BY <1>11, Received DEF ReceivePacket
    <3>. QED
      BY <3>1 DEF Tokens
  <2>. QED
    BY <1>7, <1>11, <2>1 DEF ReceivePacket, Typed, Flushing
<1>12. CASE ReceiveResend
  <2>1. running' = running
    BY <1>12 DEF ReceiveResend
  <2>2. CASE packet = None
    BY <1>1, <1>7, <1>12, <2>1, <2>2 DEF ReceiveResend, Typed, Flushing
  <2>3. CASE packet # None
    <3>1. Puts(Flushing, toClient', packet, faults, faults')
      BY <1>12, <2>3 DEF ReceiveResend, Sent, Puts, Flushing
    <3>2. packet \in Nat
      BY <1>12, <2>3, ServerTyped DEF ReceiveResend, Receives, Kept
    <3>. QED
      BY <1>1, <1>7, <1>8, <2>1, <3>1, <3>2 DEF Typed
  <2>. QED
    BY <2>2, <2>3
<1>13. CASE HandlerEnds
  <2>1. toClient \o <<>> = toClient
    BY <1>1, ConcatEmptySeq
  <2>2. Puts(toClient, toClient', running, faults, faults') /\ running \in Nat /\ running' = None
    BY <1>1, <1>13, <2>1 DEF HandlerEnds, Sent, Puts
  <2>. QED
    BY <1>1, <1>8, <2>2 DEF Typed
<1>. QED
  BY <1>3, <1>4, <1>9, <1>10, <1>11, <1>12, <1>13 DEF Next, Server

\* The invariant gives the bounds on what is executed and answered in excess.
LEMMA LagInvExcess == LagInv => ExcessPaidByInterrupts
<1>. SUFFICES ASSUME LagInv PROVE ExcessPaidByInterrupts
  OBVIOUS
<1>1. ASSUME faults = 0 PROVE Len(executed) <= asked + interrupts
  <2>1. Within(Refusals, Demands, Line, toServer, Collected + Len(executed), asked + interrupts)
    BY <1>1 DEF LagInv, Excess
  <2>2. /\ Whole(Line, Refusals) \in Nat /\ Whole(toServer, Demands) \in Nat /\ Collected \in Nat
        /\ Len(executed) \in Nat /\ asked \in Nat /\ interrupts \in Nat
    BY ServerTyped, ClientTyped, LenProperties, UptoNat DEF Whole
  <2>. QED
    BY ONLY <2>1, <2>2 DEF Within
<1>. QED
  BY <1>1 DEF ExcessPaidByInterrupts, LagInv, Excess, AnswersLag

\* Every step of the link keeps it.
LEMMA NextLag == LagInv /\ Typed /\ [Next]_vars => LagInv'
<1>. SUFFICES ASSUME LagInv, Typed, [Next]_vars PROVE LagInv'
  OBVIOUS
<1>1. CASE Client
  BY <1>1, AcknowledgedLags, AskAgainLags, DropPacketLags, TakeAnswerLags, RefuseAnswerLags,
     SkipLags DEF Client
<1>2. CASE Server
  BY <1>2, ReceiveAckLags, ReceiveResendLags, ReceivePacketLags, ReceiveDamagedLags,
     ReceiveStrayLags DEF Server
<1>3. CASE UNCHANGED vars
  BY <1>3 DEF vars, client, line, server, LagInv, LinkTyped, Ordered, Complete, Bounded, AnswersLate,
     ComingLate, Excess, AnswersLag, Awaited, Collected, Number, Line, Kept
<1>. QED
  BY <1>1, <1>2, <1>3, AskLags, UserInterruptsLags, HandlerEndsLags DEF Next

(* Whatever is damaged and however often the user interrupts: without faults, *)
(* the executions in excess never outnumber the interrupts and no request is  *)
(* left out; with them too, the answers that are taken lag by no more than    *)
(* the interrupts.                                                            *)
THEOREM LinkExcessIsPaid == Spec => []ExcessPaidByInterrupts
BY InitLag, NextLag, TypedStep, LagInvExcess, PTL DEF Spec

=============================================================================
