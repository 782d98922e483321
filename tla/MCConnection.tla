---------------------------- MODULE MCConnection ----------------------------
(* For TLC: the parts of the connection with the debugger, each on a small    *)
(* instance.  A behaviour is one of the part chosen first, while the variables *)
(* of the others keep one of their initial values.                            *)
EXTENDS Connection

VARIABLE part                                          \* the part that runs

scanner == <<buf, size, status, bp, cp, dfa, pc, token>>
packets == <<host, target, memory, registers, area, request, sent, aborted>>
sockets == <<gdb, irq, lock, open, over, sender, queue, serving, byteRead, connected, raised>>

\* Packets with a content, NULs in it too, read in larger pieces.
Framed == INSTANCE Scanner WITH
    Chars <- {0, 3, 4, 7}, BufSize <- 2, ReadSize <- 3, MaxText <- 5

ASSUME FramedAssumption == Framed!ScannerAssumption

\* Words on which + 4 and - 4 carry, and numbers of registers that the two
\* commands read alike ("1") and apart ("a", "f", "13", "15", "19", "1a").
MCWords == {<<10, 255, 255, 255>>, <<255, 255, 255, 255>>, <<0, 125, 171, 10>>}
MCNames == {<<1>>, <<10>>, <<15>>, <<1, 3>>, <<1, 5>>, <<1, 9>>, <<1, 10>>}

\* The accesses to memory are those of one host, with one word in the registers;
\* those to the register, on hosts and targets of both orders, leave memory alone.
MCInit ==
  /\ part \in {"link", "tokens", "framed", "registers", "memory", "sockets"}
  /\ Init
  /\ Scan!Init
  /\ Packets!Init
  /\ part # "registers" =>
       host = "little" /\ target = "little" /\ registers[0] = CHOOSE w \in Words : TRUE
  /\ Sockets!Init

MCNext ==
  \/ /\ part = "link" /\ Next
     /\ UNCHANGED <<part, scanner, packets, sockets>>
  \/ /\ part = "tokens" /\ Scan!Next
     /\ UNCHANGED <<part, vars, packets, sockets>>
  \/ /\ part = "framed" /\ Framed!Next
     /\ UNCHANGED <<part, vars, packets, sockets>>
  \/ /\ part = "registers" /\ ~ aborted /\ (Packets!read_register \/ Packets!write_register)
     /\ UNCHANGED <<part, vars, scanner, sockets>>
  \/ /\ part = "memory" /\ ~ aborted /\ (Packets!read_memory \/ Packets!write_memory_binary)
     /\ UNCHANGED <<part, vars, scanner, sockets>>
  \/ /\ part = "sockets" /\ Sockets!Next
     /\ UNCHANGED <<part, vars, scanner, packets>>

MCSpec == MCInit /\ [][MCNext]_<<part, vars, scanner, packets, sockets>>

\* The fairness of each part, while it runs; the steps of the scanner that are
\* fair are those of both its instances.
MCFairSpec ==
  /\ MCSpec
  /\ WF_vars(part = "link" /\ Client) /\ WF_vars(part = "link" /\ Server)
  /\ WF_scanner(/\ part \in {"tokens", "framed"}
                /\ Scan!Advance \/ Scan!RunRule \/ Scan!NulCharacter \/ Scan!EndOfBuffer)
  /\ WF_scanner(/\ part \in {"tokens", "framed"} /\ status = "EOF_PENDING"
                /\ Scan!EndOfFile \/ Scan!LastMatch)
  /\ WF_sockets(part = "sockets" /\ Sockets!CreateGdb)
  /\ WF_sockets(part = "sockets" /\ Sockets!IrqThread)
  /\ \A s \in Senders : WF_sockets(part = "sockets" /\ Sockets!Write(s))
=============================================================================
