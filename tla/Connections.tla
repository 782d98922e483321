----------------------------- MODULE Connections ----------------------------
(* The sockets of the simulator (arm_simulator.c) and of the send_irq         *)
(* commands, while the debugger is connected: the two threads create their    *)
(* servers, the interrupts' thread serves one connection at a time and shuts   *)
(* it down without closing it, so that its descriptor stays in use; a call     *)
(* that fails ends the process (csapp.c).  A handler of the debugger's thread   *)
(* holds the mutex, for as long as it runs.  What an interrupt does is the      *)
(* subject of Simulator.                                                        *)
EXTENDS Naturals, Sequences, SequencesExt

CONSTANTS Senders,   \* the send_irq commands
          Limit,     \* the descriptors the process may open
          Backlog,   \* the connections the system accepts before Accept takes them
          None

(* What the constants are; the modules that give them their values assume it. *)
ConnectionsAssumption ==
    /\ Limit \in Nat
    /\ Backlog \in Nat \ {0}
    /\ None \notin Senders

VARIABLES gdb,       \* where gdb_listener is
          irq,       \* where irq_listener is
          lock,      \* who holds shared.lock
          open,      \* the number of descriptors in use
          over,      \* the process ended
          sender,    \* what each send_irq did
          queue,     \* the connections Accept has not taken
          serving,   \* the connection the interrupts' thread reads
          byteRead,  \* whether its byte was read
          connected, \* the senders in the order of their connections
          raised     \* the senders whose exception was raised, in order

vars == <<gdb, irq, lock, open, over, sender, queue, serving, byteRead, connected, raised>>

Init ==
    /\ gdb = "create" /\ irq = "create"
    /\ lock = None /\ open = 0 /\ over = FALSE
    /\ sender = [s \in Senders |-> "idle"]
    /\ queue = <<>> /\ serving = None /\ byteRead = FALSE
    /\ connected = <<>> /\ raised = <<>>

(* A wrapper that needs a descriptor: unix_error ends the process without one. *)
Descriptor(next) ==
    IF open < Limit THEN open' = open + 1 /\ next /\ UNCHANGED over
    ELSE over' = TRUE /\ UNCHANGED <<open, gdb, irq, queue, serving, byteRead>>

-----------------------------------------------------------------------------
(* create_server: the descriptor of a socket bound to a port of its own. *)
CreateGdb ==
    /\ ~over /\ gdb = "create"
    /\ Descriptor(gdb' = "accept" /\ UNCHANGED <<irq, queue, serving, byteRead>>)
    /\ UNCHANGED <<lock, sender, connected, raised>>

CreateIrq ==
    /\ ~over /\ irq = "create"
    /\ Descriptor(irq' = "accept" /\ UNCHANGED <<gdb, queue, serving, byteRead>>)
    /\ UNCHANGED <<lock, sender, connected, raised>>

(* The debugger connects, at any time. *)
AcceptGdb ==
    /\ ~over /\ gdb = "accept"
    /\ Descriptor(gdb' = "serve" /\ UNCHANGED <<irq, queue, serving, byteRead>>)
    /\ UNCHANGED <<lock, sender, connected, raised>>

(* A handler of the debugger's thread, which may never unlock the mutex. *)
Lock ==
    /\ ~over /\ gdb = "serve" /\ lock = None
    /\ lock' = "gdb"
    /\ UNCHANGED <<gdb, irq, open, over, sender, queue, serving, byteRead, connected, raised>>

Unlock ==
    /\ ~over /\ lock = "gdb"
    /\ lock' = None
    /\ UNCHANGED <<gdb, irq, open, over, sender, queue, serving, byteRead, connected, raised>>

AcceptIrq ==
    /\ ~over /\ irq = "accept"
    /\ queue # <<>>
    /\ Descriptor(/\ serving' = Head(queue)
                  /\ queue' = Tail(queue)
                  /\ byteRead' = FALSE
                  /\ irq' = "read"
                  /\ UNCHANGED gdb)
    /\ UNCHANGED <<lock, sender, connected, raised>>

(* Read(connection, &irq, 1) > 0 *)
ReadByte ==
    /\ ~over /\ irq = "read"
    /\ sender[serving] \in {"sent", "closed"} /\ ~byteRead
    /\ byteRead' = TRUE
    /\ irq' = "lock"
    /\ UNCHANGED <<gdb, lock, open, over, sender, queue, serving, connected, raised>>

(* pthread_mutex_lock, which waits for the end of the debugger's handler. *)
LockIrq ==
    /\ ~over /\ irq = "lock"
    /\ lock = None
    /\ lock' = "irq" /\ irq' = "raise"
    /\ UNCHANGED <<gdb, open, over, sender, queue, serving, byteRead, connected, raised>>

Raise ==
    /\ ~over /\ irq = "raise"
    /\ raised' = Append(raised, serving)
    /\ lock' = None /\ irq' = "read"
    /\ UNCHANGED <<gdb, open, over, sender, queue, serving, byteRead, connected>>

\* Mutant: the end of the connection is not noticed.
EndIrq_again ==
    /\ ~over /\ irq = "read"
    /\ sender[serving] = "closed" /\ byteRead
    /\ irq' = "read"
    /\ UNCHANGED <<gdb, lock, open, over, sender, queue, serving, byteRead, connected, raised>>

(* The end of the connection: shutdown, which keeps the descriptor. *)
EndIrq ==
    /\ ~over /\ irq = "read"
    /\ sender[serving] = "closed" /\ byteRead
    /\ irq' = "accept"
    /\ serving' = None /\ byteRead' = FALSE
    /\ UNCHANGED <<gdb, lock, open, over, sender, queue, connected, raised>>

IrqThread == CreateIrq \/ AcceptIrq \/ ReadByte \/ LockIrq \/ Raise \/ EndIrq

(* send_irq: Connect, which waits for a place, Write, shutdown and close. *)
Connect(s) ==
    /\ ~over /\ irq # "create"
    /\ sender[s] = "idle"
    /\ Len(queue) < Backlog
    /\ sender' = [sender EXCEPT ![s] = "connected"]
    /\ queue' = Append(queue, s)
    /\ connected' = Append(connected, s)
    /\ UNCHANGED <<gdb, irq, lock, open, over, serving, byteRead, raised>>

Write(s) ==
    /\ sender[s] = "connected"
    /\ sender' = [sender EXCEPT ![s] = "sent"]
    /\ UNCHANGED <<gdb, irq, lock, open, over, queue, serving, byteRead, connected, raised>>

Close(s) ==
    /\ sender[s] = "sent"
    /\ sender' = [sender EXCEPT ![s] = "closed"]
    /\ UNCHANGED <<gdb, irq, lock, open, over, queue, serving, byteRead, connected, raised>>

Sender(s) == Connect(s) \/ Write(s) \/ Close(s)

Next ==
    \/ CreateGdb \/ AcceptGdb \/ Lock \/ Unlock
    \/ IrqThread
    \/ \E s \in Senders : Sender(s)

Spec == Init /\ [][Next]_vars

(* The threads run, and a send_irq that has connected sends its byte; nothing *)
(* is assumed of the handlers that hold the mutex, nor of the end of a sender. *)
FairSpec ==
    /\ Spec
    /\ WF_vars(CreateGdb) /\ WF_vars(IrqThread)
    /\ \A s \in Senders : WF_vars(Write(s))

-----------------------------------------------------------------------------
(* The interrupts' thread gets the mutex each time it waits for it. *)
GetsMutex == []<>(over \/ irq # "lock")

(* A send_irq that has sent its byte closes its connection. *)
SendersClose == []<>(over \/ \A s \in Senders : sender[s] # "sent")

(* Provided that the thread gets the mutex and that the senders close, the   *)
(* exception of a send_irq that has connected is raised, once and in the     *)
(* order of the connections, unless the process ends for want of descriptors, *)
(* which it does only after as many exceptions as the limit leaves beside the *)
(* descriptors of the two servers and of the debugger (irq_listener).          *)
ConnectedIsRaised ==
    GetsMutex /\ SendersClose =>
        \A s \in Senders :
            sender[s] # "idle" ~>
                \/ over /\ Len(raised) + 3 >= Limit
                \/ IsPrefix(raised, connected) /\ \E i \in 1 .. Len(raised) : raised[i] = s

=============================================================================
