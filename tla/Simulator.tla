----------------------------- MODULE Simulator -----------------------------
(* The threads of the simulator (arm_simulator.c) and what they share under  *)
(* one mutex: main, the thread that answers the debugger (gdb_protocol.c)    *)
(* and the one that raises the exceptions send_irq asks for (send_irq.c).    *)
(* An action is a call that may block, or what a thread does between two of  *)
(* them; a handler of the debugger runs under the mutex, and the continue    *)
(* command is a loop there, of a look at the next instruction and a step.    *)
(* The guest is its pc and the kind of instruction at each address: what the *)
(* registers hold is the subject of Processor.                               *)
EXTENDS Naturals

CONSTANTS Addresses,    \* what the pc may hold, 0 among them
          Mapped,       \* the addresses that memory has
          Requests,     \* the packets the debugger sends
          Senders       \* the send_irq commands

\* "read" stands for the packets g, m, p, q, H and ?; "write_register" for P and G.
Packets == {"cont", "step", "write_register", "write_memory", "read", "kill", "unsupported"}

ASSUME SimulatorAssumption == /\ 0 \in Addresses /\ Mapped \subseteq Addresses
                              /\ Requests \subseteq Packets

\* An instruction: any ("plain"), the one gdb plants at a breakpoint, an exit.
Kinds == {"plain", "break", "exit"}

VARIABLES main,         \* where main is
          gdb,          \* where gdb_listener is
          irq,          \* where irq_listener is
          lock,         \* who holds shared.lock
          over,         \* whether and how the process ended
          live,         \* what main has not destroyed
          client,       \* the debugger: "idle", "connected" or "closed"
          shut,         \* kill_request shut the connection down
          command,      \* the packet in analysis
          pc,           \* of the guest
          program,      \* the instructions in memory
          peeked,       \* what cont read of the next instruction
          sender,       \* what each send_irq did
          unread,       \* those whose byte no one read
          serving,      \* the connection irq_listener accepted
          raised,       \* the senders whose exception was raised
          dangling      \* an exception was raised on a destroyed core

threads == <<main, gdb, irq, lock, over, live>>
debugger == <<client, shut, command>>
guest == <<pc, program, peeked>>
senders == <<sender, unread, serving, raised, dangling>>
svars == <<threads, debugger, guest, senders>>

None == "none"

TypeOK ==
  /\ main \in {"join", "free_arm", "free_mem", "return"}
  /\ gdb \in {"accept", "read", "ack", "lock", "peek", "execute", "handle", "answer",
              "unlock", "close", "done"}
  /\ irq \in {"accept", "read", "lock", "raise", "unlock"}
  /\ lock \in {None, "gdb", "irq"}
  /\ over \in {"running", "returned", "exited", "broken", "aborted"}
  /\ live \subseteq {"arm", "mem"}
  /\ client \in {"idle", "connected", "closed"}
  /\ shut \in BOOLEAN
  /\ command \in Requests \union {None}
  /\ pc \in Addresses
  /\ program \in [Mapped -> Kinds]
  /\ peeked \in Kinds \union {None}
  /\ sender \in [Senders -> {"idle", "connected", "sent", "closed"}]
  /\ unread \subseteq Senders
  /\ serving \in Senders \union {None}
  /\ raised \subseteq Senders
  /\ dangling \in BOOLEAN

\* main has created memory and core, the mutex and the two threads.
Init == /\ main = "join" /\ gdb = "accept" /\ irq = "accept"
        /\ lock = None /\ over = "running" /\ live = {"arm", "mem"}
        /\ client = "idle" /\ shut = FALSE /\ command = None
        /\ pc = 0 /\ program \in [Mapped -> Kinds] /\ peeked = None
        /\ sender = [s \in Senders |-> "idle"] /\ unread = {} /\ serving = None
        /\ raised = {} /\ dangling = FALSE

Running == over = "running"

-----------------------------------------------------------------------------
\* The debugger connects, and closes its connection at any time.
ClientConnects == /\ Running /\ client = "idle"
                  /\ client' = "connected"
                  /\ UNCHANGED <<threads, shut, command, guest, senders>>

ClientCloses == /\ Running /\ client = "connected"
                /\ client' = "closed"
                /\ UNCHANGED <<threads, shut, command, guest, senders>>

Accept == /\ Running /\ gdb = "accept" /\ client # "idle"
          /\ gdb' = "read"
          /\ UNCHANGED <<main, irq, lock, over, live, debugger, guest, senders>>

\* A packet the debugger sent while it was connected.
ReadPacket == /\ Running /\ gdb = "read" /\ client = "connected"
              /\ command' \in Requests
              /\ gdb' = "ack"
              /\ UNCHANGED <<main, irq, lock, over, live, client, shut, guest, senders>>

ReadEnd == /\ Running /\ gdb = "read" /\ client = "closed"
           /\ gdb' = "close"
           /\ UNCHANGED <<main, irq, lock, over, live, debugger, guest, senders>>

\* Rio_writen: the process ends where the connection was shut down, and may
\* where the debugger closed it.
Written == ~shut
Broken == shut \/ client = "closed"

WriteTo(next) == \/ Written /\ gdb' = next /\ UNCHANGED over
                 \/ Broken /\ over' = "broken" /\ UNCHANGED gdb

\* The acknowledgement, and the empty answer to a packet without a handler.
Acknowledge ==
  /\ Running /\ gdb = "ack"
  /\ WriteTo(IF command = "unsupported" THEN "read" ELSE "lock")
  /\ UNCHANGED <<main, irq, lock, live, debugger, guest, senders>>

Lock == /\ Running /\ gdb = "lock" /\ lock = None
        /\ lock' = "gdb"
        /\ gdb' = IF command = "cont" THEN "peek" ELSE "handle"
        /\ UNCHANGED <<main, irq, over, live, debugger, guest, senders>>

\* cont's look at the next instruction: out of memory, the variable keeps what
\* the loop read before, which at first is anything.
Peek ==
  /\ Running /\ gdb = "peek"
  /\ peeked' \in IF pc \in Mapped THEN {program[pc]}
                 ELSE IF peeked = None THEN Kinds ELSE {peeked}
  /\ gdb' = IF peeked' = "break" THEN "answer" ELSE "execute"
  /\ UNCHANGED <<main, irq, lock, over, live, debugger, pc, program, senders>>

\* arm_step: the program goes anywhere and may store an instruction, or exits.
\* What it fetches out of memory is anything.
ArmStep(next) ==
  \E kind \in IF pc \in Mapped THEN {program[pc]} ELSE Kinds :
    IF kind = "exit"
    THEN over' = "exited" /\ UNCHANGED <<gdb, pc, program>>
    ELSE /\ pc' \in Addresses
         /\ \/ UNCHANGED program
            \/ \E a \in Mapped, k \in Kinds : program' = [program EXCEPT ![a] = k]
         /\ gdb' = next
         /\ UNCHANGED over

\* Mutant: cont looks at the first instruction only.
Execute_unseen == /\ Running /\ gdb = "execute"
                  /\ ArmStep("execute")
                  /\ UNCHANGED <<main, irq, lock, live, debugger, peeked, senders>>

Execute == /\ Running /\ gdb = "execute"
           /\ ArmStep("peek")
           /\ UNCHANGED <<main, irq, lock, live, debugger, peeked, senders>>

Step == /\ Running /\ gdb = "handle" /\ command = "step"
        /\ ArmStep("answer")
        /\ UNCHANGED <<main, irq, lock, live, debugger, peeked, senders>>

WriteRegister ==
  /\ Running /\ gdb = "handle" /\ command = "write_register"
  /\ pc' \in Addresses
  /\ gdb' = "answer"
  /\ UNCHANGED <<main, irq, lock, over, live, debugger, program, peeked, senders>>

\* p or P names one of the other registers of gdb, above 15: the assertion fails.
Abort == /\ Running /\ gdb = "handle" /\ command \in {"read", "write_register"}
         /\ over' = "aborted"
         /\ UNCHANGED <<main, gdb, irq, lock, live, debugger, guest, senders>>

\* Among others, how gdb plants and removes its breakpoints.
WriteMemory ==
  /\ Running /\ gdb = "handle" /\ command = "write_memory"
  /\ \E a \in Mapped, k \in Kinds : program' = [program EXCEPT ![a] = k]
  /\ gdb' = "answer"
  /\ UNCHANGED <<main, irq, lock, over, live, debugger, pc, peeked, senders>>

ReadState == /\ Running /\ gdb = "handle" /\ command = "read"
             /\ gdb' = "answer"
             /\ UNCHANGED <<main, irq, lock, over, live, debugger, guest, senders>>

\* No answer: the writing side of the connection is shut down.
Kill == /\ Running /\ gdb = "handle" /\ command = "kill"
        /\ shut' = TRUE
        /\ gdb' = "unlock"
        /\ UNCHANGED <<main, irq, lock, over, live, client, command, guest, senders>>

Answer == /\ Running /\ gdb = "answer"
          /\ WriteTo("unlock")
          /\ UNCHANGED <<main, irq, lock, live, debugger, guest, senders>>

\* Mutant: a handler that sends no answer returns without unlocking.
Unlock_answered ==
  /\ Running /\ gdb = "unlock"
  /\ lock' = IF command = "kill" THEN lock ELSE None
  /\ gdb' = "read" /\ command' = None /\ peeked' = None
  /\ UNCHANGED <<main, irq, over, live, client, shut, pc, program, senders>>

Unlock == /\ Running /\ gdb = "unlock"
          /\ lock' = None
          /\ gdb' = "read" /\ command' = None /\ peeked' = None
          /\ UNCHANGED <<main, irq, over, live, client, shut, pc, program, senders>>

Close == /\ Running /\ gdb = "close"
         /\ gdb' = "done"
         /\ UNCHANGED <<main, irq, lock, over, live, debugger, guest, senders>>

-----------------------------------------------------------------------------
\* send_irq: connect, send one byte, close.
SenderConnects(s) == /\ Running /\ sender[s] = "idle"
                     /\ sender' = [sender EXCEPT ![s] = "connected"]
                     /\ UNCHANGED <<threads, debugger, guest, unread, serving, raised, dangling>>

SenderSends(s) == /\ Running /\ sender[s] = "connected"
                  /\ sender' = [sender EXCEPT ![s] = "sent"]
                  /\ unread' = unread \union {s}
                  /\ UNCHANGED <<threads, debugger, guest, serving, raised, dangling>>

SenderCloses(s) == /\ Running /\ sender[s] = "sent"
                   /\ sender' = [sender EXCEPT ![s] = "closed"]
                   /\ UNCHANGED <<threads, debugger, guest, unread, serving, raised, dangling>>

\* A connection that was not served yet: its byte is still to come or to read.
AcceptIrq(s) ==
  /\ Running /\ irq = "accept"
  /\ sender[s] = "connected" \/ s \in unread
  /\ serving' = s
  /\ irq' = "read"
  /\ UNCHANGED <<main, gdb, lock, over, live, debugger, guest, sender, unread, raised, dangling>>

ReadIrq == /\ Running /\ irq = "read" /\ serving \in unread
           /\ unread' = unread \ {serving}
           /\ irq' = "lock"
           /\ UNCHANGED <<main, gdb, lock, over, live, debugger, guest, sender, serving,
                          raised, dangling>>

\* Mutant: the end of the connection read as one more byte to wait for.
EndIrq_again == /\ Running /\ irq = "read" /\ serving \notin unread
                /\ sender[serving] = "closed"
                /\ irq' = "read"
                /\ UNCHANGED <<main, gdb, lock, over, live, debugger, guest, senders>>

EndIrq == /\ Running /\ irq = "read" /\ serving \notin unread
          /\ sender[serving] = "closed"
          /\ irq' = "accept" /\ serving' = None
          /\ UNCHANGED <<main, gdb, lock, over, live, debugger, guest, sender, unread,
                         raised, dangling>>

\* Mutant: the mutex is not waited for.
LockIrq_free == /\ Running /\ irq = "lock"
                /\ lock' = "irq"
                /\ irq' = "raise"
                /\ UNCHANGED <<main, gdb, over, live, debugger, guest, senders>>

\* Mutant: the byte is dropped where the mutex is taken.
LockIrq_try == /\ Running /\ irq = "lock"
               /\ IF lock = None THEN lock' = "irq" /\ irq' = "raise"
                  ELSE irq' = "read" /\ UNCHANGED lock
               /\ UNCHANGED <<main, gdb, over, live, debugger, guest, senders>>

LockIrq == /\ Running /\ irq = "lock" /\ lock = None
           /\ lock' = "irq"
           /\ irq' = "raise"
           /\ UNCHANGED <<main, gdb, over, live, debugger, guest, senders>>

\* Mutant: the exception moves past the instruction it interrupts.
RaiseIrq_past ==
  /\ Running /\ irq = "raise"
  /\ irq' = "unlock"
  /\ IF "arm" \in live
     THEN pc' \in {pc, pc + 1} /\ raised' = raised \union {serving} /\ UNCHANGED dangling
     ELSE dangling' = TRUE /\ UNCHANGED <<pc, raised>>
  /\ UNCHANGED <<main, gdb, lock, over, live, debugger, program, peeked, sender, unread,
                 serving>>

\* arm_exception: the pc stays or moves to 0 (see arm_exception in Processor).
\* On a destroyed core the behaviour is undefined.
RaiseIrq ==
  /\ Running /\ irq = "raise"
  /\ irq' = "unlock"
  /\ IF "arm" \in live
     THEN pc' \in {pc, 0} /\ raised' = raised \union {serving} /\ UNCHANGED dangling
     ELSE dangling' = TRUE /\ UNCHANGED <<pc, raised>>
  /\ UNCHANGED <<main, gdb, lock, over, live, debugger, program, peeked, sender, unread,
                 serving>>

\* Mutant: the mutex is never unlocked.
UnlockIrq_kept == /\ Running /\ irq = "unlock"
                  /\ irq' = "read"
                  /\ UNCHANGED <<main, gdb, lock, over, live, debugger, guest, senders>>

UnlockIrq == /\ Running /\ irq = "unlock"
             /\ lock' = None
             /\ irq' = "read"
             /\ UNCHANGED <<main, gdb, over, live, debugger, guest, senders>>

-----------------------------------------------------------------------------
\* Mutant: main does not wait for the debugger's thread.
Join_early == /\ Running /\ main = "join"
              /\ main' = "free_arm"
              /\ UNCHANGED <<gdb, irq, lock, over, live, debugger, guest, senders>>

Join == /\ Running /\ main = "join" /\ gdb = "done"
        /\ main' = "free_arm"
        /\ UNCHANGED <<gdb, irq, lock, over, live, debugger, guest, senders>>

\* The mutex is not taken.
FreeArm == /\ Running /\ main = "free_arm"
           /\ live' = live \ {"arm"}
           /\ main' = "free_mem"
           /\ UNCHANGED <<gdb, irq, lock, over, debugger, guest, senders>>

FreeMem == /\ Running /\ main = "free_mem"
           /\ live' = live \ {"mem"}
           /\ main' = "return"
           /\ UNCHANGED <<gdb, irq, lock, over, debugger, guest, senders>>

Return == /\ Running /\ main = "return"
          /\ over' = "returned"
          /\ UNCHANGED <<main, gdb, irq, lock, live, debugger, guest, senders>>

\* The process is over.
Over == ~Running /\ UNCHANGED svars

Main == Join \/ FreeArm \/ FreeMem \/ Return

\* What the thread does of itself, and its reads, which the debugger's packets end.
Serve == \/ Accept \/ ReadEnd \/ Acknowledge \/ Lock \/ Peek \/ Execute \/ Step
         \/ WriteRegister \/ Abort \/ WriteMemory \/ ReadState \/ Kill \/ Answer
         \/ Unlock \/ Close

GdbThread == ReadPacket \/ Serve

IrqThread == \/ \E s \in Senders : AcceptIrq(s)
             \/ ReadIrq \/ EndIrq \/ LockIrq \/ RaiseIrq \/ UnlockIrq

Sender(s) == SenderConnects(s) \/ SenderSends(s) \/ SenderCloses(s)

Next == \/ Main \/ GdbThread \/ IrqThread \/ ClientConnects \/ ClientCloses
        \/ \E s \in Senders : Sender(s)
        \/ Over

Spec == Init /\ [][Next]_svars

\* A thread that can move does: what they wait for is a lock, a connection, or
\* bytes.  send_irq, once connected, sends and closes.  Of the debugger and the
\* guest nothing is assumed: a connected debugger may never send another packet.
Progress == /\ WF_svars(Main) /\ WF_svars(Serve) /\ WF_svars(IrqThread)
            /\ \A s \in Senders : WF_svars(SenderSends(s)) /\ WF_svars(SenderCloses(s))

WeakSpec == Spec /\ Progress

\* The same with a mutex that serves whoever waits for it often enough.
FairSpec == WeakSpec /\ SF_svars(LockIrq) /\ SF_svars(Lock)

-----------------------------------------------------------------------------
\* What runs under the mutex.
Handling == {"peek", "execute", "handle", "answer", "unlock"}

\* An exception is never raised while a handler of the debugger runs, so that it
\* falls between two instructions and not between two packets of registers.
Exclusion == ~(gdb \in Handling /\ irq \in {"raise", "unlock"})

\* What cont executes is what it looked at, and no breakpoint: nothing moves the
\* pc or the memory between the two.  Out of memory nothing is known.
PeekedIsExecuted ==
  gdb = "execute" /\ pc \in Mapped => program[pc] = peeked /\ peeked # "break"

\* The debugger's handlers use a core and a memory that exist.
DebuggerUsesLive == gdb # "done" => live = {"arm", "mem"}

\* The byte of a send_irq is raised at most while the thread serves its
\* connection, and never lost before: read, it is about to be raised.
NoByteLost ==
  \A s \in Senders : sender[s] \in {"sent", "closed"} =>
    \/ s \in unread \union raised
    \/ serving = s /\ irq \in {"lock", "raise"}
    \/ dangling

\* A handler gives the mutex back, whatever its path, answer or none, unless the
\* guest runs forever under cont: the debugger's thread never keeps it while it
\* waits for a packet, and never waits for itself.
HandlersRelease ==
  []<>(gdb \notin {"peek", "execute"}) =>
    (lock = "gdb" ~> lock # "gdb" \/ ~Running)

\* Once the debugger's thread is out of the mutex for good, as when its debugger
\* stays at its prompt, every byte sent is raised, unless the simulation ends.
DeliveredOnceFree ==
  <>[](lock # "gdb") =>
    \A s \in Senders :
      sender[s] = "sent" ~> s \in raised \/ ~Running \/ main # "join"

\* A simulator whose debugger closed its connection ends, unless the guest runs
\* forever in its last continue.
EndsWithDebugger ==
  []<>(gdb \notin {"peek", "execute"}) => (client = "closed" ~> ~Running)

\* send_irq sends an exception to a running simulator (README:64): it is raised.
InterruptsReachGuest ==
  \A s \in Senders : sender[s] = "sent" ~> s \in raised \/ ~Running \/ main # "join"
=============================================================================
