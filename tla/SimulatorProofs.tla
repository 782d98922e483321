-------------------------- MODULE SimulatorProofs --------------------------
(* Proofs about Simulator: the mutex separates the handlers of the debugger  *)
(* from the exceptions, and main outlives the debugger's thread.             *)
EXTENDS Simulator, TLAPS

\* Who holds the mutex is where its code says it does.
LockHeld == /\ gdb \in Handling <=> lock = "gdb"
            /\ irq \in {"raise", "unlock"} <=> lock = "irq"

\* main destroys nothing before the debugger's thread ended.
JoinFirst == /\ main = "join" => live = {"arm", "mem"}
             /\ main # "join" => gdb = "done"

IInv == LockHeld /\ JoinFirst /\ PeekedIsExecuted

\* The initial state satisfies the invariant.
LEMMA InitInv == Init => IInv
BY DEF Init, IInv, LockHeld, JoinFirst, PeekedIsExecuted, Handling, None

\* main moves only once the debugger's thread is done.
LEMMA MainInv == IInv /\ Main => IInv'
<1>. SUFFICES ASSUME IInv, Main PROVE IInv'
  OBVIOUS
<1>1. UNCHANGED <<gdb, irq, lock, pc, program, peeked>>
  BY DEF Main, Join, FreeArm, FreeMem, Return, debugger, guest
<1>2. JoinFirst'
  BY <1>1 DEF Main, Join, FreeArm, FreeMem, Return, IInv, JoinFirst, debugger, guest, senders
<1>. QED
  BY <1>1, <1>2 DEF IInv, LockHeld, PeekedIsExecuted, Handling

\* A handler keeps the mutex from its lock to its unlock.
LEMMA GdbThreadInv == IInv /\ GdbThread => IInv'
<1>. SUFFICES ASSUME IInv, GdbThread PROVE IInv'
  OBVIOUS
<1>. USE DEF IInv, LockHeld, JoinFirst, PeekedIsExecuted, Handling, debugger, guest, senders
<1>1. CASE Accept
  BY <1>1 DEF Accept
<1>2. CASE ReadPacket
  BY <1>2 DEF ReadPacket
<1>3. CASE ReadEnd
  BY <1>3 DEF ReadEnd
<1>4. CASE Acknowledge
  BY <1>4 DEF Acknowledge, WriteTo
<1>5. CASE Lock
  BY <1>5 DEF Lock, None
<1>6. CASE Peek
  BY <1>6 DEF Peek
<1>7. CASE Execute
  BY <1>7 DEF Execute, ArmStep
<1>8. CASE Step
  BY <1>8 DEF Step, ArmStep
<1>9. CASE WriteRegister
  BY <1>9 DEF WriteRegister
<1>10. CASE WriteMemory
  BY <1>10 DEF WriteMemory
<1>11. CASE ReadState
  BY <1>11 DEF ReadState
<1>12. CASE Kill
  BY <1>12 DEF Kill
<1>13. CASE Answer
  BY <1>13 DEF Answer, WriteTo
<1>14. CASE Unlock
  BY <1>14 DEF Unlock, None
<1>15. CASE Close
  BY <1>15 DEF Close
<1>16. CASE Abort
  BY <1>16 DEF Abort
<1>. QED
  BY <1>1, <1>2, <1>3, <1>4, <1>5, <1>6, <1>7, <1>8, <1>9, <1>10, <1>11, <1>12, <1>13,
     <1>14, <1>15, <1>16 DEF GdbThread, Serve

\* An exception moves the pc under the mutex, when no handler runs.
LEMMA IrqThreadInv == IInv /\ IrqThread => IInv'
<1>. SUFFICES ASSUME IInv, IrqThread PROVE IInv'
  OBVIOUS
<1>. USE DEF IInv, LockHeld, JoinFirst, PeekedIsExecuted, Handling, debugger, guest, senders
<1>1. CASE \E s \in Senders : AcceptIrq(s)
  BY <1>1 DEF AcceptIrq
<1>2. CASE ReadIrq
  BY <1>2 DEF ReadIrq
<1>3. CASE EndIrq
  BY <1>3 DEF EndIrq
<1>4. CASE LockIrq
  BY <1>4 DEF LockIrq, None
<1>5. CASE RaiseIrq
  BY <1>5 DEF RaiseIrq
<1>6. CASE UnlockIrq
  BY <1>6 DEF UnlockIrq, None
<1>. QED
  BY <1>1, <1>2, <1>3, <1>4, <1>5, <1>6 DEF IrqThread

\* The debugger's program and the senders touch nothing the threads share.
LEMMA OutsideInv ==
  IInv /\ (ClientConnects \/ ClientCloses \/ \E s \in Senders : Sender(s)) => IInv'
<1>. SUFFICES ASSUME IInv, ClientConnects \/ ClientCloses \/ \E s \in Senders : Sender(s)
              PROVE  IInv'
  OBVIOUS
<1>1. UNCHANGED <<threads, guest>>
  BY DEF ClientConnects, ClientCloses, Sender, SenderConnects, SenderSends, SenderCloses
<1>. QED
  BY <1>1 DEF IInv, LockHeld, JoinFirst, PeekedIsExecuted, threads, guest

\* Where the threads are, who holds the mutex and what is destroyed agree.
THEOREM Inductive == Spec => []IInv
<1>1. IInv /\ UNCHANGED svars => IInv'
  BY DEF IInv, LockHeld, JoinFirst, PeekedIsExecuted, svars, threads, guest, senders
<1>2. IInv /\ [Next]_svars => IInv'
  BY <1>1, MainInv, GdbThreadInv, IrqThreadInv, OutsideInv DEF Next, Over
<1>. QED
  BY InitInv, <1>2, PTL DEF Spec

\* For any number of senders and any program, no exception is raised while a
\* handler of the debugger runs.
THEOREM MutualExclusion == Spec => []Exclusion
<1>1. IInv => Exclusion
  BY DEF IInv, LockHeld, Exclusion
<1>. QED
  BY <1>1, Inductive, PTL

\* The instruction that cont executes is the one it looked at, never a
\* breakpoint, wherever interrupts come.
THEOREM BreakpointsHold == Spec => []PeekedIsExecuted
<1>1. IInv => PeekedIsExecuted
  BY DEF IInv
<1>. QED
  BY <1>1, Inductive, PTL

\* The core and the memory exist as long as the debugger's thread runs.
THEOREM JoinProtectsDebugger == Spec => []DebuggerUsesLive
<1>1. IInv => DebuggerUsesLive
  BY DEF IInv, JoinFirst, DebuggerUsesLive
<1>. QED
  BY <1>1, Inductive, PTL

-----------------------------------------------------------------------------
\* The way of a byte from its send_irq to arm_exception: the thread that read it
\* knows whose it is.
Served == irq # "accept" => serving \in Senders

Carried == TypeOK /\ Served /\ NoByteLost

\* Main, the debugger and its thread leave the bytes where they are.
LEMMA OthersCarry ==
  Carried /\ (Main \/ GdbThread \/ ClientConnects \/ ClientCloses) => Carried'
<1>. SUFFICES ASSUME Carried, Main \/ GdbThread \/ ClientConnects \/ ClientCloses
              PROVE  Carried'
  OBVIOUS
<1>. USE SimulatorAssumption
<1>1. UNCHANGED <<irq, senders>>
  BY DEF Main, Join, FreeArm, FreeMem, Return, GdbThread, Serve, Accept, ReadPacket, ReadEnd,
     Acknowledge, Lock, Peek, Execute, Step, WriteRegister, Abort, WriteMemory, ReadState,
     Kill, Answer, Unlock, Close, ClientConnects, ClientCloses, threads
<1>2. Served' /\ NoByteLost'
  BY <1>1 DEF Carried, Served, NoByteLost, senders
<1>3. TypeOK'
  <2>. USE <1>1 DEF Carried, TypeOK, debugger, guest, senders, threads, None
  <2>1. CASE Join
    BY <2>1 DEF Join
  <2>2. CASE FreeArm
    BY <2>2 DEF FreeArm
  <2>3. CASE FreeMem
    BY <2>3 DEF FreeMem
  <2>4. CASE Return
    BY <2>4 DEF Return
  <2>5. CASE ClientConnects
    BY <2>5 DEF ClientConnects
  <2>6. CASE ClientCloses
    BY <2>6 DEF ClientCloses
  <2>7. CASE Accept
    BY <2>7 DEF Accept
  <2>8. CASE ReadPacket
    BY <2>8 DEF ReadPacket
  <2>9. CASE ReadEnd
    BY <2>9 DEF ReadEnd
  <2>10. CASE Acknowledge
    BY <2>10 DEF Acknowledge, WriteTo
  <2>11. CASE Lock
    BY <2>11 DEF Lock
  <2>12. CASE Peek
    BY <2>12 DEF Peek
  <2>13. CASE Execute
    BY <2>13 DEF Execute, ArmStep
  <2>14. CASE Step
    BY <2>14 DEF Step, ArmStep
  <2>15. CASE WriteRegister
    BY <2>15 DEF WriteRegister
  <2>16. CASE Abort
    BY <2>16 DEF Abort
  <2>17. CASE WriteMemory
    BY <2>17 DEF WriteMemory
  <2>18. CASE ReadState
    BY <2>18 DEF ReadState
  <2>19. CASE Kill
    BY <2>19 DEF Kill
  <2>20. CASE Answer
    BY <2>20 DEF Answer, WriteTo
  <2>21. CASE Unlock
    BY <2>21 DEF Unlock
  <2>22. CASE Close
    BY <2>22 DEF Close
  <2>. QED
    BY <2>1, <2>2, <2>3, <2>4, <2>5, <2>6, <2>7, <2>8, <2>9, <2>10, <2>11, <2>12,
       <2>13, <2>14, <2>15, <2>16, <2>17, <2>18, <2>19, <2>20, <2>21, <2>22 DEF
       Main, GdbThread, Serve
<1>. QED
  BY <1>2, <1>3 DEF Carried

\* A byte sent stays unread until irq_listener reads it, and what was read is
\* raised before anything else is read.
LEMMA IrqCarries ==
  Carried /\ (IrqThread \/ \E s \in Senders : Sender(s)) => Carried'
<1>. SUFFICES ASSUME Carried, IrqThread \/ \E s \in Senders : Sender(s)
              PROVE  Carried'
  OBVIOUS
<1>. USE SimulatorAssumption DEF Carried, TypeOK, Served, NoByteLost, debugger, guest,
     threads, None
<1>1. CASE \E s \in Senders : AcceptIrq(s)
  BY <1>1 DEF AcceptIrq
<1>2. CASE ReadIrq
  BY <1>2 DEF ReadIrq
<1>3. CASE EndIrq
  BY <1>3 DEF EndIrq
<1>4. CASE LockIrq
  BY <1>4 DEF LockIrq, senders
<1>5. CASE RaiseIrq
  <2>1. /\ serving \in Senders /\ serving' = serving /\ unread' = unread
        /\ sender' = sender /\ irq = "raise" /\ irq' = "unlock"
    BY <1>5 DEF RaiseIrq
  <2>2. /\ raised' \subseteq Senders /\ raised \subseteq raised' /\ dangling' \in BOOLEAN
        /\ dangling => dangling'
        /\ serving \in raised' \/ dangling'
    BY <1>5, <2>1 DEF RaiseIrq
  <2>3. pc' \in Addresses
    BY <1>5 DEF RaiseIrq
  <2>4. NoByteLost'
    BY <2>1, <2>2
  <2>5. UNCHANGED <<main, gdb, lock, over, live, debugger, program, peeked>>
    BY <1>5 DEF RaiseIrq
  <2>. QED
    BY <2>1, <2>2, <2>3, <2>4, <2>5
<1>6. CASE UnlockIrq
  BY <1>6 DEF UnlockIrq, senders
<1>7. CASE \E s \in Senders : SenderConnects(s)
  BY <1>7 DEF SenderConnects
<1>8. CASE \E s \in Senders : SenderSends(s)
  BY <1>8 DEF SenderSends
<1>9. CASE \E s \in Senders : SenderCloses(s)
  BY <1>9 DEF SenderCloses
<1>. QED
  BY <1>1, <1>2, <1>3, <1>4, <1>5, <1>6, <1>7, <1>8, <1>9 DEF IrqThread, Sender

\* The conjunction is inductive.
LEMMA CarriedAlways == Spec => []Carried
<1>1. Init => Carried
  BY SimulatorAssumption DEF Init, Carried, TypeOK, Served, NoByteLost, None
<1>2. Carried /\ UNCHANGED svars => Carried'
  BY DEF Carried, TypeOK, Served, NoByteLost, svars, threads, debugger, guest, senders
<1>3. Carried /\ [Next]_svars => Carried'
  BY <1>2, OthersCarry, IrqCarries DEF Next, Over
<1>. QED
  BY <1>1, <1>3, PTL DEF Spec

\* The types of what the threads share, for any requests, program and senders.
THEOREM TypeCorrect == Spec => []TypeOK
<1>1. Carried => TypeOK
  BY DEF Carried
<1>. QED
  BY <1>1, CarriedAlways, PTL

\* For any number of senders, no byte that a send_irq sent is lost on its way to
\* arm_exception.
THEOREM BytesKept == Spec => []NoByteLost
<1>1. Carried => NoByteLost
  BY DEF Carried
<1>. QED
  BY <1>1, CarriedAlways, PTL
=============================================================================
