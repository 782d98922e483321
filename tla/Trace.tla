------------------------------- MODULE Trace --------------------------------
(* The trace of the accesses to registers and memory (trace.c): the          *)
(* operations of the core that print it (arm_core.c), the macros that push    *)
(* the place of each call on a stack and pop it (trace_location.h), and the   *)
(* debugger, whose own accesses are made with the trace disabled              *)
(* (gdb_protocol.c).  A line keeps its kind, the sequential mark of a memory   *)
(* access, the position printed and, to compare with it, the place of the      *)
(* call; cycles and values are left out.                                       *)
EXTENDS Naturals, Sequences, FiniteSets, SequencesExt

CONSTANTS Places,       \* the files and lines of the calls
          Addresses,    \* those of the guest, 0 among them
          Vectors,      \* the addresses of the exceptions
          AddressSize,  \* the number of addresses, 2^32 in the code
          FirstAddress, \* the first value of last_address
          StackSize,    \* the size of the stack of locations
          MaxDepth,     \* the deepest nesting of calls in arguments
          Flags,        \* what the options of main may select
          EarlyEnd,     \* whether END_LOCATION may be evaluated before the call
          None

AllFlags == {"MEMORY", "REGISTERS", "STATE", "POSITION"}

(* What the constants are; the modules that give them their values assume it. *)
TraceAssumption ==
    /\ AddressSize \in Nat /\ Addresses \subseteq 0 .. (AddressSize - 1) /\ 0 \in Addresses
    /\ Vectors \subseteq Addresses
    /\ FirstAddress \in 0 .. (AddressSize - 1)
    /\ MaxDepth \in Nat /\ StackSize \in Nat /\ MaxDepth <= StackSize
    /\ Flags \subseteq SUBSET AllFlags
    /\ EarlyEnd \in BOOLEAN
    /\ None \notin Places /\ None \notin Nat

VARIABLES enabled,        \* whether accesses are traced
          trace_flags,    \* what is traced
          last_address,   \* of the last traced memory access
          location_stack, \* up to location_stack_top
          calls,          \* the calls in evaluation, the innermost last
          pc,             \* the address of the next fetch
          fetched,        \* an instruction was fetched
          lines,          \* what the last step printed
          seen            \* the address on the last memory line, None before any

vars == <<enabled, trace_flags, last_address, location_stack, calls, pc, fetched, lines, seen>>

(* What the macros of trace_location.h call.  The writes of registers return *)
(* nothing: they are sequenced by commas and are no arguments.  The results   *)
(* of the other operations are added to END_LOCATION's, and C leaves open     *)
(* when that is evaluated: before the operation, and before, between or after *)
(* the calls in its arguments.                                                *)
Operations == {"read_register", "write_register", "access_memory", "fetch"}

Init ==
    /\ enabled = TRUE
    /\ trace_flags \in Flags
    /\ last_address = FirstAddress
    /\ location_stack = <<>>
    /\ calls = <<>>
    /\ pc = 0
    /\ fetched = FALSE
    /\ lines = <<>>
    /\ seen = None

-----------------------------------------------------------------------------
Traced(flag) == enabled /\ flag \in trace_flags

(* trace_print_location *)
Position ==
    IF Traced("POSITION") /\ location_stack # <<>> THEN Last(location_stack) ELSE None

Line(kind, mark, place) == [kind |-> kind, mark |-> mark, position |-> Position, place |-> place]

RegisterLine(place) ==
    IF Traced("REGISTERS") THEN <<Line("register", "", place)>> ELSE <<>>

\* Mutant: the word after the next.
Mark_far(address) == IF address = (last_address + 8) % AddressSize THEN "S" ELSE "N"

Mark(address) == IF address = (last_address + 4) % AddressSize THEN "S" ELSE "N"

MemoryLine(address, place) ==
    IF Traced("MEMORY") THEN <<Line("memory", Mark(address), place)>> ELSE <<>>

(* trace_memory *)
TraceMemory(address) ==
    IF Traced("MEMORY")
    THEN last_address' = address /\ seen' = address
    ELSE UNCHANGED <<last_address, seen>>

(* trace_start_location and trace_end_location *)
LOCATION(place) ==
    location_stack' = IF enabled THEN Append(location_stack, place) ELSE location_stack

\* Mutant: a place stays on the stack where others are below it.
END_LOCATION_kept == location_stack' = IF Len(location_stack) > 1 THEN location_stack
                                       ELSE <<>>

END_LOCATION == location_stack' = IF enabled THEN Front(location_stack) ELSE location_stack

-----------------------------------------------------------------------------
Inner == Last(calls)

\* The calls whose END_LOCATION is still to be evaluated.
Open == {i \in 1 .. Len(calls) : "end" \in calls[i].left}

(* A call starts: at the level of a statement, or in the arguments of one    *)
(* that is still to be made.  Every call of the code that has another in its  *)
(* arguments is written on the line of that one (arm_exception.c:87,          *)
(* arm_branch_other.c:66, arm_load_store.c:389).                              *)
Start ==
    /\ Len(calls) < MaxDepth
    /\ calls # <<>> => "call" \in Inner.left
    /\ \E operation \in Operations, place \in Places :
         /\ operation = "fetch" => calls = <<>> /\ enabled
         /\ operation = "access_memory" => fetched \/ ~enabled
         /\ calls # <<>> => operation # "write_register" /\ place = Inner.place
         /\ calls' = Append(calls, [operation |-> operation, place |-> place,
                                    left |-> {"call", "end"}])
         /\ LOCATION(place)
    /\ lines' = <<>>
    /\ UNCHANGED <<enabled, trace_flags, last_address, pc, fetched, seen>>

(* A part of call i is evaluated; the last part of the innermost finishes it. *)
Done(i, part) ==
    calls' = IF calls[i].left = {part} THEN Front(calls)
             ELSE [calls EXCEPT ![i].left = @ \ {part}]

\* END_LOCATION of any call, which pops whatever place is on the top.
End ==
    /\ \E i \in Open :
         /\ \/ "call" \notin calls[i].left
            \/ EarlyEnd /\ calls[i].operation # "write_register"
         /\ Done(i, "end")
    /\ END_LOCATION
    /\ lines' = <<>>
    /\ UNCHANGED <<enabled, trace_flags, last_address, pc, fetched, seen>>

Making(operation) ==
    /\ calls # <<>>
    /\ Inner.operation = operation
    /\ "call" \in Inner.left
    /\ Done(Len(calls), "call")

(* arm_read_register, arm_read_cpsr, arm_read_spsr and their like. *)
ReadRegister ==
    /\ Making("read_register")
    /\ lines' = RegisterLine(Inner.place)
    /\ UNCHANGED <<enabled, trace_flags, last_address, location_stack, pc, fetched, seen>>

(* arm_write_register and its like, the pc among the registers.  Before the *)
(* first fetch the pc is written by the debugger or by an exception.         *)
WriteRegister ==
    /\ Making("write_register")
    /\ pc' \in IF enabled /\ ~fetched THEN Vectors \cup {pc} ELSE Addresses
    /\ lines' = RegisterLine(Inner.place)
    /\ UNCHANGED <<enabled, trace_flags, last_address, location_stack, fetched, seen>>

(* arm_read_byte, arm_write_word and their like. *)
AccessMemory ==
    /\ Making("access_memory")
    /\ \E address \in Addresses :
         /\ lines' = MemoryLine(address, Inner.place)
         /\ TraceMemory(address)
    /\ UNCHANGED <<enabled, trace_flags, location_stack, pc, fetched>>

(* arm_fetch: the pc is read, then memory, then the pc is written. *)
Fetch ==
    /\ Making("fetch")
    /\ lines' = RegisterLine(Inner.place) \o MemoryLine(pc, Inner.place)
                    \o RegisterLine(Inner.place)
    /\ TraceMemory(pc)
    /\ pc' = (pc + 4) % AddressSize
    /\ fetched' = TRUE
    /\ UNCHANGED <<enabled, trace_flags, location_stack>>

(* trace_arm_state: arm_print_state reads the registers of every mode by the *)
(* operations of arm_core.c, which are traced and push no location.          *)
TraceState ==
    /\ calls = <<>>
    /\ Traced("STATE")
    /\ lines' = RegisterLine("arm_core.c") \o <<[kind |-> "state", mark |-> "",
                                                 position |-> None, place |-> None]>>
    /\ UNCHANGED <<enabled, trace_flags, last_address, location_stack, calls, pc, fetched, seen>>

(* trace_disable and trace_enable, between the statements of the handlers of *)
(* the debugger.                                                             *)
Disable ==
    /\ calls = <<>> /\ enabled
    /\ enabled' = FALSE
    /\ lines' = <<>>
    /\ UNCHANGED <<trace_flags, last_address, location_stack, calls, pc, fetched, seen>>

Enable ==
    /\ calls = <<>> /\ ~enabled
    /\ enabled' = TRUE
    /\ lines' = <<>>
    /\ UNCHANGED <<trace_flags, last_address, location_stack, calls, pc, fetched, seen>>

Next ==
    \/ Start \/ End \/ ReadRegister \/ WriteRegister \/ AccessMemory \/ Fetch
    \/ TraceState \/ Disable \/ Enable

Spec == Init /\ [][Next]_vars

-----------------------------------------------------------------------------
(* In whatever order C evaluates the operations of a statement and their       *)
(* END_LOCATIONs, and around whatever the debugger does, as many places are on *)
(* the stack as calls are not ended, and each is the line of the statement:    *)
(* the stack is empty between two statements, so that it neither grows with    *)
(* the run nor is popped below its start, and an END_LOCATION that pops the    *)
(* place of another call leaves the right one (LOCATION, END_LOCATION).        *)
StackFollowsCalls ==
    enabled => /\ Len(location_stack) = Cardinality(Open)
               /\ \A n \in 1 .. Len(location_stack) : location_stack[n] = calls[1].place

(* A memory line is marked sequential exactly where its address follows that   *)
(* of the memory line before it, FirstAddress for the first, whatever the      *)
(* debugger read in between; and the line of a register write has the place of *)
(* its call, however deep the calls in its arguments went and in whatever      *)
(* order they ended (trace_memory, trace_print_location).                      *)
LinesTellTheAccess ==
    [][\A i \in 1 .. Len(lines') :
         /\ lines'[i].kind = "memory" =>
              LET before == IF seen = None THEN FirstAddress ELSE seen
              IN  lines'[i].mark = "S" <=> seen' = (before + 4) % AddressSize
         /\ calls # <<>> /\ Inner.operation = "write_register"
            /\ "POSITION" \in trace_flags =>
              lines'[i].position = lines'[i].place]_vars

=============================================================================
