----------------------------- MODULE MCExecution -----------------------------
(* For TLC: the parts of Execution share no state; a behaviour is one of the   *)
(* part chosen first, while the variables of the others keep one of their      *)
(* initial values.  Instructions are checked part by part too: every shift,    *)
(* every operation, two single transfers, three block transfers.               *)
EXTENDS Execution, FiniteSets

VARIABLE part  \* the part that runs

alu == <<flags, operation, operations>>
memory == <<reg, mem, transfer, stored, pushed, transfers>>
branches == <<pc, lr, branch>>
trace == <<enabled, trace_flags, last_address, location_stack, calls, fetch, fetched, lines,
           seen>>
fields == <<word, read, call>>

ASSUME InstancesAssumption ==
  /\ Computed!AluAssumption
  /\ Moves!TransfersAssumption
  /\ Fields!LaneBitsAssumption
  /\ Branch!BranchesAssumption
  /\ Traced!TraceAssumption

Parts == {"shifts", "sums", "single", "blocks", "branches", "trace", "debug", "fields"}

\* Which register holds which value does not matter, they are interchangeable.
MCInit ==
  /\ part \in Parts
  /\ Computed!Init
  /\ part \notin {"shifts", "sums"} => flags.n + flags.z + flags.c + flags.v = 0
  /\ Moves!Init
  /\ part = "single" => reg[0] = 4 /\ reg[1] = 4 /\ reg[2] = 130
  /\ part = "blocks" => reg[0] = 255 /\ reg[1] = 8 /\ reg[2] = 4
  /\ part \notin {"single", "blocks"} => \A r \in Registers : reg[r] = 4
  /\ Branch!Init /\ (part # "branches" => pc = 0)
  /\ Traced!Init /\ (part # "trace" => "STATE" \in trace_flags)
  /\ Fields!Init /\ (part # "fields" => word = 0)
  /\ Init /\ (part # "debug" => ~caching)

MCNext ==
  \/ /\ part = "shifts" /\ operations = 0
     /\ \E s \in BOOLEAN, kind \in Kinds :
          \E n \in Computed!Amounts(kind), x \in Operands : Computed!Execute("MOV", s, kind, n, x, 0)
     /\ UNCHANGED <<part, memory, branches, trace, fields, dvars>>
  \/ /\ part = "sums" /\ operations = 0
     /\ \E op \in AluOperations, s \in BOOLEAN, x \in Operands, a \in FirstOperands :
          Computed!Execute(op, s, "LSL_imm", 0, x, a)
     /\ UNCHANGED <<part, memory, branches, trace, fields, dvars>>
  \/ /\ part = "single" /\ transfers < 2 /\ transfers' = transfers + 1
     /\ Moves!SingleTransfer
     /\ UNCHANGED <<part, alu, branches, trace, fields, dvars>>
  \/ /\ part = "blocks" /\ transfers < 3 /\ transfers' = transfers + 1
     /\ Moves!BlockTransfer \/ Moves!Compute
     /\ UNCHANGED <<part, alu, branches, trace, fields, dvars>>
  \/ /\ part = "branches" /\ Branch!Next
     /\ UNCHANGED <<part, alu, memory, trace, fields, dvars>>
  \/ /\ part = "trace" /\ Traced!Next
     /\ UNCHANGED <<part, alu, memory, branches, fields, dvars>>
  \/ /\ part = "fields" /\ call.op = "none" /\ Fields!Next
     /\ UNCHANGED <<part, alu, memory, branches, trace, dvars>>
  \/ /\ part = "debug" /\ Next
     /\ UNCHANGED <<part, alu, memory, branches, trace, fields>>

MCSpec == MCInit /\ [][MCNext]_<<part, alu, memory, branches, trace, fields, dvars>>
=============================================================================
