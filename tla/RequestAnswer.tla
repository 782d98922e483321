--------------------------- MODULE RequestAnswer ----------------------------
(* What the debugger's protocol promises to the debugger: the requests are *)
(* executed one at a time, each once, and each gets the answer of its own   *)
(* execution.                                                               *)
EXTENDS Naturals, Sequences

VARIABLES asked,      \* the number of requests the debugger has made
          executed,   \* the requests whose handler has run, in order
          answers     \* the requests whose answers the debugger took, in order

vars == <<asked, executed, answers>>

Init ==
    /\ asked = 0
    /\ executed = <<>>
    /\ answers = <<>>

Ask ==
    /\ Len(answers) = asked
    /\ asked' = asked + 1
    /\ UNCHANGED <<executed, answers>>

Execute ==
    /\ Len(executed) < asked
    /\ executed' = Append(executed, asked)
    /\ UNCHANGED <<asked, answers>>

Answer ==
    /\ Len(answers) < Len(executed)
    /\ answers' = Append(answers, executed[Len(executed)])
    /\ UNCHANGED <<asked, executed>>

Next == Ask \/ Execute \/ Answer

Spec == Init /\ [][Next]_vars

=============================================================================
