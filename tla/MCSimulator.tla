---------------------------- MODULE MCSimulator ----------------------------
(* Small instances of Simulator: one or two addresses of memory and one that *)
(* memory has not, one or two commands that send an interrupt.               *)
EXTENDS Simulator, TLC

CONSTANTS s1, s2

MCSenders == {s1, s2}
MCSymmetry == Permutations(MCSenders)
OneSender == {s1}

MCAddresses == 0..2
MCMapped == 0..1
FewAddresses == 0..1
FewMapped == {0}

\* Packets that exercise all of the loop and one other handler.
FewRequests == {"cont", "kill", "write_register"}
=============================================================================
