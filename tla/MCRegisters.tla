---------------------------- MODULE MCRegisters ----------------------------
(* A small instance of Registers: the status words of all seven modes and of *)
(* one mode that does not exist, and at most MaxOps operations.              *)
EXTENDS Registers

CONSTANT MaxOps

VARIABLE ops

\* A register below, at and above each bound that getRegister compares with.
MCRegs == {7, 8, 12, 13, 14, PC}

MCGarbage == {9, 16}

MCValues == Modes \union {0}

MCInit == Init /\ ops = 0

MCNext == ops < MaxOps /\ Next /\ ops' = ops + 1

MCSpec == MCInit /\ [][MCNext]_<<rvars, ops>>
=============================================================================
