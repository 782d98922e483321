---------------------------- MODULE MCProcessor ----------------------------
(* Small instances of Processor: status words of user, system and FIQ mode   *)
(* with interrupts enabled, the values 0 (Z) and -1 (no valid address), one  *)
(* register shared by all modes but FIQ, the link register and the pc.       *)
EXTENDS Processor

MCGarbage == {16}

MCValues == {0, AllOnes}

MCPsrs == {USR, SYS, FIQ}

MCDests == {8, LR, PC}

MCBases == {LR}

MCOffsets == {8}

MCLists == {{8, PC}, {}}

\* Two exceptions of different modes, reset, and a byte that names none.
MCCodes == {RESET, UNDEFINED_INSTRUCTION, FAST_INTERRUPT, 8}
-----------------------------------------------------------------------------
\* Fewer inputs, for longer runs: exceptions that nest and return.  The debugger
\* sets user mode or a mode that is none.
FewValues == {4}
FewPsrs == {USR, 1}
FewDests == {LR, PC}
FewLists == {{}}
FewCodes == {RESET, INTERRUPT}
=============================================================================
