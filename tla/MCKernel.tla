------------------------------ MODULE MCKernel ------------------------------
(* Values for the constants of Kernel: main at 1, application threads at 1   *)
(* or 8, the console at 31, and what the application takes care of.          *)
EXTENDS KernelInv, TLC

MCLevels   == {1, 8, 31}
LiveLevels == {1, 31}
Symmetry   == Permutations(Threads)

CareAll  == Disciplines
CareExit == Disciplines \ {"exit"}
CareKill == Disciplines \ {"kill"}
=============================================================================
