----------------------------- MODULE MCWindows -----------------------------
(* Values of the constants of Windows that a configuration cannot write.   *)
EXTENDS Windows, TLC

(* One terminal executes lines; the others are there to be clicked on.     *)
Busy == CHOOSE t \in Terminal : TRUE
MCMaxRuns == [t \in Terminal |-> IF t = Busy THEN 1 ELSE 0]

(* The tasks that run without a window are alike.                          *)
Symmetry == Permutations(Windowless)
=============================================================================
