----------------------------- MODULE MCFPSsched -----------------------------
(***************************************************************************)
(* Small instances of FPSsched for TLC: the values that a configuration    *)
(* file cannot write.                                                      *)
(***************************************************************************)
EXTENDS FPSsched, TLC

\* a queue starts with priority 1; setqprio raises a negative priority to 0
PrioInitial == {1}
PrioSigned == {-1, 2}

Symmetry == Permutations(Fps)
=============================================================================
