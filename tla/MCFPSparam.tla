----------------------------- MODULE MCFPSparam -----------------------------
(***************************************************************************)
(* Small instances of FPSparam for TLC.                                    *)
(***************************************************************************)
EXTENDS FPSparam, TLC

CONSTANTS p1, p2, v0, v1, v2, v3, v4

(* The keyword of p1 is a part of that of p2, which is added later.        *)
EntryOrder == <<p1, p2>>
WithinPrefix == {<<p1, p1>>, <<p2, p2>>, <<p1, p2>>}

(* v1 loses digits when it is printed, v2 its end when it is read.         *)
Values == {v0, v1, v2, v3, v4}
LosesDigits == [v \in Values |-> IF v = v1 THEN v3 ELSE v]
LosesEnd == [v \in Values |-> IF v = v2 THEN v4 ELSE v]

(* Processes that initialise are interchangeable. *)
ProcSymmetry == Permutations(Proc)
=============================================================================
