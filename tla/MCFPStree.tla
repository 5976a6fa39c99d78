----------------------------- MODULE MCFPStree -----------------------------
(***************************************************************************)
(* Small instances of FPStree for TLC.                                     *)
(***************************************************************************)
EXTENDS FPStree

CONSTANTS f1, f2

(* f1 has a directory that is also the keyword of a later entry. *)
Keywords == (f1 :> << <<"g", "y">>, <<"g">> >>) @@ (f2 :> << <<"x">> >>)
=============================================================================
