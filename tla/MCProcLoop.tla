----------------------------- MODULE MCProcLoop -----------------------------
(***************************************************************************)
(* Small instances of ProcLoop for TLC.                                    *)
(***************************************************************************)
EXTENDS ProcLoop

\* loops without limit, and loops of one or two counts
LoopMaxSmall == {-1, 0, 1}
=============================================================================
