----------------------------- MODULE MCProcScan -----------------------------
(***************************************************************************)
(* Small instances of ProcScan for TLC.                                    *)
(***************************************************************************)
EXTENDS ProcScan
=============================================================================
