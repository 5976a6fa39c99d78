------------------------------ MODULE MCFPSconf ------------------------------
(***************************************************************************)
(* Small instances of FPSconf for TLC: the write permissions of one or two *)
(* parameters.                                                             *)
(***************************************************************************)
EXTENDS FPSconf

\* writable except while RUN runs, writable always
PermOne == <<{"WRITE", "WRITECONF"}>>
PermTwo == <<{"WRITE", "WRITECONF"}, {"WRITE", "WRITECONF", "WRITERUN"}>>
==============================================================================
