---------------------------- MODULE MCLabConsole ----------------------------
(* Model values for the run of LabConsole. *)
EXTENDS LabConsole

CONSTANTS q1, q2, a1, a2
=============================================================================
