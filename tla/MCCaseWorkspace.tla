--------------------------- MODULE MCCaseWorkspace ---------------------------
(* Instance of CaseWorkspace for TLC.  There is no symmetry between the cases: *)
(* one is of the independent-finance workflow.                                 *)
EXTENDS CaseWorkspace
=============================================================================
