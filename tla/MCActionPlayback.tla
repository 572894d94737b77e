--------------------------- MODULE MCActionPlayback --------------------------
(* Instance of ActionPlayback for TLC.  The runtimes are interchangeable,   *)
(* but its run checks liveness, so no symmetry is declared.                 *)
EXTENDS ActionPlayback
=============================================================================
