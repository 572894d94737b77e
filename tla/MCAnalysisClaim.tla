--------------------------- MODULE MCAnalysisClaim ---------------------------
(* Instance of AnalysisClaim for TLC. *)
EXTENDS AnalysisClaim
=============================================================================
