---------------------------- MODULE MCLegacyCase ----------------------------
(* Instance of LegacyCase for TLC.  A liveness property is checked, so there *)
(* is no symmetry reduction.                                                 *)
EXTENDS LegacyCase
=============================================================================
