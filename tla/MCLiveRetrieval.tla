--------------------------- MODULE MCLiveRetrieval ---------------------------
(* A small instance of LiveRetrieval: a ranking of two stages and the ways of
   citing its stages that are told apart. *)
EXTENDS LiveRetrieval

MCDelegated == {"supplier", "quality"}
MCStages == {1, 2}
MCSelections == {<<>>, <<1, 2>>, <<1, 1>>, <<3>>}
==============================================================================
