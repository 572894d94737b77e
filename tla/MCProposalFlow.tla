--------------------------- MODULE MCProposalFlow ---------------------------
(* Instance of ProposalFlow for TLC: one option at the Finance threshold,   *)
(* which needs no review, and one a unit above it, which does.              *)
EXTENDS ProposalFlow, TLC

CONSTANTS h1, h2, w1, w2, a1, a2, s1, s2, d1, d2, cheap, costly

MCCost == [o \in Options |-> IF o = cheap THEN 20 ELSE 21]

IdSymmetry == Permutations({s1, s2}) \union Permutations({d1, d2})
                  \union Permutations({a1, a2})

Symmetry == IdSymmetry \union Permutations({h1, h2}) \union Permutations({w1, w2})
=============================================================================
