---------------------------- MODULE MCTurnEvidence ----------------------------
(***************************************************************************)
(* TurnEvidence on small instances: two paths, two contents.                *)
(***************************************************************************)
EXTENDS TurnEvidence, TLC

CONSTANTS a, b, v0, v1

TwoPaths == {a, b}
TwoContents == {v0, v1}
Symmetric == Permutations(TwoPaths) \cup Permutations(TwoContents)
=============================================================================
