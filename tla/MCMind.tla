------------------------------- MODULE MCMind -------------------------------
(***************************************************************************)
(* Mind on small instances: one or two of everything.                       *)
(***************************************************************************)
EXTENDS Mind

CONSTANTS d1, d2, x1, x2, x3, w1, w2, p1, p2, c1, c2

OneDoc == {d1}
TwoDocs == {d1, d2}
TwoContents == {x1, x2}
ThreeContents == {x1, x2, x3}
OneWorkspace == {w1}
TwoWorkspaces == {w1, w2}
OneProposal == {p1}
TwoProposals == {p1, p2}
TwoCalls == {c1, c2}
=============================================================================
