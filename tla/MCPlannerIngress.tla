-------------------------- MODULE MCPlannerIngress --------------------------
(***************************************************************************)
(* PlannerIngress on small instances.                                       *)
(***************************************************************************)
EXTENDS PlannerIngress, TLC

CONSTANTS pa, pb, k1, k2, d1, d2, c1, c2, h1, h2

OneProject == {pa}
TwoProjects == {pa, pb}
OneKey == {k1}
TwoKeys == {k1, k2}
TwoDigests == {d1, d2}
OneDigest == {d1}
TwoCalls == {c1, c2}
TwoDeciders == {h1, h2}
=============================================================================
