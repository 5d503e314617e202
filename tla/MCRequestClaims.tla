--------------------------- MODULE MCRequestClaims ---------------------------
(***************************************************************************)
(* RequestClaims on small instances: two calls with two ids.                *)
(***************************************************************************)
EXTENDS RequestClaims, TLC

CONSTANTS i1, i2, d1, d2, c1, c2

TwoIds == {i1, i2}
TwoDigests == {d1, d2}
TwoCalls == {c1, c2}

Symmetries == Permutations(TwoIds) \cup Permutations(TwoDigests)
              \cup Permutations(TwoCalls)
=============================================================================
