---------------------------- MODULE MCTrustLedger ----------------------------
(***************************************************************************)
(* TrustLedger on small instances.                                          *)
(***************************************************************************)
EXTENDS TrustLedger, TLC

CONSTANTS a1, a2, c1, c2, x, y

TwoApprovers == {a1, a2}
TwoConsumers == {c1, c2}
TwoContents == {x, y}

Symmetric == Permutations(TwoConsumers) \cup Permutations(TwoApprovers)
                 \cup Permutations(TwoContents)

\* Of the three faults, no more than two in one behaviour.
TwoFaults == rollbacks + losses + edits <= 2
=============================================================================
