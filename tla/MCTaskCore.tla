----------------------------- MODULE MCTaskCore -----------------------------
(***************************************************************************)
(* Task Core on small instances: one or two tasks, one or two messages.     *)
(***************************************************************************)
EXTENDS TaskCoreInvariant, TLC

CONSTANTS t1, t2, k1, k2

OneTask == {t1}
TwoTasks == {t1, t2}
NoTasks == {}
SecondTask == {t2}
OneKey == {k1}
TwoKeys == {k1, k2}

\* Messages are told apart by nothing but their name.
Symmetry == Permutations(TwoKeys)

\* Two messages that race, or two tasks of which the first is sent a message and
\* a crash may park the second.
TwoMessagesOrTwoTasks ==
    \/ state[t2] = "absent" /\ crashes = 0
    \/ /\ Cardinality(followKeys[t1] \cup {c.key : c \in inFlight}) <= 1
       /\ Cardinality(inFlight) <= 1
       /\ followKeys[t2] = {}
       /\ expiries = 0
=============================================================================
