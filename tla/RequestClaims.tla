---------------------------- MODULE RequestClaims ----------------------------
(***************************************************************************)
(* Replay protection of the Actions bridge.                                 *)
(*                                                                          *)
(* Every mutation claims its request id in a table of the bridge's own,     *)
(* calls Cofferdam, and settles the claim or gives it back.  Each of the    *)
(* three is a transaction; the call in between may be answered, refused or  *)
(* time out, and a call that timed out may still be carried out.  A claim   *)
(* older than two minutes by the wall clock is taken over, whether or not   *)
(* its owner is alive.                                                      *)
(*                                                                          *)
(* Three kinds of mutation: create_task and send_followup carry the id up;  *)
(* create_development_request does too, and asks again on a replay; answer, *)
(* cancel and finish carry none and are guarded by what they act on.        *)
(***************************************************************************)
EXTENDS Naturals, FiniteSets

CONSTANTS Ids,            \* request ids, each within its operation and scope
          Digests, Calls, Nothing,
          MaxConcurrent,  \* requests the bridge serves at once
          MaxTicks        \* ageings of claims

VARIABLES kind,    \* which mutation an id belongs to
          rows,    \* bridge_requests
          calls,   \* the requests being served
          late,    \* calls nobody waits for any more, still with Cofferdam
          done,    \* what Cofferdam carried out for each id
          open,    \* what the guarded mutations act on still waits for them
          crossed, \* history: ids claimed anew while a call with another digest was
                   \* at work under them
          ticks

claimsVars == <<kind, rows, calls, late, done, open, crossed, ticks>>

Idle == [at |-> "idle", id |-> Nothing, digest |-> Nothing, fresh |-> FALSE]

\* "stale": older than STALE_CLAIM_SECONDS.  "old": than RETENTION_SECONDS.
Rows == [digest: Digests, age: {"fresh", "stale", "old"}, settled: BOOLEAN]

ASSUME RequestClaimsAssumption == Nothing \notin Rows /\ MaxTicks \in Nat
-----------------------------------------------------------------------------
ClaimsInit ==
    /\ kind \in [Ids -> {"keyed", "planned", "guarded"}]
    /\ rows = [i \in Ids |-> Nothing]
    /\ calls = [c \in Calls |-> Idle]
    /\ late = {}
    /\ done = [i \in Ids |-> {}]
    /\ open = TRUE
    /\ crossed = {}
    /\ ticks = 0

Becomes(c, at) == calls' = [calls EXCEPT ![c].at = at]

\* _guard: the concurrency gate; the rate limit refuses without a trace.
Admitted == Cardinality({c \in Calls : calls[c].at # "idle"}) < MaxConcurrent

\* A call whose success would settle the row of its id, whatever that is by then.
AtWork(c, i) == calls[c].at \in {"sent", "ok"} /\ calls[c].id = i

\* claim.  A conflict, and a claim that is in flight, end the call unchanged.
Claim(c, i, d) ==
    /\ calls[c].at = "idle"
    /\ Admitted
    /\ \/ /\ rows[i] = Nothing
          /\ rows' = [rows EXCEPT ![i] = [digest |-> d, age |-> "fresh", settled |-> FALSE]]
       \/ /\ rows[i] # Nothing
          /\ rows[i].digest = d
          /\ ~ rows[i].settled
          /\ rows[i].age # "fresh"
          /\ rows' = [rows EXCEPT ![i].age = "fresh"]
    /\ calls' = [calls EXCEPT ![c] = [at |-> "sent", id |-> i, digest |-> d, fresh |-> TRUE]]
    /\ crossed' = IF \E b \in Calls : AtWork(b, i) /\ calls[b].digest # d
                  THEN crossed \cup {i} ELSE crossed
    /\ UNCHANGED <<kind, late, done, open, ticks>>

\* Definitions named ...Mutant are not part of the specification: each is the
\* definition after it with a slip a programmer could make, and some property
\* must notice it.

\* Mutant: the digests are not compared.
ReplayAnyMutant(c, i, d) ==
    /\ calls[c].at = "idle"
    /\ Admitted
    /\ kind[i] # "planned"
    /\ rows[i] # Nothing
    /\ rows[i].settled
    /\ calls' = [calls EXCEPT ![c] = [at |-> "replayed", id |-> i, digest |-> d, fresh |-> FALSE]]
    /\ UNCHANGED <<kind, rows, late, done, open, crossed, ticks>>

\* A settled claim answers with the task as it is now.
Replay(c, i, d) ==
    /\ calls[c].at = "idle"
    /\ Admitted
    /\ kind[i] # "planned"
    /\ rows[i] # Nothing
    /\ rows[i].digest = d
    /\ rows[i].settled
    /\ calls' = [calls EXCEPT ![c] = [at |-> "replayed", id |-> i, digest |-> d, fresh |-> FALSE]]
    /\ UNCHANGED <<kind, rows, late, done, open, crossed, ticks>>

\* create_development_request: planning is asked again, without the claim.
AskAgain(c, i, d) ==
    /\ calls[c].at = "idle"
    /\ Admitted
    /\ kind[i] = "planned"
    /\ rows[i] # Nothing
    /\ rows[i].digest = d
    /\ rows[i].settled
    /\ calls' = [calls EXCEPT ![c] = [at |-> "sent", id |-> i, digest |-> d, fresh |-> FALSE]]
    /\ UNCHANGED <<kind, rows, late, done, open, crossed, ticks>>

\* What Cofferdam makes of a call that carries its id: done now, done before,
\* or refused.
ByKey(i, d) == IF done[i] = {} THEN {"ok", "refused"}
               ELSE IF d \in done[i] THEN {"ok"} ELSE {"refused"}

\* And of one that does not: what it acts on is open, or it is refused.
ByState == IF open THEN {"ok", "refused"} ELSE {"refused"}

Carried(i, d) == IF kind[i] = "guarded" THEN ByState ELSE ByKey(i, d)

CarryOut(i, d, result) ==
    IF result = "ok"
    THEN /\ done' = [done EXCEPT ![i] = @ \cup {d}]
         /\ open' = (open /\ kind[i] # "guarded")
    ELSE UNCHANGED <<done, open>>

Upstream(c) ==
    /\ calls[c].at = "sent"
    /\ \E result \in Carried(calls[c].id, calls[c].digest) :
          /\ CarryOut(calls[c].id, calls[c].digest, result)
          /\ Becomes(c, result)
    /\ UNCHANGED <<kind, rows, late, crossed, ticks>>

\* No answer in time, or none that can be read; the work may follow.
LoseAnswer(c) ==
    \/ /\ calls[c].at = "sent"
       /\ late' \in {late, late \cup {<<calls[c].id, calls[c].digest>>}}
       /\ Becomes(c, "lost")
       /\ UNCHANGED <<kind, rows, done, open, crossed, ticks>>
    \/ /\ calls[c].at \in {"ok", "refused"}
       /\ Becomes(c, "lost")
       /\ UNCHANGED <<kind, rows, late, done, open, crossed, ticks>>

CarryOutLate(work) ==
    /\ late' = late \ {work}
    /\ \E result \in Carried(work[1], work[2]) : CarryOut(work[1], work[2], result)
    /\ UNCHANGED <<kind, rows, calls, crossed, ticks>>

\* settle: whatever row there is now, and every row past retention goes.
Settle(c) ==
    /\ calls[c].at = "ok"
    /\ LET i == calls[c].id
           settled == IF rows[i] = Nothing THEN rows
                      ELSE [rows EXCEPT ![i].settled = TRUE] IN
       rows' = [j \in Ids |-> IF settled[j] # Nothing /\ settled[j].age = "old"
                              THEN Nothing ELSE settled[j]]
    /\ Becomes(c, "replayed")
    /\ UNCHANGED <<kind, late, done, open, crossed, ticks>>

\* Mutant: a failed attempt releases the row whatever it says.
ReleaseSettledMutant(c) ==
    /\ calls[c].at \in {"refused", "lost"}
    /\ rows' = [rows EXCEPT ![calls[c].id] =
           IF calls[c].fresh /\ @ # Nothing THEN Nothing ELSE @]
    /\ calls' = [calls EXCEPT ![c] = Idle]
    /\ UNCHANGED <<kind, late, done, open, crossed, ticks>>

\* release, after anything else: the claim goes unless it is settled.
Release(c) ==
    /\ calls[c].at \in {"refused", "lost"}
    /\ rows' = [rows EXCEPT ![calls[c].id] =
           IF calls[c].fresh /\ @ # Nothing /\ ~ @.settled THEN Nothing ELSE @]
    /\ calls' = [calls EXCEPT ![c] = Idle]
    /\ UNCHANGED <<kind, late, done, open, crossed, ticks>>

\* The caller has its answer.
Finish(c) ==
    /\ calls[c].at = "replayed"
    /\ calls' = [calls EXCEPT ![c] = Idle]
    /\ UNCHANGED <<kind, rows, late, done, open, crossed, ticks>>

Age(i) ==
    /\ ticks < MaxTicks
    /\ rows[i] # Nothing
    /\ rows[i].age # "old"
    /\ rows' = [rows EXCEPT ![i].age = IF @ = "fresh" THEN "stale" ELSE "old"]
    /\ ticks' = ticks + 1
    /\ UNCHANGED <<kind, calls, late, done, open, crossed>>

\* The bridge dies.  What it had sent may still be carried out.
Crash ==
    /\ calls # [c \in Calls |-> Idle]
    /\ late' = late \cup {<<calls[c].id, calls[c].digest>> :
                             c \in {b \in Calls : calls[b].at = "sent"}}
    /\ calls' = [c \in Calls |-> Idle]
    /\ UNCHANGED <<kind, rows, done, open, crossed, ticks>>

\* Somebody else answers, cancels or finishes.
CloseElsewhere ==
    /\ open
    /\ open' = FALSE
    /\ UNCHANGED <<kind, rows, calls, late, done, crossed, ticks>>

CallStep(c) == Upstream(c) \/ LoseAnswer(c) \/ Settle(c) \/ Release(c) \/ Finish(c)

ClaimsNext ==
    \/ \E c \in Calls, i \in Ids, d \in Digests :
          Claim(c, i, d) \/ Replay(c, i, d) \/ AskAgain(c, i, d)
    \/ \E c \in Calls : CallStep(c)
    \/ \E work \in late : CarryOutLate(work)
    \/ \E i \in Ids : Age(i)
    \/ CloseElsewhere
    \/ Crash

ClaimsSpec == ClaimsInit /\ [][ClaimsNext]_claimsVars
-----------------------------------------------------------------------------
ClaimsTypeOK ==
    /\ kind \in [Ids -> {"keyed", "planned", "guarded"}]
    /\ rows \in [Ids -> Rows \cup {Nothing}]
    /\ calls \in [Calls -> [at: {"idle", "sent", "ok", "refused", "lost",
                                 "replayed"},
                            id: Ids \cup {Nothing}, digest: Digests \cup {Nothing},
                            fresh: BOOLEAN]]
    /\ late \subseteq Ids \X Digests
    /\ done \in [Ids -> SUBSET Digests]
    /\ open \in BOOLEAN /\ crossed \subseteq Ids /\ ticks \in 0 .. MaxTicks

\* A caller told that its request went through is told the truth: Cofferdam did
\* what this request says, also when a stale claim changed hands while both its
\* owners were at work, or an earlier attempt was given back and ended later.  Not
\* so of an id that was claimed for something else while a call of it was at work:
\* then it is only known that something was done under it (claim, settle and the
\* replay branches).
ReplayIsTrue ==
    \A c \in Calls : calls[c].at = "replayed" =>
        /\ done[calls[c].id] # {}
        /\ calls[c].digest \in done[calls[c].id] \/ calls[c].id \in crossed

\* A request that went through stays known for a day: no other attempt of the
\* same id, failing later, takes the record away (release).
SettledStands ==
    [][\A i \in Ids :
          /\ rows[i] # Nothing
          /\ rows[i].settled
          /\ rows[i].age # "old"
          => rows'[i] # Nothing /\ rows'[i].settled]_claimsVars

-----------------------------------------------------------------------------
(* Statements of the documentation that the code does not keep *)

\* A replay is told of its own request: the first task is never returned for the
\* second instruction.
ReplayIsOfItself ==
    \A c \in Calls : calls[c].at = "replayed" => calls[c].digest \in done[calls[c].id]

\* A retry of what was carried out is not told that it was refused: the table
\* turns those refusals back into the truth.
NobodyIsDenied ==
    [][\A c \in Calls :
          calls[c].at = "sent" /\ calls'[c].at = "refused" =>
              calls[c].digest \notin done[calls[c].id]]_claimsVars
=============================================================================
