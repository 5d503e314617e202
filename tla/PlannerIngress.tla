--------------------------- MODULE PlannerIngress ---------------------------
(***************************************************************************)
(* Planning one development step for a caller that may retry.               *)
(*                                                                          *)
(* POST /api/development-requests runs DevelopmentRequestIngress.submit in  *)
(* a thread of its own: claim the caller's id, refuse a project that still  *)
(* has an unfinished step, build the context of the ACTIVE workspace, write *)
(* the planner row and bind the claim to it, call the planner, record what  *)
(* it said.  Every step is its own transaction and the process may die      *)
(* between any two.  People then decide what was prepared, two of them at   *)
(* once if they like.                                                       *)
(*                                                                          *)
(* A request is the index of its row.  What a prompt or an answer says is   *)
(* left out; a digest stands for the instruction it is computed from.       *)
(***************************************************************************)
EXTENDS Naturals, Sequences, FiniteSets

CONSTANTS Projects,       \* registered projects, each with its workspace
          Keys,           \* client_request_ids
          Digests,        \* request digests
          Calls,          \* threads serving a submit
          Deciders,       \* threads serving a decision, one each per boot
          None,
          MaxRequests,    \* planner rows
          MaxSwitches,    \* changes of the active workspace
          MaxCrashes

VARIABLES receipts,     \* planner_ingress_receipts, by project and client id
          requests,     \* planner_requests, oldest first
          authority,    \* planner_authority_events: the decision on each request
          carried,      \* what became of an approved request further down
          active,       \* the project of the active workspace
          calls,        \* the threads inside submit
          deciders,     \* the threads inside a decision
          host,         \* is the daemon up, and how far is its boot
          switches, crashes

vars == <<receipts, requests, authority, carried, active, calls, deciders,
          host, switches, crashes>>
-----------------------------------------------------------------------------
Ids == 1 .. MaxRequests

Statuses == {"pending", "running", "succeeded", "failed", "interrupted"}

Results == {"ASK_USER", "PREPARE_WORKER_PROMPT", "STOP"}

\* What a person may decide at each gate: an answer, or a confirmation.
PermittedActions == [ASK_USER |-> {"answer"},
                     PREPARE_WORKER_PROMPT |-> {"approve", "reject"},
                     STOP |-> {}]

Receipts == [digest: Digests, request: Ids \cup {None}, abandoned: BOOLEAN]

Requests == [project: Projects, asked: Projects, key: Keys, status: Statuses,
             action: Results \cup {None}]

CallRecords == [at: {"idle", "claimed", "refused", "clear", "built", "created",
                     "planning", "answering"},
                project: Projects \cup {None}, key: Keys \cup {None},
                context: Projects \cup {None}, request: Ids \cup {None}]

IdleCall == [at |-> "idle", project |-> None, key |-> None,
             context |-> None, request |-> None]

DeciderRecords == [at: {"idle", "looked", "stands", "conflict"},
                   request: Ids \cup {None},
                   action: {"answer", "approve", "reject", None}]

IdleDecider == [at |-> "idle", request |-> None, action |-> None]

ASSUME NoneIsNothing ==
    /\ None \notin Projects \cup Keys \cup Digests \cup Nat \cup Receipts
    /\ None \notin {"answer", "approve", "reject"}
ASSUME BoundsAssumption == {MaxRequests, MaxSwitches, MaxCrashes} \subseteq Nat

\* A claim nothing is bound to and no restart has given up.
IsOpen(receipt) == /\ receipt # None
                   /\ receipt.request = None
                   /\ ~ receipt.abandoned

\* The newest planner row of a project: the only one operations looks at.
OfProject(p) == {i \in DOMAIN requests : requests[i].project = p}

Newest(p) == CHOOSE i \in OfProject(p) : \A j \in OfProject(p) : j <= i

\* The phase of one request is settled: nothing more happens without new
\* instruction.  Facts further along the work speak before earlier ones.
SettledRequest(i) ==
    \/ carried[i] = "settled"
    \/ carried[i] = None /\ authority[i] \in {"answer", "reject"}
    \/ authority[i] = None /\ requests[i].status = "succeeded"
                           /\ requests[i].action = "STOP"

Settled(p) == OfProject(p) # {} => SettledRequest(Newest(p))

\* The gate a planner row offers a person, or None.
Gate(i) == IF requests[i].status = "succeeded" /\ requests[i].action # "STOP"
           THEN requests[i].action
           ELSE None
-----------------------------------------------------------------------------
Init == /\ receipts = [p \in Projects |-> [k \in Keys |-> None]]
        /\ requests = <<>>
        /\ authority = [i \in Ids |-> None]
        /\ carried = [i \in Ids |-> None]
        /\ active \in Projects
        /\ calls = [c \in Calls |-> IdleCall]
        /\ deciders = [h \in Deciders |-> IdleDecider]
        /\ host = "up"
        /\ switches = 0
        /\ crashes = 0

Receipt(c) == receipts[calls[c].project][calls[c].key]

SetReceipt(c, r) ==
    receipts' = [receipts EXCEPT ![calls[c].project][calls[c].key] = r]

Goto(c, at) == calls' = [calls EXCEPT ![c].at = at]

\* The calls that may still write a row: the bound on rows counts them.
Undecided == {c \in Calls : calls[c].at \in {"claimed", "clear", "built"}}

\* claim_ingress, one transaction.  A key seen before is a conflict, an
\* abandoned or an unfinished attempt, which are refused, or a replay: those
\* change nothing and the caller is answered.  A fresh key is claimed.
Claim(c, p, k, d) ==
    /\ host = "up"
    /\ calls[c].at = "idle"
    /\ active = p                       \* project_context.resolve
    /\ receipts[p][k] = None
    /\ Len(requests) + Cardinality(Undecided) < MaxRequests
    /\ receipts' = [receipts EXCEPT ![p][k] =
                      [digest |-> d, request |-> None, abandoned |-> FALSE]]
    /\ calls' = [calls EXCEPT ![c] = [IdleCall EXCEPT !.at = "claimed",
                                      !.project = p, !.key = k]]
    /\ UNCHANGED <<requests, authority, carried, active, deciders, host,
                   switches, crashes>>

\* The replay: the same instruction under a bound key.
Replay(c, p, k, d) ==
    /\ host = "up"
    /\ calls[c].at = "idle"
    /\ active = p
    /\ receipts[p][k] # None
    /\ receipts[p][k].digest = d
    /\ ~ receipts[p][k].abandoned
    /\ receipts[p][k].request # None
    /\ calls' = [calls EXCEPT ![c] = [IdleCall EXCEPT !.at = "answering",
                !.project = p, !.key = k, !.request = receipts[p][k].request]]
    /\ UNCHANGED <<receipts, requests, authority, carried, active, deciders,
                   host, switches, crashes>>

\* _require_no_unresolved_step: read from the operations view, after the claim
\* and in a transaction of its own.
CheckSettled(c) ==
    /\ host = "up"
    /\ calls[c].at = "claimed"
    /\ Goto(c, IF Settled(calls[c].project) THEN "clear" ELSE "refused")
    /\ UNCHANGED <<receipts, requests, authority, carried, active, deciders,
                   host, switches, crashes>>

\* The context could not be built or projected: nothing was written.
RefuseContext(c) ==
    /\ host = "up"
    /\ calls[c].at = "clear"
    /\ Goto(c, "refused")
    /\ UNCHANGED <<receipts, requests, authority, carried, active, deciders,
                   host, switches, crashes>>

\* Definitions named ...Mutant are not part of the specification: each is the
\* definition after it with a slip a programmer could make, and some property
\* must notice it.

\* Mutant: a refusal keeps the claim.
KeepClaimMutant(c) ==
    /\ host = "up"
    /\ calls[c].at = "refused"
    /\ UNCHANGED receipts
    /\ calls' = [calls EXCEPT ![c] = IdleCall]
    /\ UNCHANGED <<requests, authority, carried, active, deciders, host,
                   switches, crashes>>

\* Every refusal after the claim gives it back, if nothing is bound to it.
Release(c) ==
    /\ host = "up"
    /\ calls[c].at = "refused"
    /\ SetReceipt(c, IF IsOpen(Receipt(c)) THEN None ELSE Receipt(c))
    /\ calls' = [calls EXCEPT ![c] = IdleCall]
    /\ UNCHANGED <<requests, authority, carried, active, deciders, host,
                   switches, crashes>>

\* The pack and its projection are those of the workspace that is active NOW.
BuildContext(c) ==
    /\ host = "up"
    /\ calls[c].at = "clear"
    /\ calls' = [calls EXCEPT ![c].at = "built", ![c].context = active]
    /\ UNCHANGED <<receipts, requests, authority, carried, active, deciders,
                   host, switches, crashes>>

\* create_request: the row and the binding of the claim, in one transaction,
\* which rolls back when there is no open claim to bind.
CreateRequest(c) ==
    /\ host = "up"
    /\ calls[c].at = "built"
    /\ IF IsOpen(Receipt(c))
       THEN LET i == Len(requests) + 1 IN
            /\ requests' = Append(requests,
                   [project |-> calls[c].context, asked |-> calls[c].project,
                    key |-> calls[c].key, status |-> "pending",
                    action |-> None])
            /\ SetReceipt(c, [Receipt(c) EXCEPT !.request = i])
            /\ calls' = [calls EXCEPT ![c].at = "created", ![c].request = i]
       ELSE Goto(c, "refused") /\ UNCHANGED <<receipts, requests>>
    /\ UNCHANGED <<authority, carried, active, deciders, host, switches, crashes>>

MarkRunning(c) ==
    /\ host = "up"
    /\ calls[c].at = "created"
    /\ requests' = [requests EXCEPT ![calls[c].request].status =
                      IF @ = "pending" THEN "running" ELSE @]
    /\ Goto(c, "planning")
    /\ UNCHANGED <<receipts, authority, carried, active, deciders, host,
                   switches, crashes>>

\* The planner answers and record_success writes it, whatever the row says.
RecordSuccess(c, result) ==
    /\ host = "up"
    /\ calls[c].at = "planning"
    /\ requests' = [requests EXCEPT ![calls[c].request].status = "succeeded",
                                    ![calls[c].request].action = result]
    /\ Goto(c, "answering")
    /\ UNCHANGED <<receipts, authority, carried, active, deciders, host,
                   switches, crashes>>

\* The planner refused, broke or timed out.
RecordFailure(c) ==
    /\ host = "up"
    /\ calls[c].at = "planning"
    /\ requests' = [requests EXCEPT ![calls[c].request].status = "failed"]
    /\ Goto(c, "answering")
    /\ UNCHANGED <<receipts, authority, carried, active, deciders, host,
                   switches, crashes>>

\* _outcome: read the row back and answer; a row of another project is refused.
\* Neither changes anything, and submit's own clean-up is behind it.
Answer(c) ==
    /\ host = "up"
    /\ calls[c].at = "answering"
    /\ calls' = [calls EXCEPT ![c] = IdleCall]
    /\ UNCHANGED <<receipts, requests, authority, carried, active, deciders,
                   host, switches, crashes>>
-----------------------------------------------------------------------------
\* A decision: the row and any existing event are read, the gate derived and
\* the subject compared.  A decided gate answers from what was read.
Look(h, i, a) ==
    /\ host = "up"
    /\ deciders[h].at = "idle"
    /\ i \in DOMAIN requests
    /\ Gate(i) # None
    /\ a \in PermittedActions[Gate(i)]
    /\ deciders' = [deciders EXCEPT ![h] =
         [at |-> CASE authority[i] = None -> "looked"
                   [] authority[i] = a -> "stands"
                   [] OTHER -> "conflict",
          request |-> i, action |-> a]]
    /\ UNCHANGED <<receipts, requests, authority, carried, active, calls, host,
                   switches, crashes>>

\* Mutant: the later decision overwrites the earlier.
OverwriteDecisionMutant(h) ==
    /\ host = "up"
    /\ deciders[h].at = "looked"
    /\ LET i == deciders[h].request
           a == deciders[h].action IN
       /\ authority' = [authority EXCEPT ![i] = a]
       /\ deciders' = [deciders EXCEPT ![h].at =
                         IF authority'[i] = a THEN "stands" ELSE "conflict"]
    /\ UNCHANGED <<receipts, requests, carried, active, calls, host, switches,
                   crashes>>

\* record_authority_event: the unique index lets one decision through, and the
\* other reads it back and answers from that.
Decide(h) ==
    /\ host = "up"
    /\ deciders[h].at = "looked"
    /\ LET i == deciders[h].request
           a == deciders[h].action IN
       /\ authority' = [authority EXCEPT ![i] = IF @ = None THEN a ELSE @]
       /\ deciders' = [deciders EXCEPT ![h].at =
                         IF authority'[i] = a THEN "stands" ELSE "conflict"]
    /\ UNCHANGED <<receipts, requests, carried, active, calls, host, switches,
                   crashes>>

\* The approved prompt is dispatched, worked on, published or cancelled, and
\* published again.  Module Delivery says how.
Carry(i, state) ==
    /\ i \in DOMAIN requests
    /\ authority[i] = "approve"
    /\ carried[i] # state
    /\ carried[i] = None => state = "working"
    /\ carried' = [carried EXCEPT ![i] = state]
    /\ UNCHANGED <<receipts, requests, authority, active, calls, deciders,
                   host, switches, crashes>>

\* A person activates another workspace.
SwitchWorkspace(p) ==
    /\ host = "up"
    /\ switches < MaxSwitches
    /\ p # active
    /\ active' = p
    /\ switches' = switches + 1
    /\ UNCHANGED <<receipts, requests, authority, carried, calls, deciders,
                   host, crashes>>
-----------------------------------------------------------------------------
\* The daemon dies: its threads are gone, its tables are not.
Crash ==
    /\ crashes < MaxCrashes
    /\ host' = "down"
    /\ crashes' = crashes + 1
    /\ calls' = [c \in Calls |-> IdleCall]
    /\ deciders' = [h \in Deciders |-> IdleDecider]
    /\ UNCHANGED <<receipts, requests, authority, carried, active, switches>>

\* The boot settles what a dead process left, before it serves anything:
\* first the invocations, then the claims.
MarkInterrupted ==
    /\ host = "down"
    /\ host' = "marked"
    /\ requests' = [i \in DOMAIN requests |->
          IF requests[i].status \in {"pending", "running"}
          THEN [requests[i] EXCEPT !.status = "interrupted"]
          ELSE requests[i]]
    /\ UNCHANGED <<receipts, authority, carried, active, calls, deciders,
                   switches, crashes>>

\* Mutant: the boot leaves open claims open.
LeaveOpenMutant ==
    /\ host = "marked"
    /\ host' = "up"
    /\ UNCHANGED <<receipts, requests, authority, carried, active, calls, deciders,
                   switches, crashes>>

AbandonOpenIngress ==
    /\ host = "marked"
    /\ host' = "up"
    /\ receipts' = [p \in Projects |-> [k \in Keys |->
          IF IsOpen(receipts[p][k])
          THEN [receipts[p][k] EXCEPT !.abandoned = TRUE]
          ELSE receipts[p][k]]]
    /\ UNCHANGED <<requests, authority, carried, active, calls, deciders,
                   switches, crashes>>
-----------------------------------------------------------------------------
CallStep(c) ==
    \/ CheckSettled(c) \/ RefuseContext(c) \/ Release(c) \/ BuildContext(c)
    \/ CreateRequest(c) \/ MarkRunning(c) \/ RecordFailure(c) \/ Answer(c)
    \/ \E result \in Results : RecordSuccess(c, result)

Boot == MarkInterrupted \/ AbandonOpenIngress

Next == \/ \E c \in Calls, p \in Projects, k \in Keys, d \in Digests :
              Claim(c, p, k, d) \/ Replay(c, p, k, d)
        \/ \E c \in Calls : CallStep(c)
        \/ \E h \in Deciders, i \in Ids, a \in {"answer", "approve", "reject"} :
              Look(h, i, a)
        \/ \E h \in Deciders : Decide(h)
        \/ \E i \in Ids, state \in {"working", "settled"} : Carry(i, state)
        \/ \E p \in Projects : SwitchWorkspace(p)
        \/ Crash
        \/ Boot

Spec == Init /\ [][Next]_vars

\* A thread that is running goes on, and a host that is down is started again.
FairSpec == Spec /\ WF_vars(Boot) /\ \A c \in Calls : WF_vars(CallStep(c))
-----------------------------------------------------------------------------
TypeOK ==
    /\ receipts \in [Projects -> [Keys -> Receipts \cup {None}]]
    /\ requests \in Seq(Requests) /\ Len(requests) <= MaxRequests
    /\ authority \in [Ids -> {"answer", "approve", "reject", None}]
    /\ carried \in [Ids -> {"working", "settled", None}]
    /\ active \in Projects
    /\ calls \in [Calls -> CallRecords]
    /\ deciders \in [Deciders -> DeciderRecords]
    /\ host \in {"up", "down", "marked"}
    /\ switches \in 0 .. MaxSwitches /\ crashes \in 0 .. MaxCrashes

\* Every planner row is the one the receipt of its key names: whatever is
\* retried, released or cut short, a key invokes the planner at most once and
\* a retry finds that invocation (claim_ingress, create_request).
RequestIsBound ==
    \A i \in DOMAIN requests :
        LET r == receipts[requests[i].asked][requests[i].key] IN
        r # None /\ r.request = i

\* While the host serves, an open claim is in the hands of a thread that will
\* bind it or give it back: no key is burnt by a refusal or by a restart.
ClaimHasOwner ==
    host = "up" => \A p \in Projects, k \in Keys :
        IsOpen(receipts[p][k]) =>
            \E c \in Calls : /\ calls[c].project = p
                             /\ calls[c].key = k
                             /\ calls[c].at \in {"claimed", "refused", "clear", "built"}

\* Claims are sound: every receipt and row is what it should be, a key plans
\* once, and no claim is left with nobody.
ClaimsAreSound == TypeOK /\ RequestIsBound /\ ClaimHasOwner

\* Two people deciding one gate at once are both told what is stored: the one
\* whose decision stands, and the one who came second (_record, _existing).
ToldIsStored ==
    \A h \in Deciders :
        LET i == deciders[h].request IN
        /\ deciders[h].at = "stands" => authority[i] = deciders[h].action
        /\ deciders[h].at = "conflict" => authority[i] \notin {None, deciders[h].action}

\* What an invocation came to is never rewritten, although record_success and
\* record_failure do not look at the row and the boot rewrites rows in bulk.
Finished == {"succeeded", "failed", "interrupted"}

FinishedStands ==
    \A i \in DOMAIN requests : requests[i].status \in Finished => requests'[i] = requests[i]

\* What was decided, and what an invocation came to, is told and kept as it is:
\* no step makes an answer false, or rewrites a row that is finished.
DecisionsStand == [][ToldIsStored' /\ FinishedStands]_vars

\* A claim does not stay open: it is bound, given back, or abandoned.
ClaimEnds ==
    \A p \in Projects, k \in Keys :
        IsOpen(receipts[p][k]) ~> ~ IsOpen(receipts[p][k])

\* One development thread per project (_require_no_unresolved_step): no two
\* requests a project's callers made are unfinished at once.
OneDevelopmentThread ==
    \A p \in Projects :
        Cardinality({i \in OfProject(p) : ~ SettledRequest(i)}) <= 1

\* The pack the builder produces is the asked project's (_service, _outcome).
PlannedForItsProject ==
    \A i \in DOMAIN requests : requests[i].project = requests[i].asked
=============================================================================
