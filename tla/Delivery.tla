------------------------------ MODULE Delivery ------------------------------
(***************************************************************************)
(* From an approved worker prompt to a pull request.                        *)
(*                                                                          *)
(* WorkerDispatchService creates one Task Core task for an approved planner *)
(* request; its adapter cuts a worktree, runs a contained worker in it, and *)
(* commits what it left, noting every phase in a journal; the publisher     *)
(* pushes the branch and opens a pull request.  Four stores take part (Task *)
(* Core, the planner database, Git, GitHub) and nothing spans two of them.  *)
(* After a restart the task is parked, classified from the journal and Git, *)
(* settled, and recorded; unfinished publications are compared with what    *)
(* the remote holds.                                                        *)
(*                                                                          *)
(* Requests here are approved ones.  A commit is where the branch points:   *)
(* the base it was cut from, the worker's commit, or a person's on top.     *)
(***************************************************************************)
EXTENDS Naturals, Sequences, FiniteSets

CONSTANTS Requests,       \* approved planner requests
          Dispatchers,    \* threads inside dispatch_approved_worker_prompt
          Publishers,     \* threads inside publish
          None,
          MaxTasks, MaxCrashes,
          MaxTouches      \* things people do to a worktree or a pull request

VARIABLES tasks,        \* Task Core's rows of worker tasks, oldest first
          known,        \* the task Task Core still finds under a request's key
          dispatch,     \* planner_worker_dispatches: the task of each request
          tree,         \* the worktree of each task
          journal,      \* the phases its journal holds
          recon,        \* planner_dispatch_reconciliations: the outcome
          pub,          \* planner_publications
          remote,       \* where the branch of each task points on GitHub
          prs,          \* the pull requests opened for each task's branch
          dispatchers, publishers, reconciling,
          host, crashes, touches,
          baseAuthor,   \* who wrote the commit the worktrees are cut from
          made          \* history: what the worker did

store == <<tasks, known, dispatch, recon, pub>>
disk == <<tree, journal, made>>
github == <<remote, prs>>
threads == <<dispatchers, publishers, reconciling>>
bounds == <<host, crashes, touches, baseAuthor>>
vars == <<store, disk, github, threads, bounds>>
-----------------------------------------------------------------------------
Ids == 1 .. MaxTasks

\* Task Core's states a worker task is seen in; "starting" while it runs.
TaskStates == {"created", "starting", "completed", "failed", "cancelling",
               "recovery_required", "interrupted"}

PublishableTaskStates == {"completed", "interrupted"}

Outcomes == {"never_started", "no_work_found", "partial_work_preserved",
             "commit_recovered", "worktree_missing", "worktree_mismatched",
             "contradictory", "undetermined"}

NeedsAttention == Outcomes \ {"never_started", "no_work_found", "commit_recovered"}

Commits == {"base", "work", "theirs"}

Trees == [at: {"absent", "own", "other"}, head: Commits, dirty: BOOLEAN]

Author(commit) == CASE commit = "base" -> baseAuthor
                    [] commit = "work" -> "cofferdam"
                    [] commit = "theirs" -> "person"

\* planner_publications: one row per dispatch.
PublicationStates == {"pending", "branch_published", "published", "refused", "interrupted"}

Publications == [state: PublicationStates,
                 auth: BOOLEAN,            \* failure is publisher_auth_required
                 commit: Commits, pr: Nat \cup {None}]

Row(state, commit, pr) == [state |-> state, auth |-> FALSE, commit |-> commit, pr |-> pr]

ASSUME NoneIsNothing ==
    None \notin Requests \cup Nat \cup Commits \cup Outcomes \cup Publications
                  \cup TaskStates \cup PublicationStates \cup {"cancelled"}
ASSUME BoundsAssumption == {MaxTasks, MaxCrashes, MaxTouches} \subseteq Nat

IdleDispatcher == [at |-> "idle", request |-> None, task |-> None, fails |-> FALSE]
IdlePublisher == [at |-> "idle", request |-> None, commit |-> None, pr |-> None]
-----------------------------------------------------------------------------
(* The projected phase.  Facts furthest along the work speak first.         *)

TaskOf(q) == IF dispatch[q] = None THEN None ELSE tasks[dispatch[q]].state
PubOf(q) == IF pub[q] = None THEN None ELSE pub[q].state

\* _has_commit: what a publication or a reconciliation recorded.
HasCommit(q) == pub[q] # None \/ recon[q] = "commit_recovered"

\* derive: the first fact that speaks decides.
PhaseRules(q) ==
  << <<PubOf(q) = "published",                     "pr_ready">>,
     <<pub[q] # None /\ pub[q].auth,               "auth_required">>,
     <<PubOf(q) \in {"pending", "branch_published"}, "publishing">>,
     <<PubOf(q) = "interrupted",                   "needs_attention">>,
     <<PubOf(q) = "refused",                       "failed">>,
     <<TaskOf(q) = "recovery_required",            "recovery_required">>,
     <<recon[q] = "partial_work_preserved",        "worker_interrupted">>,
     <<recon[q] \in NeedsAttention,                "needs_attention">>,
     <<recon[q] = "commit_recovered",              "commit_ready">>,
     <<recon[q] # None,                            "recovery_reconciled">>,
     <<TaskOf(q) = "cancelled",                    "cancelled">>,
     <<TaskOf(q) = "failed",                       "failed">>,
     <<TaskOf(q) = "interrupted",                  "worker_interrupted">>,
     <<TaskOf(q) = "completed" /\ HasCommit(q),    "commit_ready">>,
     <<TaskOf(q) = "completed",                    "recovery_reconciled">>,
     <<TaskOf(q) \in {"starting", "cancelling"},   "worker_running">>,
     <<TRUE,                                       "worker_queued">> >>

Phase(q) ==
    LET rules == PhaseRules(q)
        speaks == {n \in DOMAIN rules : rules[n][1]} IN
    rules[CHOOSE n \in speaks : \A m \in speaks : n <= m][2]

SettledPhases == {"idle", "answered", "rejected", "stopped", "cancelled", "pr_ready"}
-----------------------------------------------------------------------------
Init ==
    /\ tasks = <<>>
    /\ known = [q \in Requests |-> None]
    /\ dispatch = [q \in Requests |-> None]
    /\ tree = [t \in Ids |-> [at |-> "absent", head |-> "base", dirty |-> FALSE]]
    /\ journal = [t \in Ids |-> {}]
    /\ recon = [q \in Requests |-> None]
    /\ pub = [q \in Requests |-> None]
    /\ remote = [t \in Ids |-> None]
    /\ prs = [t \in Ids |-> <<>>]
    /\ dispatchers = [d \in Dispatchers |-> IdleDispatcher]
    /\ publishers = [p \in Publishers |-> IdlePublisher]
    /\ reconciling = None
    /\ host = "up"
    /\ crashes = 0
    /\ touches = 0
    /\ baseAuthor \in {"person", "cofferdam"}
    /\ made = [t \in Ids |-> "nothing"]

\* Task Core's lock is held from before a task starts until its adapter returns.
HoldsLock == {"starting", "preparing", "noting", "working", "committing",
              "committed", "noted"}
Free == \A d \in Dispatchers : dispatchers[d].at \notin HoldsLock

At(d, step) == host = "up" /\ dispatchers[d].at = step
D(d) == dispatchers[d].task

Goto(d, step) == dispatchers' = [dispatchers EXCEPT ![d].at = step]

\* A journal line is fsynced, or the write fails and nobody hears of it.
Note(t, phase) ==
    \/ journal' = [journal EXCEPT ![t] = @ \cup {phase}]
    \/ UNCHANGED journal

SetState(t, state) == tasks' = [tasks EXCEPT ![t].state = state]
-----------------------------------------------------------------------------
(* Dispatch.                                                                *)

\* An existing dispatch answers.  Otherwise the gate has let this one through.
Dispatch(d, q) ==
    /\ At(d, "idle")
    /\ dispatch[q] = None
    /\ dispatchers' = [dispatchers EXCEPT ![d] =
                         [IdleDispatcher EXCEPT !.at = "creating", !.request = q]]
    /\ UNCHANGED <<store, disk, github, publishers, reconciling, bounds>>

\* create_task: the key of a request is computed from it, so a row another
\* attempt created is found, whatever state it is in; nothing is started then.
CreateTask(d) ==
    /\ At(d, "creating")
    /\ LET q == dispatchers[d].request IN
       IF known[q] # None
       THEN /\ dispatchers' = [dispatchers EXCEPT ![d].at = "linking",
                                                  ![d].task = known[q]]
            /\ UNCHANGED <<tasks, known>>
       ELSE LET t == Len(tasks) + 1 IN
            /\ t <= MaxTasks
            /\ tasks' = Append(tasks, [request |-> q, state |-> "created"])
            /\ known' = [known EXCEPT ![q] = t]
            /\ dispatchers' = [dispatchers EXCEPT ![d].at = "created", ![d].task = t]
    /\ UNCHANGED <<dispatch, recon, pub, disk, github, publishers, reconciling, bounds>>

\* _start takes the lock; a task cancelled meanwhile is not started, and the
\* call ends there.  The adapter may refuse before anything is on disk.
Start(d) ==
    /\ At(d, "created")
    /\ Free
    /\ IF tasks[D(d)].state = "created"
       THEN SetState(D(d), "starting") /\ Goto(d, "starting")
       ELSE /\ dispatchers' = [dispatchers EXCEPT ![d] = IdleDispatcher]
            /\ UNCHANGED tasks
    /\ UNCHANGED <<known, dispatch, recon, pub, disk, github, publishers,
                   reconciling, bounds>>

RefuseStart(d) ==
    /\ At(d, "starting")
    /\ SetState(D(d), "failed")
    /\ Goto(d, "linking")
    /\ UNCHANGED <<known, dispatch, recon, pub, disk, github, publishers,
                   reconciling, bounds>>

\* worktree.prepare, on the task's own branch.
Prepare(d) ==
    /\ At(d, "starting")
    /\ tree' = [tree EXCEPT ![D(d)] = [at |-> "own", head |-> "base", dirty |-> FALSE]]
    /\ Goto(d, "preparing")
    /\ UNCHANGED <<store, journal, made, github, publishers, reconciling, bounds>>

NotePrepared(d) ==
    /\ At(d, "preparing")
    /\ Note(D(d), "prepared")
    /\ Goto(d, "noting")
    /\ UNCHANGED <<store, tree, made, github, publishers, reconciling, bounds>>

\* worker_running, and every later phase but the last: they tell a person how
\* far the worker came and decide nothing.
NoteRunning(d) ==
    /\ At(d, "noting")
    /\ Note(D(d), "worker_running")
    /\ Goto(d, "working")
    /\ UNCHANGED <<store, tree, made, github, publishers, reconciling, bounds>>

\* By the worker; or, once it came back, by the project's own check, which runs
\* in the worktree with leave to write there.
Edit(d) ==
    /\ At(d, "working") \/ At(d, "committing")
    /\ tree' = [tree EXCEPT ![D(d)].dirty = TRUE]
    /\ made' = [made EXCEPT ![D(d)] = "edits"]
    /\ UNCHANGED <<store, journal, github, threads, bounds>>

\* The worker came back.  One that timed out or said nothing readable ends the
\* task at once; one that reports an error has its edits committed first.
Return(d, fails) ==
    /\ At(d, "working")
    /\ \E next \in IF fails THEN {"noted", "committing"} ELSE {"committing"} :
          dispatchers' = [dispatchers EXCEPT ![d].fails = fails, ![d].at = next]
    /\ UNCHANGED <<store, disk, github, publishers, reconciling, bounds>>

\* commit_all: nothing to commit, a commit, or a commit that did not work.
Commit(d) ==
    /\ At(d, "committing")
    /\ IF tree[D(d)].dirty
       THEN \/ /\ tree' = [tree EXCEPT ![D(d)].dirty = FALSE, ![D(d)].head = "work"]
               /\ made' = [made EXCEPT ![D(d)] = "commit"]
               /\ dispatchers' = [dispatchers EXCEPT ![d].at = "committed"]
            \/ /\ dispatchers' = [dispatchers EXCEPT ![d].at = "noted", ![d].fails = TRUE]
               /\ UNCHANGED <<tree, made>>
       ELSE Goto(d, "noted") /\ UNCHANGED <<tree, made>>
    /\ UNCHANGED <<store, journal, github, publishers, reconciling, bounds>>

NoteCommitted(d) ==
    /\ At(d, "committed")
    /\ Note(D(d), "committed")
    /\ Goto(d, "noted")
    /\ UNCHANGED <<store, tree, made, github, publishers, reconciling, bounds>>

\* The adapter's outcome is applied and the lock released.
Finish(d) ==
    /\ At(d, "noted")
    /\ SetState(D(d), IF dispatchers[d].fails THEN "failed" ELSE "completed")
    /\ Goto(d, "linking")
    /\ UNCHANGED <<known, dispatch, recon, pub, disk, github, publishers,
                   reconciling, bounds>>

\* record_dispatch: the first row of a request stands.
Link(d) ==
    /\ At(d, "linking")
    /\ dispatch' = [dispatch EXCEPT ![dispatchers[d].request] =
                      IF @ = None THEN D(d) ELSE @]
    /\ dispatchers' = [dispatchers EXCEPT ![d] = IdleDispatcher]
    /\ UNCHANGED <<tasks, known, recon, pub, disk, github, publishers,
                   reconciling, bounds>>

\* Task Core forgets a request key after a day.  No call lasts that long.
ForgetKey(q) ==
    /\ host = "up"
    /\ known[q] # None
    /\ \A d \in Dispatchers : dispatchers[d].at = "idle"
    /\ known' = [known EXCEPT ![q] = None]
    /\ UNCHANGED <<tasks, dispatch, recon, pub, disk, github, threads, bounds>>

\* Cancelling a parked task: the adapter has no process to stop and refuses, and
\* the task stays where the request moved it.
Cancel(q) ==
    /\ host = "up"
    /\ Free
    /\ TaskOf(q) \in {"recovery_required", "created"}
    /\ SetState(dispatch[q], "cancelling")
    /\ UNCHANGED <<known, dispatch, recon, pub, disk, github, threads, bounds>>
-----------------------------------------------------------------------------
(* Publishing.                                                              *)

SetPub(q, row) == pub' = [pub EXCEPT ![q] = row]

PAt(p, step) == host = "up" /\ publishers[p].at = step
Q(p) == publishers[p].request
T(p) == dispatch[Q(p)]

EndPublish(p) == publishers' = [publishers EXCEPT ![p] = IdlePublisher]

\* Definitions named ...Mutant are not part of the specification: each is the
\* definition after it with a slip a programmer could make, and some property
\* must notice it.

\* Mutant: the state of the worker task is not asked.
PublishAnyMutant(q) ==
    LET t == dispatch[q] IN
    /\ t # None
    /\ tree[t].at = "own"
    /\ Author(tree[t].head) = "cofferdam"
    /\ pub[q] # None => pub[q].commit = tree[t].head

\* _gate: the worker ended, the worktree is on its branch, HEAD was written by
\* the worker and is the commit an earlier publication recorded.
Publishable(q) ==
    LET t == dispatch[q] IN
    /\ t # None
    /\ tasks[t].state \in PublishableTaskStates
    /\ tree[t].at = "own"
    /\ Author(tree[t].head) = "cofferdam"
    /\ pub[q] # None => pub[q].commit = tree[t].head

PassGate(p, q) ==
    /\ PAt(p, "idle")
    /\ Publishable(q)
    /\ publishers' = [publishers EXCEPT ![p] =
         [IdlePublisher EXCEPT !.at = "passed", !.request = q,
                               !.commit = tree[dispatch[q]].head]]
    /\ UNCHANGED <<store, disk, github, dispatchers, reconciling, bounds>>

\* A refusal, of the gate or of the project and its remote, is written over
\* whatever row there is; without one nothing is recorded.
RefuseGate(p, q) ==
    /\ PAt(p, "idle")
    /\ pub[q] # None
    /\ SetPub(q, [pub[q] EXCEPT !.state = "refused", !.auth = FALSE])
    /\ UNCHANGED <<tasks, known, dispatch, recon, disk, github, threads, bounds>>

\* The credential is looked up, and the row is set to pending or refused.
RecordPending(p) ==
    /\ PAt(p, "passed")
    /\ SetPub(Q(p), Row("pending", publishers[p].commit, None))
    /\ publishers' = [publishers EXCEPT ![p].at = "pushing"]
    /\ UNCHANGED <<tasks, known, dispatch, recon, disk, github, dispatchers,
                   reconciling, bounds>>

RefuseCredential(p) ==
    /\ PAt(p, "passed")
    /\ SetPub(Q(p), [Row("refused", publishers[p].commit, None) EXCEPT !.auth = TRUE])
    /\ EndPublish(p)
    /\ UNCHANGED <<tasks, known, dispatch, recon, disk, github, dispatchers,
                   reconciling, bounds>>

\* git push of the branch, to where the branch points by now.
Push(p) ==
    /\ PAt(p, "pushing")
    /\ tree[T(p)].at # "absent"
    /\ remote' = [remote EXCEPT ![T(p)] = tree[T(p)].head]
    /\ publishers' = [publishers EXCEPT ![p].at = "pushed"]
    /\ UNCHANGED <<store, disk, prs, dispatchers, reconciling, bounds>>

RecordPushed(p) ==
    /\ PAt(p, "pushed")
    /\ SetPub(Q(p), Row("branch_published", publishers[p].commit, None))
    /\ publishers' = [publishers EXCEPT ![p].at = "finding"]
    /\ UNCHANGED <<tasks, known, dispatch, recon, disk, github, dispatchers,
                   reconciling, bounds>>

\* find_pull_request: open or closed; no answer counts as none.
FindPullRequest(p) ==
    /\ PAt(p, "finding")
    /\ \/ /\ prs[T(p)] # <<>>
          /\ publishers' = [publishers EXCEPT ![p].at = "found", ![p].pr = Len(prs[T(p)])]
       \/ publishers' = [publishers EXCEPT ![p].at = "opening"]
    /\ UNCHANGED <<store, disk, github, dispatchers, reconciling, bounds>>

\* GitHub opens a pull request for a branch that has none open and is ahead of
\* its base; otherwise the one there is looked up again.
CreatePullRequest(p) ==
    /\ PAt(p, "opening")
    /\ IF remote[T(p)] = "base" \/ \E n \in DOMAIN prs[T(p)] : prs[T(p)][n] = "open"
       THEN /\ prs[T(p)] # <<>>
            /\ publishers' = [publishers EXCEPT ![p].at = "found", ![p].pr = Len(prs[T(p)])]
            /\ UNCHANGED prs
       ELSE /\ prs' = [prs EXCEPT ![T(p)] = Append(@, "open")]
            /\ publishers' = [publishers EXCEPT ![p].pr = Len(prs'[T(p)]),
                                                ![p].at = "found"]
    /\ UNCHANGED <<store, disk, remote, dispatchers, reconciling, bounds>>

\* The pull request was opened and the answer did not come back.
LoseAnswer(p) ==
    /\ PAt(p, "opening")
    /\ remote[T(p)] # "base"
    /\ \A n \in DOMAIN prs[T(p)] : prs[T(p)][n] = "closed"
    /\ prs' = [prs EXCEPT ![T(p)] = Append(@, "open")]
    /\ SetPub(Q(p), Row("interrupted", publishers[p].commit, None))
    /\ EndPublish(p)
    /\ UNCHANGED <<tasks, known, dispatch, recon, disk, remote, dispatchers,
                   reconciling, bounds>>

\* The push, or GitHub, refused: the row keeps the reason.
PublishFails(p, auth) ==
    /\ host = "up"
    /\ publishers[p].at \in {"pushing", "opening"}
    /\ SetPub(Q(p), [Row("interrupted", publishers[p].commit, None) EXCEPT !.auth = auth])
    /\ EndPublish(p)
    /\ UNCHANGED <<tasks, known, dispatch, recon, disk, github, dispatchers,
                   reconciling, bounds>>

RecordPublished(p) ==
    /\ PAt(p, "found")
    /\ SetPub(Q(p), Row("published", publishers[p].commit, publishers[p].pr))
    /\ EndPublish(p)
    /\ UNCHANGED <<tasks, known, dispatch, recon, disk, github, dispatchers,
                   reconciling, bounds>>
-----------------------------------------------------------------------------
(* The process dies; the worker dies with it.  The boot recovers Task Core, *)
(* then the dispatches, then the publications.                              *)

Crash ==
    /\ crashes < MaxCrashes
    /\ host' = "down"
    /\ crashes' = crashes + 1
    /\ dispatchers' = [d \in Dispatchers |-> IdleDispatcher]
    /\ publishers' = [p \in Publishers |-> IdlePublisher]
    /\ reconciling' = None
    /\ UNCHANGED <<store, disk, github, touches, baseAuthor>>

\* recover_after_restart: a created task has no arrow to the parking state.
RecoverTasks ==
    /\ host = "down"
    /\ host' = "reconciling"
    /\ tasks' = [t \in DOMAIN tasks |->
          IF tasks[t].state \in {"starting", "cancelling"}
          THEN [tasks[t] EXCEPT !.state = "recovery_required"]
          ELSE tasks[t]]
    /\ UNCHANGED <<known, dispatch, recon, pub, disk, github, threads, crashes,
                   touches, baseAuthor>>

\* Mutant: the noted base is not compared.
AuthorOnlyMutant(t) ==
    /\ Author(tree[t].head) = "cofferdam"

\* _dispatch_commit: HEAD was written by the worker and is not the noted base.
DispatchCommit(t) ==
    /\ Author(tree[t].head) = "cofferdam"
    /\ "prepared" \in journal[t] => tree[t].head # "base"

\* _classify: what Git and the journal say, together.
Classify(t) ==
    IF tree[t].at = "absent"
    THEN IF journal[t] = {} THEN "never_started" ELSE "worktree_missing"
    ELSE IF tree[t].at = "other" THEN "worktree_mismatched"
    ELSE IF DispatchCommit(t) THEN "commit_recovered"
    ELSE IF "committed" \in journal[t] THEN "contradictory"
    ELSE IF tree[t].dirty THEN "partial_work_preserved"
    ELSE "no_work_found"

Parked == {t \in DOMAIN tasks : /\ tasks[t].state = "recovery_required"
                                /\ \E q \in Requests : dispatch[q] = t}

\* Mutant: the parked task is classified and left parked.
ReadOnlyMutant(t, found) ==
    /\ host = "reconciling"
    /\ reconciling = None
    /\ t \in Parked
    /\ found \in {Classify(t), "undetermined"}
    /\ UNCHANGED tasks
    /\ reconciling' = [request |-> tasks[t].request, outcome |-> found]
    /\ UNCHANGED <<known, dispatch, recon, pub, disk, github, dispatchers,
                   publishers, bounds>>

\* The task is settled before the reconciliation is recorded.
SettleTask(t, found) ==
    /\ host = "reconciling"
    /\ reconciling = None
    /\ t \in Parked
    /\ found \in {Classify(t), "undetermined"}
    /\ SetState(t, "interrupted")
    /\ reconciling' = [request |-> tasks[t].request, outcome |-> found]
    /\ UNCHANGED <<known, dispatch, recon, pub, disk, github, dispatchers,
                   publishers, bounds>>

\* record_reconciliation: the first answer stands.
RecordReconciliation ==
    /\ host = "reconciling"
    /\ reconciling # None
    /\ recon' = [recon EXCEPT ![reconciling.request] =
                   IF @ = None THEN reconciling.outcome ELSE @]
    /\ reconciling' = None
    /\ UNCHANGED <<tasks, known, dispatch, pub, disk, github, dispatchers,
                   publishers, bounds>>

\* Look at the remote, never repeat: link what is there, or say what is not.
Reconciled(q) ==
    LET t == dispatch[q]
        row == pub[q] IN
    IF tree[t].at = "absent" \/ remote[t] # row.commit
    THEN {[row EXCEPT !.state = "interrupted", !.auth = FALSE]}
    ELSE {[row EXCEPT !.state = "branch_published", !.pr = None],
          [row EXCEPT !.state = "interrupted", !.auth = FALSE]}
         \cup {Row("published", row.commit, n) : n \in {Len(prs[t])} \ {0}}

Unfinished == {q \in Requests : pub[q] # None /\ pub[q].state \notin {"published", "refused"}}

\* The rows it came to; without a credential, none.
ReconcilePublications ==
    /\ host = "reconciling"
    /\ reconciling = None
    /\ Parked = {}
    /\ host' = "up"
    /\ \/ UNCHANGED pub
       \/ /\ Unfinished # {}
          /\ \E rows \in [Unfinished -> UNION {Reconciled(q) : q \in Unfinished}] :
             /\ \A q \in Unfinished : rows[q] \in Reconciled(q)
             /\ pub' = [q \in Requests |-> IF q \in Unfinished THEN rows[q] ELSE pub[q]]
    /\ UNCHANGED <<tasks, known, dispatch, recon, disk, github, threads, crashes,
                   touches, baseAuthor>>
-----------------------------------------------------------------------------
(* People and GitHub.  Nobody touches a worktree while its worker runs.     *)

Quiet(t) == \A d \in Dispatchers : D(d) = t => dispatchers[d].at \notin HoldsLock

\* A worktree is removed, or put on another branch.
Disturb(t, at) ==
    /\ touches < MaxTouches
    /\ Quiet(t)
    /\ tree[t].at = "own"
    /\ tree' = [tree EXCEPT ![t].at = at]
    /\ touches' = touches + 1
    /\ UNCHANGED <<store, journal, made, github, threads, host, crashes, baseAuthor>>

\* A person commits on the worker's branch.
CommitOnTop(t) ==
    /\ touches < MaxTouches
    /\ Quiet(t)
    /\ tree[t].at = "own"
    /\ tree' = [tree EXCEPT ![t].head = "theirs", ![t].dirty = FALSE]
    /\ touches' = touches + 1
    /\ UNCHANGED <<store, journal, made, github, threads, host, crashes, baseAuthor>>

ClosePullRequest(t) ==
    /\ touches < MaxTouches
    /\ \E n \in DOMAIN prs[t] : /\ prs[t][n] = "open"
                                /\ prs' = [prs EXCEPT ![t][n] = "closed"]
    /\ touches' = touches + 1
    /\ UNCHANGED <<store, disk, remote, threads, host, crashes, baseAuthor>>
-----------------------------------------------------------------------------
DispatcherStep(d) ==
    \/ CreateTask(d) \/ Start(d) \/ RefuseStart(d) \/ Prepare(d)
    \/ NotePrepared(d) \/ NoteRunning(d) \/ Edit(d)
    \/ \E fails \in BOOLEAN : Return(d, fails)
    \/ Commit(d) \/ NoteCommitted(d) \/ Finish(d) \/ Link(d)

PublisherStep(p) ==
    \/ RecordPending(p) \/ RefuseCredential(p) \/ Push(p) \/ RecordPushed(p)
    \/ FindPullRequest(p) \/ CreatePullRequest(p) \/ LoseAnswer(p)
    \/ \E auth \in BOOLEAN : PublishFails(p, auth)
    \/ RecordPublished(p)

Boot == \/ RecoverTasks
        \/ \E t \in Ids, found \in Outcomes : SettleTask(t, found)
        \/ RecordReconciliation
        \/ ReconcilePublications

Next == \/ \E d \in Dispatchers, q \in Requests : Dispatch(d, q)
        \/ \E d \in Dispatchers : DispatcherStep(d)
        \/ \E p \in Publishers, q \in Requests : PassGate(p, q) \/ RefuseGate(p, q)
        \/ \E p \in Publishers : PublisherStep(p)
        \/ \E q \in Requests : ForgetKey(q) \/ Cancel(q)
        \/ Crash \/ Boot
        \/ \E t \in Ids : \/ CommitOnTop(t) \/ ClosePullRequest(t)
                          \/ \E at \in {"absent", "other"} : Disturb(t, at)

Spec == Init /\ [][Next]_vars

\* Whoever runs the host starts it again, and its boot runs to the end.
FairSpec == Spec /\ WF_vars(Boot)
-----------------------------------------------------------------------------
TypeOK ==
    /\ tasks \in Seq([request: Requests, state: TaskStates]) /\ Len(tasks) <= MaxTasks
    /\ known \in [Requests -> Ids \cup {None}]
    /\ dispatch \in [Requests -> Ids \cup {None}]
    /\ tree \in [Ids -> Trees]
    /\ journal \in [Ids -> SUBSET {"prepared", "worker_running", "committed"}]
    /\ recon \in [Requests -> Outcomes \cup {None}]
    /\ pub \in [Requests -> Publications \cup {None}]
    /\ remote \in [Ids -> Commits \cup {None}]
    /\ prs \in [Ids -> Seq({"open", "closed"})]
    /\ host \in {"up", "down", "reconciling"}
    /\ made \in [Ids -> {"nothing", "edits", "commit"}]

\* What a restart records of a worker is what the worker did, however far it
\* came, as long as nobody touched its worktree and the base can be told from a
\* worker's commit: by its author, or by the note of it (_classify).
ReconciliationIsTrue ==
    \A q \in Requests :
        /\ recon[q] # None
        /\ touches = 0
        /\ "prepared" \in journal[dispatch[q]] \/ baseAuthor = "person"
        => recon[q] \in {"undetermined"} \cup
             CASE made[dispatch[q]] = "nothing" -> {"never_started", "no_work_found"}
               [] made[dispatch[q]] = "edits" -> {"partial_work_preserved"}
               [] made[dispatch[q]] = "commit" -> {"commit_recovered"}

\* A project whose phase is settled has no worker running for it, whichever of
\* the five stores the phase was read from (derive; ingress admits on it).
SettledIsQuiet ==
    \A q \in Requests : Phase(q) \in SettledPhases =>
        \A d \in Dispatchers : dispatchers[d].at \in HoldsLock =>
            tasks[D(d)].request # q

\* What left the host is the branch of a worker that ended, and a row that says
\* it was pushed names the commit the remote holds, unless people moved the
\* branch; a published row names a pull request that exists (publish, _settle).
ShippedIsFinished ==
    /\ \A t \in Ids : remote[t] # None => tasks[t].state \in PublishableTaskStates
    /\ \A q \in Requests :
        pub[q] # None /\ pub[q].state \in {"branch_published", "published"} =>
            /\ remote[dispatch[q]] \in {pub[q].commit, "theirs"}
            /\ pub[q].state = "published" => pub[q].pr \in DOMAIN prs[dispatch[q]]

\* What the stores say and what left the host are sound: nothing unfinished is
\* called settled or shipped.
NothingUnfinishedShows == TypeOK /\ SettledIsQuiet /\ ShippedIsFinished

\* A dispatch a restart finds parked is settled by that restart.
ParkedIsSettled ==
    \A t \in Ids :
        (host = "reconciling" /\ t \in Parked) ~> t \notin Parked

\* Settle every worker dispatch a restart left in recovery_required: a dispatch
\* whose task recovery ended has a reconciliation (reconcile_after_restart).
SettledIsReconciled ==
    \A q \in Requests :
        host = "up" /\ TaskOf(q) = "interrupted" => recon[q] # None

\* The commit a reconciliation recovers is one the dispatch's worker made.
RecoveredIsMade ==
    \A q \in Requests :
        recon[q] = "commit_recovered" => made[dispatch[q]] = "commit"

\* One approved prompt, one worker, also after a crash between creating the task
\* and linking it (dispatch_approved_worker_prompt).
OneWorker ==
    \A q \in Requests :
        Cardinality({t \in DOMAIN tasks : tasks[t].request = q}) <= 1

\* A step whose worker committed is shown as something to publish.
CommitIsShown ==
    \A q \in Requests :
        TaskOf(q) = "completed" /\ made[dispatch[q]] = "commit" =>
            Phase(q) # "recovery_reconciled"

\* A publication carries the exact commit that was published.
PublishedIsRecorded ==
    \A q \in Requests :
        PubOf(q) = "published" => remote[dispatch[q]] = pub[q].commit
=============================================================================
