--------------------------- MODULE DeliveryProofs ---------------------------
(***************************************************************************)
(* The inductive invariant of delivery and its theorems, for any requests,  *)
(* threads, tasks, crashes and things people do.                            *)
(***************************************************************************)
EXTENDS Delivery, TLAPS

DispatcherRecords ==
    [at: HoldsLock \cup {"idle", "creating", "created", "linking"},
     request: Requests \cup {None}, task: Ids \cup {None}, fails: BOOLEAN]
PublisherRecords ==
    [at: {"idle", "passed", "pushing", "pushed", "finding", "opening", "found"},
     request: Requests \cup {None}, commit: Commits \cup {None}, pr: Nat \cup {None}]

Typed ==
    /\ TypeOK
    /\ dispatchers \in [Dispatchers -> DispatcherRecords]
    /\ publishers \in [Publishers -> PublisherRecords]
    /\ reconciling \in [request: Requests, outcome: Outcomes] \cup {None}
    /\ touches \in Nat /\ baseAuthor \in {"person", "cofferdam"}

\* Threads are there only while the daemon serves, the boot's loop before that.
HostOK ==
    /\ host # "up" => /\ \A d \in Dispatchers : dispatchers[d] = IdleDispatcher
                      /\ \A p \in Publishers : publishers[p] = IdlePublisher
    /\ reconciling # None => host = "reconciling"

\* The task of a request is one of its own; while its key is known, it is the
\* task of that key.
Own(q, t) == t \in DOMAIN tasks /\ tasks[t].request = q
TasksOK ==
    \A q \in Requests :
        /\ dispatch[q] # None => Own(q, dispatch[q])
        /\ known[q] # None => Own(q, known[q])
        /\ dispatch[q] # None /\ known[q] # None => known[q] = dispatch[q]

\* A thread that has a task has the one of its request's key, and while any
\* thread is at work on a request its key is kept.
HasTask(d) == dispatchers[d].at \in HoldsLock \cup {"created", "linking"}
Runs(d) == dispatchers[d].at \in HoldsLock
Owns(d) == dispatchers[d].at \in HoldsLock \cup {"created"}
WorkersOK ==
    \A d \in Dispatchers :
        LET q == dispatchers[d].request IN
        /\ dispatchers[d].at # "idle" =>
              q \in Requests /\ (dispatch[q] # None => known[q] # None)
        /\ HasTask(d) => known[q] # None /\ D(d) = known[q]
        /\ Runs(d) => tasks[D(d)].state = "starting"
OwnersOK ==
    \A d, e \in Dispatchers : Owns(d) /\ Owns(e) /\ D(d) = D(e) => d = e

\* A task has nothing on disk before its adapter has started.
Fresh(t) == /\ tree[t] = [at |-> "absent", head |-> "base", dirty |-> FALSE]
            /\ journal[t] = {} /\ made[t] = "nothing"
FreshOK ==
    /\ \A t \in Ids : t \notin DOMAIN tasks => Fresh(t)
    /\ \A d \in Dispatchers : dispatchers[d].at \in {"created", "starting"} => Fresh(D(d))

\* While nobody touched it, a worktree and its journal show what the worker did.
Untouched(t) ==
    /\ tree[t].at \in {"absent", "own"}
    /\ tree[t].at = "absent" => journal[t] = {} /\ made[t] = "nothing"
    /\ made[t] = "nothing" => tree[t].head = "base" /\ ~ tree[t].dirty
    /\ made[t] = "edits" => tree[t].head = "base" /\ tree[t].dirty
    /\ made[t] = "commit" => tree[t].head = "work" /\ ~ tree[t].dirty
    /\ "committed" \in journal[t] => made[t] = "commit"
WorkOK ==
    /\ touches = 0 => \A t \in Ids : Untouched(t)
    /\ \A d \in Dispatchers :
          /\ dispatchers[d].at \in {"preparing", "noting", "working", "committing"} =>
                tree[D(d)].at = "own" /\ tree[D(d)].head = "base" /\ made[D(d)] # "commit"
          /\ dispatchers[d].at = "committed" => made[D(d)] = "commit"

Ended(t) == t \in DOMAIN tasks /\ tasks[t].state \in PublishableTaskStates

\* Only the branch of an ended task left the host, as it is now or was before a
\* person committed to it.
RemoteOK ==
    \A t \in Ids : remote[t] # None =>
        Ended(t) /\ (remote[t] = tree[t].head \/ tree[t].head = "theirs")

\* The commit that was reviewed is where the branch points, here and on GitHub,
\* but for a person's.
Stands(t, commit) ==
    /\ commit \in Commits /\ Ended(t)
    /\ tree[t].head \in {commit, "theirs"}
    /\ remote[t] \in {None, commit, "theirs"}
PublishersOK ==
    \A p \in Publishers :
        /\ publishers[p].at # "idle" =>
              Q(p) \in Requests /\ T(p) # None /\ Stands(T(p), publishers[p].commit)
        /\ publishers[p].at \in {"pushed", "finding", "opening", "found"} => remote[T(p)] # None
        /\ publishers[p].at = "found" => publishers[p].pr \in DOMAIN prs[T(p)]
PubOK ==
    \A q \in Requests : pub[q] # None =>
        LET t == dispatch[q] IN
        /\ t # None /\ Stands(t, pub[q].commit)
        /\ pub[q].state \in {"branch_published", "published"} => remote[t] # None
        /\ pub[q].state = "published" => pub[q].pr \in DOMAIN prs[t]

\* What a restart found is what the worker did, and that stays so: the task is
\* settled.
Truth(q, outcome) ==
    /\ touches = 0
    /\ "prepared" \in journal[dispatch[q]] \/ baseAuthor = "person"
    => outcome \in {"undetermined"} \cup
         CASE made[dispatch[q]] = "nothing" -> {"never_started", "no_work_found"}
           [] made[dispatch[q]] = "edits" -> {"partial_work_preserved"}
           [] made[dispatch[q]] = "commit" -> {"commit_recovered"}
Found(q, outcome) ==
    /\ dispatch[q] # None /\ tasks[dispatch[q]].state = "interrupted"
    /\ Truth(q, outcome)
ReconOK ==
    /\ \A q \in Requests : recon[q] # None => Found(q, recon[q])
    /\ reconciling # None => Found(reconciling.request, reconciling.outcome)

DeliveryInv ==
    /\ Typed /\ HostOK /\ TasksOK /\ WorkersOK /\ OwnersOK /\ FreshOK /\ WorkOK
    /\ RemoteOK /\ PublishersOK /\ PubOK /\ ReconOK
-----------------------------------------------------------------------------
(* What the steps share.                                                    *)

Disk == <<tree, journal, made>>
GitHub == <<remote, prs>>

\* The rows and the tasks of Task Core have the types TypeOK names.
LEMMA TaskRows ==
    ASSUME Typed
    PROVE  /\ DOMAIN tasks \subseteq Ids /\ DOMAIN tasks = 1 .. Len(tasks) /\ Len(tasks) \in Nat
           /\ \A t \in DOMAIN tasks : /\ tasks[t] \in [request: Requests, state: TaskStates]
                                      /\ tasks[t].request \in Requests
                                      /\ tasks[t].state \in TaskStates
           /\ None \notin Ids
<1> DEFINE Rows == [request: Requests, state: TaskStates]
<1>1. tasks \in Seq(Rows) /\ Len(tasks) <= MaxTasks BY DEF Typed, TypeOK
<1>2. /\ Len(tasks) \in Nat /\ DOMAIN tasks = 1 .. Len(tasks)
      /\ \A t \in DOMAIN tasks : tasks[t] \in Rows
  <2> HIDE DEF Rows
  <2> QED BY <1>1
<1>3. DOMAIN tasks \subseteq Ids BY <1>1, <1>2, BoundsAssumption DEF Ids
<1> QED BY <1>2, <1>3, NoneIsNothing DEF Ids

\* A row is written once and keeps its request; a task that ended keeps its state.
RowsStay ==
    \A t \in DOMAIN tasks : /\ t \in DOMAIN tasks' /\ tasks'[t].request = tasks[t].request
                            /\ Ended(t) => tasks'[t].state = tasks[t].state
DispatchStays == \A q \in Requests : dispatch[q] # None => dispatch'[q] = dispatch[q]

\* What is said of tasks that ended stays true while workers and dispatchers go
\* on: none of them touches such a task.
LEMMA EndedKept ==
    ASSUME DeliveryInv, RowsStay, DispatchStays,
           \A t \in Ids : Ended(t) =>
               tree'[t] = tree[t] /\ journal'[t] = journal[t] /\ made'[t] = made[t],
           UNCHANGED <<GitHub, pub, recon, touches, baseAuthor>>,
           \A p \in Publishers : publishers'[p] \in {publishers[p], IdlePublisher},
           \/ reconciling' \in {reconciling, None}
           \/ Found(reconciling.request, reconciling.outcome)'
    PROVE  RemoteOK' /\ PublishersOK' /\ PubOK' /\ ReconOK'
<1> USE DEF DeliveryInv, GitHub
<1>1. /\ DOMAIN tasks \subseteq Ids /\ \A t \in DOMAIN tasks : Ended(t) => Ended(t)'
      /\ \A t : Ended(t) => t \in Ids /\ Ended(t)'
  BY TaskRows DEF RowsStay, Ended
<1>2. RemoteOK' BY <1>1 DEF RemoteOK
<1>3. ASSUME NEW t \in Ids, NEW c, Stands(t, c) PROVE Stands(t, c)'
  BY <1>1, <1>3 DEF Stands
<1>4. \A q \in Requests : dispatch[q] # None => dispatch[q] \in Ids
  BY DEF Typed, TypeOK
<1>5. PublishersOK'
  <2> SUFFICES ASSUME NEW p \in Publishers, publishers'[p].at # "idle"
               PROVE  /\ publishers'[p] = publishers[p]
                      /\ Q(p)' = Q(p) /\ T(p)' = T(p) /\ T(p) # None
                      /\ Q(p) \in Requests /\ T(p) \in Ids
                      /\ Stands(T(p), publishers[p].commit)'
    BY DEF PublishersOK
  <2>1. publishers'[p] = publishers[p] BY DEF IdlePublisher
  <2>2. Q(p) \in Requests /\ T(p) # None /\ Stands(T(p), publishers[p].commit)
    BY <2>1 DEF PublishersOK
  <2>3. Q(p)' = Q(p) /\ T(p)' = T(p) BY <2>1, <2>2 DEF Q, T, DispatchStays
  <2> QED BY <1>3, <1>4, <2>1, <2>2, <2>3 DEF T
<1>6. PubOK' BY <1>3, <1>4 DEF PubOK, DispatchStays
<1>7. ASSUME NEW q \in Requests, NEW o, Found(q, o) PROVE Found(q, o)'
  <2>1. /\ dispatch'[q] = dispatch[q] /\ dispatch[q] # None /\ dispatch[q] \in Ids
        /\ Ended(dispatch[q]) /\ dispatch[q] \in DOMAIN tasks
    BY <1>4, <1>7 DEF Found, DispatchStays, Ended, PublishableTaskStates, TasksOK, Own
  <2> QED BY <1>7, <2>1 DEF Found, RowsStay, Truth
<1>8. ReconOK'
  <2>1. reconciling # None => reconciling.request \in Requests BY DEF Typed
  <2>2. \A q \in Requests : recon'[q] # None => Found(q, recon[q])' BY <1>7 DEF ReconOK
  <2>3. CASE reconciling' \in {reconciling, None}
    <3>1. ASSUME reconciling' # None
          PROVE  reconciling' = reconciling /\ Found(reconciling.request, reconciling.outcome)
      BY <2>3, <3>1 DEF ReconOK
    <3> QED BY <1>7, <2>1, <2>2, <3>1 DEF ReconOK
  <2> QED BY <2>2, <2>3 DEF ReconOK
<1> QED BY <1>2, <1>5, <1>6, <1>8

\* A step of one thread that leaves it with the record r: the requests of the
\* other threads keep their tasks, and no other thread is at work on its task.
OthersKept(d, r) ==
    \A e \in Dispatchers \ {d} :
        LET q == dispatchers[e].request IN
        /\ dispatchers[e].at # "idle" =>
              /\ dispatch'[q] # None => known'[q] # None
              /\ known[q] # None => known'[q] = known[q]
        /\ Runs(e) => tasks'[D(e)].state = "starting"
        /\ Owns(e) /\ Owns(d)' => D(e) # r.task

\* Its own record agrees with the rows: the task it has is the one recorded, has
\* started if it runs, and is fresh if it owns it.
WellPlaced(d, r) ==
    /\ r.at # "idle" => /\ r.request \in Requests
                        /\ dispatch'[r.request] # None => known'[r.request] # None
    /\ HasTask(d)' => r.task = known'[r.request] /\ known'[r.request] # None
    /\ Runs(d)' => r.at \in {"starting", "created"} /\ tasks'[r.task].state = "starting"
    /\ Owns(d)' => Fresh(r.task)

\* A step of a dispatcher that touches no disk.
LEMMA Dispatched ==
    ASSUME DeliveryInv, host = "up", NEW d \in Dispatchers, NEW r \in DispatcherRecords,
           dispatchers' = [dispatchers EXCEPT ![d] = r],
           RowsStay, DispatchStays, Typed', TasksOK',
           OthersKept(d, r), WellPlaced(d, r),
           UNCHANGED <<Disk, GitHub, pub, recon, publishers, reconciling, bounds>>
    PROVE  DeliveryInv'
<1> USE DEF DeliveryInv, Disk, bounds, OthersKept, WellPlaced
<1>1. dispatchers'[d] = r /\ \A e \in Dispatchers \ {d} : dispatchers'[e] = dispatchers[e]
  BY DEF Typed
<1>2. HostOK' BY DEF HostOK
<1>3. WorkersOK'
  <2>1. ASSUME NEW e \in Dispatchers \ {d}
        PROVE  LET q == dispatchers[e].request IN
               /\ dispatchers[e].at # "idle" =>
                     q \in Requests /\ (dispatch'[q] # None => known'[q] # None)
               /\ HasTask(e) => known'[q] # None /\ D(e) = known'[q]
               /\ Runs(e) => tasks'[D(e)].state = "starting"
    BY DEF WorkersOK, HasTask, HoldsLock
  <2> QED BY <1>1, <2>1 DEF WorkersOK, HasTask, Runs, HoldsLock, D
<1>4. OwnersOK' BY <1>1 DEF OwnersOK, Owns, D
<1>5. FreshOK' BY <1>1 DEF FreshOK, Fresh, Owns, HoldsLock, D, RowsStay
<1>6. WorkOK' BY <1>1 DEF WorkOK, Untouched, Runs, HoldsLock, D
<1>7. RemoteOK' /\ PublishersOK' /\ PubOK' /\ ReconOK' BY EndedKept
<1> QED BY <1>2, <1>3, <1>4, <1>5, <1>6, <1>7
-----------------------------------------------------------------------------
(* Dispatchers.                                                             *)

\* Setting the state of one task leaves its request and the other tasks alone.
LEMMA StateSet ==
    ASSUME Typed, NEW t \in DOMAIN tasks, NEW s \in TaskStates, SetState(t, s)
    PROVE  /\ tasks' \in Seq([request: Requests, state: TaskStates])
           /\ Len(tasks') = Len(tasks) /\ Len(tasks) <= MaxTasks /\ DOMAIN tasks' = DOMAIN tasks
           /\ tasks'[t].state = s /\ tasks'[t].request = tasks[t].request
           /\ \A u \in DOMAIN tasks \ {t} : tasks'[u] = tasks[u]
           /\ ~ Ended(t) => RowsStay
           /\ TasksOK /\ UNCHANGED <<known, dispatch>> => TasksOK'
<1> DEFINE Rows == [request: Requests, state: TaskStates]
           row == [tasks[t] EXCEPT !.state = s]
<1>1. tasks \in Seq(Rows) /\ Len(tasks) <= MaxTasks BY DEF Typed, TypeOK
<1>2. /\ row \in Rows /\ row.state = s /\ row.request = tasks[t].request
      /\ tasks' = [tasks EXCEPT ![t] = row]
  BY TaskRows DEF SetState
<1> HIDE DEF Rows, row
<1>3. /\ tasks' \in Seq(Rows) /\ Len(tasks') = Len(tasks) /\ DOMAIN tasks' = DOMAIN tasks
      /\ tasks'[t] = row /\ \A u \in DOMAIN tasks \ {t} : tasks'[u] = tasks[u]
  BY <1>1, <1>2
<1>4. \A u \in DOMAIN tasks : tasks'[u].request = tasks[u].request BY <1>2, <1>3
<1>5. ~ Ended(t) => RowsStay BY <1>3, <1>4 DEF RowsStay, Ended
<1>6. TasksOK /\ UNCHANGED <<known, dispatch>> => TasksOK'
  BY <1>3, <1>4 DEF TasksOK, Own
<1> QED BY <1>1, <1>2, <1>3, <1>5, <1>6 DEF Rows

\* A request is dispatched: its thread has no task yet.
LEMMA DispatchPreserves ==
    ASSUME DeliveryInv, NEW d \in Dispatchers, NEW q \in Requests, Dispatch(d, q)
    PROVE  DeliveryInv'
<1> DEFINE r == [IdleDispatcher EXCEPT !.at = "creating", !.request = q]
<1>1. /\ dispatchers' = [dispatchers EXCEPT ![d] = r] /\ r \in DispatcherRecords
      /\ r.at = "creating" /\ r.request = q /\ dispatch[q] = None /\ host = "up"
      /\ UNCHANGED <<store, disk, github, publishers, reconciling, bounds>>
  BY DEF Dispatch, At, IdleDispatcher, DispatcherRecords
<1> HIDE DEF r
<1> USE DEF DeliveryInv, store, disk, github, bounds, Disk, GitHub
<1>2. RowsStay /\ DispatchStays BY <1>1 DEF RowsStay, DispatchStays
<1>3. Typed' BY <1>1 DEF Typed, TypeOK
<1>4. TasksOK' BY <1>1 DEF TasksOK, Own
<1>5. \A e \in Dispatchers : Runs(e) => tasks'[D(e)].state = "starting"
  BY <1>1 DEF WorkersOK
<1>6. \A e \in Dispatchers :
         dispatchers[e].at # "idle" /\ dispatch'[dispatchers[e].request] # None =>
             known'[dispatchers[e].request] # None
  BY <1>1 DEF WorkersOK
<1>7. ~ HasTask(d)' /\ ~ Runs(d)' /\ ~ Owns(d)'
  BY <1>1 DEF Typed, HasTask, Runs, Owns, HoldsLock
<1>8. OthersKept(d, r) BY <1>1, <1>5, <1>6, <1>7 DEF OthersKept
<1>9. WellPlaced(d, r) BY <1>1, <1>7 DEF WellPlaced
<1> QED BY <1>1, <1>2, <1>3, <1>4, <1>8, <1>9, Dispatched

\* A row another attempt created is found, or one is created with nothing on
\* disk; no other thread has a task of this request then.
LEMMA CreateTaskPreserves ==
    ASSUME DeliveryInv, NEW d \in Dispatchers, CreateTask(d)
    PROVE  DeliveryInv'
<1> USE DEF DeliveryInv, disk, github, bounds, Disk, GitHub
<1> DEFINE q == dispatchers[d].request
           t == Len(tasks) + 1
           row == [request |-> q, state |-> "created"]
<1>1. /\ dispatchers[d] \in DispatcherRecords /\ dispatchers[d].at = "creating" /\ host = "up"
      /\ q \in Requests /\ (dispatch[q] # None => known[q] # None)
      /\ ~ Owns(d)
      /\ UNCHANGED <<dispatch, recon, pub, disk, github, publishers, reconciling, bounds>>
  BY DEF CreateTask, At, Typed, WorkersOK, Owns, HoldsLock
<1>2. CASE known[q] # None
  <2> DEFINE r == [dispatchers[d] EXCEPT !.at = "linking", !.task = known[q]]
  <2>1. /\ dispatchers' = [dispatchers EXCEPT ![d] = r] /\ UNCHANGED <<tasks, known>>
    BY <1>2 DEF CreateTask
  <2>2. known[q] \in Ids BY <1>1, <1>2 DEF Typed, TypeOK
  <2>3. r \in DispatcherRecords /\ r.at = "linking" /\ r.request = q /\ r.task = known[q]
    BY <1>1, <2>2 DEF DispatcherRecords
  <2> HIDE DEF r, q
  <2>4. RowsStay /\ DispatchStays BY <1>1, <2>1 DEF RowsStay, DispatchStays
  <2>5. Typed' BY <1>1, <2>1, <2>3 DEF Typed, TypeOK
  <2>6. TasksOK' BY <1>1, <2>1 DEF TasksOK, Own
  <2>7. \A e \in Dispatchers \ {d} :
           /\ dispatchers[e].at # "idle" /\ dispatch'[dispatchers[e].request] # None =>
                 known'[dispatchers[e].request] # None
           /\ Runs(e) => tasks'[D(e)].state = "starting"
    BY <1>1, <2>1 DEF WorkersOK
  <2>8. ~ Runs(d)' /\ ~ Owns(d)' BY <2>1, <2>3 DEF Typed, Runs, Owns, HoldsLock
  <2>9. OthersKept(d, r) BY <2>1, <2>7, <2>8 DEF OthersKept
  <2>10. WellPlaced(d, r) BY <1>1, <1>2, <2>1, <2>3, <2>8 DEF WellPlaced
  <2> QED BY <1>1, <2>1, <2>3, <2>4, <2>5, <2>6, <2>9, <2>10, Dispatched
<1>3. CASE known[q] = None
  <2> DEFINE r == [dispatchers[d] EXCEPT !.at = "created", !.task = t]
  <2>1. /\ t <= MaxTasks /\ tasks' = Append(tasks, row) /\ known' = [known EXCEPT ![q] = t]
        /\ dispatchers' = [dispatchers EXCEPT ![d] = r]
    BY <1>3 DEF CreateTask
  <2>2. t \in Ids /\ t \notin DOMAIN tasks /\ t # None
    BY <2>1, TaskRows, BoundsAssumption DEF Ids
  <2>3. r \in DispatcherRecords /\ r.at = "created" /\ r.request = q /\ r.task = t
    BY <1>1, <2>2 DEF DispatcherRecords
  <2>4. row \in [request: Requests, state: TaskStates] /\ row.request = q
    BY <1>1 DEF TaskStates
  <2> DEFINE Rows == [request: Requests, state: TaskStates]
  <2>5. tasks \in Seq(Rows) BY DEF Typed, TypeOK
  <2> HIDE DEF r, row, Rows
  <2>6. /\ tasks' \in Seq(Rows) /\ Len(tasks') = t /\ tasks'[t] = row
        /\ DOMAIN tasks' = DOMAIN tasks \cup {t}
        /\ \A u \in DOMAIN tasks : tasks'[u] = tasks[u]
    BY <2>1, <2>4, <2>5 DEF Rows
  <2> HIDE DEF t, q
  <2>7. known'[q] = t /\ \A p \in Requests \ {q} : known'[p] = known[p]
    BY <1>1, <2>1 DEF Typed, TypeOK
  <2>8. RowsStay /\ DispatchStays BY <1>1, <2>6 DEF RowsStay, DispatchStays
  <2>9. Typed'
    <3>1. known' \in [Requests -> Ids \cup {None}] BY <2>1, <2>2 DEF Typed, TypeOK
    <3>2. dispatchers' \in [Dispatchers -> DispatcherRecords] BY <2>1, <2>3 DEF Typed
    <3>3. tasks' \in Seq([request: Requests, state: TaskStates]) /\ Len(tasks') <= MaxTasks
      BY <2>1, <2>6 DEF Rows
    <3> QED BY <1>1, <3>1, <3>2, <3>3 DEF Typed, TypeOK
  <2>10. TasksOK'
    BY <1>1, <1>3, <2>2, <2>4, <2>6, <2>7 DEF TasksOK, Own
  <2>11. \A e \in Dispatchers \ {d} :
           LET p == dispatchers[e].request IN
           /\ dispatchers[e].at # "idle" =>
                 /\ dispatch'[p] # None => known'[p] # None
                 /\ known[p] # None => known'[p] = known[p]
           /\ HasTask(e) => D(e) \in DOMAIN tasks
           /\ Runs(e) => tasks'[D(e)].state = "starting"
    <3> TAKE e \in Dispatchers \ {d}
    <3> DEFINE p == dispatchers[e].request
    <3>1. dispatchers[e].at # "idle" => p \in Requests /\ (dispatch[p] # None => known[p] # None)
      BY DEF WorkersOK
    <3>2. HasTask(e) => D(e) \in DOMAIN tasks
      BY <3>1 DEF WorkersOK, HasTask, HoldsLock, TasksOK, Own
    <3>3. Runs(e) => tasks'[D(e)].state = "starting"
      BY <2>6, <3>2 DEF WorkersOK, Runs, HasTask
    <3> QED BY <1>1, <1>3, <2>2, <2>7, <3>1, <3>2, <3>3
  <2>12. \A e \in Dispatchers \ {d} : Owns(e) => D(e) # t
    BY <2>2, <2>11 DEF Owns, HasTask
  <2>13. Fresh(t) BY <2>2 DEF FreshOK
  <2>14. ~ Runs(d)' BY <2>1, <2>3 DEF Typed, Runs, HoldsLock
  <2>15. OthersKept(d, r) BY <2>3, <2>11, <2>12 DEF OthersKept
  <2>16. WellPlaced(d, r) BY <1>1, <2>2, <2>3, <2>7, <2>13, <2>14 DEF WellPlaced
  <2> QED BY <1>1, <2>1, <2>3, <2>8, <2>9, <2>10, <2>15, <2>16, Dispatched
<1> QED BY <1>2, <1>3

\* A thread changes the state of its own task: it starts it under the lock, or
\* ends it and lets go of the lock.
LEMMA SetPreserves ==
    ASSUME DeliveryInv, host = "up", NEW d \in Dispatchers, Owns(d),
           NEW s \in TaskStates, NEW at \in {"starting", "linking"},
           SetState(D(d), s), Goto(d, at),
           at = "starting" => s = "starting" /\ Free /\ Fresh(D(d)),
           ~ Ended(D(d)),
           UNCHANGED <<known, dispatch, recon, pub, disk, github, publishers,
                       reconciling, bounds>>
    PROVE  DeliveryInv'
<1> USE DEF DeliveryInv, disk, github, bounds, Disk, GitHub
<1> DEFINE t == D(d)
           q == dispatchers[d].request
           r == [dispatchers[d] EXCEPT !.at = at]
<1>1. /\ dispatchers[d] \in DispatcherRecords /\ q \in Requests
      /\ known[q] = t /\ known[q] # None /\ t \in DOMAIN tasks
  BY DEF Typed, WorkersOK, TasksOK, Own, HasTask, Owns, HoldsLock
<1>2. /\ dispatchers' = [dispatchers EXCEPT ![d] = r] /\ r \in DispatcherRecords
      /\ r.at = at /\ r.request = q /\ r.task = t
  BY <1>1 DEF Goto, DispatcherRecords, HoldsLock, D
<1>3. /\ tasks' \in Seq([request: Requests, state: TaskStates])
      /\ Len(tasks') = Len(tasks) /\ Len(tasks) <= MaxTasks
      /\ tasks'[t].state = s /\ \A u \in DOMAIN tasks \ {t} : tasks'[u] = tasks[u]
      /\ RowsStay /\ TasksOK'
  BY <1>1, StateSet
<1>4. DispatchStays BY DEF DispatchStays
<1>5. Typed' BY <1>2, <1>3 DEF Typed, TypeOK
<1>6. ASSUME NEW e \in Dispatchers \ {d}
      PROVE  /\ dispatchers[e].at # "idle" /\ dispatch'[dispatchers[e].request] # None =>
                    known'[dispatchers[e].request] # None
             /\ Owns(e) => D(e) # t
             /\ Runs(e) => tasks'[D(e)].state = "starting"
  <2>1. Owns(e) => D(e) # t BY DEF OwnersOK
  <2>2. Runs(e) => D(e) \in DOMAIN tasks \ {t}
    BY <2>1 DEF WorkersOK, TasksOK, Own, HasTask, Owns, Runs, HoldsLock
  <2> QED BY <1>3, <2>1, <2>2 DEF WorkersOK
<1>7. dispatch'[q] # None => known'[q] # None BY <1>1
<1>8. /\ Runs(d)' => at = "starting" /\ tasks'[t].state = "starting"
      /\ Owns(d)' => Fresh(t)
  BY <1>2, <1>3 DEF Typed, Runs, Owns, HoldsLock
<1> HIDE DEF r, t, q
<1>9. HasTask(d)' => r.task = known'[r.request] /\ known'[r.request] # None
  BY <1>1, <1>2
<1>10. OthersKept(d, r) BY <1>2, <1>6 DEF OthersKept
<1>11. WellPlaced(d, r) BY <1>1, <1>2, <1>7, <1>8, <1>9 DEF WellPlaced
<1> QED BY <1>2, <1>3, <1>4, <1>5, <1>10, <1>11, Dispatched

\* The lock is taken and a created task starts; one cancelled meanwhile does
\* not, and its thread ends.
LEMMA StartPreserves ==
    ASSUME DeliveryInv, NEW d \in Dispatchers, Start(d)
    PROVE  DeliveryInv'
<1> USE DEF DeliveryInv
<1>1. /\ host = "up" /\ dispatchers[d].at = "created" /\ Owns(d) /\ Free
      /\ Fresh(D(d))
  BY DEF Start, At, Owns, FreshOK
<1>2. CASE tasks[D(d)].state = "created"
  <2>1. SetState(D(d), "starting") /\ Goto(d, "starting") BY <1>2 DEF Start
  <2>2. ~ Ended(D(d)) BY <1>2 DEF Ended, PublishableTaskStates
  <2> QED BY <1>1, <2>1, <2>2, SetPreserves DEF Start, TaskStates
<1>3. CASE tasks[D(d)].state # "created"
  <2>1. /\ dispatchers' = [dispatchers EXCEPT ![d] = IdleDispatcher]
        /\ UNCHANGED <<tasks, known, dispatch, recon, pub, disk, github, publishers,
                       reconciling, bounds>>
    BY <1>3 DEF Start
  <2>2. IdleDispatcher \in DispatcherRecords /\ IdleDispatcher.at = "idle"
    BY DEF IdleDispatcher, DispatcherRecords
  <2>3. RowsStay /\ DispatchStays BY <2>1 DEF RowsStay, DispatchStays
  <2>4. Typed' BY <2>1, <2>2 DEF Typed, TypeOK, disk, github, bounds
  <2>5. TasksOK' BY <2>1 DEF TasksOK, Own
  <2>6. \A e \in Dispatchers \ {d} :
           /\ dispatchers[e].at # "idle" /\ dispatch'[dispatchers[e].request] # None =>
                 known'[dispatchers[e].request] # None
           /\ Runs(e) => tasks'[D(e)].state = "starting"
    BY <2>1 DEF WorkersOK
  <2>7. ~ HasTask(d)' /\ ~ Runs(d)' /\ ~ Owns(d)'
    BY <2>1, <2>2 DEF Typed, HasTask, Runs, Owns, HoldsLock
  <2>8. UNCHANGED <<Disk, GitHub, pub, recon, publishers, reconciling, bounds>>
    BY <2>1 DEF Disk, GitHub, disk, github
  <2>9. OthersKept(d, IdleDispatcher) BY <2>1, <2>6, <2>7 DEF OthersKept
  <2>10. WellPlaced(d, IdleDispatcher) BY <2>2, <2>7 DEF WellPlaced
  <2> QED BY <1>1, <2>1, <2>2, <2>3, <2>4, <2>5, <2>8, <2>9, <2>10, Dispatched
<1> QED BY <1>2, <1>3

\* The adapter refuses, or its outcome is applied.
LEMMA EndPreserves ==
    ASSUME DeliveryInv, NEW d \in Dispatchers, RefuseStart(d) \/ Finish(d)
    PROVE  DeliveryInv'
<1>1. host = "up" /\ Runs(d) /\ Owns(d) BY DEF RefuseStart, Finish, At, Runs, Owns, HoldsLock
<1>2. ~ Ended(D(d))
  BY <1>1 DEF DeliveryInv, WorkersOK, Ended, PublishableTaskStates
<1>3. \E s \in {"failed", "completed"} : SetState(D(d), s) /\ Goto(d, "linking")
  BY DEF RefuseStart, Finish
<1>4. UNCHANGED <<known, dispatch, recon, pub, disk, github, publishers,
                  reconciling, bounds>>
  BY DEF RefuseStart, Finish
<1>5. {"failed", "completed"} \subseteq TaskStates BY DEF TaskStates
<1> QED BY <1>1, <1>2, <1>3, <1>4, <1>5, SetPreserves

\* The task of a request is recorded once; its thread is done.
LEMMA LinkPreserves ==
    ASSUME DeliveryInv, NEW d \in Dispatchers, Link(d)
    PROVE  DeliveryInv'
<1> USE DEF DeliveryInv
<1> DEFINE q == dispatchers[d].request
<1>1. /\ host = "up" /\ dispatchers[d].at = "linking" /\ HasTask(d)
      /\ dispatchers' = [dispatchers EXCEPT ![d] = IdleDispatcher]
      /\ dispatch' = [dispatch EXCEPT ![q] = IF @ = None THEN D(d) ELSE @]
      /\ UNCHANGED <<tasks, known, recon, pub, Disk, GitHub, disk, github, publishers,
                     reconciling, bounds>>
  BY DEF Link, At, HasTask, Disk, GitHub, disk, github
<1>2. q \in Requests /\ known[q] # None /\ D(d) = known[q] /\ D(d) \in Ids
  BY <1>1 DEF WorkersOK, Typed, TypeOK
<1> HIDE DEF q
<1>3. /\ IF dispatch[q] = None THEN dispatch'[q] = D(d) ELSE dispatch'[q] = dispatch[q]
      /\ \A p \in Requests \ {q} : dispatch'[p] = dispatch[p]
      /\ dispatch' \in [Requests -> Ids \cup {None}]
  BY <1>1, <1>2 DEF Typed, TypeOK
<1>4. IdleDispatcher \in DispatcherRecords /\ IdleDispatcher.at = "idle"
  BY DEF IdleDispatcher, DispatcherRecords
<1>5. RowsStay /\ DispatchStays BY <1>1, <1>3 DEF RowsStay, DispatchStays
<1>6. Typed' BY <1>1, <1>3, <1>4 DEF Typed, TypeOK, disk, github, bounds
<1>7. TasksOK' BY <1>1, <1>2, <1>3 DEF TasksOK, Own
<1>8. \A e \in Dispatchers \ {d} :
         /\ dispatchers[e].at # "idle" /\ dispatch'[dispatchers[e].request] # None =>
               known'[dispatchers[e].request] # None
         /\ Runs(e) => tasks'[D(e)].state = "starting"
  BY <1>1, <1>2, <1>3 DEF WorkersOK
<1>9. ~ HasTask(d)' /\ ~ Runs(d)' /\ ~ Owns(d)'
  BY <1>1, <1>4 DEF Typed, HasTask, Runs, Owns, HoldsLock
<1>10. OthersKept(d, IdleDispatcher) BY <1>1, <1>8, <1>9 DEF OthersKept
<1>11. WellPlaced(d, IdleDispatcher) BY <1>4, <1>9 DEF WellPlaced
<1> QED BY <1>1, <1>4, <1>5, <1>6, <1>7, <1>10, <1>11, Dispatched
-----------------------------------------------------------------------------
(* Workers: what a thread that holds the lock does to the disk.             *)

\* Its task has not ended, so nothing that left the host or was recorded is
\* about it, and no other thread is at work on it.
LEMMA Worked ==
    ASSUME DeliveryInv, host = "up", NEW d \in Dispatchers, Runs(d),
           NEW t \in Ids, t = D(d), NEW r \in DispatcherRecords,
           dispatchers' = [dispatchers EXCEPT ![d] = r],
           r.at \in HoldsLock \ {"starting"}, r.task = t,
           r.request = dispatchers[d].request,
           tree' \in [Ids -> Trees],
           journal' \in [Ids -> SUBSET {"prepared", "worker_running", "committed"}],
           made' \in [Ids -> {"nothing", "edits", "commit"}],
           \A u \in Ids \ {t} :
              tree'[u] = tree[u] /\ journal'[u] = journal[u] /\ made'[u] = made[u],
           touches = 0 => Untouched(t)',
           r.at \in {"preparing", "noting", "working", "committing"} =>
              /\ tree'[t].at = "own" /\ tree'[t].head = "base"
              /\ made'[t] # "commit",
           r.at = "committed" => made'[t] = "commit",
           UNCHANGED <<store, GitHub, publishers, reconciling, bounds>>
    PROVE  DeliveryInv'
<1> USE DEF DeliveryInv, store, bounds
<1>1. dispatchers'[d] = r /\ \A e \in Dispatchers \ {d} : dispatchers'[e] = dispatchers[e]
  BY DEF Typed
<1>2. t \in DOMAIN tasks /\ t \in Ids /\ ~ Ended(t) /\ tasks[t].state = "starting"
  BY TaskRows DEF WorkersOK, TasksOK, Own, HasTask, Runs, HoldsLock, Ended, PublishableTaskStates
<1>3. \A e \in Dispatchers \ {d} : Owns(e) => D(e) \in Ids /\ D(e) # t
  <2>1. \A e \in Dispatchers : Owns(e) => D(e) \in DOMAIN tasks
    BY DEF WorkersOK, TasksOK, Own, HasTask, Owns, HoldsLock
  <2>2. Owns(d) BY DEF Runs, Owns
  <2> QED BY <2>1, <2>2, TaskRows DEF OwnersOK
<1>4. RowsStay /\ DispatchStays BY DEF RowsStay, DispatchStays
<1>5. Typed' BY DEF Typed, TypeOK, GitHub
<1>6. HostOK' BY DEF HostOK
<1>7. TasksOK' BY DEF TasksOK, Own
<1>8. WorkersOK'
  <2>1. /\ r.request \in Requests /\ known[r.request] # None /\ r.task = known[r.request]
        /\ tasks[r.task].state = "starting"
    BY <1>2 DEF WorkersOK, HasTask, Runs, HoldsLock
  <2> QED BY <1>1, <2>1 DEF WorkersOK, HasTask, Runs, HoldsLock, D
<1>9. OwnersOK'
  <2>1. \A e \in Dispatchers \ {d} : Owns(e) => D(e) # r.task BY <1>3
  <2> QED BY <1>1, <2>1 DEF OwnersOK, Owns, D
<1>10. FreshOK'
  <2>1. \A u \in Ids \ {t} : Fresh(u) => Fresh(u)' BY DEF Fresh
  <2>2. \A u \in Ids : u \notin DOMAIN tasks' => Fresh(u)' BY <1>2, <2>1 DEF FreshOK
  <2>3. ASSUME NEW e \in Dispatchers, dispatchers'[e].at \in {"created", "starting"}
        PROVE  Fresh(D(e))'
    <3>1. e # d /\ dispatchers'[e] = dispatchers[e] BY <1>1, <2>3 DEF HoldsLock
    <3>2. Owns(e) /\ Fresh(D(e)) BY <2>3, <3>1 DEF FreshOK, Owns, HoldsLock
    <3>3. Fresh(D(e)) => D(e)' = D(e) /\ Fresh(D(e))'
      BY <1>3, <2>1, <3>1, <3>2 DEF D, Fresh
    <3> QED BY <3>2, <3>3
  <2> QED BY <2>2, <2>3 DEF FreshOK
<1>11. WorkOK'
  <2>1. ASSUME touches = 0, NEW u \in Ids PROVE Untouched(u)'
    <3>1. CASE u = t BY <2>1, <3>1
    <3>2. CASE u # t BY <2>1, <3>2 DEF WorkOK, Untouched
    <3> QED BY <3>1, <3>2
  <2>2. ASSUME NEW e \in Dispatchers \ {d}
        PROVE  /\ dispatchers[e].at \in {"preparing", "noting", "working", "committing"} =>
                     /\ tree'[D(e)].at = "own" /\ tree'[D(e)].head = "base"
                     /\ made'[D(e)] # "commit"
               /\ dispatchers[e].at = "committed" => made'[D(e)] = "commit"
    BY <1>3 DEF WorkOK, Owns, HoldsLock
  <2> QED BY <1>1, <2>1, <2>2 DEF WorkOK, D
<1>12. RemoteOK' /\ PublishersOK' /\ PubOK' /\ ReconOK'
  <2>1. \A u \in Ids : Ended(u) =>
           tree'[u] = tree[u] /\ journal'[u] = journal[u] /\ made'[u] = made[u]
    BY <1>2
  <2> QED BY <1>4, <2>1, EndedKept
<1> QED BY <1>5, <1>6, <1>7, <1>8, <1>9, <1>10, <1>11, <1>12

\* The worktree is cut, the phases are noted or lost, the worker edits, comes
\* back, and what it left is committed or not.
LEMMA WorkPreserves ==
    ASSUME DeliveryInv, NEW d \in Dispatchers,
           \/ Prepare(d) \/ NotePrepared(d) \/ NoteRunning(d) \/ Edit(d)
           \/ \E fails \in BOOLEAN : Return(d, fails)
           \/ Commit(d) \/ NoteCommitted(d)
    PROVE  DeliveryInv'
<1> USE DEF DeliveryInv, disk, github, threads, GitHub
<1>0. PICK t : t = D(d) OBVIOUS
<1> DEFINE Moved(at) == [dispatchers[d] EXCEPT !.at = at]
<1>1. /\ dispatchers[d] \in DispatcherRecords /\ host = "up" /\ Runs(d)
      /\ UNCHANGED <<store, GitHub, publishers, reconciling, bounds>>
  BY DEF Typed, Prepare, NotePrepared, NoteRunning, Edit, Return, Commit, NoteCommitted,
         At, Runs, HoldsLock
<1>2. t \in DOMAIN tasks /\ t \in Ids
  BY <1>0, <1>1, TaskRows DEF WorkersOK, TasksOK, Own, HasTask, Runs, HoldsLock
<1>3. /\ tree \in [Ids -> Trees] /\ tree[t] \in Trees
      /\ journal \in [Ids -> SUBSET {"prepared", "worker_running", "committed"}]
      /\ made \in [Ids -> {"nothing", "edits", "commit"}]
      /\ touches = 0 => Untouched(t)
  BY <1>2 DEF Typed, TypeOK, WorkOK
<1>4. ASSUME NEW at \in HoldsLock PROVE
         /\ Moved(at) \in DispatcherRecords /\ Moved(at).at = at /\ Moved(at).task = t
         /\ Moved(at).request = dispatchers[d].request
  BY <1>0, <1>1 DEF DispatcherRecords, D
<1> HIDE DEF Moved
<1>5. CASE Prepare(d)
  <2> DEFINE new == [at |-> "own", head |-> "base", dirty |-> FALSE]
  <2>1. /\ tree' = [tree EXCEPT ![t] = new] /\ journal' = journal /\ made' = made
        /\ dispatchers' = [dispatchers EXCEPT ![d] = Moved("preparing")]
    BY <1>0, <1>5 DEF Prepare, Goto, Moved
  <2>2. new \in Trees /\ tree'[t] = new BY <1>0, <1>2, <1>3, <2>1 DEF Trees, Commits
  <2>3. Fresh(t) BY <1>0, <1>5 DEF Prepare, At, FreshOK
  <2>4. touches = 0 => Untouched(t)' BY <1>0, <1>3, <2>1, <2>2, <2>3 DEF Untouched, Fresh
  <2>5. tree'[t].at = "own" /\ tree'[t].head = "base" /\ made'[t] # "commit"
    BY <1>0, <2>1, <2>2, <2>3 DEF Fresh
  <2> QED BY <1>0, <1>1, <1>2, <1>3, <1>4, <2>1, <2>2, <2>4, <2>5, Worked DEF HoldsLock
<1>6. CASE NotePrepared(d) \/ NoteRunning(d)
  <2>1. PICK phase \in {"prepared", "worker_running"}, at \in {"noting", "working"} :
           /\ Note(t, phase) /\ dispatchers[d].at \in {"preparing", "noting"}
           /\ dispatchers' = [dispatchers EXCEPT ![d] = Moved(at)]
    BY <1>0, <1>6 DEF NotePrepared, NoteRunning, Goto, Moved, At
  <2>2. tree' = tree /\ made' = made BY <1>0, <1>6 DEF NotePrepared, NoteRunning
  <2>3. /\ journal' \in [Ids -> SUBSET {"prepared", "worker_running", "committed"}]
        /\ journal'[t] \in {journal[t], journal[t] \cup {phase}}
        /\ \A u \in Ids \ {t} : journal'[u] = journal[u]
    BY <1>0, <1>2, <1>3, <2>1 DEF Note
  <2>4. /\ tree[t].at = "own" /\ tree[t].head = "base" /\ made[t] # "commit"
    BY <1>0, <2>1 DEF WorkOK
  <2>5. touches = 0 => Untouched(t)' BY <1>0, <1>3, <2>2, <2>3, <2>4 DEF Untouched
  <2>6. /\ Moved(at) \in DispatcherRecords /\ Moved(at).at = at /\ Moved(at).task = t
        /\ Moved(at).request = dispatchers[d].request
    BY <1>4 DEF HoldsLock
  <2> QED BY <1>0, <1>1, <1>2, <1>3, <2>1, <2>2, <2>3, <2>4, <2>5, <2>6, Worked DEF HoldsLock
<1>7. CASE Edit(d)
  <2> DEFINE new == [tree[t] EXCEPT !.dirty = TRUE]
  <2>1. /\ tree' = [tree EXCEPT ![t] = new] /\ made' = [made EXCEPT ![t] = "edits"]
        /\ journal' = journal /\ dispatchers' = [dispatchers EXCEPT ![d] = dispatchers[d]]
        /\ dispatchers[d].at \in {"working", "committing"}
    BY <1>0, <1>7 DEF Edit, At, Typed
  <2>2. /\ new \in Trees /\ tree'[t] = new /\ new.at = tree[t].at /\ new.head = tree[t].head
        /\ new.dirty /\ made'[t] = "edits"
    BY <1>0, <1>2, <1>3, <2>1 DEF Trees
  <2> HIDE DEF new
  <2>3. tree[t].at = "own" /\ tree[t].head = "base" /\ made[t] # "commit"
    BY <1>0, <2>1 DEF WorkOK
  <2>4. touches = 0 => Untouched(t)' BY <1>0, <1>3, <2>1, <2>2, <2>3 DEF Untouched
  <2> QED BY <1>0, <1>1, <1>2, <1>3, <2>1, <2>2, <2>3, <2>4, Worked DEF HoldsLock, D
<1>8. ASSUME NEW fails \in BOOLEAN, Return(d, fails) PROVE DeliveryInv'
  <2>0. PICK at \in {"noted", "committing"} :
           dispatchers' = [dispatchers EXCEPT ![d] =
                             [dispatchers[d] EXCEPT !.fails = fails, !.at = at]]
    BY <1>8 DEF Return
  <2> DEFINE r == [dispatchers[d] EXCEPT !.fails = fails, !.at = at]
  <2>1. /\ dispatchers' = [dispatchers EXCEPT ![d] = r] /\ UNCHANGED <<tree, journal, made>>
        /\ dispatchers[d].at = "working" /\ r \in DispatcherRecords /\ r.at = at
        /\ r.task = t /\ r.request = dispatchers[d].request
    BY <1>0, <1>1, <1>8, <2>0 DEF Return, At, DispatcherRecords, HoldsLock, D
  <2> HIDE DEF r
  <2>2. tree[t].at = "own" /\ tree[t].head = "base" /\ made[t] # "commit"
    BY <1>0, <2>1 DEF WorkOK
  <2>3. touches = 0 => Untouched(t)' BY <1>0, <1>3, <2>1 DEF Untouched
  <2> QED BY <1>0, <1>1, <1>2, <1>3, <2>1, <2>2, <2>3, Worked DEF HoldsLock
<1>9. CASE Commit(d)
  <2>1. dispatchers[d].at = "committing" /\ journal' = journal BY <1>0, <1>9 DEF Commit, At
  <2>2. tree[t].at = "own" /\ tree[t].head = "base" /\ made[t] # "commit"
    BY <1>0, <2>1 DEF WorkOK
  <2>3. CASE made' # made
    <3> DEFINE new == [tree[t] EXCEPT !.dirty = FALSE, !.head = "work"]
    <3>1. /\ tree' = [tree EXCEPT ![t] = new] /\ made' = [made EXCEPT ![t] = "commit"]
          /\ dispatchers' = [dispatchers EXCEPT ![d] = Moved("committed")]
      BY <1>0, <1>9, <2>3 DEF Commit, Goto, Moved
    <3>2. /\ new \in Trees /\ tree'[t] = new /\ new.at = tree[t].at /\ new.head = "work"
          /\ ~ new.dirty /\ made'[t] = "commit"
      BY <1>0, <1>2, <1>3, <3>1 DEF Trees, Commits
    <3> HIDE DEF new
    <3>3. touches = 0 => Untouched(t)' BY <1>0, <1>3, <2>1, <2>2, <3>1, <3>2 DEF Untouched
    <3> QED BY <1>0, <1>1, <1>2, <1>3, <1>4, <2>1, <3>1, <3>2, <3>3, Worked DEF HoldsLock
  <2>4. CASE made' = made
    <3>1. made'[t] # "commit" BY <1>0, <2>2, <2>4
    <3>2. PICK fails \in BOOLEAN :
             /\ dispatchers' = [dispatchers EXCEPT ![d] =
                                  [dispatchers[d] EXCEPT !.at = "noted", !.fails = fails]]
             /\ tree' = tree
      <4>1. [made EXCEPT ![t] = "commit"][t] = "commit" BY <1>0, <1>2, <1>3
      <4>2. dispatchers[d].fails \in BOOLEAN
            /\ [dispatchers[d] EXCEPT !.at = "noted"] =
               [dispatchers[d] EXCEPT !.at = "noted", !.fails = dispatchers[d].fails]
        BY <1>0, <1>1 DEF DispatcherRecords
      <4> QED BY <1>0, <1>9, <3>1, <4>1, <4>2 DEF Commit, Goto
    <3> DEFINE r == [dispatchers[d] EXCEPT !.at = "noted", !.fails = fails]
    <3>3. /\ r \in DispatcherRecords /\ r.at = "noted" /\ r.task = t
          /\ r.request = dispatchers[d].request
          /\ dispatchers' = [dispatchers EXCEPT ![d] = r]
      BY <1>0, <1>1, <3>2 DEF DispatcherRecords, HoldsLock, D
    <3> HIDE DEF r
    <3>4. touches = 0 => Untouched(t)' BY <1>0, <1>3, <2>1, <2>4, <3>2 DEF Untouched
    <3> QED BY <1>0, <1>1, <1>2, <1>3, <2>1, <2>4, <3>2, <3>3, <3>4, Worked DEF HoldsLock
  <2> QED BY <1>0, <2>3, <2>4
<1>10. CASE NoteCommitted(d)
  <2>1. /\ Note(t, "committed") /\ dispatchers[d].at = "committed"
        /\ dispatchers' = [dispatchers EXCEPT ![d] = Moved("noted")]
        /\ tree' = tree /\ made' = made
    BY <1>0, <1>10 DEF NoteCommitted, Goto, Moved, At
  <2>2. made[t] = "commit" BY <1>0, <2>1 DEF WorkOK
  <2>3. /\ journal' \in [Ids -> SUBSET {"prepared", "worker_running", "committed"}]
        /\ journal'[t] \in {journal[t], journal[t] \cup {"committed"}}
        /\ \A u \in Ids \ {t} : journal'[u] = journal[u]
    BY <1>0, <1>2, <1>3, <2>1 DEF Note
  <2>4. touches = 0 => Untouched(t)' BY <1>0, <1>3, <2>1, <2>2, <2>3 DEF Untouched
  <2> QED BY <1>0, <1>1, <1>2, <1>3, <1>4, <2>1, <2>3, <2>4, Worked DEF HoldsLock
<1> QED BY <1>5, <1>6, <1>7, <1>8, <1>9, <1>10
-----------------------------------------------------------------------------
(* Who changes rows of Task Core while the threads stay where they are.     *)

LEMMA ThreadsStay ==
    ASSUME DeliveryInv, RowsStay, DOMAIN tasks' = DOMAIN tasks,
           Typed', HostOK', TasksOK', WorkersOK',
           \/ reconciling' \in {reconciling, None}
           \/ Found(reconciling.request, reconciling.outcome)',
           UNCHANGED <<dispatch, recon, pub, Disk, GitHub, dispatchers, publishers,
                       touches, baseAuthor>>
    PROVE  DeliveryInv'
<1> USE DEF DeliveryInv
<1>1. OwnersOK' BY DEF OwnersOK, Owns, D
<1>2. FreshOK' BY DEF FreshOK, Fresh, Disk, D
<1>3. WorkOK' BY DEF WorkOK, Untouched, Disk, D
<1>4. RemoteOK' /\ PublishersOK' /\ PubOK' /\ ReconOK'
  <2>1. DispatchStays BY DEF DispatchStays
  <2>2. \A t \in Ids : tree'[t] = tree[t] /\ journal'[t] = journal[t] /\ made'[t] = made[t]
    BY DEF Disk
  <2>3. \A p \in Publishers : publishers'[p] \in {publishers[p], IdlePublisher} OBVIOUS
  <2> QED BY <2>1, <2>2, <2>3, EndedKept
<1> QED BY <1>1, <1>2, <1>3, <1>4

\* No thread is at work when a key is forgotten.
LEMMA ForgetPreserves ==
    ASSUME DeliveryInv, NEW q \in Requests, ForgetKey(q)
    PROVE  DeliveryInv'
<1> USE DEF DeliveryInv
<1>1. /\ known' = [known EXCEPT ![q] = None]
      /\ \A d \in Dispatchers : dispatchers[d].at = "idle"
      /\ UNCHANGED <<tasks, dispatch, recon, pub, Disk, GitHub, dispatchers, publishers,
                     reconciling, host, touches, baseAuthor>>
  BY DEF ForgetKey, Disk, GitHub, disk, github, threads, bounds
<1>2. known' \in [Requests -> Ids \cup {None}] /\ \A p \in Requests : known'[p] \in {known[p], None}
  BY <1>1 DEF Typed, TypeOK
<1>3. Typed' BY <1>1, <1>2 DEF Typed, TypeOK, Disk, GitHub
<1>4. HostOK' BY <1>1 DEF HostOK
<1>5. TasksOK' BY <1>1, <1>2 DEF TasksOK, Own
<1>6. WorkersOK' BY <1>1 DEF WorkersOK, HasTask, Runs, HoldsLock
<1>7. RowsStay BY <1>1 DEF RowsStay
<1> QED BY <1>1, <1>3, <1>4, <1>5, <1>6, <1>7, ThreadsStay

\* A cancelled task is parked or not started: no worker runs for it.
LEMMA CancelPreserves ==
    ASSUME DeliveryInv, NEW q \in Requests, Cancel(q)
    PROVE  DeliveryInv'
<1> USE DEF DeliveryInv
<1> DEFINE t == dispatch[q]
<1>1. /\ t \in DOMAIN tasks /\ tasks[t].state \in {"recovery_required", "created"}
      /\ SetState(t, "cancelling")
      /\ UNCHANGED <<known, dispatch, recon, pub, Disk, GitHub, dispatchers, publishers,
                     reconciling, host, touches, baseAuthor>>
  <2>1. t # None BY NoneIsNothing DEF Cancel, TaskOf, TaskStates
  <2>2. t \in DOMAIN tasks BY <2>1 DEF TasksOK, Own
  <2>3. tasks[t].state \in {"recovery_required", "created"} BY <2>1 DEF Cancel, TaskOf
  <2> QED BY <2>2, <2>3 DEF Cancel, Disk, GitHub, disk, github, threads, bounds
<1>2. ~ Ended(t) /\ "cancelling" \in TaskStates
  BY <1>1 DEF Ended, PublishableTaskStates, TaskStates
<1>3. /\ tasks' \in Seq([request: Requests, state: TaskStates]) /\ Len(tasks') <= MaxTasks
      /\ DOMAIN tasks' = DOMAIN tasks /\ RowsStay /\ TasksOK'
      /\ \A u \in DOMAIN tasks \ {t} : tasks'[u] = tasks[u]
  BY <1>1, <1>2, StateSet
<1>4. Typed' BY <1>1, <1>3 DEF Typed, TypeOK, Disk, GitHub
<1>5. HostOK' BY <1>1 DEF HostOK
<1>6. WorkersOK'
  <2>1. \A d \in Dispatchers : Runs(d) => D(d) \in DOMAIN tasks \ {t}
    BY <1>1 DEF WorkersOK, TasksOK, Own, HasTask, Runs, HoldsLock
  <2> QED BY <1>1, <1>3, <2>1 DEF WorkersOK, HasTask, Runs, D
<1> QED BY <1>1, <1>3, <1>4, <1>5, <1>6, ThreadsStay

\* The host is down or booting: a worker a crash stopped is parked.
LEMMA RecoverPreserves ==
    ASSUME DeliveryInv, RecoverTasks
    PROVE  DeliveryInv'
<1> USE DEF DeliveryInv
<1> DEFINE Rows == [request: Requests, state: TaskStates]
           Row1(t) == IF tasks[t].state \in {"starting", "cancelling"}
                      THEN [tasks[t] EXCEPT !.state = "recovery_required"]
                      ELSE tasks[t]
<1>1. /\ host = "down" /\ host' = "reconciling" /\ tasks' = [t \in DOMAIN tasks |-> Row1(t)]
      /\ UNCHANGED <<known, dispatch, recon, pub, Disk, GitHub, dispatchers, publishers,
                     reconciling, touches, baseAuthor>>
  BY DEF RecoverTasks, Disk, GitHub, disk, github, threads
<1>2. ASSUME NEW t \in DOMAIN tasks
      PROVE  /\ Row1(t) \in Rows /\ Row1(t).request = tasks[t].request
             /\ Ended(t) => Row1(t).state = tasks[t].state
  BY TaskRows DEF TaskStates, Ended, PublishableTaskStates
<1> HIDE DEF Row1, Rows
<1>3. DOMAIN tasks' = DOMAIN tasks /\ tasks' \in Seq(Rows) /\ Len(tasks') = Len(tasks)
  <2>1. PICK n \in Nat : n = Len(tasks) /\ DOMAIN tasks = 1 .. n BY TaskRows
  <2>2. tasks' \in [1 .. n -> Rows] BY <1>1, <1>2, <2>1
  <2> QED BY <2>1, <2>2
<1>4. RowsStay /\ TasksOK' BY <1>1, <1>2, <1>3 DEF RowsStay, TasksOK, Own
<1>5. Typed' BY <1>1, <1>3 DEF Typed, TypeOK, Disk, GitHub, Rows
<1>6. HostOK' BY <1>1 DEF HostOK
<1>7. WorkersOK' BY <1>1 DEF HostOK, WorkersOK, HasTask, Runs, HoldsLock, IdleDispatcher
<1> QED BY <1>1, <1>3, <1>4, <1>5, <1>6, <1>7, ThreadsStay

\* The untouched worktree of a parked task and its journal say what its worker
\* did.
LEMMA ClassifyIsTrue ==
    ASSUME DeliveryInv, NEW q \in Requests, dispatch[q] # None,
           NEW found \in {Classify(dispatch[q]), "undetermined"}
    PROVE  Truth(q, found)
<1> DEFINE t == dispatch[q]
<1> SUFFICES ASSUME touches = 0, "prepared" \in journal[t] \/ baseAuthor = "person",
                    found = Classify(t)
             PROVE  found \in CASE made[t] = "nothing" -> {"never_started", "no_work_found"}
                                [] made[t] = "edits" -> {"partial_work_preserved"}
                                [] made[t] = "commit" -> {"commit_recovered"}
  BY DEF Truth
<1>1. t \in Ids /\ made[t] \in {"nothing", "edits", "commit"} /\ Untouched(t)
  BY DEF DeliveryInv, Typed, TypeOK, WorkOK
<1>2. Author("base") = baseAuthor /\ Author("work") = "cofferdam" BY DEF Author
<1> HIDE DEF t
<1>3. CASE made[t] = "nothing"
  BY <1>1, <1>2, <1>3 DEF Untouched, Classify, DispatchCommit
<1>4. CASE made[t] = "edits"
  BY <1>1, <1>2, <1>4 DEF Untouched, Classify, DispatchCommit
<1>5. CASE made[t] = "commit"
  BY <1>1, <1>2, <1>5 DEF Untouched, Classify, DispatchCommit
<1> QED BY <1>1, <1>3, <1>4, <1>5

\* A parked task is classified, and settled.
LEMMA SettlePreserves ==
    ASSUME DeliveryInv, NEW t \in Ids, NEW found \in Outcomes, SettleTask(t, found)
    PROVE  DeliveryInv'
<1> USE DEF DeliveryInv
<1>1. /\ host = "reconciling" /\ t \in DOMAIN tasks /\ tasks[t].state = "recovery_required"
      /\ SetState(t, "interrupted")
      /\ reconciling' = [request |-> tasks[t].request, outcome |-> found]
      /\ found \in {Classify(t), "undetermined"}
      /\ UNCHANGED <<known, dispatch, recon, pub, Disk, GitHub, dispatchers, publishers,
                     host, touches, baseAuthor>>
  BY DEF SettleTask, Parked, Disk, GitHub, disk, github, bounds
<1>2. PICK q \in Requests : dispatch[q] = t BY DEF SettleTask, Parked
<1>3. dispatch[q] # None /\ tasks[t].request = q BY <1>2, TaskRows DEF TasksOK, Own
<1>4. ~ Ended(t) /\ "interrupted" \in TaskStates
  BY <1>1 DEF Ended, PublishableTaskStates, TaskStates
<1>5. /\ tasks' \in Seq([request: Requests, state: TaskStates]) /\ Len(tasks') <= MaxTasks
      /\ tasks'[t].state = "interrupted"
      /\ DOMAIN tasks' = DOMAIN tasks /\ RowsStay /\ TasksOK'
  BY <1>1, <1>4, StateSet
<1>6. reconciling' \in [request: Requests, outcome: Outcomes] BY <1>1, <1>3
<1>7. Typed' BY <1>1, <1>5, <1>6 DEF Typed, TypeOK, Disk, GitHub
<1>8. HostOK' BY <1>1 DEF HostOK
<1>9. WorkersOK' BY <1>1 DEF HostOK, WorkersOK, HasTask, Runs, HoldsLock, IdleDispatcher
<1>10. Found(reconciling.request, reconciling.outcome)'
  <2>1. reconciling'.request = q /\ reconciling'.outcome = found BY <1>1, <1>3
  <2>2. Truth(q, found) BY <1>1, <1>2, <1>3, ClassifyIsTrue
  <2> QED BY <1>1, <1>2, <1>3, <1>5, <2>1, <2>2 DEF Found, Truth, Disk
<1> QED BY <1>1, <1>5, <1>7, <1>8, <1>9, <1>10, ThreadsStay

\* The first outcome of a request stands.
LEMMA RecordPreserves ==
    ASSUME DeliveryInv, RecordReconciliation
    PROVE  DeliveryInv'
<1> USE DEF DeliveryInv
<1> DEFINE q == reconciling.request
           o == reconciling.outcome
<1>1. /\ host = "reconciling" /\ reconciling # None /\ reconciling' = None
      /\ recon' = [recon EXCEPT ![q] = IF @ = None THEN o ELSE @]
      /\ UNCHANGED <<tasks, known, dispatch, pub, Disk, GitHub, dispatchers, publishers,
                     host, touches, baseAuthor>>
  BY DEF RecordReconciliation, Disk, GitHub, disk, github, bounds
<1>2. q \in Requests /\ o \in Outcomes /\ Found(q, o)
  BY <1>1 DEF Typed, ReconOK
<1> HIDE DEF q, o
<1>3. /\ recon' \in [Requests -> Outcomes \cup {None}]
      /\ recon'[q] \in {recon[q], o} /\ \A p \in Requests \ {q} : recon'[p] = recon[p]
      /\ recon[q] # None => recon'[q] = recon[q]
  BY <1>1, <1>2 DEF Typed, TypeOK
<1>4. Typed' BY <1>1, <1>3 DEF Typed, TypeOK, Disk, GitHub
<1>5. HostOK' BY <1>1 DEF HostOK
<1>6. TasksOK' /\ WorkersOK' /\ OwnersOK'
  BY <1>1 DEF TasksOK, Own, WorkersOK, OwnersOK, HasTask, Runs, Owns, D
<1>7. FreshOK' /\ WorkOK' BY <1>1 DEF FreshOK, Fresh, WorkOK, Untouched, Disk, D
<1>8. RemoteOK' /\ PublishersOK' /\ PubOK'
  BY <1>1 DEF RemoteOK, PublishersOK, PubOK, Stands, Ended, Disk, GitHub, Q, T
<1>9. ReconOK'
  <2>1. \A p \in Requests : \A x : Found(p, x) <=> Found(p, x)'
    BY <1>1 DEF Found, Truth, Disk
  <2>2. ASSUME NEW p \in Requests, recon'[p] # None PROVE Found(p, recon'[p])
    BY <1>2, <1>3, <2>2 DEF ReconOK
  <2>3. \A p \in Requests : recon'[p] # None => Found(p, recon[p])'
    BY <1>1, <2>2 DEF Found, Truth, Disk
  <2> QED BY <1>1, <2>3 DEF ReconOK
<1> QED BY <1>4, <1>5, <1>6, <1>7, <1>8, <1>9

\* A crash stops every thread; what is stored stays.
LEMMA CrashPreserves ==
    ASSUME DeliveryInv, Crash
    PROVE  DeliveryInv'
<1> USE DEF DeliveryInv
<1>1. /\ host' = "down" /\ reconciling' = None
      /\ dispatchers' = [d \in Dispatchers |-> IdleDispatcher]
      /\ publishers' = [p \in Publishers |-> IdlePublisher]
      /\ UNCHANGED <<tasks, known, dispatch, recon, pub, Disk, GitHub, touches, baseAuthor>>
  BY DEF Crash, store, Disk, GitHub, disk, github
<1>2. /\ IdleDispatcher \in DispatcherRecords /\ IdleDispatcher.at = "idle"
      /\ IdlePublisher \in PublisherRecords
      /\ \A d \in Dispatchers : dispatchers'[d].at = "idle"
  BY <1>1 DEF IdleDispatcher, DispatcherRecords, IdlePublisher, PublisherRecords
<1>3. Typed' BY <1>1, <1>2 DEF Typed, TypeOK, Disk, GitHub
<1>4. HostOK' BY <1>1 DEF HostOK
<1>5. TasksOK' BY <1>1 DEF TasksOK, Own
<1>6. WorkersOK' /\ OwnersOK'
  BY <1>2 DEF WorkersOK, OwnersOK, HasTask, Runs, Owns, HoldsLock
<1>7. FreshOK' /\ WorkOK' BY <1>1, <1>2 DEF FreshOK, Fresh, WorkOK, Untouched, Disk
<1>8. RemoteOK' /\ PublishersOK' /\ PubOK' /\ ReconOK'
  <2>1. RowsStay /\ DispatchStays BY <1>1 DEF RowsStay, DispatchStays
  <2>2. \A t \in Ids : tree'[t] = tree[t] /\ journal'[t] = journal[t] /\ made'[t] = made[t]
    BY <1>1 DEF Disk
  <2>3. \A p \in Publishers : publishers'[p] \in {publishers[p], IdlePublisher} BY <1>1
  <2>4. reconciling' \in {reconciling, None} BY <1>1
  <2> QED BY <1>1, <2>1, <2>2, <2>3, <2>4, EndedKept
<1> QED BY <1>3, <1>4, <1>5, <1>6, <1>7, <1>8
-----------------------------------------------------------------------------
(* Publishers.                                                              *)

Sent == {"pushed", "finding", "opening", "found"}

\* What a thread and a row may be after a step: as PublishersOK and PubOK say,
\* with what is on GitHub then.
ReadyAfter(r) ==
    /\ r.at # "idle" => /\ r.request \in Requests /\ dispatch[r.request] # None
                        /\ Stands(dispatch[r.request], r.commit)
    /\ r.at \in Sent => remote'[dispatch[r.request]] # None
    /\ r.at = "found" => r.pr \in DOMAIN prs'[dispatch[r.request]]
ListedAfter(q, row) ==
    /\ dispatch[q] # None /\ Stands(dispatch[q], row.commit)
    /\ row.state \in {"branch_published", "published"} => remote'[dispatch[q]] # None
    /\ row.state = "published" => row.pr \in DOMAIN prs'[dispatch[q]]

\* The branch of an ended task goes to GitHub, pull requests stay on it, threads
\* and rows move along: everything said of them still holds.
LEMMA Published ==
    ASSUME DeliveryInv, Typed', HostOK',
           \A t \in Ids : \/ remote'[t] = remote[t]
                          \/ remote'[t] = tree[t].head /\ Ended(t),
           \A t \in Ids : DOMAIN prs[t] \subseteq DOMAIN prs'[t],
           \A p \in Publishers : publishers'[p] = publishers[p] \/ ReadyAfter(publishers'[p]),
           \A q \in Requests : \/ pub'[q] = pub[q] \/ pub'[q] = None
                               \/ ListedAfter(q, pub'[q]),
           touches' = 0 => touches = 0,
           UNCHANGED <<tasks, known, dispatch, recon, Disk, dispatchers, reconciling, baseAuthor>>
    PROVE  DeliveryInv'
<1> USE DEF DeliveryInv, Disk
<1>1. TasksOK' /\ WorkersOK' /\ OwnersOK' /\ FreshOK'
  BY DEF TasksOK, Own, WorkersOK, OwnersOK, FreshOK, Fresh, HasTask, Runs, Owns, D
<1>2. WorkOK' BY DEF WorkOK, Untouched, D
<1>3. \A t : Ended(t)' <=> Ended(t) BY DEF Ended
<1>4. tree \in [Ids -> Trees] /\ None \notin Commits
  BY NoneIsNothing DEF Typed, TypeOK, Commits
<1>5. \A t \in Ids : remote[t] # None => remote'[t] # None BY <1>4 DEF Trees
<1>6. RemoteOK' BY <1>3 DEF RemoteOK
<1>7. ASSUME NEW t \in Ids, NEW c, Stands(t, c) PROVE Stands(t, c)'
  BY <1>3, <1>7 DEF Stands
<1>8. \A q \in Requests : dispatch[q] # None => dispatch[q] \in Ids BY DEF Typed, TypeOK
<1>9. \A p \in Publishers : ReadyAfter(publishers'[p])
  BY <1>5, <1>8 DEF PublishersOK, ReadyAfter, Q, T, Sent
<1>10. PublishersOK'
  BY <1>7, <1>8, <1>9 DEF PublishersOK, ReadyAfter, Q, T, Sent
<1>11. \A q \in Requests : pub'[q] # None => ListedAfter(q, pub'[q])
  BY <1>5, <1>8 DEF PubOK, ListedAfter
<1>12. PubOK' BY <1>7, <1>8, <1>11 DEF PubOK, ListedAfter
<1>13. ReconOK' BY DEF ReconOK, Found, Truth
<1> QED BY <1>1, <1>2, <1>6, <1>10, <1>12, <1>13

\* What a thread past the gate knows.
LEMMA PastGate ==
    ASSUME DeliveryInv, NEW p \in Publishers, publishers[p].at # "idle"
    PROVE  /\ publishers[p] \in PublisherRecords /\ publishers[p].commit \in Commits
           /\ Q(p) \in Requests /\ T(p) # None /\ T(p) \in Ids
           /\ Stands(T(p), publishers[p].commit) /\ Ended(T(p))
           /\ tree[T(p)].head \in Commits
           /\ publishers[p].at \in Sent => remote[T(p)] # None
           /\ publishers[p].at = "found" => publishers[p].pr \in DOMAIN prs[T(p)]
<1>1. publishers[p] \in PublisherRecords /\ tree \in [Ids -> Trees] BY DEF DeliveryInv, Typed, TypeOK
<1>2. /\ Q(p) \in Requests /\ T(p) # None /\ Stands(T(p), publishers[p].commit)
      /\ publishers[p].at \in Sent => remote[T(p)] # None
      /\ publishers[p].at = "found" => publishers[p].pr \in DOMAIN prs[T(p)]
  BY DEF DeliveryInv, PublishersOK, Sent
<1>3. T(p) \in Ids BY <1>2 DEF DeliveryInv, Typed, TypeOK, T
<1>4. tree[T(p)] \in Trees BY <1>1, <1>3
<1> QED BY <1>1, <1>2, <1>3, <1>4 DEF Stands, Trees

\* A pull request more leaves those there are.
LEMMA OneMore ==
    ASSUME DeliveryInv, NEW t \in Ids, prs' = [prs EXCEPT ![t] = Append(@, "open")]
    PROVE  /\ prs' \in [Ids -> Seq({"open", "closed"})]
           /\ \A u \in Ids : DOMAIN prs[u] \subseteq DOMAIN prs'[u]
           /\ Len(prs'[t]) \in DOMAIN prs'[t] /\ Len(prs'[t]) \in Nat
<1>1. prs \in [Ids -> Seq({"open", "closed"})] /\ prs[t] \in Seq({"open", "closed"})
  BY DEF DeliveryInv, Typed, TypeOK
<1> DEFINE more == Append(prs[t], "open")
<1>2. /\ more \in Seq({"open", "closed"}) /\ DOMAIN prs[t] \subseteq DOMAIN more
      /\ Len(more) \in DOMAIN more /\ Len(more) \in Nat
  <2>1. /\ more \in Seq({"open", "closed"}) /\ Len(more) = Len(prs[t]) + 1
        /\ Len(prs[t]) \in Nat
    BY <1>1
  <2> QED BY <1>1, <2>1
<1>3. prs' = [prs EXCEPT ![t] = more] OBVIOUS
<1> HIDE DEF more
<1> QED BY <1>1, <1>2, <1>3

\* A thread past the gate writes the row of its request, pushes its branch or
\* opens a pull request for it, and goes on or ends.
LEMMA PublisherPreserves ==
    ASSUME DeliveryInv, host = "up", NEW p \in Publishers, publishers[p].at # "idle",
           NEW r, publishers' = [publishers EXCEPT ![p] = r],
           \/ r = IdlePublisher
           \/ /\ r \in PublisherRecords /\ r.request = Q(p)
              /\ r.commit = publishers[p].commit
              /\ r.at \in Sent => remote'[T(p)] # None
              /\ r.at = "found" => r.pr \in DOMAIN prs'[T(p)],
           \/ pub' = pub
           \/ \E row \in Publications :
                 /\ SetPub(Q(p), row) /\ row.commit = publishers[p].commit
                 /\ row.state \in {"branch_published", "published"} => remote'[T(p)] # None
                 /\ row.state = "published" => row.pr \in DOMAIN prs'[T(p)],
           remote' = remote \/ remote' = [remote EXCEPT ![T(p)] = tree[T(p)].head],
           prs' = prs \/ prs' = [prs EXCEPT ![T(p)] = Append(@, "open")],
           UNCHANGED <<tasks, known, dispatch, recon, disk, dispatchers, reconciling, bounds>>
    PROVE  DeliveryInv'
<1> USE DEF DeliveryInv, disk, bounds
<1>1. /\ Q(p) \in Requests /\ T(p) # None /\ T(p) \in Ids
      /\ Stands(T(p), publishers[p].commit) /\ Ended(T(p)) /\ tree[T(p)].head \in Commits
  BY PastGate
<1>2. IdlePublisher \in PublisherRecords /\ IdlePublisher.at = "idle" /\ "idle" \notin Sent
  BY DEF IdlePublisher, PublisherRecords, Sent
<1>3. /\ publishers' \in [Publishers -> PublisherRecords] /\ publishers'[p] = r
      /\ \A b \in Publishers \ {p} : publishers'[b] = publishers[b]
  BY <1>2 DEF Typed
<1>4. /\ pub' \in [Requests -> Publications \cup {None}]
      /\ \A q \in Requests : pub'[q] = pub[q] \/ ListedAfter(q, pub'[q])
  <2>1. pub \in [Requests -> Publications \cup {None}] BY DEF Typed, TypeOK
  <2>2. ASSUME NEW row \in Publications, SetPub(Q(p), row), row.commit = publishers[p].commit,
               row.state \in {"branch_published", "published"} => remote'[T(p)] # None,
               row.state = "published" => row.pr \in DOMAIN prs'[T(p)]
        PROVE  /\ pub' \in [Requests -> Publications \cup {None}]
               /\ \A q \in Requests : pub'[q] = pub[q] \/ ListedAfter(q, pub'[q])
    <3>1. /\ pub' \in [Requests -> Publications \cup {None}] /\ pub'[Q(p)] = row
          /\ \A q \in Requests \ {Q(p)} : pub'[q] = pub[q]
      BY <1>1, <2>1, <2>2 DEF SetPub
    <3>2. ListedAfter(Q(p), row) BY <1>1, <2>2 DEF ListedAfter, T
    <3> QED BY <3>1, <3>2
  <2> QED BY <2>1, <2>2
<1>5. /\ remote' \in [Ids -> Commits \cup {None}]
      /\ \A t \in Ids : remote'[t] = remote[t] \/ (remote'[t] = tree[t].head /\ Ended(t))
  <2>1. remote \in [Ids -> Commits \cup {None}] BY DEF Typed, TypeOK
  <2> QED BY <1>1, <2>1
<1>6. /\ prs' \in [Ids -> Seq({"open", "closed"})]
      /\ \A t \in Ids : DOMAIN prs[t] \subseteq DOMAIN prs'[t]
  <2>1. CASE prs' = prs BY <2>1 DEF Typed, TypeOK
  <2> QED BY <1>1, <2>1, OneMore
<1>7. Typed' BY <1>3, <1>4, <1>5, <1>6 DEF Typed, TypeOK
<1>8. HostOK' BY DEF HostOK
<1>9. ReadyAfter(r) BY <1>1, <1>2 DEF ReadyAfter, T
<1>10. \A b \in Publishers : publishers'[b] = publishers[b] \/ ReadyAfter(publishers'[b])
  BY <1>3, <1>9
<1> QED BY <1>4, <1>5, <1>6, <1>7, <1>8, <1>10, Published DEF Disk

\* The gate lets the worker's own commit of an ended task through.
LEMMA GatePreserves ==
    ASSUME DeliveryInv, NEW p \in Publishers, NEW q \in Requests,
           PassGate(p, q) \/ RefuseGate(p, q)
    PROVE  DeliveryInv'
<1> USE DEF DeliveryInv, store, disk, github, threads, bounds
<1>1. \A b \in Publishers : publishers'[b] = publishers[b] \/ ReadyAfter(publishers'[b])
  <2>1. CASE PassGate(p, q)
    <3> DEFINE t == dispatch[q]
               r == [IdlePublisher EXCEPT !.at = "passed", !.request = q,
                                          !.commit = tree[t].head]
    <3>1. /\ t # None /\ tasks[t].state \in PublishableTaskStates
          /\ Author(tree[t].head) = "cofferdam" /\ publishers' = [publishers EXCEPT ![p] = r]
      BY <2>1 DEF PassGate, Publishable
    <3>2. /\ r.at = "passed" /\ r.request = q /\ r.commit = tree[t].head /\ "passed" \notin Sent
      BY DEF IdlePublisher, Sent
    <3>3. t \in Ids /\ Ended(t) BY <3>1 DEF Typed, TypeOK, TasksOK, Own, Ended
    <3>4. tree[t].head \in Commits /\ tree[t].head # "theirs"
      BY <3>1, <3>3 DEF Typed, TypeOK, Trees, Author
    <3>5. Stands(t, tree[t].head) BY <3>3, <3>4 DEF Stands, RemoteOK
    <3> HIDE DEF r
    <3>6. ReadyAfter(r) BY <3>1, <3>2, <3>5 DEF ReadyAfter
    <3> QED BY <3>1, <3>6 DEF Typed
  <2> QED BY <2>1 DEF RefuseGate
<1>2. /\ publishers' \in [Publishers -> PublisherRecords] /\ host = "up" /\ host' = "up"
      /\ UNCHANGED <<tasks, known, dispatch, recon, Disk, remote, prs, dispatchers,
                     reconciling, touches, baseAuthor>>
  <2>1. CASE PassGate(p, q)
    <3> DEFINE r == [IdlePublisher EXCEPT !.at = "passed", !.request = q,
                                          !.commit = tree[dispatch[q]].head]
    <3>1. tree[dispatch[q]].head \in Commits
      BY <2>1 DEF PassGate, Publishable, Typed, TypeOK, Trees
    <3>2. r \in PublisherRecords BY <3>1 DEF IdlePublisher, PublisherRecords
    <3> QED BY <2>1, <3>2 DEF PassGate, PAt, Typed, Disk
  <2> QED BY <2>1 DEF RefuseGate, PAt, Typed, Disk
<1>3. /\ pub' \in [Requests -> Publications \cup {None}]
      /\ \A b \in Requests : pub'[b] = pub[b] \/ ListedAfter(b, pub'[b])
  <2>1. CASE pub' = pub BY <2>1 DEF Typed, TypeOK
  <2>2. CASE RefuseGate(p, q)
    <3> DEFINE row == [pub[q] EXCEPT !.state = "refused", !.auth = FALSE]
    <3>1. pub[q] # None /\ pub' = [pub EXCEPT ![q] = row] BY <2>2 DEF RefuseGate, SetPub
    <3>2. pub[q] \in Publications BY <3>1 DEF Typed, TypeOK
    <3>3. /\ row \in Publications /\ row.state = "refused" /\ row.commit = pub[q].commit
      BY <3>2 DEF Publications, PublicationStates
    <3> HIDE DEF row
    <3>4. ListedAfter(q, row) BY <3>1, <3>3 DEF ListedAfter, PubOK
    <3> QED BY <3>1, <3>3, <3>4 DEF Typed, TypeOK
  <2> QED BY <2>1, <2>2 DEF PassGate
<1>4. Typed' BY <1>2, <1>3 DEF Typed, TypeOK, Disk
<1>5. HostOK' BY <1>2 DEF HostOK
<1> QED BY <1>1, <1>2, <1>3, <1>4, <1>5, Published

\* The row is set to pending, refused, branch published, interrupted, published.
LEMMA RowPreserves ==
    ASSUME DeliveryInv, NEW p \in Publishers,
           \/ RecordPending(p) \/ RefuseCredential(p) \/ RecordPushed(p)
           \/ \E auth \in BOOLEAN : PublishFails(p, auth)
           \/ RecordPublished(p)
    PROVE  DeliveryInv'
<1> DEFINE c == publishers[p].commit
           Rest == UNCHANGED <<tasks, known, dispatch, recon, disk, github, dispatchers,
                               reconciling, bounds>>
<1>1. host = "up" /\ publishers[p].at # "idle" /\ Rest
  BY DEF RecordPending, RefuseCredential, RecordPushed, PublishFails, RecordPublished, PAt,
         threads
<1>0. publishers[p] \in PublisherRecords /\ c \in Commits BY <1>1, PastGate
<1>2. remote' = remote /\ prs' = prs BY <1>1 DEF github
<1>3. /\ publishers[p].at \in Sent => remote[T(p)] # None
      /\ publishers[p].at = "found" => publishers[p].pr \in DOMAIN prs[T(p)]
      /\ publishers[p].pr \in Nat \cup {None}
  BY <1>1, PastGate DEF PublisherRecords
<1>4. CASE RecordPending(p) \/ RecordPushed(p)
  <2>1. PICK state \in {"pending", "branch_published"}, at \in {"pushing", "finding"} :
           /\ SetPub(Q(p), Row(state, c, None))
           /\ publishers' = [publishers EXCEPT ![p] = [publishers[p] EXCEPT !.at = at]]
           /\ state = "branch_published" \/ at = "finding" => publishers[p].at = "pushed"
    BY <1>4 DEF RecordPending, RecordPushed, PAt
  <2> DEFINE row == Row(state, c, None)
             r == [publishers[p] EXCEPT !.at = at]
  <2>2. /\ state \in PublicationStates /\ at \in Sent \cup {"passed", "pushing"}
        /\ c \in Commits
    BY <1>1, PastGate DEF PublicationStates, Sent
  <2>3. /\ row \in Publications /\ row.state = state /\ row.commit = c
        /\ r \in PublisherRecords /\ r.at = at /\ r.request = Q(p) /\ r.commit = c
    BY <1>0, <2>2 DEF Row, Publications, PublisherRecords, Q
  <2>4. remote[T(p)] # None \/ (state = "pending" /\ at = "pushing") BY <1>3, <2>1 DEF Sent
  <2> HIDE DEF row, r
  <2>5. /\ row.state \in {"branch_published", "published"} => remote'[T(p)] # None
        /\ row.state # "published" /\ r.at # "found"
        /\ r.at \in Sent => remote'[T(p)] # None
    BY <1>2, <2>1, <2>3, <2>4 DEF Sent
  <2>6. SetPub(Q(p), row) /\ publishers' = [publishers EXCEPT ![p] = r] BY <2>1 DEF row, r
  <2> QED BY <1>1, <1>2, <2>3, <2>5, <2>6, PublisherPreserves
<1>5. CASE \/ RefuseCredential(p) \/ RecordPublished(p)
           \/ \E auth \in BOOLEAN : PublishFails(p, auth)
  <2>1. c \in Commits /\ {"refused", "published", "interrupted"} \subseteq PublicationStates
    BY <1>1, PastGate DEF PublicationStates
  <2>2. PICK row \in Publications :
           /\ SetPub(Q(p), row) /\ row.commit = c
           /\ row.state = "published" => publishers[p].at = "found" /\ row.pr = publishers[p].pr
           /\ row.state # "branch_published"
    <3>1. CASE RefuseCredential(p)
      <4> DEFINE row == [Row("refused", c, None) EXCEPT !.auth = TRUE]
      <4>1. SetPub(Q(p), row) BY <3>1 DEF RefuseCredential
      <4>2. row \in Publications /\ row.state = "refused" /\ row.commit = c BY <2>1 DEF Row, Publications
      <4> HIDE DEF row
      <4> QED BY <4>1, <4>2
    <3>2. CASE RecordPublished(p)
      <4> DEFINE row == Row("published", c, publishers[p].pr)
      <4>1. SetPub(Q(p), row) /\ publishers[p].at = "found" BY <3>2 DEF RecordPublished, PAt
      <4>2. /\ row \in Publications /\ row.state = "published" /\ row.commit = c
            /\ row.pr = publishers[p].pr
        BY <1>3, <2>1 DEF Row, Publications
      <4> HIDE DEF row
      <4> QED BY <4>1, <4>2
    <3>3. ASSUME NEW auth \in BOOLEAN, PublishFails(p, auth)
          PROVE  \E row \in Publications :
                    SetPub(Q(p), row) /\ row.commit = c /\ row.state = "interrupted"
      <4> DEFINE row == [Row("interrupted", c, None) EXCEPT !.auth = auth]
      <4>1. SetPub(Q(p), row) BY <3>3 DEF PublishFails
      <4>2. row \in Publications /\ row.state = "interrupted" /\ row.commit = c
        BY <2>1 DEF Row, Publications
      <4> HIDE DEF row
      <4> QED BY <4>1, <4>2
    <3> QED BY <1>5, <3>1, <3>2, <3>3
  <2>3. /\ row.state \in {"branch_published", "published"} => remote'[T(p)] # None
        /\ row.state = "published" => row.pr \in DOMAIN prs'[T(p)]
    BY <1>2, <1>3, <2>2 DEF Sent
  <2>4. publishers' = [publishers EXCEPT ![p] = IdlePublisher]
    BY <1>5 DEF RefuseCredential, RecordPublished, PublishFails, EndPublish
  <2> QED BY <1>1, <1>2, <2>2, <2>3, <2>4, PublisherPreserves
<1> QED BY <1>4, <1>5

\* The branch is pushed; a pull request is found, opened, or opened unheard.
LEMMA GitHubPreserves ==
    ASSUME DeliveryInv, NEW p \in Publishers,
           Push(p) \/ FindPullRequest(p) \/ CreatePullRequest(p) \/ LoseAnswer(p)
    PROVE  DeliveryInv'
<1> DEFINE c == publishers[p].commit
           t == T(p)
<1>1. /\ host = "up" /\ publishers[p].at # "idle"
      /\ UNCHANGED <<tasks, known, dispatch, recon, disk, dispatchers, reconciling, bounds>>
  BY DEF Push, FindPullRequest, CreatePullRequest, LoseAnswer, PAt, store, github
<1>0. publishers[p] \in PublisherRecords /\ c \in Commits BY <1>1, PastGate
<1>2. /\ t \in Ids /\ tree[t].head \in Commits
      /\ publishers[p].at \in Sent => remote[t] # None
  BY <1>1, PastGate
<1>3. /\ remote \in [Ids -> Commits \cup {None}] /\ prs \in [Ids -> Seq({"open", "closed"})]
      /\ prs[t] \in Seq({"open", "closed"})
  BY <1>2 DEF DeliveryInv, Typed, TypeOK
<1>4. CASE Push(p)
  <2> DEFINE r == [publishers[p] EXCEPT !.at = "pushed"]
  <2>1. /\ remote' = [remote EXCEPT ![t] = tree[t].head] /\ prs' = prs /\ pub' = pub
        /\ publishers' = [publishers EXCEPT ![p] = r]
    BY <1>4 DEF Push, store
  <2>2. r \in PublisherRecords /\ r.at = "pushed" /\ r.request = Q(p) /\ r.commit = c
    BY <1>0 DEF PublisherRecords, Q
  <2>3. remote'[t] # None BY <1>2, <1>3, <2>1, NoneIsNothing
  <2> HIDE DEF r
  <2> QED BY <1>1, <2>1, <2>2, <2>3, PublisherPreserves
<1>5. CASE FindPullRequest(p) \/ (CreatePullRequest(p) /\ prs' = prs)
  <2>1. publishers[p].at \in Sent /\ remote' = remote /\ prs' = prs /\ pub' = pub
    BY <1>5 DEF FindPullRequest, CreatePullRequest, PAt, Sent, store, github
  <2>2. CASE publishers' = [publishers EXCEPT ![p].at = "opening"]
    <3> DEFINE r == [publishers[p] EXCEPT !.at = "opening"]
    <3>1. r \in PublisherRecords /\ r.at = "opening" /\ r.request = Q(p) /\ r.commit = c
      BY <1>0 DEF PublisherRecords, Q
    <3>2. publishers' = [publishers EXCEPT ![p] = r] BY <2>2
    <3> HIDE DEF r
    <3> QED BY <1>1, <1>2, <2>1, <3>1, <3>2, PublisherPreserves
  <2>3. CASE /\ prs[t] # <<>>
             /\ publishers' = [publishers EXCEPT ![p].at = "found", ![p].pr = Len(prs[t])]
    <3> DEFINE n == Len(prs[t])
               r == [publishers[p] EXCEPT !.at = "found", !.pr = n]
    <3>1. n \in Nat /\ n \in DOMAIN prs[t] BY <1>3, <2>3
    <3>2. r \in PublisherRecords /\ r.at = "found" /\ r.request = Q(p) /\ r.commit = c /\ r.pr = n
      BY <1>0, <3>1 DEF PublisherRecords, Q
    <3>3. publishers' = [publishers EXCEPT ![p] = r] BY <2>3 DEF DeliveryInv, Typed
    <3> HIDE DEF r, n
    <3> QED BY <1>1, <1>2, <2>1, <3>1, <3>2, <3>3, PublisherPreserves
  <2>4. Len(Append(prs[t], "open")) # Len(prs[t]) BY <1>3
  <2>5. prs # [prs EXCEPT ![t] = Append(@, "open")] BY <1>2, <1>3, <2>4
  <2> QED BY <1>5, <2>2, <2>3, <2>5 DEF FindPullRequest, CreatePullRequest
<1>6. CASE (CreatePullRequest(p) /\ prs' # prs) \/ LoseAnswer(p)
  <2>1. /\ publishers[p].at = "opening" /\ publishers[p].at \in Sent /\ remote' = remote
        /\ prs' = [prs EXCEPT ![t] = Append(@, "open")]
    BY <1>6 DEF CreatePullRequest, LoseAnswer, PAt, Sent
  <2> DEFINE n == Len(prs'[t])
  <2>2. n \in DOMAIN prs'[t] /\ n \in Nat BY <1>2, <2>1, OneMore
  <2>3. CASE CreatePullRequest(p)
    <3> DEFINE r == [publishers[p] EXCEPT !.at = "found", !.pr = n]
    <3>1. publishers' = [publishers EXCEPT ![p] = r] /\ pub' = pub
      BY <1>6, <2>3 DEF CreatePullRequest, LoseAnswer, store, DeliveryInv, Typed
    <3>2. r \in PublisherRecords /\ r.at = "found" /\ r.request = Q(p) /\ r.commit = c /\ r.pr = n
      BY <1>0, <2>2 DEF PublisherRecords, Q
    <3> HIDE DEF r, n
    <3> QED BY <1>1, <1>2, <2>1, <2>2, <3>1, <3>2, PublisherPreserves
  <2>4. CASE LoseAnswer(p)
    <3> DEFINE row == Row("interrupted", c, None)
    <3>1. SetPub(Q(p), row) /\ publishers' = [publishers EXCEPT ![p] = IdlePublisher]
      BY <2>4 DEF LoseAnswer, EndPublish
    <3>2. row \in Publications /\ row.state = "interrupted" /\ row.commit = c
      BY <1>0 DEF Row, Publications, PublicationStates
    <3> HIDE DEF row
    <3> QED BY <1>1, <2>1, <3>1, <3>2, PublisherPreserves
  <2> QED BY <1>6, <2>3, <2>4
<1> QED BY <1>4, <1>5, <1>6

\* The boot reads the remote: a row says pushed when the remote holds its commit,
\* published when there is a pull request too.
LEMMA ReconciledIsListed ==
    ASSUME DeliveryInv, NEW q \in Requests, pub[q] # None, NEW row \in Reconciled(q),
           UNCHANGED GitHub
    PROVE  row \in Publications /\ ListedAfter(q, row)
<1> USE DEF DeliveryInv, GitHub
<1> DEFINE t == dispatch[q]
           old == pub[q]
           halted == [old EXCEPT !.state = "interrupted", !.auth = FALSE]
           pushed == [old EXCEPT !.state = "branch_published", !.pr = None]
           n == Len(prs[t])
           opened == Row("published", old.commit, n)
<1>1. /\ old \in Publications /\ old.commit \in Commits /\ t # None /\ t \in Ids
      /\ Stands(t, old.commit) /\ prs[t] \in Seq({"open", "closed"})
  BY DEF Typed, TypeOK, PubOK, Publications
<1>2. n \in Nat /\ (n # 0 => n \in DOMAIN prs[t]) BY <1>1
<1>3. /\ halted \in Publications /\ halted.commit = old.commit /\ halted.state = "interrupted"
      /\ pushed \in Publications /\ pushed.commit = old.commit
      /\ pushed.state = "branch_published"
  BY <1>1 DEF Publications, PublicationStates
<1>4. opened \in Publications /\ opened.commit = old.commit /\ opened.pr = n
  BY <1>1, <1>2 DEF Row, Publications, PublicationStates
<1>5. \/ row = halted
      \/ row = pushed /\ remote[t] = old.commit
      \/ row = opened /\ remote[t] = old.commit /\ n # 0
  BY DEF Reconciled
<1>6. remote[t] = old.commit => remote[t] # None BY <1>1, NoneIsNothing
<1> HIDE DEF t, old, halted, pushed, opened, n
<1>7. t = dispatch[q] BY DEF t
<1>8. n # 0 => n \in DOMAIN prs[dispatch[q]] BY <1>2, <1>7
<1> QED BY <1>1, <1>3, <1>4, <1>5, <1>6, <1>7, <1>8 DEF ListedAfter

LEMMA ReconcilePreserves ==
    ASSUME DeliveryInv, ReconcilePublications
    PROVE  DeliveryInv'
<1> USE DEF DeliveryInv
<1>1. /\ reconciling = None /\ host' = "up"
      /\ UNCHANGED <<tasks, known, dispatch, recon, Disk, GitHub, remote, prs, dispatchers,
                     publishers, reconciling, touches, baseAuthor>>
  BY DEF ReconcilePublications, Disk, GitHub, disk, github, threads
<1>2. \A q \in Requests :
         pub'[q] = pub[q] \/ (pub'[q] \in Publications /\ ListedAfter(q, pub'[q]))
  <2>1. CASE pub' = pub BY <2>1
  <2>2. CASE pub' # pub
    <3>1. PICK rows \in [Unfinished -> UNION {Reconciled(q) : q \in Unfinished}] :
             /\ \A q \in Unfinished : rows[q] \in Reconciled(q)
             /\ pub' = [q \in Requests |-> IF q \in Unfinished THEN rows[q] ELSE pub[q]]
      BY <2>2 DEF ReconcilePublications
    <3>2. \A q \in Unfinished : pub[q] # None BY DEF Unfinished
    <3>3. \A q \in Requests \cap Unfinished :
             rows[q] \in Publications /\ ListedAfter(q, rows[q])
      BY <1>1, <3>1, <3>2, ReconciledIsListed
    <3> QED BY <3>1, <3>3
  <2> QED BY <2>1, <2>2
<1>3. pub' \in [Requests -> Publications \cup {None}]
  <2>1. DOMAIN pub' = Requests /\ pub' = [q \in Requests |-> pub'[q]]
    BY DEF ReconcilePublications, Typed, TypeOK
  <2>2. \A q \in Requests : pub'[q] \in Publications \cup {None}
    BY <1>2 DEF Typed, TypeOK
  <2> QED BY <2>1, <2>2
<1>4. Typed' BY <1>1, <1>3 DEF Typed, TypeOK, Disk
<1>5. HostOK' BY <1>1 DEF HostOK
<1> QED BY <1>1, <1>2, <1>4, <1>5, Published
-----------------------------------------------------------------------------
(* What people do.                                                          *)

\* A worktree goes away, to another branch, or on: not while its worker runs, and
\* from then on nothing is promised of what a restart makes of it.
LEMMA TouchPreserves ==
    ASSUME DeliveryInv, NEW t \in Ids,
           CommitOnTop(t) \/ \E at \in {"absent", "other"} : Disturb(t, at)
    PROVE  DeliveryInv'
<1> USE DEF DeliveryInv
<1>1. /\ Quiet(t) /\ tree[t].at = "own" /\ touches' = touches + 1
      /\ UNCHANGED <<tasks, known, dispatch, recon, pub, journal, made, GitHub, dispatchers,
                     publishers, reconciling, host, baseAuthor>>
  BY DEF CommitOnTop, Disturb, store, GitHub, github, threads
<1>2. PICK new \in Trees :
         tree' = [tree EXCEPT ![t] = new] /\ new.head \in {tree[t].head, "theirs"}
  <2>1. tree[t] \in Trees BY DEF Typed, TypeOK
  <2>2. CASE CommitOnTop(t)
    <3> DEFINE new == [tree[t] EXCEPT !.head = "theirs", !.dirty = FALSE]
    <3>1. tree' = [tree EXCEPT ![t] = new] BY <2>2 DEF CommitOnTop
    <3>2. new \in Trees /\ new.head = "theirs" BY <2>1 DEF Trees, Commits
    <3> HIDE DEF new
    <3> QED BY <3>1, <3>2
  <2>3. ASSUME NEW at \in {"absent", "other"}, Disturb(t, at)
        PROVE  \E new \in Trees : tree' = [tree EXCEPT ![t] = new] /\ new.head = tree[t].head
    <3> DEFINE new == [tree[t] EXCEPT !.at = at]
    <3>1. tree' = [tree EXCEPT ![t] = new] BY <2>3 DEF Disturb
    <3>2. new \in Trees /\ new.head = tree[t].head BY <2>1 DEF Trees
    <3> HIDE DEF new
    <3> QED BY <3>1, <3>2
  <2> QED BY <2>2, <2>3
<1>3. /\ tree' \in [Ids -> Trees] /\ tree'[t].head \in {tree[t].head, "theirs"}
      /\ \A u \in Ids \ {t} : tree'[u] = tree[u]
  BY <1>2 DEF Typed, TypeOK
<1>4. touches' \in Nat /\ touches' # 0 BY <1>1 DEF Typed
<1>5. Typed' BY <1>1, <1>3, <1>4 DEF Typed, TypeOK, GitHub
<1>6. HostOK' BY <1>1 DEF HostOK
<1>7. TasksOK' /\ WorkersOK' /\ OwnersOK'
  BY <1>1 DEF TasksOK, Own, WorkersOK, OwnersOK, HasTask, Runs, Owns, D
<1>8. \A u \in Ids : Fresh(u) => Fresh(u)' BY <1>1, <1>3 DEF Fresh
<1>9. \A d \in Dispatchers : Owns(d) => D(d) \in Ids
  BY TaskRows DEF WorkersOK, TasksOK, Own, HasTask, Owns, HoldsLock
<1>10. FreshOK'
  <2>1. \A d \in Dispatchers : D(d)' = D(d) BY <1>1 DEF D
  <2>2. ASSUME NEW d \in Dispatchers, dispatchers'[d].at \in {"created", "starting"}
        PROVE  Fresh(D(d))'
    <3>1. D(d) \in Ids /\ Fresh(D(d)) BY <1>1, <1>9, <2>2 DEF FreshOK, Owns, HoldsLock
    <3>2. Fresh(D(d)) /\ D(d) # t BY <1>1, <3>1 DEF Fresh
    <3> QED BY <1>1, <1>3, <2>1, <3>1, <3>2 DEF Fresh
  <2> QED BY <1>1, <1>8, <2>2 DEF FreshOK
<1>11. WorkOK'
  <2>1. ASSUME NEW d \in Dispatchers, dispatchers[d].at \in HoldsLock
        PROVE  tree'[D(d)] = tree[D(d)]
    BY <1>1, <1>3, <1>9, <2>1 DEF Quiet, Owns
  <2> QED BY <1>1, <1>4, <2>1 DEF WorkOK, HoldsLock, D
<1>12. RemoteOK' BY <1>1, <1>3 DEF RemoteOK, Ended, GitHub
<1>13. ASSUME NEW u \in Ids, NEW c, Stands(u, c) PROVE Stands(u, c)'
  BY <1>1, <1>3, <1>13 DEF Stands, Ended, GitHub
<1>14. \A q \in Requests : dispatch[q] # None => dispatch[q] \in Ids BY DEF Typed, TypeOK
<1>15. PublishersOK' BY <1>1, <1>13, <1>14 DEF PublishersOK, Q, T, GitHub
<1>16. PubOK' BY <1>1, <1>13, <1>14 DEF PubOK, GitHub
<1>17. ReconOK' BY <1>1, <1>4 DEF ReconOK, Found, Truth
<1> QED BY <1>5, <1>6, <1>7, <1>10, <1>11, <1>12, <1>15, <1>16, <1>17

\* A closed pull request is still there.
LEMMA ClosePreserves ==
    ASSUME DeliveryInv, NEW t \in Ids, ClosePullRequest(t)
    PROVE  DeliveryInv'
<1> USE DEF DeliveryInv
<1>1. /\ touches' = touches + 1
      /\ UNCHANGED <<tasks, known, dispatch, recon, pub, Disk, remote, dispatchers,
                     publishers, reconciling, host, baseAuthor>>
  BY DEF ClosePullRequest, store, Disk, disk, threads
<1>2. prs \in [Ids -> Seq({"open", "closed"})] /\ prs[t] \in Seq({"open", "closed"})
  BY DEF Typed, TypeOK
<1>3. PICK n \in DOMAIN prs[t] : prs' = [prs EXCEPT ![t] = [prs[t] EXCEPT ![n] = "closed"]]
  BY DEF ClosePullRequest
<1> DEFINE closed == [prs[t] EXCEPT ![n] = "closed"]
<1>4. closed \in Seq({"open", "closed"}) /\ DOMAIN closed = DOMAIN prs[t] BY <1>2
<1> HIDE DEF closed
<1>5. prs' = [prs EXCEPT ![t] = closed] BY <1>3 DEF closed
<1>6. /\ prs' \in [Ids -> Seq({"open", "closed"})]
      /\ \A u \in Ids : DOMAIN prs[u] \subseteq DOMAIN prs'[u]
  BY <1>2, <1>4, <1>5
<1>7. touches' \in Nat /\ touches' # 0 BY <1>1 DEF Typed
<1>8. Typed' BY <1>1, <1>6, <1>7 DEF Typed, TypeOK, Disk
<1>9. HostOK' BY <1>1 DEF HostOK
<1> QED BY <1>1, <1>6, <1>7, <1>8, <1>9, Published
-----------------------------------------------------------------------------
(* The invariant is inductive.                                              *)

LEMMA InitEstablishes == Init => DeliveryInv
<1> SUFFICES ASSUME Init PROVE DeliveryInv OBVIOUS
<1> USE DEF Init
<1>1. /\ IdleDispatcher \in DispatcherRecords /\ IdlePublisher \in PublisherRecords
      /\ IdleDispatcher.at = "idle" /\ IdlePublisher.at = "idle"
  BY DEF IdleDispatcher, DispatcherRecords, IdlePublisher, PublisherRecords
<1>2. [at |-> "absent", head |-> "base", dirty |-> FALSE] \in Trees BY DEF Trees, Commits
<1>3. TypeOK
  <2>1. tasks \in Seq([request: Requests, state: TaskStates]) /\ Len(tasks) <= MaxTasks
    BY BoundsAssumption
  <2>2. <<>> \in Seq({"open", "closed"}) OBVIOUS
  <2> QED BY <1>2, <2>1, <2>2 DEF TypeOK
<1>4. Typed BY <1>1, <1>3 DEF Typed
<1>5. HostOK /\ TasksOK BY DEF HostOK, TasksOK
<1>6. WorkersOK /\ OwnersOK BY <1>1 DEF WorkersOK, OwnersOK, HasTask, Runs, Owns, HoldsLock
<1>7. FreshOK /\ WorkOK BY <1>1 DEF FreshOK, Fresh, WorkOK, Untouched
<1>8. RemoteOK /\ PublishersOK /\ PubOK /\ ReconOK
  BY <1>1 DEF RemoteOK, PublishersOK, PubOK, ReconOK
<1> QED BY <1>4, <1>5, <1>6, <1>7, <1>8 DEF DeliveryInv

LEMMA StutterPreserves ==
    ASSUME DeliveryInv, UNCHANGED vars
    PROVE  DeliveryInv'
<1>1. UNCHANGED <<tasks, known, dispatch, recon, pub, Disk, remote, prs, dispatchers,
                  publishers, reconciling, host, touches, baseAuthor>>
  BY DEF vars, store, disk, Disk, github, threads, bounds
<1>2. Typed' BY <1>1 DEF DeliveryInv, Typed, TypeOK, Disk
<1>3. HostOK' BY <1>1 DEF DeliveryInv, HostOK
<1> QED BY <1>1, <1>2, <1>3, Published

LEMMA StepPreserves == DeliveryInv /\ [Next]_vars => DeliveryInv'
<1> SUFFICES ASSUME DeliveryInv, [Next]_vars PROVE DeliveryInv' OBVIOUS
<1>1. ASSUME NEW d \in Dispatchers, NEW q \in Requests, Dispatch(d, q) PROVE DeliveryInv'
  BY <1>1, DispatchPreserves
<1>2. ASSUME NEW d \in Dispatchers, DispatcherStep(d) PROVE DeliveryInv'
  BY <1>2, CreateTaskPreserves, StartPreserves, EndPreserves, WorkPreserves, LinkPreserves
     DEF DispatcherStep
<1>3. ASSUME NEW p \in Publishers, NEW q \in Requests, PassGate(p, q) \/ RefuseGate(p, q)
      PROVE  DeliveryInv'
  BY <1>3, GatePreserves
<1>4. ASSUME NEW p \in Publishers, PublisherStep(p) PROVE DeliveryInv'
  BY <1>4, RowPreserves, GitHubPreserves DEF PublisherStep
<1>5. ASSUME NEW q \in Requests, ForgetKey(q) \/ Cancel(q) PROVE DeliveryInv'
  BY <1>5, ForgetPreserves, CancelPreserves
<1>6. CASE Crash BY <1>6, CrashPreserves
<1>7. CASE Boot
  BY <1>7, RecoverPreserves, SettlePreserves, RecordPreserves, ReconcilePreserves DEF Boot
<1>8. ASSUME NEW t \in Ids,
             \/ CommitOnTop(t) \/ ClosePullRequest(t)
             \/ \E at \in {"absent", "other"} : Disturb(t, at)
      PROVE  DeliveryInv'
  BY <1>8, TouchPreserves, ClosePreserves
<1>9. CASE UNCHANGED vars BY <1>9, StutterPreserves
<1> QED BY <1>1, <1>2, <1>3, <1>4, <1>5, <1>6, <1>7, <1>8, <1>9 DEF Next

\* The inductive invariant of delivery holds, through crashes and boots and
\* whatever people do to worktrees and pull requests.
THEOREM DeliveryInvariant == Spec => []DeliveryInv
BY InitEstablishes, StepPreserves, PTL DEF Spec
-----------------------------------------------------------------------------
(* What it means.                                                           *)

LEMMA LeastRule ==
    ASSUME NEW S \in SUBSET (1 .. 17), 17 \in S
    PROVE  \E n \in S : \A m \in S : n <= m
BY SMTT(60)

\* The rules of derive say a settled phase for two reasons alone.
LEMMA SettledPhase ==
    ASSUME NEW q \in Requests, Phase(q) \in SettledPhases
    PROVE  PubOf(q) = "published" \/ TaskOf(q) = "cancelled"
<1> DEFINE rules == PhaseRules(q)
           speaks == {n \in DOMAIN rules : rules[n][1]}
           n == CHOOSE n \in speaks : \A m \in speaks : n <= m
<1>1. DOMAIN rules = 1 .. 17 /\ rules[17][1] BY DEF PhaseRules
<1>2. \E k \in speaks : \A m \in speaks : k <= m
  <2> HIDE DEF rules
  <2>1. speaks \in SUBSET (1 .. 17) /\ 17 \in speaks BY <1>1
  <2> QED BY <2>1, LeastRule
<1>3. n \in speaks BY <1>2
<1>4. Phase(q) = rules[n][2] BY DEF Phase
<1> HIDE DEF n
<1>5. n \in 1 .. 17 /\ rules[n][1] /\ rules[n][2] \in SettledPhases BY <1>1, <1>3, <1>4
<1>6. \A k \in 1 .. 17 : rules[k][2] \in SettledPhases => k \in {1, 11}
  BY DEF PhaseRules, SettledPhases
<1>7. rules[1][1] = (PubOf(q) = "published") /\ rules[11][1] = (TaskOf(q) = "cancelled")
  BY DEF PhaseRules
<1> HIDE DEF rules
<1> QED BY <1>5, <1>6, <1>7

\* A published row is about a task that ended, and a worker that runs is about
\* the one its request's key names, which is the same task.
LEMMA InvMeansQuiet == DeliveryInv => SettledIsQuiet
<1> SUFFICES ASSUME DeliveryInv, NEW q \in Requests, Phase(q) \in SettledPhases,
                    NEW d \in Dispatchers, Runs(d), tasks[D(d)].request = q
             PROVE  FALSE
  BY DEF SettledIsQuiet, Runs
<1> USE DEF DeliveryInv
<1>1. D(d) \in DOMAIN tasks /\ tasks[D(d)].state = "starting" /\ known[q] = D(d) /\ known[q] # None
  BY DEF WorkersOK, TasksOK, Own, HasTask, Runs, HoldsLock
<1>2. CASE TaskOf(q) = "cancelled"
  <2>1. dispatch[q] # None BY <1>2, NoneIsNothing DEF TaskOf
  <2>2. dispatch[q] \in DOMAIN tasks BY <2>1 DEF TasksOK, Own
  <2> QED BY <1>2, <2>1, <2>2, TaskRows DEF TaskOf, TaskStates
<1>3. CASE PubOf(q) = "published"
  <2>1. pub[q] # None BY <1>3, NoneIsNothing DEF PubOf, PublicationStates
  <2>2. dispatch[q] # None /\ Ended(dispatch[q]) BY <2>1 DEF PubOK, Stands
  <2>3. dispatch[q] = D(d) BY <1>1, <2>2 DEF TasksOK
  <2> QED BY <1>1, <2>2, <2>3 DEF Ended, PublishableTaskStates
<1> QED BY <1>2, <1>3, SettledPhase

LEMMA InvMeansShipped == DeliveryInv => ShippedIsFinished
<1> SUFFICES ASSUME DeliveryInv PROVE ShippedIsFinished OBVIOUS
<1> USE DEF DeliveryInv
<1>1. \A t \in Ids : remote[t] # None => tasks[t].state \in PublishableTaskStates
  BY DEF RemoteOK, Ended
<1>2. ASSUME NEW q \in Requests, pub[q] # None,
             pub[q].state \in {"branch_published", "published"}
      PROVE  /\ remote[dispatch[q]] \in {pub[q].commit, "theirs"}
             /\ pub[q].state = "published" => pub[q].pr \in DOMAIN prs[dispatch[q]]
  BY <1>2 DEF PubOK, Stands
<1> QED BY <1>1, <1>2 DEF ShippedIsFinished

\* What a restart records of a worker is what the worker did, however far it
\* came, while nobody touched its worktree and its base can be told apart.
THEOREM ReconciliationStaysTrue == Spec => []ReconciliationIsTrue
<1>1. DeliveryInv => ReconciliationIsTrue
  BY DEF DeliveryInv, ReconOK, Found, Truth, ReconciliationIsTrue
<1> QED BY <1>1, DeliveryInvariant, PTL

\* No project is called settled while a worker runs for it, nothing leaves the
\* host before its worker ended, and a row that says so names what left.
THEOREM NothingUnfinishedEverShows == Spec => []NothingUnfinishedShows
<1>1. DeliveryInv => NothingUnfinishedShows
  BY InvMeansQuiet, InvMeansShipped DEF DeliveryInv, Typed, NothingUnfinishedShows
<1> QED BY <1>1, DeliveryInvariant, PTL
=============================================================================
