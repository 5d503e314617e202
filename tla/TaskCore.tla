------------------------------ MODULE TaskCore ------------------------------
(***************************************************************************)
(* Task Core: TaskService (service.py) over TaskStore (store.py).           *)
(*                                                                          *)
(* One lock serialises the service's operations, so at most one of them is  *)
(* "the work"; every transaction of the store is an action of its own,      *)
(* because the process may die between any two of them.  The two calls that *)
(* write before they take the lock - the row of a new task and the key of a *)
(* follow-up - are in flight beside it.  The adapter is an environment that *)
(* answers each call with a report, a refusal or a fault.                   *)
(***************************************************************************)
EXTENDS TaskLifecycle, Naturals, Sequences, FiniteSets

CONSTANTS
    Tasks,         \* task identities
    Keys,          \* client_request_id of a follow-up: names its text and criteria
    NoKey,         \* the message of turn one, which is the task's own prompt
    Recoverable,   \* tasks of the adapter that declares recover_after_restart
                   \* and neither follow-ups nor structured progress
    MaxTurns,      \* MAX_TURNS_PER_TASK
    MaxPending,    \* MAX_PENDING_PER_TASK
    MaxQuestions,  \* bound: questions ever asked of one task
    MaxInFlight,   \* bound: follow-ups in flight outside the lock
    MaxCrashes,    \* bound: process deaths
    MaxExpiries    \* bound: keys that outlive IDEMPOTENCY_TTL_SECONDS

ASSUME NoKeyAssumption == NoKey \notin Keys
ASSUME RecoverableAssumption == Recoverable \subseteq Tasks
ASSUME LimitsAssumption == MaxTurns \in Nat \ {0} /\ MaxPending \in Nat \ {0}
ASSUME BoundsAssumption ==
    /\ MaxQuestions \in Nat
    /\ MaxInFlight \in Nat
    /\ MaxCrashes \in Nat
    /\ MaxExpiries \in Nat

VARIABLES
    state,      \* tasks.state, or "absent" before the row exists
    turns,      \* task_turns: outcome and message of each turn, in order
    questions,  \* task_clarifications: the status of each question
    prework,    \* dispatch_state of each pre-work fact of each turn number
    asker,      \* whose criteria the snapshot of a turn number holds
    ranged,     \* turns with a committed_range_observed event
    finals,     \* turns with a task_turn_final_state row
    evaluated,  \* turns with a task_turn_evaluations row
    followKeys, \* idempotency rows of scope task_followup:<task>
    toStart,    \* create_task calls between their insert and the lock
    inFlight,   \* send_followup calls that do not hold the lock yet
    work,       \* the operation that holds the lock, or Idle
    session,    \* the adapter's session of a task: "none", "idle" or "busy"
    mode,       \* "up" (serving), "down", "recovering"
    todo,       \* rows recover_after_restart has still to settle
    crashes,    \* number of process deaths
    expiries,   \* number of keys pruned
    reached,    \* history: turn numbers an adapter was called for
    delivered,  \* history: how often an adapter accepted the message of a key
    told        \* history: keys whose sender was answered "duplicate"

rows == <<state, turns, questions>>
facts == <<prework, asker>>
evidence == <<ranged, finals, evaluated>>
calls == <<toStart, inFlight>>
host == <<mode, todo, crashes, expiries>>
history == <<reached, delivered, told>>
vars == <<rows, facts, evidence, followKeys, calls, work, session, host,
          history>>

Facts == {"criteria", "continuity", "baseline"}

ReserveOrder == <<"criteria", "continuity", "baseline">>

\* Definitions named ...Mutant are not part of the specification: each is the
\* definition after it with a slip a programmer could make, and some property
\* must notice it.
MarkOrderMutant == <<"baseline", "continuity", "continuity">>
MarkOrder == <<"baseline", "criteria", "continuity">>

Dispatch == {"none", "captured", "dispatch_started", "dispatch_refused",
             "turn_opened"}
Replaceable == {"none", "captured"}

TurnNumbers == 1..(MaxTurns + 1)

Outcomes == {"open", "completed", "failed", "cancelled", "interrupted"}
Turn == [outcome : Outcomes, key : Keys \cup {NoKey}]
QuestionStatus == {"pending", "answered", "superseded", "cancelled"}

FollowupCall == [task : Tasks, key : Keys, seen : States,
                 step : {"read", "locking"}]

Operations == {"start", "followup", "refresh", "cancel", "answer", "finish"}
Steps == {"handover", "reserve", "mark", "call", "adapter", "unmark", "fail",
          "running", "open", "deliver", "answered", "apply", "range", "final",
          "settle", "evaluate"}

\* The local variables of the operation that holds the lock.
Work == [op : Operations, task : Tasks, key : Keys \cup {NoKey}, step : Steps,
         from : States,              \* expected_state of the next transition
         fresh : BOOLEAN,            \* starts_new_turn
         turn : TurnNumbers,         \* the number the pre-work facts reserved
         i : 1..3,                   \* position in a loop over the facts
         question : Nat,             \* the question an answer is for
         to : States \cup {"none"},  \* outcome.requested_state
         asks : BOOLEAN,             \* outcome.clarification is not None
         closes : BOOLEAN,           \* the _TurnClose is not None
         failing : BOOLEAN]          \* the operation ends in _fail
Idle == [step |-> "idle"]

\* What the shipped adapters report, with the session it leaves behind: "none"
\* asks for no state.  Only a busy session asks a question, and stays busy
\* until it is answered or given up; a wait without one is for a sign-in or a
\* refused permission.
Reported == {"none", "running", "waiting_for_user"} \cup TurnEndingStates
Report == [to : Reported, asks : BOOLEAN, leaves : {"none", "idle", "busy"}]
Says(to, leaves) == [to : {to}, asks : {FALSE}, leaves : leaves]
Ended == Says("completed", {"none"}) \cup Says("failed", {"none"})

StartReports(t) ==
    IF t \in Recoverable THEN Ended
    ELSE Ended \cup Says("none", {"busy"}) \cup Says("running", {"busy"})
               \cup Says("waiting_for_user", {"none", "idle"})

FollowupReports(t) ==
    IF session[t] = "none" THEN {}
    ELSE Says("none", {"busy"}) \cup Says("completed", {"none"})

InspectReports(t) ==
    Says("none", {session[t]})
    \cup (IF session[t] = "none" THEN {}
          ELSE Ended \cup Says("ready_for_followup", {"idle"}))
    \cup (IF session[t] = "busy"
          THEN Says("waiting_for_user", {"none", "idle"})
               \cup Says("cancelled", {"none"})
               \cup [to : {"waiting_for_user"}, asks : {TRUE}, leaves : {"busy"}]
          ELSE {})

CancelReportsMutant(t) == Ended \cup Says("cancelled", {"none"})
CancelReports(t) ==
    IF session[t] = "none" THEN {}
    ELSE Ended \cup Says("cancelled", {"none"})
               \cup Says("ready_for_followup", {"idle"})

-----------------------------------------------------------------------------
(* Queries of the store.                                                    *)

Live(t) == state[t] \in States \ Terminal
CurrentTurn(t) == {n \in DOMAIN turns[t] : turns[t][n].outcome = "open"}
HasOpenTurn(t) == CurrentTurn(t) # {}
LastTurn(t) == Len(turns[t])
Pending(t) == {q \in DOMAIN questions[t] : questions[t][q] = "pending"}

\* clarification_room: one more question may be pending.
HasRoom(t) == Cardinality(Pending(t)) < MaxPending

\* non_terminal_tasks: what a restart has to settle.
Unfinished == {t \in Tasks : Live(t)}

\* A closed turn with a criteria snapshot and no evaluation.
AwaitingEvaluationMutant(t) ==
    {n \in DOMAIN turns[t] : /\ prework[t]["criteria"][n] # "none"
                             /\ n \notin evaluated[t]}
AwaitingEvaluation(t) ==
    {n \in DOMAIN turns[t] : /\ turns[t][n].outcome # "open"
                             /\ prework[t]["criteria"][n] # "none"
                             /\ n \notin evaluated[t]}

\* Every question still pending takes the status; the others keep theirs.
ClosePendingMutant(t, status) == questions[t]
ClosePending(t, status) ==
    [q \in DOMAIN questions[t] |->
        IF questions[t][q] = "pending" THEN status ELSE questions[t][q]]

\* _close_turn_locked: the open turn, if there is one, takes the outcome.
CloseTurnMutant(t, outcome) ==
    [n \in DOMAIN turns[t] |-> IF n = 1
                               THEN [turns[t][n] EXCEPT !.outcome = outcome]
                               ELSE turns[t][n]]
CloseTurn(t, outcome) ==
    [n \in DOMAIN turns[t] |->
        IF turns[t][n].outcome = "open"
        THEN [turns[t][n] EXCEPT !.outcome = outcome]
        ELSE turns[t][n]]

\* _turn_to_close: what a report says of the turn it ends.
TurnOutcomeMutant(to) == to
TurnOutcome(to) == IF to = "ready_for_followup" THEN "completed" ELSE to

\* _open_turn_locked: the new row, and the facts reserved for its number are
\* bound to it in the same transaction.
OpenTurn(t, k) ==
    LET n == LastTurn(t) + 1
    IN  /\ turns' = [turns EXCEPT
                        ![t] = Append(@, [outcome |-> "open", key |-> k])]
        /\ prework' = [prework EXCEPT ![t] =
                        [f \in Facts |->
                            IF prework[t][f][n] = "none" THEN prework[t][f]
                            ELSE [prework[t][f] EXCEPT ![n] = "turn_opened"]]]
        /\ UNCHANGED asker

-----------------------------------------------------------------------------
(* The operation that holds the lock.                                       *)

\* The locals of an operation on t whose next transition expects "from".
Lease(op, t, k, from, fresh, step) ==
    [op |-> op, task |-> t, key |-> k, step |-> step, from |-> from,
     fresh |-> fresh, turn |-> LastTurn(t) + 1, i |-> 1, question |-> 0,
     to |-> "none", asks |-> FALSE, closes |-> FALSE, failing |-> FALSE]

Free == mode = "up" /\ work = Idle
Acquire(op, t, k, from, fresh, step) ==
    Free /\ work' = Lease(op, t, k, from, fresh, step)

At(step) == work # Idle /\ work.step = step
Goto(step) == work' = [work EXCEPT !.step = step, !.i = 1]
Return == work' = Idle

\* Advance a loop over the three facts; after the last one continue at "next".
Loop(next) == work' = IF work.i < 3 THEN [work EXCEPT !.i = @ + 1]
                      ELSE [work EXCEPT !.step = next, !.i = 1]

\* transition(): the row is in the expected state and the graph has the arrow.
MoveMutant(t, from, to) == state' = [state EXCEPT ![t] = to]
Move(t, from, to) ==
    /\ state[t] = from
    /\ CanTransition(from, to)
    /\ state' = [state EXCEPT ![t] = to]

-----------------------------------------------------------------------------
(* create_task and _start.                                                  *)

\* The insert, before the lock.
CreateTask(t) ==
    /\ mode = "up"
    /\ state[t] = "absent"
    /\ state' = [state EXCEPT ![t] = "created"]
    /\ toStart' = toStart \cup {t}
    /\ UNCHANGED <<turns, questions, facts, evidence, followKeys, inFlight,
                   work, session, host, history>>

\* created -> queued, or IllegalTransition when a cancel took the lock first.
Queue(t) ==
    /\ t \in toStart
    /\ toStart' = toStart \ {t}
    /\ Free
    /\ \/ /\ Move(t, "created", "queued")
          /\ Acquire("start", t, NoKey, "queued", TRUE, "handover")
       \/ /\ state[t] # "created"
          /\ UNCHANGED <<state, work>>
    /\ UNCHANGED <<turns, questions, facts, evidence, followKeys, inFlight,
                   session, host, history>>

HandOver ==
    /\ At("handover")
    /\ Move(work.task, work.from, "starting")
    /\ work' = [work EXCEPT !.step = "reserve", !.from = "starting"]
    /\ UNCHANGED <<turns, questions, facts, evidence, followKeys, calls, session, host,
                   history>>

\* _record_pre_work_{criteria,continuity,baseline}: a row that an earlier
\* attempt froze is kept, whatever this attempt brought.
Reserve ==
    /\ At("reserve")
    /\ LET t == work.task
           f == ReserveOrder[work.i]
           draws == prework[t][f][work.turn] \in Replaceable
       IN  /\ prework' = IF draws
                         THEN [prework EXCEPT ![t][f][work.turn] = "captured"]
                         ELSE prework
           /\ asker' = IF draws /\ f = "criteria"
                       THEN [asker EXCEPT ![t][work.turn] = work.key]
                       ELSE asker
    /\ Loop("mark")
    /\ UNCHANGED <<rows, evidence, followKeys, calls, session, host, history>>

\* ContinuityInvalid: the declaration is refused before the adapter is called.
RefuseLineageMutant ==
    /\ At("reserve")
    /\ ReserveOrder[work.i] = "continuity"
    /\ Return
    /\ UNCHANGED <<rows, facts, evidence, followKeys, calls, session, host, history>>
RefuseLineage ==
    /\ At("reserve")
    /\ ReserveOrder[work.i] = "continuity"
    /\ IF work.op = "start" THEN Goto("fail") ELSE Return
    /\ UNCHANGED <<rows, facts, evidence, followKeys, calls, session, host, history>>

\* _mark_dispatch_started, one row at a time.
MarkDispatchStarted ==
    /\ At("mark")
    /\ LET t == work.task
           f == MarkOrder[work.i]
       IN  prework' = IF prework[t][f][work.turn] \in
                            {"captured", "dispatch_refused"}
                      THEN [prework EXCEPT
                              ![t][f][work.turn] = "dispatch_started"]
                      ELSE prework
    /\ Loop("call")
    /\ UNCHANGED <<rows, asker, evidence, followKeys, calls, session, host, history>>

\* _mark_dispatch_refused, one row at a time; then the task fails, or the
\* follow-up is refused and the task stays where it is.
MarkDispatchRefused ==
    /\ At("unmark")
    /\ LET t == work.task
           f == MarkOrder[work.i]
       IN  prework' = IF prework[t][f][work.turn] = "dispatch_started"
                      THEN [prework EXCEPT
                              ![t][f][work.turn] = "dispatch_refused"]
                      ELSE prework
    /\ IF work.i = 3 /\ ~work.failing THEN Return ELSE Loop("fail")
    /\ UNCHANGED <<rows, asker, evidence, followKeys, calls, session, host, history>>

\* starting -> running, once the adapter accepted the task.
StartedRunningMutant ==
    /\ At("running")
    /\ Move(work.task, work.from, "running")
    /\ Goto("apply")
    /\ UNCHANGED <<turns, questions, facts, evidence, followKeys, calls, session, host,
                   history>>
StartedRunning ==
    /\ At("running")
    /\ Move(work.task, work.from, "running")
    /\ Goto("open")
    /\ UNCHANGED <<turns, questions, facts, evidence, followKeys, calls, session, host,
                   history>>

\* _open_first_turn: a transaction of its own.
OpenFirstTurn ==
    /\ At("open")
    /\ OpenTurn(work.task, work.key)
    /\ Goto("apply")
    /\ UNCHANGED <<state, questions, evidence, followKeys, calls, session, host, history>>

-----------------------------------------------------------------------------
(* send_followup.                                                           *)

\* The row is read before anything else, and its state is used later.
BeginFollowup(t, k) ==
    /\ mode = "up"
    /\ state[t] # "absent"
    /\ Cardinality(inFlight) < MaxInFlight
    /\ inFlight' = inFlight \cup
                    {[task |-> t, key |-> k, seen |-> state[t], step |-> "read"]}
    /\ UNCHANGED <<rows, facts, evidence, followKeys, toStart, work, session, host,
                   history>>

\* The keys of a task once the key of this call is kept.
KeysWithMutant(c) == followKeys
KeysWith(c) == [followKeys EXCEPT ![c.task] = @ \cup {c.key}]

\* remember_followup, and the checks of the state that was read: a key seen
\* before answers "duplicate"; a new key is kept even when a check refuses.
RememberFollowup(c) ==
    /\ c \in inFlight /\ c.step = "read"
    /\ LET known == c.key \in followKeys[c.task]
           passes == /\ ~known
                     /\ c.task \notin Recoverable
                     /\ c.seen \in FollowupStates
       IN  /\ followKeys' = KeysWith(c)
           /\ told' = IF known THEN [told EXCEPT ![c.task] = @ \cup {c.key}]
                      ELSE told
           /\ inFlight' = (inFlight \ {c}) \cup
                          (IF passes THEN {[c EXCEPT !.step = "locking"]} ELSE {})
    /\ UNCHANGED <<rows, facts, evidence, toStart, work, session, host, reached,
                   delivered>>

\* Under the lock the row is read again.  No session, or criteria on a message
\* that resumes a turn, is a refusal too.
LockFollowup(c) ==
    /\ c \in inFlight /\ c.step = "locking"
    /\ Free
    /\ inFlight' = inFlight \ {c}
    /\ LET t == c.task
           fresh == state[t] = "ready_for_followup"
       IN  \/ /\ state[t] \in FollowupStates
              /\ Pending(t) = {}
              /\ fresh => ~HasOpenTurn(t)
              /\ Acquire("followup", t, c.key, state[t], fresh,
                         IF fresh THEN "reserve" ELSE "call")
           \/ UNCHANGED work
    /\ UNCHANGED <<rows, facts, evidence, followKeys, toStart, session, host, history>>

\* _open_turn_locked for the message at hand: it starts a turn, and its key has
\* not opened one before.
KnownMessage == \E n \in DOMAIN turns[work.task] :
                   turns[work.task][n].key = work.key
OpensTurn == work.fresh /\ ~KnownMessage

\* -> running, with the new turn in the same transaction: the turn limit rolls
\* both back, and a key that already opened a turn opens no second one.
Deliver ==
    /\ At("deliver")
    /\ LET t == work.task
           full == work.fresh /\ LastTurn(t) >= MaxTurns
       IN  /\ IF full
              THEN Return /\ UNCHANGED state
              ELSE Move(t, work.from, "running") /\ Goto("apply")
           /\ IF ~full /\ OpensTurn THEN OpenTurn(t, work.key)
              ELSE UNCHANGED <<turns, facts>>
    /\ UNCHANGED <<questions, evidence, followKeys, calls, session, host, history>>

-----------------------------------------------------------------------------
(* refresh_task, cancel_task, answer_clarification, finish_task.            *)

Refresh(t) ==
    /\ Live(t) /\ t \notin Recoverable
    /\ Acquire("refresh", t, NoKey, state[t], FALSE, "adapter")
    /\ UNCHANGED <<rows, facts, evidence, followKeys, calls, session, host, history>>

\* A project root that went away fails the task without asking the adapter.
Cancel(t) ==
    /\ Live(t)
    /\ Move(t, state[t], "cancelling")
    /\ \E step \in {"adapter", "fail"} :
          Acquire("cancel", t, NoKey, "cancelling", FALSE, step)
    /\ UNCHANGED <<turns, questions, facts, evidence, followKeys, calls, session, host,
                   history>>

Answer(t, q) ==
    /\ state[t] = "waiting_for_user"
    /\ q \in Pending(t)
    /\ Free
    /\ work' = [Lease("answer", t, NoKey, state[t], FALSE, "adapter")
                EXCEPT !.question = q]
    /\ UNCHANGED <<rows, facts, evidence, followKeys, calls, session, host, history>>

\* The answer is stored with the move back to running, once it was delivered.
RecordAnswer ==
    /\ At("answered")
    /\ Move(work.task, work.from, "running")
    /\ questions' = [questions EXCEPT ![work.task][work.question] = "answered"]
    /\ Return
    /\ UNCHANGED <<turns, facts, evidence, followKeys, calls, session, host, history>>

Finish(t) ==
    /\ state[t] = "ready_for_followup"
    /\ Acquire("finish", t, NoKey, state[t], FALSE, "adapter")
    /\ UNCHANGED <<rows, facts, evidence, followKeys, calls, session, host, history>>

-----------------------------------------------------------------------------
(* The adapter's side of a call.                                            *)

\* From here on the adapter may act on what the turn number was reserved for.
CallAdapter ==
    /\ At("call")
    /\ reached' = IF work.fresh
                  THEN [reached EXCEPT ![work.task] = @ \cup {work.turn}]
                  ELSE reached
    /\ Goto("adapter")
    /\ UNCHANGED <<rows, facts, evidence, followKeys, calls, session, host, delivered,
                   told>>

ReportsOn(op, t) ==
    CASE op = "start" -> StartReports(t)
      [] op = "followup" -> FollowupReports(t)
      [] op = "refresh" -> InspectReports(t)
      [] op = "cancel" -> CancelReports(t)
      [] OTHER -> {}

AdapterReports ==
    /\ At("adapter")
    /\ \E r \in Report :
          /\ r \in ReportsOn(work.op, work.task)
          /\ r.asks => Len(questions[work.task]) < MaxQuestions
          /\ session' = [session EXCEPT ![work.task] = r.leaves]
          /\ work' = IF work.op = "refresh" /\ r.to = "none" THEN Idle
                     ELSE [work EXCEPT
                             !.to = r.to, !.asks = r.asks,
                             !.step = CASE work.op = "start" -> "running"
                                        [] work.op = "followup" -> "deliver"
                                        [] OTHER -> "apply"]
    /\ delivered' = IF work.op = "followup"
                    THEN [delivered EXCEPT ![work.task][work.key] = @ + 1]
                    ELSE delivered
    /\ UNCHANGED <<rows, facts, evidence, followKeys, calls, host, reached, told>>

\* The session that asked took the answer, or was let go of.
AdapterConsents ==
    /\ At("adapter")
    /\ \/ /\ work.op = "answer"
          /\ session[work.task] = "busy"
          /\ Goto("answered")
          /\ UNCHANGED session
       \/ /\ work.op = "finish"
          /\ work' = [work EXCEPT !.step = "settle", !.to = "completed"]
          /\ session' = [session EXCEPT ![work.task] = "none"]
    /\ UNCHANGED <<rows, facts, evidence, followKeys, calls, host, history>>

\* A refusal fails a start and leaves every other task where it is.
AdapterRefuses ==
    /\ At("adapter")
    /\ IF work.fresh
       THEN work' = [work EXCEPT !.step = "unmark",
                                 !.failing = (work.op = "start")]
       ELSE Return
    /\ UNCHANGED <<rows, facts, evidence, followKeys, calls, session, host, history>>

\* Any other exception fails the task.
AdapterFaults ==
    /\ At("adapter")
    /\ work' = [work EXCEPT !.step = IF work.fresh THEN "unmark" ELSE "fail",
                            !.failing = TRUE]
    /\ UNCHANGED <<rows, facts, evidence, followKeys, calls, session, host, history>>

-----------------------------------------------------------------------------
(* _apply, _fail and the closing transition.                                *)

\* _apply: what the report asks for, and whether it ends the open turn.
Apply ==
    /\ At("apply")
    /\ LET t == work.task
           asks == work.asks /\ HasRoom(t)
           closes == work.to \in TurnEndingStates /\ HasOpenTurn(t)
       IN  \/ /\ work.to = "none" \/ (work.to # state[t]
                                      /\ ~CanTransition(state[t], work.to))
              /\ Return
              /\ UNCHANGED questions
           \/ /\ work.to = state[t]
              /\ Return
              /\ questions' = IF asks
                              THEN [questions EXCEPT ![t] = Append(@, "pending")]
                              ELSE questions
           \/ /\ CanTransition(state[t], work.to)
              /\ work' = [work EXCEPT
                            !.from = state[t], !.asks = asks, !.closes = closes,
                            !.step = IF closes THEN "range" ELSE "settle"]
              /\ UNCHANGED questions
    /\ UNCHANGED <<state, turns, facts, evidence, followKeys, calls, session, host,
                   history>>

\* _fail: Cofferdam's own verdict.  Every row it is called on can still fail.
FailMutant ==
    /\ At("fail")
    /\ work' = [work EXCEPT
                  !.to = "failed", !.asks = FALSE, !.failing = TRUE, !.i = 1,
                  !.closes = HasOpenTurn(work.task), !.step = "settle"]
    /\ UNCHANGED <<rows, facts, evidence, followKeys, calls, session, host, history>>
Fail ==
    /\ At("fail")
    /\ LET closes == HasOpenTurn(work.task)
       IN  work' = [work EXCEPT
                      !.to = "failed", !.asks = FALSE, !.closes = closes,
                      !.failing = TRUE, !.i = 1,
                      !.step = IF closes THEN "range" ELSE "settle"]
    /\ UNCHANGED <<rows, facts, evidence, followKeys, calls, session, host, history>>

\* _capture_terminal_boundary: the range, then the final state, each durable
\* before the transition that closes the turn.
CaptureRange ==
    /\ At("range")
    /\ ranged' = [ranged EXCEPT ![work.task] = @ \cup CurrentTurn(work.task)]
    /\ Goto("final")
    /\ UNCHANGED <<rows, facts, finals, evaluated, followKeys, calls, session, host,
                   history>>

CaptureFinal ==
    /\ At("final")
    /\ finals' = [finals EXCEPT ![work.task] = @ \cup CurrentTurn(work.task)]
    /\ Goto("settle")
    /\ UNCHANGED <<rows, facts, ranged, evaluated, followKeys, calls, session, host,
                   history>>

\* _close_pending, for a report that ends the task; a failure of Cofferdam's
\* own and finish_task close no question.
SettledQuestions(t) ==
    IF work.failing \/ work.op = "finish" THEN questions[t]
    ELSE IF work.to \in Terminal
         THEN ClosePending(t, IF work.to = "cancelled" THEN "cancelled"
                              ELSE "superseded")
    ELSE IF work.asks THEN Append(questions[t], "pending")
    ELSE questions[t]

\* The state, the questions and the turn are one transaction.
Settle ==
    /\ At("settle")
    /\ LET t == work.task
       IN  /\ Move(t, work.from, work.to)
           /\ questions' = [questions EXCEPT ![t] = SettledQuestions(t)]
           /\ turns' = IF work.closes
                       THEN [turns EXCEPT
                               ![t] = CloseTurn(t, TurnOutcome(work.to))]
                       ELSE turns
    /\ IF work.op = "finish" /\ ~work.failing THEN Return ELSE Goto("evaluate")
    /\ UNCHANGED <<facts, evidence, followKeys, calls, session, host, history>>

\* evaluate_closed_turns(task): each record is a transaction of its own.
Evaluate ==
    /\ At("evaluate")
    /\ \/ /\ \E n \in AwaitingEvaluation(work.task) :
                evaluated' = [evaluated EXCEPT ![work.task] = @ \cup {n}]
          /\ UNCHANGED work
       \/ /\ AwaitingEvaluation(work.task) = {}
          /\ Return
          /\ UNCHANGED evaluated
    /\ UNCHANGED <<rows, facts, ranged, finals, followKeys, calls, session, host, history>>

-----------------------------------------------------------------------------
(* Restart, recovery, and the passage of a day.                             *)

\* The process dies: everything that is not a row is gone.
Crash ==
    /\ mode # "down"
    /\ crashes < MaxCrashes
    /\ crashes' = crashes + 1
    /\ mode' = "down"
    /\ todo' = {}
    /\ toStart' = {} /\ inFlight' = {} /\ work' = Idle
    /\ session' = [t \in Tasks |-> "none"]
    /\ UNCHANGED <<rows, facts, evidence, followKeys, expiries, history>>

\* The next process reads the unfinished rows before it serves anything.
Restart ==
    /\ mode = "down"
    /\ mode' = "recovering"
    /\ todo' = Unfinished
    /\ UNCHANGED <<rows, facts, evidence, followKeys, calls, work, session, crashes,
                   expiries, history>>

\* recover_after_restart, one row: the state, its questions and its open turn
\* are one transaction, and no evidence is captured.
Recover(t) ==
    /\ mode = "recovering"
    /\ t \in todo
    /\ todo' = todo \ {t}
    /\ LET target == IF t \in Recoverable THEN "recovery_required"
                     ELSE "interrupted"
       IN  \/ /\ Move(t, state[t], target)
              /\ questions' = [questions EXCEPT ![t] =
                                ClosePending(t, "superseded")]
              /\ turns' = [turns EXCEPT ![t] = CloseTurn(t, "interrupted")]
           \/ /\ ~CanTransition(state[t], target)
              /\ UNCHANGED rows
    /\ UNCHANGED <<facts, evidence, followKeys, calls, work, session, mode, crashes,
                   expiries, history>>

\* evaluate_closed_turns() over every task, then the service is up.
EvaluateAtBootMutant ==
    /\ mode = "recovering" /\ todo = {}
    /\ mode' = "up"
    /\ UNCHANGED <<rows, facts, evidence, followKeys, calls, work, session, todo,
                   crashes, expiries, history>>
EvaluateAtBoot ==
    /\ mode = "recovering" /\ todo = {}
    /\ \/ /\ \E t \in Tasks : \E n \in AwaitingEvaluation(t) :
                evaluated' = [evaluated EXCEPT ![t] = @ \cup {n}]
          /\ UNCHANGED mode
       \/ /\ \A t \in Tasks : AwaitingEvaluation(t) = {}
          /\ mode' = "up"
          /\ UNCHANGED evaluated
    /\ UNCHANGED <<rows, facts, ranged, finals, followKeys, calls, work, session, todo,
                   crashes, expiries, history>>

\* settle_recovered_task, called by the owner of the work, without the lock.
SettleRecovered(t) ==
    /\ mode = "up"
    /\ state[t] = "recovery_required"
    /\ Move(t, "recovery_required", "interrupted")
    /\ UNCHANGED <<turns, questions, facts, evidence, followKeys, calls, work,
                   session, host, history>>

\* _prune_idempotency: a key that outlived its day, and so every call with it.
ExpireKey(t, k) ==
    /\ expiries < MaxExpiries
    /\ k \in followKeys[t]
    /\ work = Idle /\ inFlight = {}
    /\ followKeys' = [followKeys EXCEPT ![t] = @ \ {k}]
    /\ expiries' = expiries + 1
    /\ UNCHANGED <<rows, facts, evidence, calls, work, session, mode, todo, crashes,
                   history>>

-----------------------------------------------------------------------------
Init ==
    /\ state = [t \in Tasks |-> "absent"]
    /\ turns = [t \in Tasks |-> <<>>]
    /\ questions = [t \in Tasks |-> <<>>]
    /\ prework = [t \in Tasks |-> [f \in Facts |-> [n \in TurnNumbers |-> "none"]]]
    /\ asker = [t \in Tasks |-> [n \in TurnNumbers |-> NoKey]]
    /\ ranged = [t \in Tasks |-> {}]
    /\ finals = [t \in Tasks |-> {}]
    /\ evaluated = [t \in Tasks |-> {}]
    /\ followKeys = [t \in Tasks |-> {}]
    /\ toStart = {} /\ inFlight = {}
    /\ work = Idle
    /\ session = [t \in Tasks |-> "none"]
    /\ mode = "up" /\ todo = {} /\ crashes = 0 /\ expiries = 0
    /\ reached = [t \in Tasks |-> {}]
    /\ delivered = [t \in Tasks |-> [k \in Keys |-> 0]]
    /\ told = [t \in Tasks |-> {}]

\* What the holder of the lock does next.
StartStep == HandOver \/ StartedRunning \/ OpenFirstTurn
DispatchStep == Reserve \/ RefuseLineage \/ MarkDispatchStarted
                \/ MarkDispatchRefused \/ CallAdapter
AdapterStep == AdapterReports \/ AdapterConsents \/ AdapterRefuses
               \/ AdapterFaults
SettleStep == Deliver \/ RecordAnswer \/ Apply \/ Fail \/ CaptureRange
              \/ CaptureFinal \/ Settle \/ Evaluate
WorkStep == StartStep \/ DispatchStep \/ AdapterStep \/ SettleStep

\* Requests, from the API, the bridge and the planner.
Request(t) ==
    \/ CreateTask(t) \/ Refresh(t) \/ Cancel(t) \/ Finish(t)
    \/ \E k \in Keys : BeginFollowup(t, k)
    \/ \E q \in 1..MaxQuestions : Answer(t, q)

Boot == Restart \/ EvaluateAtBoot \/ \E t \in Tasks : Recover(t)

Next ==
    \/ WorkStep
    \/ \E t \in Tasks : Request(t) \/ Queue(t) \/ SettleRecovered(t)
    \/ \E c \in inFlight : RememberFollowup(c) \/ LockFollowup(c)
    \/ \E t \in Tasks, k \in Keys : ExpireKey(t, k)
    \/ Boot
    \/ Crash

Spec == Init /\ [][Next]_vars

\* Every adapter call returns (each has a timeout), the operation that holds
\* the lock runs on, and the supervisor restarts a dead process.
Fairness == WF_vars(WorkStep) /\ WF_vars(Boot)

FairSpec == Spec /\ Fairness

-----------------------------------------------------------------------------
RowsOK ==
    /\ state \in [Tasks -> States \cup {"absent"}]
    /\ turns \in [Tasks -> Seq(Turn)]
    /\ questions \in [Tasks -> Seq(QuestionStatus)]
    /\ \A t \in Tasks : Len(turns[t]) <= MaxTurns
FactsOK ==
    /\ prework \in [Tasks -> [Facts -> [TurnNumbers -> Dispatch]]]
    /\ asker \in [Tasks -> [TurnNumbers -> Keys \cup {NoKey}]]
EvidenceOK ==
    /\ ranged \in [Tasks -> SUBSET Nat]
    /\ finals \in [Tasks -> SUBSET Nat]
    /\ evaluated \in [Tasks -> SUBSET Nat]
CallsOK ==
    /\ followKeys \in [Tasks -> SUBSET Keys]
    /\ toStart \subseteq Tasks
    /\ inFlight \subseteq FollowupCall
WorkOK == work \in Work \cup {Idle}
HostOK ==
    /\ session \in [Tasks -> {"none", "idle", "busy"}]
    /\ mode \in {"up", "down", "recovering"}
    /\ todo \subseteq Tasks
    /\ crashes \in 0..MaxCrashes
    /\ expiries \in 0..MaxExpiries
HistoryOK ==
    /\ reached \in [Tasks -> SUBSET TurnNumbers]
    /\ delivered \in [Tasks -> [Keys -> Nat]]
    /\ told \in [Tasks -> SUBSET Keys]

TypeOK == RowsOK /\ FactsOK /\ EvidenceOK /\ CallsOK /\ WorkOK /\ HostOK
          /\ HistoryOK

-----------------------------------------------------------------------------
(* Turns.                                                                   *)

\* Only the last turn can be open (_open_turn_locked inserts without looking).
OnlyLastTurnOpen ==
    \A t \in Tasks : \A n \in CurrentTurn(t) : n = LastTurn(t)

\* A turn is in flight only while its task is: none is left open on a task that
\* ended, was parked by a restart, waits for a new message or never started.
Quiet == Terminal \cup {"absent", "created", "queued", "starting",
                        "ready_for_followup", "recovery_required"}
QuietTaskHasNoOpenTurn ==
    \A t \in Tasks : state[t] \in Quiet => ~HasOpenTurn(t)

\* While the service is up, a task that reports running or waiting for an
\* answer has the open turn that accounts for it (a comment in send_followup),
\* short of a message accepted past the turn limit.
RunningHasOpenTurn ==
    \A t \in Tasks :
        /\ mode = "up"
        /\ state[t] \in {"running", "waiting_for_user"}
        /\ ~(At("open") /\ work.task = t)
        /\ MaxTurns + 1 \notin reached[t]
        => HasOpenTurn(t)

\* ready_for_followup comes with a turn that produced the result to be read.
ReadyHasResult ==
    \A t \in Tasks : state[t] = "ready_for_followup" =>
        /\ LastTurn(t) > 0
        /\ turns[t][LastTurn(t)].outcome = "completed"

\* A message opens one turn at most, even when it is sent again after its key
\* was pruned.
OneTurnPerMessage ==
    \A t \in Tasks : \A m, n \in DOMAIN turns[t] :
        turns[t][m].key = turns[t][n].key => m = n

\* A created or starting task is in the hands of the call that starts it: a
\* restart leaves no task that nobody will start or settle.
NoOrphan ==
    \A t \in Tasks :
        /\ mode = "up"
        /\ state[t] \in {"created", "queued", "starting"}
        => t \in toStart \/ (work # Idle /\ work.task = t)

\* Once a task has ended, its state, its turns and its questions are history.
EndedIsFinal ==
    [][\A t \in Tasks : state[t] \in Terminal =>
           <<state[t], turns[t], questions[t]>>'
               = <<state[t], turns[t], questions[t]>>]_vars

-----------------------------------------------------------------------------
(* Evidence.                                                                *)

\* Whatever crashed or was retried, no adapter is called for a turn number
\* whose pre-work facts could still be redrawn.
FrozenBeforeReached ==
    \A t \in Tasks : \A n \in reached[t] : \A f \in Facts :
        prework[t][f][n] \notin Replaceable

\* The rows of a task account for its work: a starting task has the call that
\* starts it, a working task the turn the work belongs to, a finished turn its
\* result, and no adapter worked on facts that could still be redrawn.
WorkIsAccounted ==
    NoOrphan /\ RunningHasOpenTurn /\ ReadyHasResult /\ FrozenBeforeReached

\* The criteria an adapter was called under stay what they were.
CriteriaStayFrozen ==
    [][\A t \in Tasks : \A n \in reached[t] : asker'[t][n] = asker[t][n]]_vars

\* Every turn was handed to an adapter under facts that are now bound to it.
TurnStandsOnItsFacts ==
    \A t \in Tasks : \A n \in DOMAIN turns[t] :
        n \in reached[t] /\ \A f \in Facts : prework[t][f][n] = "turn_opened"

\* A turn that work ended has both observations of its boundary, on every
\* path that can close one.
BoundaryObserved ==
    \A t \in Tasks : \A n \in DOMAIN turns[t] :
        turns[t][n].outcome \in {"completed", "failed", "cancelled"} =>
            n \in ranged[t] /\ n \in finals[t]

\* Nothing a judgement was given on moves afterwards: the turn, the criteria it
\* was judged by, the observations of its boundary.
JudgementStands ==
    [][\A t \in Tasks : \A n \in evaluated[t] :
           /\ turns'[t][n] = turns[t][n]
           /\ asker'[t][n] = asker[t][n]
           /\ (n \in ranged'[t]) <=> (n \in ranged[t])
           /\ (n \in finals'[t]) <=> (n \in finals[t])]_vars

\* Every closed turn is evaluated in the end, in this process or the next.
ClosedTurnIsEvaluated ==
    \A t \in Tasks : \A n \in 1..MaxTurns :
        (n \in DOMAIN turns[t] /\ turns[t][n].outcome # "open")
            ~> n \in evaluated[t]

\* A task is not left starting: it runs, ends, or is settled by a restart.
StartingResolves ==
    \A t \in Tasks : state[t] = "starting" ~> state[t] # "starting"

-----------------------------------------------------------------------------
(* Messages and questions.                                                  *)

\* A message reaches the session once for every day its key is remembered.
DeliveredOnce ==
    \A t \in Tasks, k \in Keys : delivered[t][k] <= 1 + expiries

\* A task that was stopped - by a cancel that took effect or by a restart -
\* has no question left to answer.
StoppedTaskAsksNothing ==
    \A t \in Tasks :
        state[t] \in {"cancelled", "interrupted", "recovery_required"} =>
            Pending(t) = {}

\* A restart never lets a task claim success: one whose turn it interrupted
\* does not complete afterwards (settle_recovered_task).
InterruptedNeverCompletes ==
    \A t \in Tasks :
        (\E n \in DOMAIN turns[t] : turns[t][n].outcome = "interrupted")
            => state[t] # "completed"

\* A provider that keeps asking cannot pass MAX_PENDING_PER_TASK.
PendingBounded ==
    \A t \in Tasks : Cardinality(Pending(t)) <= MaxPending

\* However questions are asked, answered and given up, the ones left to answer
\* are few and belong to a task that can still hear an answer.
QuestionsAreBounded == StoppedTaskAsksNothing /\ PendingBounded

\* Whatever is sent again and whoever takes the lock first, a message is one
\* delivery and one turn, turns follow one another, and each stands on the
\* facts it was handed over under.
MessagesAreTurns ==
    OnlyLastTurnOpen /\ OneTurnPerMessage /\ DeliveredOnce /\ TurnStandsOnItsFacts

-----------------------------------------------------------------------------
(* What comments and documents of the repository say, and the code does not *)
(* keep: TLC finds the exception to each when it is checked as an INVARIANT *)
(* of the instance the README names.                                        *)

\* send_followup: "a retry of a follow-up that was already delivered".
DuplicateMeansDelivered ==
    \A t \in Tasks : \A k \in told[t] : delivered[t][k] > 0

\* The criteria of a turn are those of the message that opened it.
CriteriaOfTheMessage ==
    \A t \in Tasks : \A n \in DOMAIN turns[t] : asker[t][n] = turns[t][n].key

\* Without a crash, "dispatch_started" with no turn is only ever a dispatch
\* still going on: a finished one is refused or opened its turn.
DispatchIsAccounted ==
    crashes = 0 /\ work = Idle =>
        \A t \in Tasks : \A n \in reached[t] : \A f \in Facts :
            prework[t][f][n] # "dispatch_started"

\* No question is left pending on a task that has ended.
EndedTaskAsksNothing ==
    \A t \in Tasks : state[t] \in Terminal => Pending(t) = {}

-----------------------------------------------------------------------------
(* Task Core keeps the promises of TurnLedger.                              *)

Phase == [t \in Tasks |-> IF state[t] = "absent" THEN "absent"
                          ELSE IF state[t] \in Terminal THEN "ended"
                          ELSE "live"]
OutcomesOf == [t \in Tasks |->
                 [n \in 1..Len(turns[t]) |-> turns[t][n].outcome]]

Ledger == INSTANCE TurnLedger WITH phase <- Phase, ledger <- OutcomesOf
LedgerSpec == Ledger!Spec
=============================================================================
