------------------------- MODULE TaskCoreInvariant -------------------------
(***************************************************************************)
(* The inductive invariant of Task Core: what the operation that holds the  *)
(* lock may rely on at each of its steps, and what a row of a task says      *)
(* about its turns.  The properties of TaskCore follow from it.             *)
(***************************************************************************)
EXTENDS TaskCore

\* Only a serving process holds the lock, and never for a parked task.
LockInv ==
    work # Idle =>
        /\ mode = "up"
        /\ state[work.task] \notin {"absent", "recovery_required"}

\* Which operation reaches which step.
StepInv ==
    work # Idle =>
        /\ work.step \in {"handover", "running", "open"} => work.op = "start"
        /\ work.step \in {"reserve", "mark", "unmark"} => work.fresh
        /\ work.step = "deliver" => work.op = "followup"
        /\ work.step = "answered" => work.op = "answer"
        /\ work.step = "call" => work.op \in {"start", "followup"}
        /\ work.closes => work.step \in {"range", "final", "settle", "evaluate"}
        /\ work.fresh => work.op \in {"start", "followup"}
        /\ work.op = "start" => work.fresh
        /\ work.to \in Reported
        /\ work.to = "running" => work.op = "start"
        /\ work.step \in {"range", "final", "settle"} =>
              work.to \notin {"none", "running"}

\* The row is in the state the next transition expects.
ExpectInv ==
    work # Idle =>
        /\ work.step \notin {"open", "apply", "evaluate"} =>
              state[work.task] = work.from
        /\ work.op = "start" /\ work.step \in {"open", "apply"} =>
              state[work.task] = "running"
        /\ work.op = "finish" /\ work.step = "adapter" =>
              work.from = "ready_for_followup"
        /\ work.op = "answer" /\ work.step \in {"adapter", "answered"} =>
              work.from = "waiting_for_user"
        /\ /\ work.op = "followup"
           /\ work.step \in {"reserve", "mark", "call", "adapter", "unmark",
                             "deliver"}
           => work.from = IF work.fresh THEN "ready_for_followup"
                          ELSE "waiting_for_user"

\* No operation works on a task that has ended, except to judge its turns.
LiveInv ==
    work # Idle /\ work.step # "evaluate" => state[work.task] \notin Terminal

\* A task that has not run yet has no turn.
FirstTurnInv ==
    /\ \A t \in Tasks : state[t] \in {"absent", "created"} => turns[t] = <<>>
    /\ /\ work # Idle
       /\ work.op = "start"
       /\ work.step \in {"handover", "reserve", "mark", "call", "adapter",
                         "unmark", "running", "open"}
       => turns[work.task] = <<>>

\* A closing transition knows whether a turn is open, and has observed it.
ClosingInv ==
    work # Idle /\ work.step \in {"range", "final", "settle"} =>
        LET t == work.task
        IN  /\ work.closes => HasOpenTurn(t) /\ work.to \in TurnEndingStates
            /\ ~work.closes /\ work.to \in TurnEndingStates => ~HasOpenTurn(t)
            /\ work.step # "settle" => work.closes
            /\ work.step # "range" => CurrentTurn(t) \subseteq ranged[t] \/ ~work.closes
            /\ work.step = "settle" => CurrentTurn(t) \subseteq finals[t] \/ ~work.closes

\* While the service is up, a task that can go on has a last turn that is in
\* flight or completed, once the call that started it has opened the first.
GoingOn == {"running", "waiting_for_user", "ready_for_followup"}
HistoryInv ==
    mode = "up" =>
        \A t \in Tasks :
            /\ state[t] \in GoingOn
            /\ ~(work # Idle /\ work.step = "open" /\ work.task = t)
            => /\ turns[t] # <<>>
               /\ turns[t][LastTurn(t)].outcome \in {"open", "completed"}

\* A restart has settled every task that went on, or has it still to do.
RecoveryInv ==
    mode = "recovering" => \A t \in Tasks : state[t] \in GoingOn => t \in todo

\* Only a task of the recoverable adapter is parked.
ParkedInv == \A t \in Tasks : state[t] = "recovery_required" => t \in Recoverable

WorkInv == LockInv /\ StepInv /\ ExpectInv

Inv ==
    /\ TypeOK
    /\ WorkInv /\ LiveInv /\ FirstTurnInv /\ ClosingInv
    /\ HistoryInv /\ RecoveryInv /\ ParkedInv
    /\ OnlyLastTurnOpen /\ QuietTaskHasNoOpenTurn /\ BoundaryObserved

-----------------------------------------------------------------------------
(* What the history variables, the keys and the questions add.  It is kept    *)
(* apart because each part rests on Inv and on few of the others.            *)

\* The turn that the operation is about to open is the next one.
PreparingSteps == {"handover", "reserve", "mark", "call", "adapter", "unmark",
                   "running", "open", "deliver"}
NumberInv ==
    work # Idle /\ work.fresh /\ work.step \in PreparingSteps =>
        work.turn = LastTurn(work.task) + 1

\* How far the facts of that turn are fixed.
FreezingInv ==
    work # Idle /\ work.fresh =>
        LET status(f) == prework[work.task][f][work.turn]
        IN  /\ work.step = "handover" => work.i = 1
            /\ work.step = "reserve" =>
                  \A j \in 1..3 : j < work.i => status(ReserveOrder[j]) # "none"
            /\ work.step = "mark" =>
                  /\ \A f \in Facts : status(f) # "none"
                  /\ \A j \in 1..3 : j < work.i => status(MarkOrder[j]) \notin Replaceable
            /\ work.step = "call" => \A f \in Facts : status(f) \notin Replaceable
            /\ work.step \in {"adapter", "running", "open", "deliver"} =>
                  work.turn \in reached[work.task]

FactsInv ==
    FrozenBeforeReached /\ TurnStandsOnItsFacts /\ NumberInv /\ FreezingInv

\* Only a turn that is closed is judged.
JudgedInv ==
    \A t \in Tasks : \A n \in evaluated[t] :
        n \in DOMAIN turns[t] /\ turns[t][n].outcome # "open"

Closing == {"range", "final", "settle", "evaluate"}

\* A question is asked by a report that waits for its answer, and only with
\* room for it; what ends a task as cancelled closes the questions it had.
AskingInv ==
    work # Idle =>
        /\ work.asks => /\ work.to = "waiting_for_user"
                        /\ work.step \in {"running", "open", "deliver", "apply"} \cup Closing
        /\ work.asks /\ work.step \in {"range", "final", "settle"} => HasRoom(work.task)
        /\ work.failing => \/ work.step \in {"unmark", "fail"}
                           \/ work.to = "failed" /\ work.step \in Closing
        /\ work.op = "finish" => \/ work.step \in {"adapter", "fail"}
                                 \/ work.to \in {"completed", "failed"}
QuestionsInv == StoppedTaskAsksNothing /\ PendingBounded /\ AskingInv

\* A task whose turn a restart cut off has no session that could report success
\* for it: it is over, or parked and at most being cancelled.
CutOff(t) == \E n \in DOMAIN turns[t] : turns[t][n].outcome = "interrupted"
CutOffInv ==
    /\ \A t \in Recoverable : session[t] = "none"
    /\ \A t \in Tasks : CutOff(t) =>
          \/ state[t] \in {"interrupted", "failed"}
          \/ t \in Recoverable /\ state[t] \in {"recovery_required", "cancelling"}
    /\ work # Idle /\ CutOff(work.task) =>
          /\ work.op = "cancel"
          /\ work.step \in {"adapter", "fail"} \/ work.to = "failed"

\* Who starts a task: the call that inserted its row, then the operation.
Starting == {"queued", "starting"}
StartInv ==
    /\ \A t \in toStart : state[t] \notin {"absent"} \cup Starting
    /\ mode = "up" => \A t \in Tasks \ Recoverable :
          /\ state[t] = "created" => t \in toStart
          /\ state[t] \in Starting => work # Idle /\ work.task = t /\ work.op = "start"
    /\ mode = "recovering" => \A t \in Tasks \ Recoverable :
          state[t] \in {"created"} \cup Starting => t \in todo
    /\ work # Idle =>
          /\ work.op = "start" /\ work.step = "unmark" => work.failing
          /\ work.step = "evaluate" => state[work.task] \notin Starting

\* A follow-up between the write of its key and the call of the adapter.
Waits(c) == c \in inFlight /\ c.step = "locking"
Sends(t, k) == work # Idle /\ work.op = "followup" /\ work.task = t /\ work.key = k
Undelivered(t, k) ==
    \/ \E c \in inFlight : Waits(c) /\ c.task = t /\ c.key = k
    \/ Sends(t, k) /\ work.step \in {"reserve", "mark", "call", "adapter"}
Unopened(t, k) == Undelivered(t, k) \/ (Sends(t, k) /\ work.step = "deliver")
Opened(t, k) == \E n \in DOMAIN turns[t] : turns[t][n].key = k

\* One call at a time carries a message, and its key is kept meanwhile.
CarriersInv ==
    /\ work # Idle => (work.op = "followup" <=> work.key \in Keys)
    /\ \A t \in Tasks, k \in Keys : Sends(t, k) => k \in followKeys[t]
    /\ \A c \in inFlight : Waits(c) =>
          /\ c.key \in followKeys[c.task]
          /\ ~ Sends(c.task, c.key)
          /\ \A d \in inFlight :
                Waits(d) /\ d.task = c.task /\ d.key = c.key => d = c

\* A key lets its message through once, and again for every day it outlived.
DeliveriesInv ==
    \A t \in Tasks, k \in Keys :
        /\ delivered[t][k] <= expiries + 1
        /\ k \notin followKeys[t] \/ Undelivered(t, k) => delivered[t][k] <= expiries

\* Until a key is pruned, a message that still has to open its turn has none.
OpenedInv ==
    expiries = 0 => \A t \in Tasks, k \in Keys :
        /\ Opened(t, k) => k \in followKeys[t]
        /\ Unopened(t, k) => ~ Opened(t, k)

KeysInv == CarriersInv /\ DeliveriesInv /\ OpenedInv /\ OneTurnPerMessage

\* A message past the turn limit, or one sent again after its key was pruned,
\* leaves the task running without a turn of its own.
Uncounted(t) == MaxTurns + 1 \in reached[t] \/ expiries > 0
RunningInv ==
    /\ \A t \in Tasks :
          /\ mode = "up"
          /\ state[t] \in {"running", "waiting_for_user"}
          /\ ~ (work # Idle /\ work.step = "open" /\ work.task = t)
          => HasOpenTurn(t) \/ Uncounted(t)
    /\ \A t \in Tasks :
          state[t] = "ready_for_followup" /\ session[t] = "busy" =>
              \/ Uncounted(t)
              \/ work # Idle /\ work.task = t /\ work.fresh /\ work.step = "deliver"
    /\ work # Idle =>
          /\ work.to = "ready_for_followup" => session[work.task] # "busy"
          /\ /\ work.to = "waiting_for_user"
             /\ work.step \in {"apply", "settle"}
             /\ state[work.task] = "ready_for_followup"
             => Uncounted(work.task)

FullInv ==
    /\ Inv
    /\ FactsInv /\ JudgedInv /\ QuestionsInv /\ CutOffInv /\ StartInv
    /\ KeysInv /\ RunningInv /\ ReadyHasResult
=============================================================================
