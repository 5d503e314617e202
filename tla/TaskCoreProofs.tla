--------------------------- MODULE TaskCoreProofs ---------------------------
(***************************************************************************)
(* What Task Core promises, for any number of tasks, keys, turns,           *)
(* questions, crashes and pruned keys: its variables keep their types, the  *)
(* invariant Inv of its rows holds in every state, the properties of states *)
(* and turns follow from it, and every step is one of TurnLedger; and       *)
(* FullInv adds what it keeps true of the facts, the messages, the          *)
(* judgements and the questions of a task.                                  *)
(***************************************************************************)
EXTENDS TaskCoreInvariant, FiniteSetTheorems, TLAPS

(* Every step keeps the variables typed, given the invariant: it bounds the *)
(* number of turns, and a typed row depends on it.  One lemma per group of  *)
(* variables, over the actions that write the group.                        *)

\* Whoever holds the lock has typed local variables.
LEMMA LockHolder ==
    ASSUME Inv, work # Idle
    PROVE work \in Work /\ work.task \in Tasks
           /\ work.key \in Keys \cup {NoKey}
           /\ work.to \in States \cup {"none"} /\ work.i \in 1..3
           /\ work.turn \in TurnNumbers /\ work.from \in States
           /\ work.question \in Nat
BY DEF Inv, TypeOK, WorkOK, Work

\* The turns of a task are a short sequence of turns.
LEMMA TurnsTyped ==
    ASSUME TypeOK, NEW t \in Tasks
    PROVE turns[t] \in Seq(Turn) /\ Len(turns[t]) \in Nat
           /\ DOMAIN turns[t] = 1..Len(turns[t]) /\ Len(turns[t]) <= MaxTurns
BY DEF TypeOK, RowsOK

\* Closing the open turn keeps the sequence a sequence of turns.
LEMMA CloseTurnTypes ==
    ASSUME TypeOK, NEW t \in Tasks, NEW outcome \in Outcomes
    PROVE  /\ CloseTurn(t, outcome) \in Seq(Turn)
           /\ Len(CloseTurn(t, outcome)) = Len(turns[t])
           /\ \A n \in DOMAIN turns[t] :
                CloseTurn(t,
                 outcome)[n] = IF turns[t][n].outcome = "open" THEN
                   [turns[t][n] EXCEPT !.outcome = outcome] ELSE turns[t][n]
<1>1. turns[t] \in Seq(Turn) /\ DOMAIN turns[t] = 1..Len(turns[t])
       /\ Len(turns[t]) \in Nat
  BY DEF TypeOK, RowsOK
<1>2. \A n \in DOMAIN turns[t] : turns[t][n] \in Turn BY <1>1
<1>3. \A n \in DOMAIN turns[t] :
       [turns[t][n] EXCEPT !.outcome = outcome] \in Turn
  BY <1>2 DEF Turn
<1>4. \A n \in DOMAIN turns[t] :
       (IF turns[t][n].outcome = "open" THEN [turns[t][n] EXCEPT !.outcome =
         outcome] ELSE turns[t][n]) \in Turn
  BY <1>2, <1>3
<1> QED BY <1>1, <1>4 DEF CloseTurn

\* Closing the open turn writes the outcome of that turn and of no other.
LEMMA CloseTurnOutcome ==
    ASSUME TypeOK, NEW t \in Tasks, NEW outcome \in Outcomes
    PROVE  /\ DOMAIN CloseTurn(t, outcome) = DOMAIN turns[t]
           /\ Len(CloseTurn(t, outcome)) = Len(turns[t])
           /\ \A n \in DOMAIN turns[t] : CloseTurn(t,
              outcome)[n].outcome = IF turns[t][n].outcome = "open" THEN
                outcome ELSE turns[t][n].outcome
<1>1. turns[t] \in Seq(Turn) /\ \A n \in DOMAIN turns[t] : turns[t][n] \in Turn
  BY DEF TypeOK, RowsOK
<1>2. \A n \in DOMAIN turns[t] :
       [turns[t][n] EXCEPT !.outcome = outcome].outcome = outcome
  BY <1>1 DEF Turn
<1> QED BY <1>1, <1>2, CloseTurnTypes DEF CloseTurn

\* Closing the pending questions keeps a sequence of statuses.
LEMMA ClosePendingTypes ==
    ASSUME TypeOK, NEW t \in Tasks, NEW s \in QuestionStatus
    PROVE  ClosePending(t, s) \in Seq(QuestionStatus)
<1>1. questions[t] \in Seq(QuestionStatus)
       /\ DOMAIN questions[t] = 1..Len(questions[t])
       /\ Len(questions[t]) \in Nat
  BY DEF TypeOK, RowsOK
<1>2. \A n \in DOMAIN questions[t] : questions[t][n] \in QuestionStatus BY <1>1
<1> QED BY <1>1, <1>2 DEF ClosePending

\* Opening a turn appends one open turn and leaves the earlier ones alone.
LEMMA OpenTurnRows ==
    ASSUME TypeOK, NEW t \in Tasks, NEW k, OpenTurn(t, k)
    PROVE  /\ \A u \in Tasks : u # t => turns'[u] = turns[u]
           /\ turns'[t] # <<>>
           /\ turns'[t][Len(turns'[t])].outcome = "open"
           /\ \A n \in DOMAIN turns'[t] :
                 n # Len(turns'[t]) => n \in DOMAIN turns[t]
                  /\ turns'[t][n] = turns[t][n]
<1> DEFINE L == Len(turns[t])
<1>1. /\ \A u \in Tasks : u # t => turns'[u] = turns[u]
      /\ Len(turns'[t]) = L + 1
      /\ DOMAIN turns'[t] = 1..(L + 1)
      /\ \A n \in DOMAIN turns[t] : turns'[t][n] = turns[t][n]
      /\ turns'[t][L + 1] = [outcome |-> "open", key |-> k]
  BY TurnsTyped DEF OpenTurn, TypeOK, RowsOK
<1>2. L \in Nat /\ DOMAIN turns[t] = 1..L BY TurnsTyped
<1> HIDE DEF L
<1>3. turns'[t] # <<>> BY <1>1, <1>2
<1>4. turns'[t][Len(turns'[t])].outcome = "open" BY <1>1
<1>5. \A n \in DOMAIN turns'[t] : n # Len(turns'[t]) => n \in DOMAIN turns[t]
       /\ turns'[t][n] = turns[t][n]
  BY <1>1, <1>2
<1> QED BY <1>1, <1>3, <1>4, <1>5

\* Below the turn limit, opening a turn keeps rows and facts typed.
LEMMA OpenTurnTypes ==
    ASSUME TypeOK, NEW t \in Tasks, NEW k \in Keys \cup {NoKey}, OpenTurn(t,
            k), LastTurn(t) < MaxTurns
    PROVE  /\ turns' \in [Tasks -> Seq(Turn)]
           /\ \A u \in Tasks : Len(turns'[u]) <= MaxTurns
           /\ FactsOK'
<1>1. turns[t] \in Seq(Turn) /\ Len(turns[t]) \in Nat
  BY DEF TypeOK, RowsOK
<1>2. [outcome |-> "open", key |-> k] \in Turn BY DEF Turn, Outcomes
<1>3. Append(turns[t], [outcome |-> "open", key |-> k]) \in Seq(Turn)
       /\ Len(Append(turns[t], [outcome |-> "open", key |-> k])) =
         Len(turns[t]) + 1
  BY <1>1, <1>2
<1>4. turns' = [turns EXCEPT ![t] = Append(turns[t], [outcome |-> "open",
       key |-> k])]
  BY DEF OpenTurn
<1>5. turns' \in [Tasks -> Seq(Turn)] /\ turns \in [Tasks -> Seq(Turn)]
  BY <1>3, <1>4 DEF TypeOK, RowsOK
<1>6. \A u \in Tasks : Len(turns'[u]) <= MaxTurns
  BY <1>3, <1>4, <1>5, LimitsAssumption DEF TypeOK, RowsOK, LastTurn
<1>7. prework' \in [Tasks -> [Facts -> [TurnNumbers -> Dispatch]]]
   <2> DEFINE n == LastTurn(t) + 1
             g(f) == IF prework[t][f][n] = "none" THEN prework[t][f]
                            ELSE [prework[t][f] EXCEPT ![n] = "turn_opened"]
   <2>1. prework' = [prework EXCEPT ![t] = [f \in Facts |-> g(f)]]
     BY DEF OpenTurn
   <2>2. prework \in [Tasks -> [Facts -> [TurnNumbers -> Dispatch]]]
     BY DEF TypeOK, FactsOK
   <2>3. \A f \in Facts : g(f) \in [TurnNumbers -> Dispatch]
     BY <2>2 DEF Dispatch
   <2> HIDE DEF g
   <2> QED BY <2>1, <2>2, <2>3
<1> QED BY <1>5, <1>6, <1>7 DEF OpenTurn, TypeOK, FactsOK

\* The only actions that write rows.
LEMMA RowsWriters ==
    ASSUME Next
    PROVE UNCHANGED rows \/ (\E t \in Tasks : CreateTask(t))
           \/ (\E t \in Tasks : Queue(t)) \/ (\E t \in Tasks : Cancel(t))
           \/ (\E t \in Tasks : SettleRecovered(t))
           \/ (\E t \in Tasks : Recover(t)) \/ HandOver \/ StartedRunning
           \/ OpenFirstTurn \/ Deliver \/ RecordAnswer \/ Apply \/ Settle
<1> USE DEF rows
<1>1. CASE StartStep \/ DispatchStep
  BY <1>1
     DEF StartStep, DispatchStep, Reserve, RefuseLineage, MarkDispatchStarted,
         MarkDispatchRefused, CallAdapter
<1>2. CASE AdapterStep
  BY <1>2
     DEF AdapterStep, AdapterReports, AdapterConsents, AdapterRefuses,
         AdapterFaults
<1>3. CASE SettleStep
  BY <1>3
     DEF SettleStep, Fail, CaptureRange, CaptureFinal, Evaluate
<1>4. CASE \E t \in Tasks : Request(t)
  BY <1>4
     DEF Request, Refresh, Finish, BeginFollowup, Answer
<1>5. CASE \/ \E t \in Tasks : Queue(t) \/ SettleRecovered(t)
           \/ \E c \in inFlight : RememberFollowup(c) \/ LockFollowup(c)
           \/ \E t \in Tasks, k \in Keys : ExpireKey(t, k)
           \/ Crash
  BY <1>5
     DEF RememberFollowup, LockFollowup, ExpireKey, Crash
<1>6. CASE Boot
  BY <1>6
     DEF Boot, Restart, EvaluateAtBoot
<1> HIDE DEF rows
<1> QED BY <1>1, <1>2, <1>3, <1>4, <1>5, <1>6 DEF Next, WorkStep

\* The only actions that write the pre-work facts.
LEMMA FactsWriters ==
    ASSUME Next
    PROVE UNCHANGED facts \/ OpenFirstTurn \/ Deliver \/ Reserve
           \/ MarkDispatchStarted \/ MarkDispatchRefused
<1> USE DEF facts
<1>1. CASE StartStep \/ DispatchStep
  BY <1>1
     DEF StartStep, DispatchStep, HandOver, StartedRunning, RefuseLineage,
         CallAdapter
<1>2. CASE AdapterStep
  BY <1>2
     DEF AdapterStep, AdapterReports, AdapterConsents, AdapterRefuses,
         AdapterFaults
<1>3. CASE SettleStep
  BY <1>3
     DEF SettleStep, RecordAnswer, Apply, Fail, CaptureRange, CaptureFinal,
         Settle, Evaluate
<1>4. CASE \E t \in Tasks : Request(t)
  BY <1>4
     DEF Request, CreateTask, Refresh, Cancel, Finish, BeginFollowup, Answer
<1>5. CASE \/ \E t \in Tasks : Queue(t) \/ SettleRecovered(t)
           \/ \E c \in inFlight : RememberFollowup(c) \/ LockFollowup(c)
           \/ \E t \in Tasks, k \in Keys : ExpireKey(t, k)
           \/ Crash
  BY <1>5
     DEF Queue, SettleRecovered, RememberFollowup, LockFollowup, ExpireKey,
         Crash
<1>6. CASE Boot
  BY <1>6
     DEF Boot, Restart, EvaluateAtBoot, Recover
<1> HIDE DEF facts
<1> QED BY <1>1, <1>2, <1>3, <1>4, <1>5, <1>6 DEF Next, WorkStep

\* The only actions that write evidence.
LEMMA EvidenceWriters ==
    ASSUME Next
    PROVE UNCHANGED evidence \/ CaptureRange \/ CaptureFinal \/ Evaluate
           \/ EvaluateAtBoot
<1> USE DEF evidence
<1>1. CASE StartStep \/ DispatchStep
  BY <1>1
     DEF StartStep, DispatchStep, HandOver, StartedRunning, OpenFirstTurn,
         Reserve, RefuseLineage, MarkDispatchStarted, MarkDispatchRefused,
         CallAdapter
<1>2. CASE AdapterStep
  BY <1>2
     DEF AdapterStep, AdapterReports, AdapterConsents, AdapterRefuses,
         AdapterFaults
<1>3. CASE SettleStep
  BY <1>3
     DEF SettleStep, Deliver, RecordAnswer, Apply, Fail, Settle
<1>4. CASE \E t \in Tasks : Request(t)
  BY <1>4
     DEF Request, CreateTask, Refresh, Cancel, Finish, BeginFollowup, Answer
<1>5. CASE \/ \E t \in Tasks : Queue(t) \/ SettleRecovered(t)
           \/ \E c \in inFlight : RememberFollowup(c) \/ LockFollowup(c)
           \/ \E t \in Tasks, k \in Keys : ExpireKey(t, k)
           \/ Crash
  BY <1>5
     DEF Queue, SettleRecovered, RememberFollowup, LockFollowup, ExpireKey,
         Crash
<1>6. CASE Boot
  BY <1>6
     DEF Boot, Restart, Recover
<1> HIDE DEF evidence
<1> QED BY <1>1, <1>2, <1>3, <1>4, <1>5, <1>6 DEF Next, WorkStep

\* The only actions that write keys and calls outside the lock.
LEMMA CallsWriters ==
    ASSUME Next
    PROVE UNCHANGED <<followKeys, calls>>
           \/ (\E c \in inFlight : RememberFollowup(c))
           \/ (\E t \in Tasks, k \in Keys : ExpireKey(t, k))
           \/ (\E t \in Tasks : CreateTask(t)) \/ (\E t \in Tasks : Queue(t))
           \/ (\E t \in Tasks, k \in Keys : BeginFollowup(t, k))
           \/ (\E c \in inFlight : LockFollowup(c)) \/ Crash
<1> USE DEF calls
<1>1. CASE StartStep \/ DispatchStep
  BY <1>1
     DEF StartStep, DispatchStep, HandOver, StartedRunning, OpenFirstTurn,
         Reserve, RefuseLineage, MarkDispatchStarted, MarkDispatchRefused,
         CallAdapter
<1>2. CASE AdapterStep
  BY <1>2
     DEF AdapterStep, AdapterReports, AdapterConsents, AdapterRefuses,
         AdapterFaults
<1>3. CASE SettleStep
  BY <1>3
     DEF SettleStep, Deliver, RecordAnswer, Apply, Fail, CaptureRange,
         CaptureFinal, Settle, Evaluate
<1>4. CASE \E t \in Tasks : Request(t)
  BY <1>4
     DEF Request, Refresh, Cancel, Finish, Answer
<1>5. CASE \/ \E t \in Tasks : Queue(t) \/ SettleRecovered(t)
           \/ \E c \in inFlight : RememberFollowup(c) \/ LockFollowup(c)
           \/ \E t \in Tasks, k \in Keys : ExpireKey(t, k)
           \/ Crash
  BY <1>5
     DEF SettleRecovered
<1>6. CASE Boot
  BY <1>6
     DEF Boot, Restart, EvaluateAtBoot, Recover
<1> HIDE DEF calls
<1> QED BY <1>1, <1>2, <1>3, <1>4, <1>5, <1>6 DEF Next, WorkStep

\* The only actions that take, use or drop the lock.
LEMMA WorkWriters ==
    ASSUME Next
    PROVE UNCHANGED work \/ (\E t \in Tasks : Queue(t))
           \/ (\E c \in inFlight : LockFollowup(c))
           \/ (\E t \in Tasks : Refresh(t)) \/ (\E t \in Tasks : Cancel(t))
           \/ (\E t \in Tasks, q \in 1..MaxQuestions : Answer(t, q))
           \/ (\E t \in Tasks : Finish(t)) \/ Crash \/ WorkStep
  BY DEF Next, Request, Boot, rows, facts, evidence, calls, host, history,
      CreateTask, SettleRecovered, BeginFollowup, RememberFollowup, ExpireKey,
      Restart, EvaluateAtBoot, Recover

\* The only actions that change a session or the process.
LEMMA HostWriters ==
    ASSUME Next
    PROVE UNCHANGED <<session, host>> \/ AdapterReports \/ AdapterConsents
           \/ Crash \/ Restart \/ (\E t \in Tasks : Recover(t))
           \/ EvaluateAtBoot \/ (\E t \in Tasks, k \in Keys : ExpireKey(t, k))
<1> USE DEF host
<1>1. CASE StartStep \/ DispatchStep
  BY <1>1
     DEF StartStep, DispatchStep, HandOver, StartedRunning, OpenFirstTurn,
         Reserve, RefuseLineage, MarkDispatchStarted, MarkDispatchRefused,
         CallAdapter
<1>2. CASE AdapterStep
  BY <1>2
     DEF AdapterStep, AdapterRefuses, AdapterFaults
<1>3. CASE SettleStep
  BY <1>3
     DEF SettleStep, Deliver, RecordAnswer, Apply, Fail, CaptureRange,
         CaptureFinal, Settle, Evaluate
<1>4. CASE \E t \in Tasks : Request(t)
  BY <1>4
     DEF Request, CreateTask, Refresh, Cancel, Finish, BeginFollowup, Answer
<1>5. CASE \/ \E t \in Tasks : Queue(t) \/ SettleRecovered(t)
           \/ \E c \in inFlight : RememberFollowup(c) \/ LockFollowup(c)
           \/ \E t \in Tasks, k \in Keys : ExpireKey(t, k)
           \/ Crash
  BY <1>5
     DEF Queue, SettleRecovered, RememberFollowup, LockFollowup
<1>6. CASE Boot
  BY <1>6
     DEF Boot
<1> HIDE DEF host
<1> QED BY <1>1, <1>2, <1>3, <1>4, <1>5, <1>6 DEF Next, WorkStep

\* The only actions the history variables record.
LEMMA HistoryWriters ==
    ASSUME Next
    PROVE UNCHANGED history \/ CallAdapter \/ AdapterReports
           \/ (\E c \in inFlight : RememberFollowup(c))
<1> USE DEF history
<1>1. CASE StartStep \/ DispatchStep
  BY <1>1
     DEF StartStep, DispatchStep, HandOver, StartedRunning, OpenFirstTurn,
         Reserve, RefuseLineage, MarkDispatchStarted, MarkDispatchRefused
<1>2. CASE AdapterStep
  BY <1>2
     DEF AdapterStep, AdapterConsents, AdapterRefuses, AdapterFaults
<1>3. CASE SettleStep
  BY <1>3
     DEF SettleStep, Deliver, RecordAnswer, Apply, Fail, CaptureRange,
         CaptureFinal, Settle, Evaluate
<1>4. CASE \E t \in Tasks : Request(t)
  BY <1>4
     DEF Request, CreateTask, Refresh, Cancel, Finish, BeginFollowup, Answer
<1>5. CASE \/ \E t \in Tasks : Queue(t) \/ SettleRecovered(t)
           \/ \E c \in inFlight : RememberFollowup(c) \/ LockFollowup(c)
           \/ \E t \in Tasks, k \in Keys : ExpireKey(t, k)
           \/ Crash
  BY <1>5
     DEF Queue, SettleRecovered, LockFollowup, ExpireKey, Crash
<1>6. CASE Boot
  BY <1>6
     DEF Boot, Restart, EvaluateAtBoot, Recover
<1> HIDE DEF history
<1> QED BY <1>1, <1>2, <1>3, <1>4, <1>5, <1>6 DEF Next, WorkStep

\* A restart settles a row within its type.
LEMMA RecoverTypes == ASSUME Inv, NEW t \in Tasks, Recover(t) PROVE RowsOK'
<1>1. CASE UNCHANGED rows BY <1>1 DEF Inv, TypeOK, RowsOK, rows
<1>2. CASE ~UNCHANGED rows
  <2>1. "interrupted" \in Outcomes /\ "superseded" \in QuestionStatus
         /\ {"interrupted", "recovery_required"} \subseteq States
    BY DEF Outcomes, QuestionStatus, States, Terminal
  <2>2. CloseTurn(t, "interrupted") \in Seq(Turn)
         /\ Len(CloseTurn(t, "interrupted")) = Len(turns[t])
    BY <2>1, CloseTurnTypes DEF Inv
  <2>3. ClosePending(t, "superseded") \in Seq(QuestionStatus)
    BY <2>1, ClosePendingTypes DEF Inv
  <2> QED BY <1>2, <2>1, <2>2, <2>3 DEF Recover, Move, Inv, TypeOK, RowsOK
<1> QED BY <1>1, <1>2

\* The first turn is within the limit.
LEMMA OpenFirstTurnTypes == ASSUME Inv, OpenFirstTurn PROVE RowsOK' /\ FactsOK'
<1>1. work.key \in Keys \cup {NoKey} /\ work.task \in Tasks
       /\ LastTurn(work.task) < MaxTurns
  BY LockHolder, LimitsAssumption
     DEF OpenFirstTurn, At, Inv, WorkInv, FirstTurnInv, StepInv, LastTurn
<1> QED BY <1>1, OpenTurnTypes DEF OpenFirstTurn, Inv, TypeOK, RowsOK

\* A delivered message opens a turn within the limit, or none.
LEMMA DeliverTypes == ASSUME Inv, Deliver PROVE RowsOK' /\ FactsOK'
<1>1. work.key \in Keys \cup {NoKey} /\ work.task \in Tasks
  BY LockHolder DEF Deliver, At
<1>2. state' \in [Tasks -> States \cup {"absent"}]
       /\ questions' \in [Tasks -> Seq(QuestionStatus)]
  BY <1>1 DEF Deliver, Inv, TypeOK, RowsOK, Move, States
<1>3. CASE UNCHANGED <<turns, facts>>
  BY <1>2, <1>3 DEF Inv, TypeOK, RowsOK, FactsOK, facts
<1>4. CASE ~UNCHANGED <<turns, facts>>
  <2>1. LastTurn(work.task) < MaxTurns /\ OpenTurn(work.task, work.key)
     BY <1>1, <1>4, LimitsAssumption, TurnsTyped
         DEF Deliver, OpensTurn, Inv, LastTurn
  <2> QED BY <1>1, <1>2, <2>1, OpenTurnTypes DEF Inv, RowsOK
<1> QED BY <1>3, <1>4

\* An answer changes the status of one question.
LEMMA RecordAnswerTypes == ASSUME Inv, RecordAnswer PROVE RowsOK'
<1>1. work.task \in Tasks /\ "running" \in States
       /\ "answered" \in QuestionStatus
  BY LockHolder DEF RecordAnswer, At, States, QuestionStatus
<1>2. questions[work.task] \in Seq(QuestionStatus)
  BY <1>1 DEF Inv, TypeOK, RowsOK
<1>3. [questions[work.task] EXCEPT ![work.question] = "answered"] \in
         Seq(QuestionStatus)
  <2> DEFINE s == questions[work.task]
             q == work.question
  <2>1. s \in [1..Len(s) -> QuestionStatus] /\ Len(s) \in Nat BY <1>2
  <2> HIDE DEF s, q
  <2>2. [s EXCEPT ![q] = "answered"] \in [1..Len(s) -> QuestionStatus]
    BY <1>1, <2>1
  <2>3. [s EXCEPT ![q] = "answered"] \in Seq(QuestionStatus) BY <2>1, <2>2
  <2> QED BY <2>3 DEF s, q
<1> QED BY <1>1, <1>3 DEF RecordAnswer, Move, Inv, TypeOK, RowsOK

\* A report may append a question.
LEMMA ApplyTypes == ASSUME Inv, Apply PROVE RowsOK'
<1>1. work.task \in Tasks BY LockHolder DEF Apply, At
<1>2. questions[work.task] \in Seq(QuestionStatus)
       /\ "pending" \in QuestionStatus
  BY <1>1 DEF Inv, TypeOK, RowsOK, QuestionStatus
<1>3. Append(questions[work.task], "pending") \in Seq(QuestionStatus) BY <1>2
<1> QED BY <1>1, <1>3 DEF Apply, Inv, TypeOK, RowsOK

\* The closing transition writes typed rows.
LEMMA SettleTypes == ASSUME Inv, Settle PROVE RowsOK'
<1> DEFINE t == work.task
           outcome == IF work.to = "ready_for_followup" THEN "completed"
                      ELSE work.to
<1>1. t \in Tasks /\ work.to \in States
  BY LockHolder DEF Settle, At, Inv, WorkInv, StepInv
<1>2. questions[t] \in Seq(QuestionStatus) /\ "pending" \in QuestionStatus
  BY <1>1 DEF Inv, TypeOK, RowsOK, QuestionStatus
<1>3. Append(questions[t], "pending") \in Seq(QuestionStatus) BY <1>2
<1>4. \A s \in {"cancelled", "superseded"} : ClosePending(t,
       s) \in Seq(QuestionStatus)
  BY <1>1, ClosePendingTypes DEF QuestionStatus, Inv
<1>5. SettledQuestions(t) \in Seq(QuestionStatus)
  BY <1>2, <1>3, <1>4 DEF SettledQuestions
<1>6. work.closes => outcome \in Outcomes
  BY DEF Settle, At, Inv, ClosingInv, TurnEndingStates, Outcomes
<1>7. work.closes => CloseTurn(t, outcome) \in Seq(Turn)
       /\ Len(CloseTurn(t, outcome)) = Len(turns[t])
  BY <1>1, <1>6, CloseTurnTypes DEF Inv
<1>8. turns' = IF work.closes THEN [turns EXCEPT ![t] = CloseTurn(t,
       outcome)] ELSE turns
  BY DEF Settle, TurnOutcome
<1>9. questions' = [questions EXCEPT ![t] = SettledQuestions(t)]
       /\ state' = [state EXCEPT ![t] = work.to]
  BY DEF Settle, Move
<1> HIDE DEF t, outcome
<1> QED BY <1>1, <1>5, <1>7, <1>8, <1>9 DEF Inv, TypeOK, RowsOK

\* Every step keeps the rows typed.
LEMMA RowsType == ASSUME Inv, Next PROVE RowsOK'
<1>1. CASE UNCHANGED rows BY <1>1 DEF rows, Inv, TypeOK, RowsOK
<1>2. CASE \E t \in Tasks : CreateTask(t) \/ Queue(t) \/ Cancel(t)
            \/ SettleRecovered(t)
  BY <1>2
     DEF CreateTask, Queue, Cancel, SettleRecovered, Move, Inv, TypeOK,
         RowsOK, States, Terminal
<1>3. CASE HandOver \/ StartedRunning
  BY <1>3, LockHolder
     DEF HandOver, StartedRunning, Move, At, Inv, TypeOK, RowsOK, States,
         Terminal
<1> QED
  BY <1>1, <1>2, <1>3, RowsWriters, RecoverTypes, OpenFirstTurnTypes,
     DeliverTypes, RecordAnswerTypes, ApplyTypes, SettleTypes

\* Reserving a fact keeps the facts typed.
LEMMA ReserveTypes == ASSUME Inv, Reserve PROVE FactsOK'
<1> DEFINE t == work.task
           f == ReserveOrder[work.i]
<1>1. t \in Tasks /\ f \in Facts /\ work.turn \in TurnNumbers
       /\ work.key \in Keys \cup {NoKey}
  BY LockHolder DEF Reserve, At, Facts, ReserveOrder
<1>2. [prework EXCEPT ![t][f][work.turn] = "captured"] \in [Tasks -> [Facts ->
         [TurnNumbers -> Dispatch]]]
   BY <1>1 DEF Inv, TypeOK, FactsOK, Dispatch
<1>3. [asker EXCEPT ![t][work.turn] = work.key] \in [Tasks -> [TurnNumbers ->
         Keys \cup {NoKey}]]
   BY <1>1 DEF Inv, TypeOK, FactsOK
<1> QED BY <1>2, <1>3 DEF Reserve, Inv, TypeOK, FactsOK

\* Marking a dispatch keeps the facts typed.
LEMMA MarkTypes ==
    ASSUME Inv, MarkDispatchStarted \/ MarkDispatchRefused PROVE FactsOK'
<1> DEFINE t == work.task
           f == MarkOrder[work.i]
<1>1. t \in Tasks /\ f \in Facts /\ work.turn \in TurnNumbers
  <2>1. work # Idle BY DEF MarkDispatchStarted, MarkDispatchRefused, At
  <2>2. work.i \in 1..3 /\ t \in Tasks /\ work.turn \in TurnNumbers
    BY <2>1, LockHolder
  <2>3. f \in Facts BY <2>2 DEF Facts, MarkOrder
  <2> QED BY <2>2, <2>3
<1>2. \A d \in Dispatch :
       [prework EXCEPT ![t][f][work.turn] = d] \in [Tasks -> [Facts ->
         [TurnNumbers -> Dispatch]]]
   BY <1>1 DEF Inv, TypeOK, FactsOK
<1> HIDE DEF f
<1>3. {"dispatch_started", "dispatch_refused"} \subseteq Dispatch
  BY DEF Dispatch
<1>4. prework' = prework
       \/ prework' = [prework EXCEPT ![t][f][work.turn] = "dispatch_started"]
       \/ prework' = [prework EXCEPT ![t][f][work.turn] = "dispatch_refused"]
  BY DEF f, MarkDispatchStarted, MarkDispatchRefused
<1>5. prework' \in [Tasks -> [Facts -> [TurnNumbers -> Dispatch]]]
  BY <1>2, <1>3, <1>4 DEF Inv, TypeOK, FactsOK
<1> QED
  BY <1>5 DEF MarkDispatchStarted, MarkDispatchRefused, Inv, TypeOK, FactsOK

\* Every step keeps the facts typed.
LEMMA FactsType == ASSUME Inv, Next PROVE FactsOK'
<1>1. CASE UNCHANGED facts BY <1>1 DEF facts, Inv, TypeOK, FactsOK
<1> QED
  BY <1>1, FactsWriters, OpenFirstTurnTypes, DeliverTypes, ReserveTypes,
     MarkTypes

\* A judgement is about a turn number.
LEMMA EvaluateTypes == ASSUME Inv, EvaluateAtBoot \/ Evaluate PROVE EvidenceOK'
<1>1. \A t \in Tasks : AwaitingEvaluation(t) \subseteq Nat
  BY TurnsTyped DEF AwaitingEvaluation, Inv
<1>2. CASE EvaluateAtBoot
  BY <1>1, <1>2 DEF EvaluateAtBoot, Inv, TypeOK, EvidenceOK
<1>3. CASE Evaluate
  <2>1. work.task \in Tasks BY <1>3, LockHolder DEF Evaluate, At
  <2> QED BY <2>1, <1>1, <1>3 DEF Evaluate, Inv, TypeOK, EvidenceOK
<1> QED BY <1>2, <1>3

\* Every step keeps the evidence typed.
LEMMA EvidenceType == ASSUME Inv, Next PROVE EvidenceOK'
<1>1. CASE UNCHANGED evidence BY <1>1 DEF evidence, Inv, TypeOK, EvidenceOK
<1>2. CASE CaptureRange \/ CaptureFinal
  <2>1. work.task \in Tasks
    BY <1>2, LockHolder DEF CaptureRange, CaptureFinal, At
  <2>2. CurrentTurn(work.task) \subseteq Nat
    BY <2>1, TurnsTyped DEF CurrentTurn, Inv
  <2> QED
    BY <1>2, <2>1, <2>2 DEF CaptureRange, CaptureFinal, Inv, TypeOK, EvidenceOK
<1> QED BY <1>1, <1>2, EvidenceWriters, EvaluateTypes

\* Every step keeps keys and calls typed.
LEMMA CallsType == ASSUME Inv, Next PROVE CallsOK'
<1>1. CASE UNCHANGED <<followKeys, calls>>
  BY <1>1 DEF calls, Inv, TypeOK, CallsOK
<1>2. CASE Crash BY <1>2 DEF Crash, Inv, TypeOK, CallsOK
<1>3. CASE \E t \in Tasks : CreateTask(t) \/ Queue(t)
  BY <1>3 DEF CreateTask, Queue, Inv, TypeOK, CallsOK
<1>4. CASE \E t \in Tasks, k \in Keys : ExpireKey(t, k)
  BY <1>4 DEF ExpireKey, calls, Inv, TypeOK, CallsOK
<1>5. CASE \E t \in Tasks, k \in Keys : BeginFollowup(t, k)
  BY <1>5 DEF BeginFollowup, Inv, TypeOK, CallsOK, RowsOK, FollowupCall, Live
<1>6. CASE \E c \in inFlight : RememberFollowup(c) \/ LockFollowup(c)
  BY <1>6
     DEF RememberFollowup, KeysWith, LockFollowup, Inv, TypeOK, CallsOK,
         FollowupCall
<1> QED BY <1>1, <1>2, <1>3, <1>4, <1>5, <1>6, CallsWriters

\* The local variables of a new operation are typed.
LEMMA LeaseTypes ==
    ASSUME TypeOK, NEW op \in Operations, NEW t \in Tasks,
            NEW k \in Keys \cup {NoKey}, NEW from \in States,
            NEW fresh \in BOOLEAN, NEW step \in Steps
    PROVE Lease(op, t, k, from, fresh, step) \in Work
<1>1. LastTurn(t) + 1 \in TurnNumbers
  BY TurnsTyped, LimitsAssumption DEF LastTurn, TurnNumbers
<1>2. 1 \in 1..3 /\ 0 \in Nat /\ "none" \in States \cup {"none"} OBVIOUS
<1>3. FALSE \in BOOLEAN OBVIOUS
<1> QED BY <1>1, <1>2, <1>3 DEF Lease, Work

\* An operation that takes the lock has typed local variables.
LEMMA AcquireTypes ==
    ASSUME Inv, \E t \in Tasks : Queue(t) \/ Refresh(t) \/ Cancel(t)
            \/ Finish(t)
    PROVE WorkOK'
<1>1. PICK t \in Tasks : Queue(t) \/ Refresh(t) \/ Cancel(t) \/ Finish(t)
  OBVIOUS
<1>2. CASE UNCHANGED work BY <1>2 DEF Inv, TypeOK, WorkOK, Work, Idle
<1>3. CASE ~UNCHANGED work
  <2>1. PICK op \in Operations, from \in States, fresh \in BOOLEAN,
         step \in Steps : work' = Lease(op, t, NoKey, from, fresh, step)
    <3>1. CASE Queue(t)
      BY <1>3, <3>1 DEF Queue, Acquire, Operations, States, Steps
    <3>2. CASE Refresh(t) BY <3>2 DEF Refresh, Acquire, Operations, Live, Steps
    <3>3. CASE Cancel(t) BY <3>3 DEF Cancel, Acquire, Operations, States, Steps
    <3>4. CASE Finish(t) BY <3>4 DEF Finish, Acquire, Operations, States, Steps
    <3> QED BY <1>1, <3>1, <3>2, <3>3, <3>4
  <2> QED BY <2>1, LeaseTypes DEF Inv, WorkOK
<1> QED BY <1>2, <1>3

\* ... and so has the answer to a question,
LEMMA AnswerTypes ==
    ASSUME Inv, NEW t \in Tasks, NEW q \in 1..MaxQuestions, Answer(t, q)
    PROVE WorkOK'
<1>1. Lease("answer", t, NoKey, state[t], FALSE, "adapter") \in Work
  <2>1. "answer" \in Operations /\ state[t] \in States /\ "adapter" \in Steps
         /\ NoKey \in Keys \cup {NoKey}
    BY DEF Answer, Operations, States, Steps
  <2> QED BY <2>1, LeaseTypes DEF Inv
<1>2. \A w \in Work : [w EXCEPT !.question = q] \in Work
  <2> SUFFICES ASSUME NEW w \in Work PROVE [w EXCEPT !.question = q] \in Work
    OBVIOUS
  <2>1. q \in Nat BY BoundsAssumption
  <2> QED BY <2>1 DEF Work
<1> QED BY <1>1, <1>2 DEF Answer, WorkOK

\* ... and a follow-up.
LEMMA LockFollowupTypes ==
    ASSUME Inv, NEW c \in inFlight, LockFollowup(c) PROVE WorkOK'
<1> DEFINE t == c.task
           fresh == state[t] = "ready_for_followup"
           step == IF fresh THEN "reserve" ELSE "call"
<1>1. CASE UNCHANGED work BY <1>1 DEF Inv, TypeOK, WorkOK, Work, Idle
<1>2. CASE ~UNCHANGED work
  <2>1. work' = Lease("followup", t, c.key, state[t], fresh, step)
         /\ state[t] \in FollowupStates
    BY <1>2 DEF LockFollowup, Acquire
  <2>2. t \in Tasks /\ c.key \in Keys BY DEF Inv, TypeOK, CallsOK, FollowupCall
  <2>3. "followup" \in Operations /\ state[t] \in States /\ fresh \in BOOLEAN
         /\ step \in Steps
    BY <2>1 DEF Operations, Steps, States, FollowupStates
  <2> HIDE DEF t, fresh, step
  <2> QED BY <2>1, <2>2, <2>3, LeaseTypes DEF Inv, WorkOK
<1> QED BY <1>1, <1>2

\* Every step keeps sessions and process typed.
LEMMA HostType == ASSUME Inv, Next PROVE HostOK'
<1>1. CASE UNCHANGED <<session, host>> BY <1>1 DEF host, Inv, TypeOK, HostOK
<1>2. CASE Crash BY <1>2, BoundsAssumption DEF Crash, Inv, TypeOK, HostOK
<1>3. CASE Restart \/ EvaluateAtBoot \/ \E t \in Tasks : Recover(t)
  BY <1>3 DEF Restart, Unfinished, EvaluateAtBoot, Recover, Inv, TypeOK, HostOK
<1>4. CASE \E t \in Tasks, k \in Keys : ExpireKey(t, k)
  BY <1>4, BoundsAssumption DEF ExpireKey, Inv, TypeOK, HostOK
<1>5. CASE AdapterReports
  BY <1>5 DEF AdapterReports, Report, host, Inv, TypeOK, HostOK
<1>6. CASE AdapterConsents
  BY <1>6 DEF AdapterConsents, host, Inv, TypeOK, HostOK
<1> QED BY <1>1, <1>2, <1>3, <1>4, <1>5, <1>6, HostWriters

\* Counting a delivery keeps the count a number.
LEMMA DeliveredTypes == ASSUME Inv, AdapterReports PROVE HistoryOK'
<1>1. work.task \in Tasks BY LockHolder DEF AdapterReports, At
<1>2. [delivered EXCEPT ![work.task][work.key] = @ + 1] \in [Tasks -> [Keys ->
         Nat]]
  <2>1. CASE work.key \in Keys BY <1>1, <2>1 DEF Inv, TypeOK, HistoryOK
  <2>2. CASE work.key \notin Keys BY <1>1, <2>2 DEF Inv, TypeOK, HistoryOK
  <2> QED BY <2>1, <2>2
<1> QED BY <1>2 DEF AdapterReports, Inv, TypeOK, HistoryOK

\* Every step keeps the history variables typed.
LEMMA HistoryType == ASSUME Inv, Next PROVE HistoryOK'
<1>1. CASE UNCHANGED history BY <1>1 DEF history, Inv, TypeOK, HistoryOK
<1>2. CASE CallAdapter
  BY <1>2, LockHolder DEF CallAdapter, At, Inv, TypeOK, HistoryOK
<1>3. CASE \E c \in inFlight : RememberFollowup(c)
  BY <1>3 DEF RememberFollowup, Inv, TypeOK, HistoryOK, CallsOK, FollowupCall
<1> QED BY <1>1, <1>2, <1>3, DeliveredTypes, HistoryWriters

\* Updating local variables with typed values keeps them typed.
LEMMA WorkUpdate ==
    ASSUME NEW w \in Work, NEW s \in Steps, NEW j \in 1..3
    PROVE  /\ [w EXCEPT !.step = s] \in Work
           /\ [w EXCEPT !.i = j] \in Work
           /\ [w EXCEPT !.step = s, !.i = j] \in Work
<1>1. [w EXCEPT !.step = s] \in Work BY DEF Work
<1>2. [w EXCEPT !.i = j] \in Work BY DEF Work
<1>3. [w EXCEPT !.step = s, !.i = j] \in Work
  <2> DEFINE v == [w EXCEPT !.step = s]
  <2>1. [w EXCEPT !.step = s, !.i = j] = [v EXCEPT !.i = j] OBVIOUS
  <2>2. v \in Work BY <1>1
  <2> HIDE DEF v
  <2>3. [v EXCEPT !.i = j] \in Work BY <2>2 DEF Work
  <2> QED BY <2>1, <2>3
<1> QED BY <1>1, <1>2, <1>3

\* The type of each local variable.
LEMMA WorkFields ==
    ASSUME NEW w \in Work
    PROVE  /\ w.i \in 1..3 /\ w.task \in Tasks /\ w.op \in Operations
           /\ w.from \in States /\ w.step \in Steps
           /\ w.key \in Keys \cup {NoKey} /\ w.turn \in TurnNumbers
           /\ w.question \in Nat
           /\ w.fresh \in BOOLEAN /\ w.to \in States \cup {"none"}
              /\ w.asks \in BOOLEAN
           /\ w.closes \in BOOLEAN /\ w.failing \in BOOLEAN
<1>1. w.i \in 1..3 /\ w.task \in Tasks /\ w.op \in Operations
           /\ w.from \in States /\ w.step \in Steps
           /\ w.key \in Keys \cup {NoKey} /\ w.turn \in TurnNumbers
           /\ w.question \in Nat BY DEF Work
<1>2. w.fresh \in BOOLEAN /\ w.to \in States \cup {"none"}
       /\ w.asks \in BOOLEAN
           /\ w.closes \in BOOLEAN /\ w.failing \in BOOLEAN BY Zenon DEF Work
<1> QED BY <1>1, <1>2

\* A step of an operation is taken by the holder of the lock.
LEMMA HolderSteps == ASSUME Inv, WorkStep PROVE work \in Work /\ work # Idle
<1>1. CASE StartStep \/ DispatchStep
  BY <1>1 DEF StartStep, DispatchStep, HandOver, StartedRunning, OpenFirstTurn, Reserve,
      RefuseLineage, MarkDispatchStarted, MarkDispatchRefused, CallAdapter, At, Inv,
      TypeOK, WorkOK
<1>2. CASE AdapterStep
  BY <1>2 DEF AdapterStep, AdapterReports, AdapterConsents, AdapterRefuses, AdapterFaults,
      At, Inv, TypeOK, WorkOK
<1>3. CASE SettleStep
  BY <1>3 DEF SettleStep, Deliver, RecordAnswer, Apply, Fail, CaptureRange, CaptureFinal,
      Settle, Evaluate, At, Inv, TypeOK, WorkOK
<1> QED BY <1>1, <1>2, <1>3 DEF WorkStep

\* Every step of the lock holder keeps its local variables typed.
LEMMA WorkStepTypes == ASSUME Inv, WorkStep PROVE WorkOK'
<1>0. work \in Work /\ work # Idle BY HolderSteps
<1>a. 1 \in 1..3 /\ TRUE \in BOOLEAN /\ FALSE \in BOOLEAN
       /\ "failed" \in States /\ "completed" \in States
  BY DEF States, Terminal
<1>w. work.i \in 1..3 /\ work.op \in Operations /\ work.task \in Tasks
  BY <1>0, WorkFields
<1>b. ASSUME NEW s \in Steps, Goto(s) PROVE WorkOK'
  BY <1>0, <1>a, <1>b, WorkUpdate DEF Goto, WorkOK
<1>c. ASSUME NEW s \in Steps, Loop(s) PROVE WorkOK'
  <2>1. CASE work.i < 3
    <3>1. work.i + 1 \in 1..3 BY <1>w, <2>1
    <3>2. work' = [work EXCEPT !.i = work.i + 1] BY <1>c, <2>1 DEF Loop
    <3>3. DEFINE j == work.i + 1
    <3>4. work' = [work EXCEPT !.i = j] BY <3>2
    <3>5. j \in 1..3 BY <3>1
    <3> HIDE DEF j
    <3>6. [work EXCEPT !.i = j] \in Work BY <1>0, <3>5 DEF Work
    <3> QED BY <3>4, <3>6 DEF WorkOK
  <2>2. CASE ~(work.i < 3)
    <3>1. Goto(s) BY <1>c, <2>2 DEF Loop, Goto
    <3> QED BY <1>b, <3>1
  <2> QED BY <2>1, <2>2
<1>d. ASSUME Return PROVE WorkOK'
  BY <1>d DEF Return, WorkOK
<1>e. ASSUME NEW s \in Steps, NEW to \in States \cup {"none"},
              NEW a \in BOOLEAN,
              work' = [work EXCEPT !.to = to, !.asks = a, !.step = s]
      PROVE WorkOK'
  <2>1. [work EXCEPT !.to = to, !.asks = a, !.step = s] \in Work
    BY <1>0 DEF Work
  <2> QED BY <1>e, <2>1 DEF WorkOK
<1>f. ASSUME NEW s \in Steps, NEW d \in BOOLEAN,
              work' = [work EXCEPT !.step = s, !.failing = d]
      PROVE WorkOK'
  <2>1. [work EXCEPT !.step = s, !.failing = d] \in Work BY <1>0 DEF Work
  <2> QED BY <1>f, <2>1 DEF WorkOK
<1> USE DEF Steps
<1>1. CASE HandOver
  <2> DEFINE s == "reserve"
             f == "starting"
  <2>1. s \in Steps /\ f \in States BY DEF States
  <2>2. work' = [work EXCEPT !.step = s, !.from = f] BY <1>1 DEF HandOver
  <2> HIDE DEF s, f
  <2>3. [work EXCEPT !.step = s, !.from = f] \in Work BY <1>0, <2>1 DEF Work
  <2> QED BY <2>2, <2>3 DEF WorkOK
<1>2. CASE StartedRunning BY <1>b, <1>2 DEF StartedRunning
<1>3. CASE OpenFirstTurn BY <1>b, <1>3 DEF OpenFirstTurn
<1>4. CASE Reserve BY <1>c, <1>4 DEF Reserve
<1>5. CASE RefuseLineage BY <1>b, <1>d, <1>5 DEF RefuseLineage
<1>6. CASE MarkDispatchStarted BY <1>c, <1>6 DEF MarkDispatchStarted
<1>7. CASE MarkDispatchRefused BY <1>c, <1>d, <1>7 DEF MarkDispatchRefused
<1>8. CASE CallAdapter BY <1>b, <1>8 DEF CallAdapter
<1>9. CASE AdapterReports
  <2>1. PICK r \in Report :
          work' = IF work.op = "refresh" /\ r.to = "none" THEN Idle
                     ELSE [work EXCEPT
                             !.to = r.to, !.asks = r.asks,
                             !.step = CASE work.op = "start" -> "running"
                                        [] work.op = "followup" -> "deliver"
                                        [] OTHER -> "apply"]
                                          BY <1>9 DEF AdapterReports
  <2>2. r.to \in States \cup {"none"}
    BY DEF Report, Reported, TurnEndingStates, States, Terminal
  <2>3. r.asks \in BOOLEAN BY Zenon DEF Report
  <2>4. CASE work' = Idle BY <2>4 DEF WorkOK
  <2>5. CASE work' # Idle
    <3> DEFINE s == CASE work.op = "start" -> "running"
                                        [] work.op = "followup" -> "deliver"
                                        [] OTHER -> "apply"
    <3>1. s \in Steps OBVIOUS
    <3>2. work' = [work EXCEPT !.to = r.to, !.asks = r.asks, !.step = s]
      BY <2>1, <2>5
    <3> HIDE DEF s, Steps
    <3>3. [work EXCEPT !.to = r.to, !.asks = r.asks, !.step = s] \in Work
      BY <1>0, <2>2, <2>3, <3>1 DEF Work
    <3> QED BY <3>2, <3>3 DEF WorkOK
  <2> QED BY <2>4, <2>5
<1>10. CASE AdapterConsents
  <2>1. CASE Goto("answered") BY <2>1, <1>b
  <2>2. CASE work' = [work EXCEPT !.step = "settle", !.to = "completed"]
    <3>1. "settle" \in Steps OBVIOUS
    <3> HIDE DEF Steps
    <3>2. [work EXCEPT !.step = "settle", !.to = "completed"] \in Work
      BY <1>0, <1>a, <3>1 DEF Work
    <3> QED BY <2>2, <3>2 DEF WorkOK
  <2> QED BY <1>10, <2>1, <2>2 DEF AdapterConsents
<1>11. CASE AdapterRefuses
  <2>1. CASE Return BY <2>1, <1>d
  <2>2. CASE ~Return
    <3> DEFINE d == work.op = "start"
    <3>1. d \in BOOLEAN OBVIOUS
    <3>2. work' = [work EXCEPT !.step = "unmark", !.failing = d]
      BY <1>11, <2>2 DEF AdapterRefuses
    <3> HIDE DEF d
    <3> QED BY <3>1, <3>2, <1>f
  <2> QED BY <2>1, <2>2
<1>12. CASE AdapterFaults
  <2> DEFINE s == IF work.fresh THEN "unmark" ELSE "fail"
  <2>1. s \in Steps OBVIOUS
  <2>2. work' = [work EXCEPT !.step = s, !.failing = TRUE]
    BY <1>12 DEF AdapterFaults
  <2> HIDE DEF s
  <2> QED BY <2>1, <2>2, <1>a, <1>f
<1>13. CASE Deliver BY <1>b, <1>d, <1>13 DEF Deliver
<1>14. CASE RecordAnswer BY <1>d, <1>14 DEF RecordAnswer
<1>15. CASE Apply
  <2>1. CASE Return BY <2>1, <1>d
  <2>2. CASE ~Return
    <3> DEFINE a == work.asks /\ Cardinality(Pending(work.task)) < MaxPending
               c == work.to \in TurnEndingStates /\ HasOpenTurn(work.task)
               s == IF c THEN "range" ELSE "settle"
    <3>1. /\ CanTransition(state[work.task], work.to)
          /\ work' = [work EXCEPT !.from = state[work.task], !.asks = a,
             !.closes = c, !.step = s]
      BY <1>15, <2>2 DEF Apply, HasRoom
    <3>2. state[work.task] \in States BY <3>1 DEF CanTransition
    <3>3. a \in BOOLEAN /\ c \in BOOLEAN /\ s \in Steps OBVIOUS
    <3> DEFINE f == state[work.task]
    <3>4. /\ work' = [work EXCEPT !.from = f, !.asks = a, !.closes = c, !.step = s]
          /\ f \in States
      BY <3>1, <3>2
    <3> HIDE DEF a, c, s, f, Steps
    <3>5. [work EXCEPT !.from = f, !.asks = a, !.closes = c, !.step = s] \in Work
      BY <1>0, <3>3, <3>4 DEF Work
    <3> QED BY <3>4, <3>5 DEF WorkOK
  <2> QED BY <2>1, <2>2
<1>16. CASE Fail
  <2> DEFINE c == HasOpenTurn(work.task)
             s == IF c THEN "range" ELSE "settle"
  <2>1. work' = [work EXCEPT !.to = "failed", !.asks = FALSE, !.closes = c,
         !.failing = TRUE, !.i = 1, !.step = s]
    BY <1>16 DEF Fail
  <2>2. c \in BOOLEAN BY DEF HasOpenTurn
  <2>3. s \in Steps OBVIOUS
  <2> HIDE DEF c, s, Steps
  <2>4. [work EXCEPT !.to = "failed", !.asks = FALSE, !.closes = c, !.failing = TRUE,
                     !.i = 1, !.step = s] \in Work
    BY <1>0, <2>2, <2>3, <1>a DEF Work
  <2> QED BY <2>1, <2>4 DEF WorkOK
<1>17. CASE CaptureRange BY <1>b, <1>17 DEF CaptureRange
<1>18. CASE CaptureFinal BY <1>b, <1>18 DEF CaptureFinal
<1>19. CASE Settle BY <1>b, <1>d, <1>19 DEF Settle
<1>20. CASE Evaluate BY <1>0, <1>d, <1>20 DEF Evaluate, WorkOK
<1> QED
  BY <1>1, <1>2, <1>3, <1>4, <1>5, <1>6, <1>7, <1>8, <1>9, <1>10, <1>11,
     <1>12, <1>13, <1>14, <1>15, <1>16, <1>17, <1>18, <1>19, <1>20
     DEF WorkStep, StartStep, DispatchStep, AdapterStep, SettleStep

\* Every step keeps the local variables typed.
LEMMA WorkType == ASSUME Inv, Next PROVE WorkOK'
<1>1. CASE UNCHANGED work BY <1>1 DEF Inv, TypeOK, WorkOK, Work, Idle
<1>2. CASE Crash BY <1>2 DEF Crash, WorkOK
<1> QED
  BY <1>1, <1>2, WorkWriters, WorkStepTypes, AcquireTypes, AnswerTypes,
     LockFollowupTypes

\* Every step keeps every variable typed.
LEMMA TypeStep == ASSUME Inv, [Next]_vars PROVE TypeOK'
<1>1. CASE Next
  BY <1>1, RowsType, FactsType, EvidenceType, CallsType, WorkType, HostType,
     HistoryType
     DEF TypeOK
<1>2. CASE UNCHANGED vars
  BY <1>2
     DEF vars, rows, facts, evidence, calls, host, history, Inv, TypeOK,
         RowsOK, FactsOK, EvidenceOK, CallsOK, WorkOK, HostOK, HistoryOK,
         Work, Idle
<1> QED BY <1>1, <1>2
-----------------------------------------------------------------------------
(* The invariant, action by action.                                         *)

\* What the rows say of their turns.
TurnInv == OnlyLastTurnOpen /\ QuietTaskHasNoOpenTurn /\ BoundaryObserved

\* What going to a step leaves in the local variables.
LEMMA GotoFields ==
    ASSUME NEW s, work \in Work, Goto(s)
    PROVE  /\ work'.step = s /\ work'.op = work.op /\ work'.task = work.task
              /\ work'.from = work.from
           /\ work'.key = work.key /\ work'.turn = work.turn
              /\ work'.to = work.to /\ work'.closes = work.closes
           /\ work'.fresh = work.fresh /\ work'.failing = work.failing
              /\ work'.asks = work.asks
BY DEF Work, Goto

\* Nothing is asked of an operation that returned.
LEMMA Released == ASSUME Return PROVE WorkInv' /\ ClosingInv'
BY DEF Return, WorkInv, LockInv, StepInv, ExpectInv, ClosingInv

\* A follow-up takes the lock in the state it was accepted in.
LEMMA LockFollowupKeepsWork ==
    ASSUME Inv, NEW c \in inFlight, LockFollowup(c) PROVE WorkInv'
<1> DEFINE t == c.task
           fresh == state[t] = "ready_for_followup"
           step == IF fresh THEN "reserve" ELSE "call"
           l == Lease("followup", t, c.key, state[t], fresh, step)
<1>1. CASE UNCHANGED work
  BY <1>1
     DEF LockFollowup, rows, host, Inv, WorkInv, LockInv, StepInv, ExpectInv
<1>2. CASE work' = l /\ Free /\ state[t] \in FollowupStates
  <2>1. /\ l.op = "followup" /\ l.task = t /\ l.from = state[t]
           /\ l.fresh = fresh /\ l.step = step /\ l.to = "none"
           /\ l.closes = FALSE
    BY DEF Lease
  <2>2. UNCHANGED <<state, mode>> /\ mode = "up"
    BY <1>2 DEF LockFollowup, Free, rows, host
  <2>3. state[t] \notin {"absent", "recovery_required"}
    BY <1>2 DEF FollowupStates
  <2>4. LockInv' BY <1>2, <2>1, <2>2, <2>3 DEF LockInv
  <2>5. StepInv' BY <1>2, <2>1 DEF StepInv, Reported
  <2>7. state[t] = IF fresh THEN "ready_for_followup" ELSE "waiting_for_user"
    BY <1>2 DEF FollowupStates
  <2>6. ExpectInv'
    <3> HIDE DEF t, fresh, l
    <3>1. work' = l /\ step \in {"reserve", "call"} BY <1>2
    <3>2. state' = state BY <2>2
    <3> HIDE DEF step
    <3> QED BY <2>1, <2>7, <3>1, <3>2 DEF ExpectInv
  <2> QED BY <2>4, <2>5, <2>6 DEF WorkInv
<1> QED BY <1>1, <1>2 DEF LockFollowup, Acquire

\* What a turn of a loop over the facts leaves in the local variables.
LEMMA LoopFields ==
    ASSUME NEW s, work \in Work, Loop(s)
    PROVE  /\ work'.step \in {work.step, s} /\ work'.op = work.op
              /\ work'.task = work.task /\ work'.from = work.from
           /\ work'.to = work.to /\ work'.closes = work.closes
           /\ work'.fresh = work.fresh
<1>1. CASE work.i < 3 BY <1>1 DEF Loop, Work
<1>2. CASE ~(work.i < 3)
   <2>1. Goto(s) BY <1>2 DEF Loop, Goto
   <2> QED BY <2>1, GotoFields
<1> QED BY <1>1, <1>2

\* Marking a refused dispatch keeps what the lock holder relies on.
LEMMA MarkDispatchRefusedKeeps ==
    ASSUME Inv, MarkDispatchRefused
    PROVE WorkInv' /\ ClosingInv' /\ FirstTurnInv'
<1>0. UNCHANGED <<state, mode, turns>> /\ work \in Work /\ work # Idle
       /\ work.step = "unmark"
  BY LockHolder DEF MarkDispatchRefused, At, rows, host
<1>1. CASE Return BY <1>0, <1>1, Released DEF FirstTurnInv, Return, Inv
<1>2. CASE Loop("fail")
  <2>1. WorkInv'
    BY <1>0, <1>2, LoopFields DEF Inv, WorkInv, LockInv, StepInv, ExpectInv
  <2>2. ClosingInv' /\ FirstTurnInv'
    BY <1>0, <1>2, LoopFields DEF Inv, ClosingInv, FirstTurnInv
  <2> QED BY <2>1, <2>2
<1> QED BY <1>1, <1>2 DEF MarkDispatchRefused

\* Calling the adapter keeps what the lock holder relies on.
LEMMA CallAdapterKeepsWork == ASSUME Inv, CallAdapter PROVE WorkInv'
<1>0. UNCHANGED <<state, mode, turns>> /\ work \in Work /\ work # Idle
       /\ work.step = "call"
  BY LockHolder DEF CallAdapter, At, rows, host
<1>2. Goto("adapter") BY DEF CallAdapter
<1> QED
  BY <1>0, <1>2, GotoFields DEF Inv, WorkInv, LockInv, StepInv, ExpectInv

\* A refusal keeps what the lock holder relies on.
LEMMA AdapterRefusesKeeps ==
    ASSUME Inv, AdapterRefuses PROVE WorkInv' /\ ClosingInv' /\ FirstTurnInv'
<1>0. UNCHANGED <<state, mode, turns>> /\ work \in Work /\ work # Idle
       /\ work.step = "adapter"
  BY LockHolder DEF AdapterRefuses, At, rows, host
<1>1. CASE Return BY <1>0, <1>1, Released DEF FirstTurnInv, Return, Inv
<1>2. CASE work.fresh
            /\ work' = [work EXCEPT !.step = "unmark", !.failing = (work.op =
              "start")]
  <2>1. work'.step = "unmark" /\ work'.op = work.op /\ work'.task = work.task
         /\ work'.from = work.from
           /\ work'.to = work.to /\ work'.closes = work.closes
           /\ work'.fresh = work.fresh BY <1>0, <1>2 DEF Work
  <2>2. WorkInv'
    BY <1>0, <1>2, <2>1 DEF Inv, WorkInv, LockInv, StepInv, ExpectInv
  <2>3. ClosingInv' /\ FirstTurnInv'
    BY <1>0, <2>1 DEF Inv, ClosingInv, FirstTurnInv
  <2> QED BY <2>2, <2>3
<1> QED BY <1>1, <1>2 DEF AdapterRefuses

\* A task is finished only with no turn open, so nothing is left unobserved.
LEMMA AdapterConsentsKeeps ==
    ASSUME Inv, AdapterConsents PROVE WorkInv' /\ ClosingInv' /\ FirstTurnInv'
<1>0. UNCHANGED <<state, mode, turns>> /\ work \in Work /\ work # Idle
       /\ work.step = "adapter"
  BY LockHolder DEF AdapterConsents, At, rows, host
<1>1. CASE Goto("answered") /\ work.op = "answer"
  BY <1>0, <1>1, GotoFields
     DEF Inv, WorkInv, LockInv, StepInv, ExpectInv, ClosingInv, FirstTurnInv
<1>2. CASE work.op = "finish"
            /\ work' = [work EXCEPT !.step = "settle", !.to = "completed"]
  <2>1. work'.step = "settle" /\ work'.op = work.op /\ work'.task = work.task
         /\ work'.from = work.from
           /\ work'.to = "completed" /\ work'.closes = work.closes
           /\ work'.fresh = work.fresh BY <1>0, <1>2 DEF Work
  <2>2. WorkInv'
    BY <1>0, <1>2, <2>1
       DEF Inv, WorkInv, LockInv, StepInv, ExpectInv, Reported,
           TurnEndingStates
  <2>3. ~HasOpenTurn(work.task)
    BY <1>0, <1>2, LockHolder
       DEF Inv, WorkInv, ExpectInv, QuietTaskHasNoOpenTurn, Quiet
  <2>4. ClosingInv' /\ FirstTurnInv'
    <3>1. ~work.closes BY <1>0 DEF Inv, WorkInv, StepInv
    <3>2. work'.closes = FALSE BY <2>1, <3>1
    <3>3. ~HasOpenTurn(work.task)'
      BY <1>0, <2>1, <2>3 DEF HasOpenTurn, CurrentTurn
    <3>4. ClosingInv' BY <2>1, <3>2, <3>3 DEF ClosingInv
    <3>5. FirstTurnInv' BY <1>0, <1>2, <2>1 DEF Inv, FirstTurnInv
    <3> QED BY <3>4, <3>5
  <2> QED BY <2>2, <2>4
<1> QED BY <1>1, <1>2 DEF AdapterConsents

\* _apply decides with the turn in hand whether the transition closes it.
LEMMA ApplyKeeps ==
    ASSUME Inv, Apply PROVE WorkInv' /\ ClosingInv' /\ FirstTurnInv'
<1>0. UNCHANGED <<state, mode, turns>> /\ work \in Work /\ work # Idle
       /\ work.step = "apply"
  BY LockHolder DEF Apply, At, rows, host
<1>1. CASE Return BY <1>0, <1>1, Released DEF FirstTurnInv, Return, Inv
<1>2. CASE ~Return
    <2> DEFINE t == work.task
               a == work.asks /\ Cardinality(Pending(t)) < MaxPending
               c == work.to \in TurnEndingStates /\ HasOpenTurn(t)
               s == IF c THEN "range" ELSE "settle"
    <2>1. /\ CanTransition(state[t], work.to)
          /\ work' = [work EXCEPT !.from = state[t], !.asks = a, !.closes = c,
             !.step = s]
      BY <1>2 DEF Apply, HasRoom
    <2>2. c \in BOOLEAN OBVIOUS
    <2>3. s = IF c THEN "range" ELSE "settle" OBVIOUS
    <2>4. \A u \in Tasks : HasOpenTurn(u)' <=> HasOpenTurn(u)
      BY <1>0 DEF HasOpenTurn, CurrentTurn
    <2>5. work.to # "none"
      BY <2>1 DEF CanTransition, AllowedTransitions, States, Terminal
    <2>5r. work.to # "running"
      <3>1. ~CanTransition("running", "running")
        BY DEF CanTransition, AllowedTransitions
      <3> QED BY <1>0, <2>1, <3>1 DEF Inv, WorkInv, StepInv, ExpectInv
    <2>6. /\ work'.op = work.op /\ work'.task = t /\ work'.from = state[t]
             /\ work'.to = work.to
          /\ work'.fresh = work.fresh /\ work'.step = s /\ work'.closes = c
       <3> HIDE DEF a, c, s
       <3> QED BY <1>0, <2>1 DEF Work
    <2>7. LockInv' /\ StepInv'
       <3> HIDE DEF c, s
       <3> QED
         BY <1>0, <2>3, <2>5, <2>5r, <2>6 DEF Inv, WorkInv, LockInv, StepInv
    <2>8. ExpectInv'
       <3> HIDE DEF c, s
       <3> QED BY <1>0, <2>3, <2>6 DEF ExpectInv
    <2>9. FirstTurnInv'
       <3> HIDE DEF c, s
       <3> QED BY <1>0, <2>3, <2>6 DEF Inv, FirstTurnInv
    <2>10. ClosingInv'
       <3>1. CASE c
         <4>1. work'.closes /\ work'.step = "range"
                /\ work'.to \in TurnEndingStates /\ HasOpenTurn(work.task)'
           BY <1>0, <2>6, <2>4, LockHolder, <3>1
         <4> QED BY <4>1 DEF ClosingInv
       <3>2. CASE ~c
         <4>1. ~work'.closes /\ work'.step = "settle"
                /\ (work'.to \in TurnEndingStates => ~HasOpenTurn(work.task)')
           BY <1>0, <2>6, <2>4, LockHolder, <3>2
         <4> QED BY <4>1 DEF ClosingInv
       <3> QED BY <3>1, <3>2
    <2> QED BY <2>7, <2>8, <2>9, <2>10 DEF WorkInv
<1> QED BY <1>1, <1>2

\* _fail does the same for a failure of its own.
LEMMA FailKeeps ==
    ASSUME Inv, Fail PROVE WorkInv' /\ ClosingInv' /\ FirstTurnInv'
<1>0. UNCHANGED <<state, mode, turns>> /\ work \in Work /\ work # Idle
       /\ work.step = "fail"
  BY LockHolder DEF Fail, At, rows, host
<1> DEFINE c == HasOpenTurn(work.task)
           s == IF c THEN "range" ELSE "settle"
<1>1. work' = [work EXCEPT !.to = "failed", !.asks = FALSE, !.closes = c,
       !.failing = TRUE, !.i = 1, !.step = s]
    BY DEF Fail
<1>2. s = IF c THEN "range" ELSE "settle" OBVIOUS
<1>3. /\ work'.op = work.op /\ work'.task = work.task /\ work'.from = work.from
         /\ work'.to = "failed"
      /\ work'.fresh = work.fresh /\ work'.step = s /\ work'.closes = c
  <2> HIDE DEF c, s
  <2> QED BY <1>0, <1>1 DEF Work
<1>4. \A u \in Tasks : HasOpenTurn(u)' <=> HasOpenTurn(u)
  BY <1>0 DEF HasOpenTurn, CurrentTurn
<1>5. WorkInv' /\ FirstTurnInv'
  <2> HIDE DEF c, s
  <2> QED
    BY <1>0, <1>2, <1>3
       DEF Inv, WorkInv, LockInv, StepInv, ExpectInv, FirstTurnInv, Reported,
           TurnEndingStates
<1>6. ClosingInv'
  <2>1. CASE c
         <4>1. work'.closes /\ work'.step = "range"
                /\ work'.to \in TurnEndingStates /\ HasOpenTurn(work.task)'
           BY <1>0, <1>3, <1>4, LockHolder, <2>1 DEF TurnEndingStates
         <4> QED BY <4>1 DEF ClosingInv
  <2>2. CASE ~c
         <4>1. ~work'.closes /\ work'.step = "settle"
                /\ (work'.to \in TurnEndingStates => ~HasOpenTurn(work.task)')
           BY <1>0, <1>3, <1>4, LockHolder, <2>2
         <4> QED BY <4>1 DEF ClosingInv
  <2> QED BY <2>1, <2>2
<1> QED BY <1>5, <1>6

\* The boundary of the turn that closes is observed first.
LEMMA CaptureKeeps ==
    ASSUME Inv, CaptureRange \/ CaptureFinal
    PROVE WorkInv' /\ ClosingInv' /\ FirstTurnInv'
<1>0. /\ UNCHANGED <<state, mode, turns>> /\ work \in Work /\ work # Idle
         /\ work.task \in Tasks
      /\ ranged \in [Tasks -> SUBSET Nat] /\ finals \in [Tasks -> SUBSET Nat]
   BY LockHolder
      DEF CaptureRange, CaptureFinal, At, rows, host, Inv, TypeOK, EvidenceOK
<1>1. \/ work.step = "range" /\ Goto("final")
         /\ CurrentTurn(work.task) \subseteq ranged'[work.task]
      \/ work.step = "final" /\ Goto("settle")
         /\ CurrentTurn(work.task) \subseteq finals'[work.task]
         /\ ranged' = ranged
  BY <1>0 DEF CaptureRange, CaptureFinal, At
<1>2. WorkInv' /\ FirstTurnInv'
  BY <1>0, <1>1, GotoFields
     DEF Inv, WorkInv, LockInv, StepInv, ExpectInv, FirstTurnInv
<1>3. CurrentTurn(work.task)' = CurrentTurn(work.task)
       /\ HasOpenTurn(work.task)' = HasOpenTurn(work.task)
  BY <1>0, <1>1, GotoFields DEF CurrentTurn, HasOpenTurn
<1>4. work.closes /\ HasOpenTurn(work.task) /\ work.to \in TurnEndingStates
  BY <1>0, <1>1 DEF Inv, ClosingInv
<1>5. work'.closes = work.closes /\ work'.task = work.task
       /\ work'.to = work.to
  BY <1>0, <1>1, GotoFields
<1>6. ClosingInv'
  <2>1. CASE work.step = "range"
     BY <2>1, <1>0, <1>1, <1>3, <1>4, <1>5, GotoFields DEF ClosingInv
  <2>2. CASE work.step = "final"
     BY <2>2, <1>0, <1>1, <1>3, <1>4, <1>5, GotoFields DEF ClosingInv, Inv
  <2> QED BY <1>1, <2>1, <2>2
<1> QED BY <1>2, <1>6

\* An answer resumes a turn that was going on.
LEMMA RecordAnswerKeepsHistory == ASSUME Inv, RecordAnswer PROVE HistoryInv'
<1>1. work \in Work /\ work # Idle /\ work.task \in Tasks
       /\ work.step = "answered" /\ mode = "up" /\ turns' = turns
  BY LockHolder DEF RecordAnswer, At, Inv, WorkInv, LockInv
<1>2. state[work.task] \in GoingOn
   BY <1>1 DEF GoingOn, Inv, WorkInv, StepInv, ExpectInv
<1>3. \A t \in Tasks : state'[t] \in GoingOn => state[t] \in GoingOn
   BY <1>1, <1>2 DEF RecordAnswer, Move, Inv, TypeOK, RowsOK
<1> QED BY <1>1, <1>3 DEF Inv, HistoryInv, LastTurn

\* A started task is about to open its first turn.
LEMMA StartedRunningKeepsHistory ==
    ASSUME Inv, StartedRunning PROVE HistoryInv'
<1>1. work \in Work /\ work # Idle /\ work.task \in Tasks
       /\ work.step = "running" /\ UNCHANGED <<mode, turns>> /\ Goto("open")
  BY LockHolder DEF StartedRunning, At, Inv, WorkInv, LockInv, host
<1>2. work'.step = "open" /\ work'.task = work.task /\ work' # Idle
  BY <1>1, GotoFields DEF Idle
<1>3. \A t \in Tasks : t # work.task => state'[t] = state[t]
  BY DEF StartedRunning, Move, Inv, TypeOK, RowsOK
<1> QED BY <1>1, <1>2, <1>3 DEF Inv, HistoryInv, LastTurn

\* A report is one the shipped adapters make for that call.
LEMMA AdapterReportsKeeps ==
    ASSUME Inv, AdapterReports PROVE WorkInv' /\ ClosingInv' /\ FirstTurnInv'
<1>0. UNCHANGED <<state, mode, turns>> /\ work \in Work /\ work # Idle
       /\ work.step = "adapter"
  BY LockHolder DEF AdapterReports, At, rows, host
<1>1. PICK r \in Report :
          /\ r \in ReportsOn(work.op, work.task)
          /\ work' = IF work.op = "refresh" /\ r.to = "none" THEN Idle
                     ELSE [work EXCEPT
                             !.to = r.to, !.asks = r.asks,
                             !.step = CASE work.op = "start" -> "running"
                                        [] work.op = "followup" -> "deliver"
                                        [] OTHER -> "apply"]
                                          BY DEF AdapterReports
<1>2. r.to \in Reported BY DEF Report
<1>3. r.to = "running" => work.op = "start"
  BY <1>1
     DEF ReportsOn, FollowupReports, InspectReports, CancelReports, Says,
         Ended
<1>4. CASE work' = Idle BY <1>0, <1>4, Released DEF FirstTurnInv, Return, Inv
<1>5. CASE work' # Idle
    <2> DEFINE s == CASE work.op = "start" -> "running"
                                        [] work.op = "followup" -> "deliver"
                                        [] OTHER -> "apply"
    <2>1. work' = [work EXCEPT !.to = r.to, !.asks = r.asks, !.step = s]
      BY <1>1, <1>5
    <2>2. /\ s = "running" => work.op = "start"
          /\ s = "deliver" => work.op = "followup"
          /\ s = "apply" => work.op # "start"
          /\ s \in {"running", "deliver", "apply"} OBVIOUS
    <2> HIDE DEF s
    <2>3. /\ work'.op = work.op /\ work'.task = work.task
             /\ work'.from = work.from /\ work'.to = r.to
      /\ work'.fresh = work.fresh /\ work'.step = s
         /\ work'.closes = work.closes
        BY <1>0, <2>1 DEF Work
    <2>4. LockInv' /\ StepInv'
      BY <1>0, <1>2, <1>3, <2>2, <2>3 DEF Inv, WorkInv, LockInv, StepInv
    <2>5. ExpectInv' BY <1>0, <2>2, <2>3 DEF Inv, WorkInv, ExpectInv
    <2>6. FirstTurnInv' /\ ClosingInv'
      BY <1>0, <2>2, <2>3 DEF Inv, FirstTurnInv, ClosingInv
    <2> QED BY <2>4, <2>5, <2>6 DEF WorkInv
<1> QED BY <1>4, <1>5

\* A delivered message resumes the open turn, or opens one on a task that has

\* none open.
LEMMA DeliverKeeps ==
    ASSUME Inv, Deliver
    PROVE WorkInv' /\ ClosingInv' /\ FirstTurnInv' /\ HistoryInv'
           /\ OnlyLastTurnOpen' /\ QuietTaskHasNoOpenTurn'
<1>0. /\ UNCHANGED mode /\ mode = "up" /\ work \in Work /\ work # Idle
         /\ work.step = "deliver" /\ work.task \in Tasks
      /\ work.op = "followup" /\ state[work.task] = work.from
      /\ work.from = IF work.fresh THEN "ready_for_followup" ELSE
           "waiting_for_user"
   BY LockHolder
      DEF Deliver, At, host, Inv, WorkInv, LockInv, StepInv, ExpectInv
<1>1. CASE Return /\ UNCHANGED <<state, turns>>
  BY <1>0, <1>1, Released
     DEF FirstTurnInv, Return, Inv, HistoryInv, LastTurn, OnlyLastTurnOpen,
         QuietTaskHasNoOpenTurn, HasOpenTurn, CurrentTurn
<1>2. CASE state' = [state EXCEPT ![work.task] = "running"] /\ Goto("apply")
            /\ (UNCHANGED turns \/ (work.fresh
            /\ OpenTurn(work.task, work.key)))
  <2>1. work'.step = "apply" /\ work'.op = work.op /\ work'.task = work.task
         /\ work'.to = work.to /\ work'.fresh = work.fresh
         /\ work'.closes = work.closes
    BY <1>0, <1>2, GotoFields
  <2>2. state \in [Tasks -> States \cup {"absent"}] BY DEF Inv, TypeOK, RowsOK
  <2>3. WorkInv'
    BY <1>0, <1>2, <2>1, <2>2 DEF Inv, WorkInv, LockInv, StepInv, ExpectInv
  <2>4. ClosingInv' BY <2>1 DEF ClosingInv
  <2>5. state'[work.task] = "running" /\ \A u \in Tasks : u # work.task
         => state'[u] = state[u] /\ turns'[u] = turns[u]
    BY <1>0, <1>2, <2>2, OpenTurnRows DEF Inv
  <2>6. CASE UNCHANGED turns
    <3>1. state[work.task] \in GoingOn \ Quiet \/ work.fresh
      BY <1>0 DEF GoingOn, Quiet, Terminal
    <3>2. FirstTurnInv' BY <1>0, <2>1, <2>5, <2>6 DEF Inv, FirstTurnInv
    <3>3. HistoryInv'
      BY <1>0, <2>1, <2>5, <2>6 DEF Inv, HistoryInv, LastTurn, GoingOn
    <3>4. OnlyLastTurnOpen'
      BY <2>6 DEF OnlyLastTurnOpen, Inv, LastTurn, CurrentTurn
    <3>5. QuietTaskHasNoOpenTurn'
      BY <2>5, <2>6
         DEF Inv, QuietTaskHasNoOpenTurn, HasOpenTurn, CurrentTurn, Quiet,
             Terminal
    <3> QED BY <2>3, <2>4, <3>2, <3>3, <3>4, <3>5
  <2>7. CASE work.fresh /\ OpenTurn(work.task, work.key)
    <3>1. CurrentTurn(work.task) = {}
      BY <1>0, <2>7 DEF Inv, QuietTaskHasNoOpenTurn, HasOpenTurn, Quiet
    <3>2. FirstTurnInv' BY <1>0, <2>1, <2>5 DEF Inv, FirstTurnInv
    <3>3. turns'[work.task] # <<>>
           /\ turns'[work.task][Len(turns'[work.task])].outcome = "open"
      BY <1>0, <2>7, OpenTurnRows DEF Inv
    <3>4. HistoryInv' BY <1>0, <2>1, <2>5, <3>3 DEF Inv, HistoryInv, LastTurn
    <3>5. \A n \in DOMAIN turns'[work.task] : turns'[work.task][n].outcome =
             "open"
           => n = Len(turns'[work.task])
      BY <1>0, <2>7, <3>1, OpenTurnRows DEF CurrentTurn, Inv
    <3>6. OnlyLastTurnOpen'
      BY <2>5, <3>5 DEF OnlyLastTurnOpen, Inv, LastTurn, CurrentTurn
    <3>7. QuietTaskHasNoOpenTurn'
      BY <2>5
         DEF Inv, QuietTaskHasNoOpenTurn, HasOpenTurn, CurrentTurn, Quiet,
             Terminal
    <3> QED BY <2>3, <2>4, <3>2, <3>4, <3>6, <3>7
  <2> QED BY <1>2, <2>6, <2>7
<1> QED BY <1>1, <1>2 DEF Deliver, OpensTurn, Move

\* The first turn is the only one.
LEMMA OpenFirstTurnKeeps ==
    ASSUME Inv, OpenFirstTurn
    PROVE HistoryInv' /\ OnlyLastTurnOpen' /\ QuietTaskHasNoOpenTurn'
<1>0. /\ UNCHANGED <<mode, state>> /\ work \in Work /\ work # Idle
         /\ work.step = "open" /\ work.task \in Tasks
      /\ state[work.task] = "running" /\ turns[work.task] = <<>>
         /\ OpenTurn(work.task, work.key)
   BY LockHolder
      DEF OpenFirstTurn, At, host, Inv, WorkInv, StepInv, ExpectInv,
          FirstTurnInv
<1>1. \A n \in DOMAIN turns'[work.task] : turns'[work.task][n].outcome = "open"
       => n = Len(turns'[work.task])
  BY <1>0, OpenTurnRows DEF Inv
<1>2. turns'[work.task] # <<>>
       /\ turns'[work.task][Len(turns'[work.task])].outcome = "open"
       /\ \A u \in Tasks : u # work.task => turns'[u] = turns[u]
  BY <1>0, OpenTurnRows DEF Inv
<1>3. HistoryInv' BY <1>0, <1>2 DEF HistoryInv, Inv, LastTurn
<1>4. OnlyLastTurnOpen'
  BY <1>1, <1>2 DEF OnlyLastTurnOpen, Inv, LastTurn, CurrentTurn
<1>5. QuietTaskHasNoOpenTurn'
  BY <1>0, <1>2
     DEF Inv, QuietTaskHasNoOpenTurn, HasOpenTurn, CurrentTurn, Quiet,
         Terminal
<1> QED BY <1>3, <1>4, <1>5

\* Only a task that runs or is ready comes to wait.
LEMMA IntoWaiting ==
    ASSUME NEW from, NEW to \in {"waiting_for_user", "ready_for_followup"},
            CanTransition(from, to)
    PROVE  from \in {"running", "ready_for_followup"}
  BY DEF CanTransition, AllowedTransitions, States, Terminal

\* The closing transition: a task that goes quiet leaves no turn open, and the

\* turn it closes was observed.
LEMMA SettleKeeps ==
    ASSUME Inv, Settle
    PROVE WorkInv' /\ ClosingInv' /\ FirstTurnInv' /\ HistoryInv'
           /\ OnlyLastTurnOpen' /\ QuietTaskHasNoOpenTurn' /\ BoundaryObserved'
<1>0. /\ UNCHANGED <<mode, ranged, finals>> /\ mode = "up" /\ work \in Work
         /\ work # Idle /\ work.step = "settle" /\ work.task \in Tasks
      /\ state[work.task] = work.from
         /\ work.to \in Reported \ {"none", "running"}
         /\ CanTransition(work.from, work.to)
      /\ state \in [Tasks -> States \cup {"absent"}]
         /\ turns \in [Tasks -> Seq(Turn)]
   BY LockHolder
      DEF Settle, At, host, evidence, Move, Inv, TypeOK, RowsOK, WorkInv,
          LockInv, StepInv, ExpectInv
<1> DEFINE outcome == IF work.to = "ready_for_followup" THEN "completed" ELSE
                         work.to
<1>1. state'[work.task] = work.to /\ \A u \in Tasks : u # work.task
       => state'[u] = state[u] /\ turns'[u] = turns[u]
  BY <1>0 DEF Settle, Move
<1>2. /\ work.closes => turns'[work.task] = CloseTurn(work.task, outcome)
         /\ outcome \in {"completed", "failed", "cancelled"}
         /\ HasOpenTurn(work.task)
                         /\ CurrentTurn(work.task) \subseteq ranged[work.task]
                              \cap finals[work.task]
      /\ ~work.closes => turns'[work.task] = turns[work.task]
         /\ (work.to \in TurnEndingStates => ~HasOpenTurn(work.task))
  BY <1>0 DEF Settle, TurnOutcome, Inv, ClosingInv, TurnEndingStates
<1>3. Return \/ Goto("evaluate") BY DEF Settle
<1>4. WorkInv' /\ ClosingInv'
  <2>1. CASE Return BY <2>1, Released
  <2>2. CASE Goto("evaluate")
    <3>0. work'.step = "evaluate" /\ work'.op = work.op
           /\ work'.task = work.task /\ work'.to = work.to
           /\ work'.fresh = work.fresh /\ work'.closes = work.closes
      BY <1>0, <2>2, GotoFields
    <3>1. LockInv' BY <1>0, <1>1, <3>0 DEF LockInv, Reported, TurnEndingStates
    <3>2. StepInv' BY <1>0, <3>0 DEF StepInv, Inv, WorkInv
    <3>3. ExpectInv' BY <1>0, <3>0 DEF ExpectInv
    <3>4. ClosingInv' BY <3>0 DEF ClosingInv
    <3> QED BY <3>1, <3>2, <3>3, <3>4 DEF WorkInv
  <2> QED BY <1>3, <2>1, <2>2
<1>5. FirstTurnInv'
  <2>1. \A t \in Tasks : state'[t] \in {"absent", "created"}
         => turns'[t] = <<>>
    BY <1>0, <1>1 DEF Inv, FirstTurnInv, Reported, TurnEndingStates
  <2>2. CASE Return BY <2>1, <2>2 DEF Return, FirstTurnInv
  <2>3. CASE Goto("evaluate")
    <3>1. work'.step = "evaluate" BY <1>0, <2>3, GotoFields
    <3> QED BY <2>1, <3>1 DEF FirstTurnInv
  <2> QED BY <1>3, <2>2, <2>3
<1>6. work.to \in GoingOn => state[work.task] \in GoingOn
  BY <1>0, IntoWaiting DEF GoingOn
<1>7. CASE ~work.closes
  <2>1. \A u \in Tasks : turns'[u] = turns[u] BY <1>1, <1>2, <1>7
  <2>2. \A u \in Tasks : LastTurn(u)' = LastTurn(u)
         /\ CurrentTurn(u)' = CurrentTurn(u)
    BY <2>1 DEF LastTurn, CurrentTurn
  <2>3. HistoryInv' BY <1>0, <1>1, <1>6, <2>1, <2>2 DEF Inv, HistoryInv
  <2>4. OnlyLastTurnOpen' BY <2>2 DEF Inv, OnlyLastTurnOpen
  <2>5. BoundaryObserved' BY <1>0, <2>1 DEF Inv, BoundaryObserved
  <2>6. state'[work.task] \in Quiet => ~HasOpenTurn(work.task)
    BY <1>0, <1>1, <1>2, <1>7 DEF Quiet, Terminal, Reported, TurnEndingStates
  <2>7. QuietTaskHasNoOpenTurn'
    BY <1>1, <2>2, <2>6 DEF Inv, QuietTaskHasNoOpenTurn, HasOpenTurn
  <2> QED BY <1>4, <1>5, <2>3, <2>4, <2>5, <2>7
<1>8. CASE work.closes
  <2>1. outcome \in Outcomes /\ outcome # "open" BY <1>2, <1>8 DEF Outcomes
  <2>2. DOMAIN turns'[work.task] = DOMAIN turns[work.task]
         /\ Len(turns'[work.task]) = Len(turns[work.task])
     BY <1>0, <1>2, <1>8, <2>1, CloseTurnOutcome DEF Inv
  <2>3. \A n \in DOMAIN turns[work.task] :
         turns'[work.task][n].outcome = IF turns[work.task][n].outcome =
           "open" THEN outcome ELSE turns[work.task][n].outcome
     BY <1>0, <1>2, <1>8, <2>1, CloseTurnOutcome DEF Inv
  <2>4. \A n \in DOMAIN turns'[work.task] :
         turns'[work.task][n].outcome # "open"
    BY <2>1, <2>2, <2>3
  <2>5. OnlyLastTurnOpen'
    BY <1>1, <2>4 DEF OnlyLastTurnOpen, Inv, CurrentTurn, LastTurn
  <2>6. QuietTaskHasNoOpenTurn'
    BY <1>1, <2>4 DEF QuietTaskHasNoOpenTurn, Inv, CurrentTurn, HasOpenTurn
  <2>7. BoundaryObserved'
    <3>1. \A n \in DOMAIN turns'[work.task] : turns'[work.task][n].outcome \in
             {"completed", "failed", "cancelled"}
           => n \in ranged[work.task] /\ n \in finals[work.task]
      BY <1>0, <1>2, <1>8, <2>2, <2>3 DEF Inv, BoundaryObserved, CurrentTurn
    <3> QED BY <1>0, <1>1, <3>1 DEF Inv, BoundaryObserved
  <2>8. HistoryInv'
    <3>1. work.to \in GoingOn => outcome = "completed"
      BY <1>2, <1>8, <1>0 DEF GoingOn, Inv, ClosingInv, TurnEndingStates
    <3>2. work.to \in GoingOn => turns[work.task] # <<>>
           /\ turns[work.task][Len(turns[work.task])].outcome \in {"open",
             "completed"}
      BY <1>0, <1>6 DEF Inv, HistoryInv, LastTurn
    <3>3. work.to \in GoingOn => turns'[work.task] # <<>>
           /\ turns'[work.task][Len(turns'[work.task])].outcome \in {"open",
             "completed"}
      <4> SUFFICES ASSUME work.to \in GoingOn PROVE turns'[work.task] # <<>>
           /\ turns'[work.task][Len(turns'[work.task])].outcome \in {"open",
             "completed"}
        OBVIOUS
      <4>1. Len(turns[work.task]) \in DOMAIN turns[work.task]
             /\ Len(turns[work.task]) > 0
        BY <1>0, <3>2
      <4> QED BY <1>0, <2>2, <2>3, <3>1, <3>2, <4>1
    <3> QED BY <1>0, <1>1, <3>3 DEF Inv, HistoryInv, LastTurn
  <2> QED BY <1>4, <1>5, <2>5, <2>6, <2>7, <2>8
<1> QED BY <1>7, <1>8

\* A task being started has no turn yet.
LEMMA HandOverKeepsQuiet == ASSUME Inv, HandOver PROVE QuietTaskHasNoOpenTurn'
<1>1. work.task \in Tasks /\ turns[work.task] = <<>> /\ turns' = turns
  BY LockHolder DEF HandOver, At, Inv, WorkInv, StepInv, FirstTurnInv
<1>2. \A u \in Tasks : HasOpenTurn(u)' <=> HasOpenTurn(u)
  BY <1>1 DEF HasOpenTurn, CurrentTurn
<1>3. ~HasOpenTurn(work.task) BY <1>1 DEF HasOpenTurn, CurrentTurn
<1>4. \A u \in Tasks : u # work.task => state'[u] = state[u]
  BY DEF HandOver, Move, Inv, TypeOK, RowsOK
<1> QED BY <1>2, <1>3, <1>4 DEF Inv, QuietTaskHasNoOpenTurn

\* A restart lists every task that was going on.
LEMMA RestartKeepsHistory ==
    ASSUME Inv, Restart PROVE RecoveryInv' /\ HistoryInv' /\ ParkedInv'
  BY DEF Restart, Unfinished, RecoveryInv, Live, GoingOn, States, Terminal, rows, Inv,
      HistoryInv, ParkedInv

\* Every step keeps what the lock holder relies on.
LEMMA LockStep ==
    ASSUME Inv, Next PROVE WorkInv' /\ FirstTurnInv' /\ ClosingInv'
<1>1. CASE UNCHANGED <<rows, evidence, work, mode>>
  <2>1. WorkInv' BY <1>1 DEF rows, Inv, WorkInv, LockInv, StepInv, ExpectInv
  <2>2. FirstTurnInv' BY <1>1 DEF rows, Inv, FirstTurnInv
  <2>3. ClosingInv'
    BY <1>1 DEF rows, evidence, Inv, ClosingInv, HasOpenTurn, CurrentTurn
  <2> QED BY <2>1, <2>2, <2>3
<1>2. ASSUME NEW t \in Tasks, CreateTask(t)
              \/ SettleRecovered(t) PROVE WorkInv' /\ FirstTurnInv'
              /\ ClosingInv'
  <2>1. /\ \A u \in Tasks : u # t => state'[u] = state[u]
        /\ state'[t] \in {"created", "interrupted"} /\ (state'[t] = "created"
           => state[t] = "absent") /\ UNCHANGED <<turns, evidence, work, mode>>
        /\ state[t] \in {"absent", "recovery_required"}
    BY <1>2 DEF CreateTask, SettleRecovered, Move, Inv, TypeOK, RowsOK, host
  <2>2. work # Idle => work.task \in Tasks /\ work.task # t
    BY <2>1, LockHolder DEF Inv, WorkInv, LockInv
  <2>3. WorkInv' BY <2>1, <2>2 DEF Inv, WorkInv, LockInv, StepInv, ExpectInv
  <2>4. FirstTurnInv' BY <2>1 DEF Inv, FirstTurnInv
  <2>5. ClosingInv'
    BY <2>1 DEF evidence, Inv, ClosingInv, HasOpenTurn, CurrentTurn
  <2> QED BY <2>3, <2>4, <2>5
<1>3. ASSUME NEW t \in Tasks, Recover(t) PROVE WorkInv' /\ FirstTurnInv'
              /\ ClosingInv'
  <2>1. Return BY <1>3 DEF Recover, Return, Inv, WorkInv, LockInv
  <2>2. FirstTurnInv'
    BY <1>3, <2>1
       DEF Recover, Return, Move, Inv, FirstTurnInv, TypeOK, RowsOK, rows
  <2> QED BY <2>1, <2>2, Released
<1>4. CASE Crash
  BY <1>4, Released DEF Crash, Return, rows, Inv, FirstTurnInv
<1>5. CASE Restart \/ EvaluateAtBoot
  <2>1. Return /\ UNCHANGED rows
    BY <1>5 DEF Restart, EvaluateAtBoot, Return, Inv, WorkInv, LockInv
  <2> QED BY <2>1, Released DEF Return, rows, Inv, FirstTurnInv
<1>6. ASSUME NEW t \in Tasks, Queue(t) \/ Refresh(t) \/ Cancel(t) \/ Finish(t)
              \/ \E q \in 1..MaxQuestions : Answer(t, q)
      PROVE WorkInv' /\ FirstTurnInv' /\ ClosingInv'
  <2>1. UNCHANGED <<turns, mode>>
    BY <1>6 DEF Queue, Refresh, Cancel, Finish, Answer, rows, host
  <2>2. FirstTurnInv'
    <3>1. CASE Queue(t)
      BY <3>1, <2>1
         DEF Queue, Acquire, Lease, Free, Move, Inv, FirstTurnInv, TypeOK,
             RowsOK, Idle
    <3>2. CASE Cancel(t)
      BY <3>2, <2>1
         DEF Cancel, Acquire, Lease, Free, Move, Inv, FirstTurnInv, TypeOK,
             RowsOK, Idle
    <3>3. CASE ~Queue(t) /\ ~Cancel(t)
      BY <1>6, <3>3, <2>1
         DEF Refresh, Finish, Answer, rows, Acquire, Lease, Free, Inv,
             FirstTurnInv, Idle
    <3> QED BY <3>1, <3>2, <3>3
  <2>3. ClosingInv'
    <3>1. CASE Queue(t) BY <3>1 DEF Queue, Acquire, Lease, Free, ClosingInv
    <3>2. CASE Cancel(t) BY <3>2 DEF Cancel, Acquire, Lease, Free, ClosingInv
    <3>3. CASE Refresh(t) \/ Finish(t)
      BY <3>3 DEF Refresh, Finish, Acquire, Lease, Free, ClosingInv
    <3>4. CASE \E q \in 1..MaxQuestions : Answer(t, q)
      BY <3>4 DEF Answer, Lease, ClosingInv
    <3> QED BY <1>6, <3>1, <3>2, <3>3, <3>4
  <2>4. WorkInv'
    <3>1. CASE Queue(t)
      BY <3>1
         DEF Queue, Acquire, Lease, Free, Move, Inv, TypeOK, RowsOK, WorkInv,
             LockInv, StepInv, ExpectInv, Reported, host
    <3>2. CASE Cancel(t)
      BY <3>2
         DEF Cancel, Acquire, Lease, Free, Move, Inv, TypeOK, RowsOK, WorkInv,
             LockInv, StepInv, ExpectInv, Reported, host
    <3>3. CASE Refresh(t)
      <4>1. state[t] \notin {"absent", "recovery_required"}
        BY <3>3 DEF Refresh, Live, States, Terminal, Inv, ParkedInv
      <4> QED
        BY <3>3, <4>1
           DEF Refresh, Acquire, Lease, Free, WorkInv, LockInv, StepInv,
               ExpectInv, Reported, host, rows
    <3>5. CASE Finish(t)
      BY <3>5
         DEF Finish, Acquire, Lease, Free, WorkInv, LockInv, StepInv,
             ExpectInv, Reported, host, rows
    <3>4. CASE \E q \in 1..MaxQuestions : Answer(t, q)
      BY <3>4
         DEF Answer, Lease, Free, WorkInv, LockInv, StepInv, ExpectInv,
             Reported, host, rows
    <3> QED BY <1>6, <3>1, <3>2, <3>3, <3>4, <3>5
  <2> QED BY <2>2, <2>3, <2>4
<1>7. ASSUME NEW c \in inFlight, LockFollowup(c) PROVE WorkInv'
              /\ FirstTurnInv' /\ ClosingInv'
  <2>1. FirstTurnInv' /\ ClosingInv'
    BY <1>7
       DEF LockFollowup, Acquire, Lease, Free, rows, evidence, Inv,
           FirstTurnInv, ClosingInv
  <2> QED BY <1>7, <2>1, LockFollowupKeepsWork
<1>8. CASE HandOver
  BY <1>8, LockHolder
     DEF HandOver, At, Move, Inv, TypeOK, RowsOK, WorkInv, LockInv, StepInv,
         ExpectInv, FirstTurnInv, ClosingInv, Work, host
<1>9. CASE StartedRunning
  BY <1>9, LockHolder, GotoFields
     DEF StartedRunning, At, Move, Inv, TypeOK, RowsOK, WorkInv, LockInv,
         StepInv, ExpectInv, FirstTurnInv, ClosingInv, host
<1>10. CASE OpenFirstTurn
  BY <1>10, LockHolder, GotoFields, OpenTurnRows
     DEF OpenFirstTurn, At, Inv, TypeOK, WorkInv, LockInv, StepInv, ExpectInv,
         FirstTurnInv, ClosingInv, host
<1>11. CASE Reserve \/ MarkDispatchStarted
  <2>1. work \in Work /\ work # Idle /\ UNCHANGED <<state, turns, mode>>
         /\ work.step \in {"reserve", "mark"} /\ ((Loop("mark")
         /\ work.step = "reserve") \/ Loop("call"))
    BY <1>11, LockHolder DEF Reserve, MarkDispatchStarted, At, rows, host
  <2> QED
    BY <2>1, LoopFields
       DEF Inv, WorkInv, LockInv, StepInv, ExpectInv, FirstTurnInv, ClosingInv
<1>12. CASE RefuseLineage
  <2>0. work \in Work /\ work # Idle /\ UNCHANGED <<state, turns, mode>>
         /\ work.step = "reserve" /\ (Return \/ Goto("fail"))
    BY <1>12, LockHolder DEF RefuseLineage, At, rows, host
  <2>1. CASE Return BY <2>0, <2>1, Released DEF Return, FirstTurnInv, Inv
  <2>2. CASE Goto("fail")
    BY <2>0, <2>2, GotoFields
       DEF Inv, WorkInv, LockInv, StepInv, ExpectInv, FirstTurnInv, ClosingInv
  <2> QED BY <2>0, <2>1, <2>2
<1>13. CASE CallAdapter
  <2>1. work \in Work /\ work # Idle /\ work.step = "call"
         /\ UNCHANGED <<state, turns>> /\ Goto("adapter")
    BY <1>13, LockHolder DEF CallAdapter, At, rows
  <2> QED
    BY <1>13, <2>1, GotoFields, CallAdapterKeepsWork
       DEF Inv, FirstTurnInv, ClosingInv
<1>14. CASE AdapterFaults
  <2> DEFINE s == IF work.fresh THEN "unmark" ELSE "fail"
  <2>1. work \in Work /\ work # Idle /\ work.step = "adapter"
         /\ UNCHANGED <<state, turns, mode>>
         /\ work' = [work EXCEPT !.step = s, !.failing = TRUE]
    BY <1>14, LockHolder DEF AdapterFaults, At, rows, host
  <2>2. s \in {"unmark", "fail"} /\ (s = "unmark" => work.fresh) OBVIOUS
  <2> HIDE DEF s
  <2>3. /\ work'.op = work.op /\ work'.task = work.task
           /\ work'.from = work.from /\ work'.to = work.to
      /\ work'.fresh = work.fresh /\ work'.step = s
         /\ work'.closes = work.closes
        BY <2>1 DEF Work
  <2> QED
    BY <2>1, <2>2, <2>3
       DEF Inv, WorkInv, LockInv, StepInv, ExpectInv, FirstTurnInv, ClosingInv
<1>15. CASE RecordAnswer
  BY <1>15, Released, LockHolder
     DEF RecordAnswer, At, Move, Return, Inv, FirstTurnInv, TypeOK, RowsOK
<1>16. CASE Evaluate
  <2>1. UNCHANGED <<rows, ranged, finals, mode>> /\ (Return \/ UNCHANGED work)
    BY <1>16 DEF Evaluate, host
  <2>2. work.step = "evaluate" BY <1>16 DEF Evaluate, At
  <2>3. CASE Return BY <2>1, <2>3, Released DEF Return, rows, Inv, FirstTurnInv
  <2>4. CASE UNCHANGED work
    <3>1. WorkInv'
      BY <2>1, <2>4 DEF rows, Inv, WorkInv, LockInv, StepInv, ExpectInv
    <3>2. FirstTurnInv' /\ ClosingInv'
      BY <2>1, <2>2, <2>4 DEF rows, Inv, FirstTurnInv, ClosingInv
    <3> QED BY <3>1, <3>2
  <2> QED BY <2>1, <2>3, <2>4
<1>17. ASSUME NEW c \in inFlight, RememberFollowup(c) PROVE UNCHANGED <<rows,
               evidence, work, mode>>
  BY <1>17 DEF RememberFollowup, host
<1>18. ASSUME NEW t \in Tasks, NEW k \in Keys, ExpireKey(t, k)
               \/ BeginFollowup(t, k) PROVE UNCHANGED <<rows, evidence, work,
                 mode>>
  BY <1>18 DEF ExpireKey, BeginFollowup, host
<1>19. CASE WorkStep
  BY <1>19, <1>8, <1>9, <1>10, <1>11, <1>12, <1>13, <1>14, <1>15, <1>16,
     MarkDispatchRefusedKeeps, AdapterReportsKeeps, AdapterConsentsKeeps,
     AdapterRefusesKeeps, ApplyKeeps, FailKeeps, CaptureKeeps, DeliverKeeps,
     SettleKeeps
     DEF WorkStep, StartStep, DispatchStep, AdapterStep, SettleStep
<1> QED
  BY <1>1, <1>2, <1>3, <1>4, <1>5, <1>6, <1>7, <1>17, <1>18, <1>19
     DEF Next, Request, Boot

\* A step that writes no turn keeps them, unless a task with turns goes quiet.
LEMMA TurnFrame ==
    ASSUME Inv, UNCHANGED <<turns, ranged, finals>>, \A t \in Tasks :
              state'[t] = state[t]
            \/ state'[t] \notin Quiet \/ turns[t] = <<>> \/ state[t] \in Quiet
   PROVE TurnInv'
<1>1. \A t \in Tasks : CurrentTurn(t)' = CurrentTurn(t)
       /\ LastTurn(t)' = LastTurn(t)
  BY DEF CurrentTurn, LastTurn
<1>2. \A t \in Tasks : turns[t] = <<>> => CurrentTurn(t) = {}
  BY DEF CurrentTurn
<1>3. QuietTaskHasNoOpenTurn'
  BY <1>1, <1>2 DEF Inv, QuietTaskHasNoOpenTurn, HasOpenTurn
<1>4. OnlyLastTurnOpen' BY <1>1 DEF Inv, OnlyLastTurnOpen
<1>5. BoundaryObserved' BY DEF Inv, BoundaryObserved
<1> QED BY <1>3, <1>4, <1>5 DEF TurnInv

\* Every step keeps what the rows say of their turns.
LEMMA TurnStep == ASSUME Inv, Next PROVE TurnInv'
<1>1. CASE UNCHANGED <<rows, evidence>>
  BY <1>1, TurnFrame DEF rows, evidence
<1>2. ASSUME NEW t \in Tasks, CreateTask(t) \/ Queue(t) \/ Cancel(t)
              \/ SettleRecovered(t) PROVE TurnInv'
  <2>1. /\ UNCHANGED <<turns, ranged, finals>> /\ \A u \in Tasks : u # t
           => state'[u] = state[u]
        /\ state[t] \in Quiet \/ state'[t] \in {state[t], "cancelling"}
     BY <1>2
        DEF CreateTask, Queue, Cancel, SettleRecovered, Move, Quiet, Terminal,
            Inv, TypeOK, RowsOK, evidence
  <2>2. "cancelling" \notin Quiet BY DEF Quiet, Terminal
  <2> QED BY <2>1, <2>2, TurnFrame
<1>3. ASSUME NEW t \in Tasks, Recover(t) PROVE TurnInv'
  <2>1. CASE UNCHANGED rows BY <1>3, <2>1, <1>1 DEF Recover
  <2>2. CASE ~UNCHANGED rows
    <3>1. /\ turns' = [turns EXCEPT ![t] = CloseTurn(t, "interrupted")]
          /\ UNCHANGED <<ranged, finals>> /\ turns \in [Tasks -> Seq(Turn)]
          /\ \A u \in Tasks : u # t => state'[u] = state[u]
             /\ turns'[u] = turns[u]
       BY <1>3, <2>2 DEF Recover, Inv, TypeOK, RowsOK, Move, evidence
    <3>2. "interrupted" \in Outcomes  BY DEF Outcomes
    <3>3. DOMAIN turns'[t] = DOMAIN turns[t]
      BY <3>1, <3>2, CloseTurnOutcome DEF Inv
    <3>4. \A n \in DOMAIN turns[t] : turns'[t][n].outcome # "open"
           /\ turns'[t][n].outcome \in {turns[t][n].outcome, "interrupted"}
       BY <3>1, <3>2, CloseTurnOutcome DEF Inv
    <3>5. BoundaryObserved' BY <3>1, <3>3, <3>4 DEF BoundaryObserved, Inv
    <3>6. OnlyLastTurnOpen'
      BY <3>1, <3>3, <3>4 DEF OnlyLastTurnOpen, Inv, CurrentTurn, LastTurn
    <3>7. QuietTaskHasNoOpenTurn'
      BY <3>1, <3>3, <3>4
         DEF QuietTaskHasNoOpenTurn, Inv, CurrentTurn, HasOpenTurn
    <3> QED BY <3>5, <3>6, <3>7 DEF TurnInv
  <2> QED BY <2>1, <2>2
<1>4. CASE HandOver \/ StartedRunning
  <2>1. work.task \in Tasks /\ turns[work.task] = <<>>
    BY <1>4, LockHolder
       DEF HandOver, StartedRunning, At, Inv, WorkInv, StepInv, FirstTurnInv
  <2>2. UNCHANGED <<turns, ranged, finals>> /\ \A u \in Tasks : u # work.task
         => state'[u] = state[u]
    BY <1>4 DEF HandOver, StartedRunning, evidence, Move, Inv, TypeOK, RowsOK
  <2> QED BY <2>1, <2>2, TurnFrame
<1>5. CASE OpenFirstTurn \/ Deliver
  <2>1. BoundaryObserved'
    <3>1. work.task \in Tasks /\ UNCHANGED <<ranged, finals>>
      BY <1>5, LockHolder DEF OpenFirstTurn, Deliver, At, evidence
    <3>2. CASE UNCHANGED turns BY <3>1, <3>2 DEF Inv, BoundaryObserved
    <3>3. CASE OpenTurn(work.task, work.key)
      BY <3>1, <3>3, OpenTurnRows DEF Inv, BoundaryObserved
    <3> QED BY <1>5, <3>2, <3>3 DEF OpenFirstTurn, Deliver
  <2> QED BY <1>5, <2>1, OpenFirstTurnKeeps, DeliverKeeps DEF TurnInv
<1>6. CASE RecordAnswer \/ Apply
  <2>1. UNCHANGED <<turns, ranged, finals>>
    BY <1>6 DEF RecordAnswer, Apply, evidence
  <2>2. \A t \in Tasks : state'[t] = state[t] \/ state'[t] = "running"
    BY <1>6, LockHolder DEF RecordAnswer, At, Apply, Move, Inv, TypeOK, RowsOK
  <2> QED BY <2>1, <2>2, TurnFrame DEF Quiet, Terminal
<1>7. CASE Settle BY <1>7, SettleKeeps DEF TurnInv
<1>8. CASE CaptureRange \/ CaptureFinal
  <2>1. work.task \in Tasks /\ UNCHANGED <<state, turns>>
    BY <1>8, LockHolder DEF CaptureRange, CaptureFinal, At, rows
  <2>2. \A t \in Tasks : ranged[t] \subseteq ranged'[t]
         /\ finals[t] \subseteq finals'[t]
     BY <1>8, <2>1 DEF CaptureRange, CaptureFinal, Inv, TypeOK, EvidenceOK
  <2>3. BoundaryObserved' BY <2>1, <2>2 DEF Inv, BoundaryObserved
  <2>4. \A t \in Tasks : CurrentTurn(t)' = CurrentTurn(t)
         /\ LastTurn(t)' = LastTurn(t)
    BY <2>1 DEF CurrentTurn, LastTurn
  <2> QED
    BY <2>1, <2>3, <2>4
       DEF Inv, TurnInv, OnlyLastTurnOpen, QuietTaskHasNoOpenTurn, HasOpenTurn
<1>9. CASE Evaluate \/ EvaluateAtBoot
  <2>1. UNCHANGED <<state, turns, ranged, finals>>
    BY <1>9 DEF Evaluate, EvaluateAtBoot, rows
  <2> QED BY <2>1, TurnFrame
<1>10. UNCHANGED <<rows, evidence>> \/ ~UNCHANGED rows \/ ~UNCHANGED evidence
  OBVIOUS
<1>11. CASE ~UNCHANGED rows
  BY <1>11, RowsWriters, <1>2, <1>3, <1>4, <1>5, <1>6, <1>7
<1>12. CASE ~UNCHANGED evidence
  BY <1>12, EvidenceWriters, <1>8, <1>9
<1> QED BY <1>1, <1>11, <1>12

\* Every step keeps what a running service says of the turns of its tasks.
LEMMA HostStep ==
    ASSUME Inv, Next PROVE HistoryInv' /\ RecoveryInv' /\ ParkedInv'
<1>1. ParkedInv'
  <2>1. CASE UNCHANGED state BY <2>1 DEF Inv, ParkedInv
  <2>2. ASSUME NEW t \in Tasks, CreateTask(t) \/ Queue(t) \/ Cancel(t)
                \/ SettleRecovered(t) \/ Recover(t) PROVE ParkedInv'
    BY <2>2
       DEF CreateTask, Queue, Cancel, SettleRecovered, Recover, Move, Inv,
           ParkedInv, TypeOK, RowsOK, rows
  <2>3. CASE HandOver \/ StartedRunning \/ RecordAnswer \/ Deliver
    <3>1. work.task \in Tasks
      BY <2>3, LockHolder
         DEF HandOver, StartedRunning, RecordAnswer, Deliver, At
    <3> QED
      BY <2>3, <3>1
         DEF HandOver, StartedRunning, RecordAnswer, Deliver, Move, Inv,
             ParkedInv, TypeOK, RowsOK
  <2>4. CASE Settle
    <3>1. work.task \in Tasks /\ work.to # "recovery_required"
      BY <2>4, LockHolder
         DEF Settle, At, Inv, WorkInv, StepInv, Reported, TurnEndingStates
    <3> QED BY <2>4, <3>1 DEF Settle, Move, Inv, ParkedInv, TypeOK, RowsOK
  <2>5. CASE OpenFirstTurn \/ Apply BY <2>5, <2>1 DEF OpenFirstTurn, Apply
  <2> QED BY <2>1, <2>2, <2>3, <2>4, <2>5, RowsWriters DEF rows
<1>2. RecoveryInv'
  <2>1. CASE UNCHANGED <<mode, todo, state>> BY <2>1 DEF Inv, RecoveryInv
  <2>2. CASE mode' # "recovering" BY <2>2 DEF RecoveryInv
  <2>3. CASE Restart BY <2>3, RestartKeepsHistory
  <2>4. ASSUME NEW t \in Tasks, Recover(t) PROVE RecoveryInv'
    <3>1. t \in Recoverable => CanTransition(state[t], "recovery_required")
           \/ state[t] \notin GoingOn
      BY DEF GoingOn, CanTransition, AllowedTransitions, States, Terminal
    <3>2. CanTransition(state[t], "interrupted") \/ state[t] \notin GoingOn
      BY DEF GoingOn, CanTransition, AllowedTransitions, States, Terminal
    <3>3. state'[t] \notin GoingOn /\ \A u \in Tasks : u # t
           => state'[u] = state[u]
      BY <2>4, <3>1, <3>2 DEF Recover, Move, Inv, TypeOK, RowsOK, GoingOn, rows
    <3> QED BY <2>4, <3>3 DEF Recover, RecoveryInv, Inv
  <2>5. CASE mode # "recovering" /\ mode' = "recovering"
    <3>1. Restart
      BY <2>5, HostWriters
         DEF host, AdapterReports, AdapterConsents, Crash, Recover,
             EvaluateAtBoot, ExpireKey
    <3> QED BY <3>1, <2>3
  <2>6. CASE mode = "recovering" /\ mode' = "recovering"
              /\ \A t \in Tasks : ~Recover(t)
    <3>1. work = Idle BY <2>6 DEF Inv, WorkInv, LockInv
    <3>2. UNCHANGED state
      BY <2>6, <3>1, RowsWriters
         DEF rows, CreateTask, Queue, Cancel, SettleRecovered, Free, Acquire,
             HandOver, StartedRunning, OpenFirstTurn, Deliver, RecordAnswer,
             Apply, Settle, At
    <3>3. UNCHANGED todo \/ Restart
      BY <2>6, <3>1, HostWriters
         DEF host, AdapterReports, AdapterConsents, Crash, EvaluateAtBoot,
             ExpireKey, At
    <3> QED BY <2>1, <2>3, <2>6, <3>2, <3>3
  <2> QED BY <2>2, <2>4, <2>5, <2>6
<1>3. HistoryInv'
  <2>1. CASE mode' # "up" BY <2>1 DEF HistoryInv
  <2>2. CASE EvaluateAtBoot
    BY <2>2 DEF EvaluateAtBoot, rows, Inv, RecoveryInv, HistoryInv
  <2>3. CASE UNCHANGED <<state, turns, mode>> /\ (UNCHANGED work \/ work = Idle
              \/ work.step # "open")
    BY <2>3 DEF Inv, HistoryInv, LastTurn
  <2>4. ASSUME NEW t \in Tasks, CreateTask(t) \/ Queue(t) \/ Cancel(t)
                \/ SettleRecovered(t) PROVE HistoryInv'
    <3>1. /\ state'[t] \notin GoingOn \/ state'[t] = state[t]
          /\ \A u \in Tasks : u # t => state'[u] = state[u]
          /\ UNCHANGED <<turns, mode>> /\ (UNCHANGED work \/ work = Idle)
       BY <2>4
          DEF CreateTask, Queue, Cancel, SettleRecovered, Acquire, Free, Move,
              GoingOn, Inv, TypeOK, RowsOK, host
    <3> QED BY <3>1 DEF Inv, HistoryInv, LastTurn
  <2>5. CASE HandOver
    <3>1. work.task \in Tasks /\ work # Idle /\ work.step = "handover"
      BY <2>5, LockHolder DEF HandOver, At
    <3>2. state'[work.task] = "starting" /\ UNCHANGED <<turns, mode>>
           /\ \A u \in Tasks : u # work.task => state'[u] = state[u]
      BY <2>5, <3>1 DEF HandOver, Move, Inv, TypeOK, RowsOK, host
    <3> QED BY <3>1, <3>2 DEF Inv, HistoryInv, LastTurn, GoingOn
  <2>6. CASE Apply BY <2>6, <2>3 DEF Apply, At, host
  <2>7. CASE UNCHANGED rows /\ UNCHANGED mode /\ WorkStep
    <3>1. OpenFirstTurn \/ (work.step # "open")
      BY <2>7
         DEF WorkStep, StartStep, DispatchStep, AdapterStep, SettleStep, At,
             HandOver, StartedRunning, Reserve, RefuseLineage,
             MarkDispatchStarted, MarkDispatchRefused, CallAdapter,
             AdapterReports, AdapterConsents, AdapterRefuses, AdapterFaults,
             Deliver, RecordAnswer, Apply, Fail, CaptureRange, CaptureFinal,
             Settle, Evaluate
    <3> QED BY <2>3, <2>7, <3>1, OpenFirstTurnKeeps DEF rows
  <2>8. CASE UNCHANGED rows /\ UNCHANGED mode /\ ~WorkStep
    <3>1. UNCHANGED work \/ work = Idle \/ Crash
      BY <2>8, WorkWriters
         DEF Queue, LockFollowup, Refresh, Cancel, Answer, Finish, Acquire,
             Free
    <3>2. CASE Crash BY <3>2, <2>1 DEF Crash
    <3> QED BY <2>3, <2>8, <3>1, <3>2 DEF rows
  <2>9. CASE ~UNCHANGED rows
    <3>1. ASSUME NEW t \in Tasks, Recover(t) PROVE mode' # "up"
      BY <3>1 DEF Recover
    <3> QED
      BY <2>1, <2>4, <2>5, <2>6, <2>9, <3>1, RowsWriters,
         StartedRunningKeepsHistory, OpenFirstTurnKeeps, DeliverKeeps,
         RecordAnswerKeepsHistory, SettleKeeps
  <2>10. CASE mode' # mode
    BY <2>10, <2>1, <2>2, HostWriters
       DEF host, AdapterReports, AdapterConsents, Crash, Restart, Recover,
           ExpireKey
  <2> QED BY <2>7, <2>8, <2>9, <2>10
<1> QED BY <1>1, <1>2, <1>3

\* An operation works on one task until it returns.
LEMMA TaskKept ==
    ASSUME Inv, WorkStep
    PROVE work # Idle /\ work \in Work /\ (work' = Idle
           \/ work'.task = work.task)
<1>1. work \in Work /\ work # Idle
  BY LockHolder
     DEF WorkStep, StartStep, DispatchStep, AdapterStep, SettleStep, HandOver,
         StartedRunning, OpenFirstTurn, Reserve, RefuseLineage,
         MarkDispatchStarted, MarkDispatchRefused, CallAdapter,
         AdapterReports, AdapterConsents, AdapterRefuses, AdapterFaults,
         Deliver, RecordAnswer, Apply, Fail, CaptureRange, CaptureFinal,
         Settle, Evaluate, At
<1>2. ASSUME NEW s, Goto(s) PROVE work'.task = work.task
  BY <1>1, <1>2, GotoFields
<1>3. ASSUME NEW s, Loop(s) PROVE work'.task = work.task
  BY <1>1, <1>3, LoopFields
<1>4. ASSUME Return PROVE work' = Idle BY <1>4 DEF Return
<1>5. CASE StartStep
  BY <1>1, <1>2, <1>5
     DEF StartStep, HandOver, StartedRunning, OpenFirstTurn, Work
<1>6. CASE DispatchStep
  BY <1>1, <1>2, <1>3, <1>4, <1>6
     DEF DispatchStep, Reserve, RefuseLineage, MarkDispatchStarted,
         MarkDispatchRefused, CallAdapter
<1>7. CASE AdapterStep
  BY <1>1, <1>2, <1>4, <1>7
     DEF AdapterStep, AdapterReports, AdapterConsents, AdapterRefuses,
         AdapterFaults, Work
<1>8. CASE SettleStep
  <2>1. CASE Apply \/ Fail BY <1>1, <1>4, <2>1 DEF Apply, Fail, Work
  <2>2. CASE ~Apply /\ ~Fail
    BY <1>1, <1>2, <1>4, <1>8, <2>2
       DEF SettleStep, Deliver, RecordAnswer, CaptureRange, CaptureFinal,
           Settle, Evaluate
  <2> QED BY <2>1, <2>2
<1> QED BY <1>1, <1>5, <1>6, <1>7, <1>8 DEF WorkStep

\* Every step keeps the lock off the tasks that have ended.
LEMMA LiveStep == ASSUME Inv, Next PROVE LiveInv'
<1>1. CASE UNCHANGED <<state, work>> BY <1>1 DEF Inv, LiveInv
<1>2. CASE work' = Idle BY <1>2 DEF LiveInv
<1>3. CASE WorkStep
  <2>1. work # Idle /\ work \in Work /\ (work' = Idle
         \/ work'.task = work.task)
    BY <1>3, TaskKept
  <2>2. CASE UNCHANGED state /\ work.step # "evaluate"
    BY <2>1, <2>2, <1>2 DEF Inv, LiveInv
  <2>3. CASE state'[work.task] \in {"starting", "running"}
    BY <2>1, <2>3, <1>2 DEF LiveInv, Terminal
  <2>4. CASE Settle
    <3>1. Return \/ Goto("evaluate") BY <2>4 DEF Settle
    <3>2. CASE Goto("evaluate") BY <2>1, <3>2, GotoFields DEF LiveInv
    <3> QED BY <3>1, <3>2, <1>2 DEF Return
  <2>5. CASE Evaluate BY <2>5, <1>2, <1>1 DEF Evaluate, Return, rows
  <2>6. CASE RecordAnswer BY <2>6, <1>2 DEF RecordAnswer, Return
  <2>7. CASE HandOver \/ StartedRunning \/ Deliver
    BY <2>7, <2>2, <2>3, LockHolder
       DEF HandOver, StartedRunning, Deliver, At, Move, Inv, TypeOK, RowsOK
  <2>8. CASE ~(HandOver \/ StartedRunning \/ Deliver \/ Settle \/ Evaluate
              \/ RecordAnswer)
    <3>1. UNCHANGED state /\ work.step # "evaluate"
      BY <1>3, <2>8
         DEF WorkStep, StartStep, DispatchStep, AdapterStep, SettleStep,
             OpenFirstTurn, Reserve, RefuseLineage, MarkDispatchStarted,
             MarkDispatchRefused, CallAdapter, AdapterReports,
             AdapterConsents, AdapterRefuses, AdapterFaults, Apply, Fail,
             CaptureRange, CaptureFinal, At, rows
    <3> QED BY <2>2, <3>1
  <2> QED BY <2>4, <2>5, <2>6, <2>7, <2>8
<1>4. ASSUME NEW t \in Tasks, CreateTask(t)
              \/ SettleRecovered(t) PROVE LiveInv'
  <2>1. UNCHANGED work /\ state[t] \in {"absent", "recovery_required"}
         /\ \A u \in Tasks : u # t => state'[u] = state[u]
    BY <1>4 DEF CreateTask, SettleRecovered, Move, Inv, TypeOK, RowsOK
  <2> QED BY <2>1, LockHolder DEF Inv, WorkInv, LockInv, LiveInv
<1>5. ASSUME NEW t \in Tasks, Queue(t) \/ Refresh(t) \/ Cancel(t) \/ Finish(t)
              \/ \E q \in 1..MaxQuestions : Answer(t, q)
      PROVE LiveInv'
  <2>1. \/ state' = state /\ work' = work
        \/ work'.task = t /\ state'[t] \notin Terminal
    <3>1. CASE Queue(t)
      <4>1. CASE UNCHANGED <<state, work>> BY <4>1
      <4>2. CASE Move(t, "created", "queued")
                  /\ Acquire("start", t, NoKey, "queued", TRUE, "handover")
        BY <4>2 DEF Acquire, Lease, Move, Terminal, Inv, TypeOK, RowsOK
      <4> QED BY <3>1, <4>1, <4>2 DEF Queue
    <3>2. CASE Cancel(t)
      BY <3>2 DEF Cancel, Acquire, Lease, Move, Terminal, Inv, TypeOK, RowsOK
    <3>3. CASE Refresh(t) BY <3>3 DEF Refresh, Acquire, Lease, Live, rows
    <3>4. CASE Finish(t) BY <3>4 DEF Finish, Acquire, Lease, Terminal, rows
    <3>5. CASE \E q \in 1..MaxQuestions : Answer(t, q)
      BY <3>5 DEF Answer, Lease, Terminal, rows
    <3> QED BY <1>5, <3>1, <3>2, <3>3, <3>4, <3>5
  <2> QED BY <2>1, <1>1 DEF LiveInv
<1>6. ASSUME NEW c \in inFlight, LockFollowup(c) PROVE LiveInv'
  <2>1. \/ state' = state /\ work' = work
        \/ work'.task = c.task /\ state'[c.task] \notin Terminal
    <3>0. state' = state BY <1>6 DEF LockFollowup, rows
    <3>1. CASE UNCHANGED work BY <3>0, <3>1
    <3>2. CASE ~UNCHANGED work
      <4>1. PICK fresh, step : work' = Lease("followup", c.task, c.key,
             state[c.task], fresh, step)
        BY <1>6, <3>2 DEF LockFollowup, Acquire
      <4>2. state[c.task] \in FollowupStates /\ state' = state
        BY <1>6, <3>2 DEF LockFollowup, rows
      <4> QED BY <4>1, <4>2 DEF Lease, FollowupStates, Terminal
    <3> QED BY <3>1, <3>2
  <2> QED BY <2>1, <1>1 DEF LiveInv
<1>7. ASSUME NEW c \in inFlight, RememberFollowup(c) PROVE UNCHANGED <<state,
              work>>
  BY <1>7 DEF RememberFollowup, rows
<1>8. ASSUME NEW t \in Tasks, NEW k \in Keys, ExpireKey(t, k)
              \/ BeginFollowup(t, k) PROVE UNCHANGED <<state, work>>
  BY <1>8 DEF ExpireKey, BeginFollowup, rows
<1>9. CASE Boot \/ Crash
  <2>1. work' = Idle
    BY <1>9
       DEF Boot, Crash, Restart, EvaluateAtBoot, Recover, Inv, WorkInv,
           LockInv
  <2> QED BY <2>1, <1>2
<1> QED BY <1>1, <1>3, <1>4, <1>5, <1>6, <1>7, <1>8, <1>9 DEF Next, Request

\* No step changes the rows of a task that has ended.
LEMMA EndedStep ==
  ASSUME Inv, Next, NEW t \in Tasks, state[t] \in Terminal
  PROVE <<state[t], turns[t], questions[t]>>' = <<state[t], turns[t],
         questions[t]>>
<1>1. CASE UNCHANGED rows BY <1>1 DEF rows
<1>2. ASSUME NEW u \in Tasks, CreateTask(u) \/ Queue(u) \/ Cancel(u)
              \/ SettleRecovered(u) \/ Recover(u)
      PROVE UNCHANGED <<state[t], turns[t], questions[t]>>
  <2>1. UNCHANGED rows \/ u # t
    BY <1>2
       DEF CreateTask, Queue, Cancel, SettleRecovered, Recover, Move,
           CanTransition, Terminal, rows
  <2> QED
    BY <1>1, <1>2, <2>1
       DEF CreateTask, Queue, Cancel, SettleRecovered, Recover, Move, rows,
           Inv, TypeOK, RowsOK
<1>3. CASE HandOver \/ StartedRunning \/ RecordAnswer \/ OpenFirstTurn \/ Apply
            \/ Deliver \/ Settle
  <2>1. work.task # t /\ work.task \in Tasks
    BY <1>3, LockHolder
       DEF HandOver, StartedRunning, RecordAnswer, OpenFirstTurn, Apply,
           Deliver, Settle, At, Inv, LiveInv
  <2> QED
    BY <1>3, <2>1
       DEF HandOver, StartedRunning, RecordAnswer, OpenFirstTurn, Apply,
           Deliver, Settle, OpenTurn, Move, Inv, TypeOK, RowsOK
<1> QED BY <1>1, <1>2, <1>3, RowsWriters

-----------------------------------------------------------------------------
\* The initial state satisfies the invariant.
LEMMA InitInv == Init => Inv
<1> SUFFICES ASSUME Init PROVE Inv
  OBVIOUS
<1>1. TypeOK
  <2>1. RowsOK BY LimitsAssumption DEF Init, RowsOK
  <2>2. FactsOK BY DEF Init, FactsOK, Dispatch
  <2>3. EvidenceOK /\ CallsOK /\ WorkOK
    BY DEF Init, EvidenceOK, CallsOK, WorkOK
  <2>4. HostOK /\ HistoryOK
    BY BoundsAssumption DEF Init, HostOK, HistoryOK
  <2> QED BY <2>1, <2>2, <2>3, <2>4 DEF TypeOK
<1>2. WorkInv /\ LiveInv /\ FirstTurnInv /\ ClosingInv
  BY DEF Init, WorkInv, LockInv, StepInv, ExpectInv, LiveInv, FirstTurnInv,
         ClosingInv
<1>3. HistoryInv /\ RecoveryInv /\ ParkedInv
  BY DEF Init, HistoryInv, RecoveryInv, ParkedInv, GoingOn
<1>4. TurnInv
  BY DEF Init, TurnInv, OnlyLastTurnOpen, QuietTaskHasNoOpenTurn,
         BoundaryObserved, HasOpenTurn, CurrentTurn
<1> QED BY <1>1, <1>2, <1>3, <1>4 DEF Inv, TurnInv

\* Every step keeps the invariant.
LEMMA InvStep == Inv /\ [Next]_vars => Inv'
<1> SUFFICES ASSUME Inv, [Next]_vars PROVE Inv'
  OBVIOUS
<1>1. TypeOK' BY TypeStep
<1>2. CASE Next
  BY <1>1, <1>2, LockStep, LiveStep, HostStep, TurnStep DEF Inv, TurnInv
<1>3. CASE UNCHANGED vars
  <2>1. UNCHANGED <<state, turns, ranged, finals, work, mode, todo>>
    BY <1>3 DEF vars, rows, evidence, host
  <2>2. WorkInv' /\ LiveInv'
    BY <2>1 DEF Inv, WorkInv, LockInv, StepInv, ExpectInv, LiveInv
  <2>3. FirstTurnInv' /\ ClosingInv'
    BY <2>1 DEF Inv, FirstTurnInv, ClosingInv, HasOpenTurn, CurrentTurn
  <2>4. HistoryInv' /\ RecoveryInv' /\ ParkedInv'
    BY <2>1 DEF Inv, HistoryInv, RecoveryInv, ParkedInv, LastTurn
  <2>5. TurnInv' BY <2>1, TurnFrame
  <2> QED BY <1>1, <2>2, <2>3, <2>4, <2>5 DEF Inv, TurnInv
<1> QED BY <1>2, <1>3

\* Inv is an invariant of Task Core.
THEOREM InvariantHolds == Spec => []Inv
<1> QED BY InitInv, InvStep, PTL DEF Spec

\* Every variable keeps its type; no task exceeds MAX_TURNS_PER_TASK.
THEOREM TypeCorrect == Spec => []TypeOK
<1>1. Inv => TypeOK BY DEF Inv
<1> QED BY <1>1, InvariantHolds, PTL

\* A task that ended, was parked or waits for a message has no turn in flight,
\* and only the last turn of any task can be (_close_turn_locked,
\* _open_turn_locked).
THEOREM NoTurnLeftOpen == Spec => [](QuietTaskHasNoOpenTurn /\ OnlyLastTurnOpen)
<1>1. Inv => QuietTaskHasNoOpenTurn /\ OnlyLastTurnOpen BY DEF Inv
<1> QED BY <1>1, InvariantHolds, PTL

\* Every turn that work ended has its committed range and its final state on
\* record (_capture_terminal_boundary).
THEOREM BoundaryAlwaysObserved == Spec => []BoundaryObserved
<1>1. Inv => BoundaryObserved BY DEF Inv
<1> QED BY <1>1, InvariantHolds, PTL

\* Once a task has ended, its state, turns and questions are history: the rows
\* of a terminal task are never written again (the graph has no arrow out of a
\* terminal state, and no operation is left on it).
THEOREM EndedTasksAreFinal == Spec => EndedIsFinal
<1>1. Inv /\ [Next]_vars =>
        [\A t \in Tasks : state[t] \in Terminal =>
           <<state[t], turns[t], questions[t]>>'
               = <<state[t], turns[t], questions[t]>>]_vars
  BY EndedStep
<1> QED BY <1>1, InvariantHolds, PTL DEF Spec, EndedIsFinal
-----------------------------------------------------------------------------
(* Task Core implements TurnLedger: the initial state maps to an initial    *)
(* state, and under the invariant every step maps to a step of the ledger   *)
(* or leaves it alone.                                                      *)

\* The ledger of a task is the sequence of the outcomes of its turns.
LEMMA LedgerOf ==
    ASSUME TypeOK, NEW t \in Tasks
    PROVE  /\ OutcomesOf[t] \in Seq(Outcomes)
              /\ Len(OutcomesOf[t]) = Len(turns[t])
              /\ DOMAIN OutcomesOf[t] = 1..Len(turns[t])
           /\ \A n \in 1..Len(turns[t]) :
              OutcomesOf[t][n] = turns[t][n].outcome
           /\ OutcomesOf[t] = <<>> <=> turns[t] = <<>>
<1>1. turns[t] \in Seq(Turn) /\ Len(turns[t]) \in Nat
       /\ DOMAIN turns[t] = 1..Len(turns[t])
  BY TurnsTyped
<1>2. \A n \in 1..Len(turns[t]) : turns[t][n].outcome \in Outcomes
  <2>1. \A n \in 1..Len(turns[t]) : turns[t][n] \in Turn BY <1>1
  <2> QED BY <2>1 DEF Turn
<1>3. OutcomesOf[t] = [n \in 1..Len(turns[t]) |-> turns[t][n].outcome]
  BY DEF OutcomesOf
<1>4. OutcomesOf[t] \in Seq(Outcomes) /\ Len(OutcomesOf[t]) = Len(turns[t])
  BY <1>1, <1>2, <1>3
<1> QED BY <1>1, <1>3, <1>4

\* The ledger has a turn in flight exactly when the task has an open turn.
LEMMA InFlightIs ==
    ASSUME TypeOK, OnlyLastTurnOpen, NEW t \in Tasks
    PROVE Ledger!InFlight(t) <=> HasOpenTurn(t)
<1>1. turns[t] \in Seq(Turn) /\ Len(turns[t]) \in Nat
       /\ DOMAIN turns[t] = 1..Len(turns[t])
  BY TurnsTyped
<1>2. ASSUME Ledger!InFlight(t) PROVE HasOpenTurn(t)
  <2>1. turns[t] # <<>> /\ OutcomesOf[t][Len(turns[t])] = "open"
    BY <1>2, LedgerOf DEF Ledger!InFlight
  <2>2. Len(turns[t]) \in DOMAIN turns[t] BY <1>1, <2>1
  <2> QED BY <1>1, <2>1, <2>2, LedgerOf DEF HasOpenTurn, CurrentTurn
<1>3. ASSUME HasOpenTurn(t) PROVE Ledger!InFlight(t)
  <2>1. PICK n \in DOMAIN turns[t] : turns[t][n].outcome = "open"
    BY <1>3 DEF HasOpenTurn, CurrentTurn
  <2>2. n = Len(turns[t]) BY <2>1 DEF OnlyLastTurnOpen, CurrentTurn, LastTurn
  <2>3. turns[t] # <<>> BY <1>1, <2>1
  <2> QED BY <1>1, <2>1, <2>2, <2>3, LedgerOf DEF Ledger!InFlight
<1> QED BY <1>2, <1>3

\* The first state of Task Core is the first state of the ledger.
LEMMA LedgerInit == Init => Ledger!Init
BY DEF Init, Ledger!Init, Phase, OutcomesOf, Terminal

\* A step that moves no phase and no turn is a stutter of the ledger.
LEMMA Stutters ==
    ASSUME TypeOK, TypeOK', \A t \in Tasks : Phase'[t] = Phase[t]
            /\ turns'[t] = turns[t]
    PROVE  UNCHANGED <<Phase, OutcomesOf>>
<1>1. Phase' = Phase BY DEF Phase
<1>2. OutcomesOf' = OutcomesOf BY DEF OutcomesOf
<1> QED BY <1>1, <1>2

\* What a step that moves one task does to the phases.
LEMMA PhaseStep ==
    ASSUME NEW t \in Tasks, NEW p, Phase'[t] = p, \A u \in Tasks : u # t
            => state'[u] = state[u]
    PROVE Phase' = [Phase EXCEPT ![t] = p]
BY DEF Phase

\* Opening a turn appends it to the ledger.
LEMMA LedgerOpens ==
    ASSUME TypeOK, TypeOK', NEW t \in Tasks, NEW k, OpenTurn(t, k)
    PROVE OutcomesOf' = [OutcomesOf EXCEPT ![t] = Append(OutcomesOf[t],
           "open")]
<1> DEFINE L == Len(turns[t])
<1>0. \A u \in Tasks : u # t => turns'[u] = turns[u] BY OpenTurnRows
<1>1. L \in Nat
       /\ turns' = [turns EXCEPT ![t] = Append(turns[t], [outcome |-> "open",
         key |-> k])]
       /\ turns[t] \in Seq(Turn)
  BY TurnsTyped DEF OpenTurn
<1>2. /\ Len(turns'[t]) = L + 1
      /\ \A n \in 1..L : turns'[t][n] = turns[t][n]
      /\ turns'[t][L + 1].outcome = "open"
  BY <1>1, TurnsTyped DEF TypeOK, RowsOK
<1>3. OutcomesOf[t] \in Seq(Outcomes) /\ Len(OutcomesOf[t]) = L
       /\ \A n \in 1..L : OutcomesOf[t][n] = turns[t][n].outcome
  BY LedgerOf
<1>4. OutcomesOf'[t] = [n \in 1..(L+1) |-> turns'[t][n].outcome]
  BY <1>2 DEF OutcomesOf
<1> HIDE DEF L
<1>5. Append(OutcomesOf[t],
       "open") = [n \in 1..(L + 1) |-> IF n = L + 1 THEN "open" ELSE
         OutcomesOf[t][n]]
  BY <1>1, <1>3
<1>6. OutcomesOf'[t] = Append(OutcomesOf[t], "open")
  BY <1>1, <1>2, <1>3, <1>4, <1>5
<1>7. \A u \in Tasks : u # t => OutcomesOf'[u] = OutcomesOf[u]
  BY <1>0 DEF OutcomesOf
<1>8. OutcomesOf' = [u \in Tasks |-> OutcomesOf'[u]]
       /\ OutcomesOf = [u \in Tasks |-> OutcomesOf[u]]
  BY DEF OutcomesOf
<1> QED BY <1>6, <1>7, <1>8

\* Closing the open turn writes the last outcome of the ledger.
LEMMA LedgerCloses ==
    ASSUME TypeOK, TypeOK', OnlyLastTurnOpen, NEW t \in Tasks,
            NEW outcome \in Outcomes, HasOpenTurn(t),
           turns'[t] = CloseTurn(t, outcome), \A u \in Tasks : u # t
            => turns'[u] = turns[u]
    PROVE OutcomesOf' = [OutcomesOf EXCEPT ![t][Len(OutcomesOf[t])] = outcome]
<1> DEFINE L == Len(turns[t])
<1>1. L \in Nat /\ L > 0 /\ turns[t][L].outcome = "open"
       /\ \A n \in 1..L : n # L => turns[t][n].outcome # "open"
  BY TurnsTyped DEF HasOpenTurn, CurrentTurn, OnlyLastTurnOpen, LastTurn
<1>2. Len(turns'[t]) = L
       /\ \A n \in 1..L : turns'[t][n].outcome = IF n = L THEN outcome ELSE
         turns[t][n].outcome
  BY <1>1, CloseTurnOutcome, TurnsTyped
<1>3. Len(OutcomesOf[t]) = L
       /\ OutcomesOf[t] = [n \in 1..L |-> turns[t][n].outcome]
  BY LedgerOf DEF OutcomesOf
<1>4. OutcomesOf'[t] = [n \in 1..L |-> turns'[t][n].outcome]
  BY <1>2 DEF OutcomesOf
<1> HIDE DEF L
<1>6. OutcomesOf'[t] = [OutcomesOf[t] EXCEPT ![L] = outcome]
  <2>1. OutcomesOf'[t] = [n \in 1..L |-> IF n = L THEN outcome ELSE turns[t][n].outcome]
    BY <1>2, <1>4
  <2>2. [OutcomesOf[t] EXCEPT ![L] = outcome] =
           [n \in 1..L |-> IF n = L THEN outcome ELSE turns[t][n].outcome]
    BY <1>1, <1>3
  <2> QED BY <2>1, <2>2
<1>7. \A u \in Tasks : u # t => OutcomesOf'[u] = OutcomesOf[u]
  BY DEF OutcomesOf
<1>8. OutcomesOf' = [u \in Tasks |-> OutcomesOf'[u]]
       /\ OutcomesOf = [u \in Tasks |-> OutcomesOf[u]]
  BY DEF OutcomesOf
<1> QED BY <1>3, <1>6, <1>7, <1>8

\* Every arrow of the state graph leaves a live state and reaches a stored one.
LEMMA Arrows ==
    ASSUME NEW from, NEW to, CanTransition(from, to)
    PROVE from \in States \ Terminal /\ from # "absent" /\ to # "absent"
BY DEF CanTransition, AllowedTransitions, States, Terminal

\* Every step is a step of the ledger or a stutter.
LEMMA LedgerStep ==
    ASSUME Inv, Next
    PROVE [Ledger!Next]_(Ledger!vars)
<1>0. TypeOK /\ TypeOK' /\ OnlyLastTurnOpen BY TypeStep DEF Inv
<1> USE DEF Ledger!vars
<1>1. ASSUME \A t \in Tasks : Phase'[t] = Phase[t] /\ turns'[t] = turns[t]
      PROVE [Ledger!Next]_(Ledger!vars)
  BY <1>0, <1>1, Stutters
<1>2. ASSUME NEW t \in Tasks, Phase[t] = "live", Phase'[t] = "ended",
              ~HasOpenTurn(t),
             \A u \in Tasks : u # t
              => state'[u] = state[u], \A u \in Tasks : OutcomesOf'[u] =
                OutcomesOf[u]
      PROVE Ledger!Next
  <2>1. Phase' = [Phase EXCEPT ![t] = "ended"] BY <1>2, PhaseStep
  <2>2. OutcomesOf' = OutcomesOf BY <1>2 DEF OutcomesOf
  <2>3. ~Ledger!InFlight(t) BY <1>0, <1>2, InFlightIs
  <2> QED BY <1>2, <2>1, <2>2, <2>3 DEF Ledger!Next, Ledger!End
<1>3. ASSUME NEW t \in Tasks, NEW outcome \in Outcomes \ {"open"},
              Phase[t] = "live", HasOpenTurn(t), turns'[t] = CloseTurn(t,
              outcome),
             \A u \in Tasks : u # t => state'[u] = state[u]
              /\ turns'[u] = turns[u],
             Phase'[t] = "ended" \/ (outcome \in {"completed", "interrupted"}
              /\ Phase'[t] = Phase[t])
      PROVE Ledger!Next
  <2>1. OutcomesOf' = [OutcomesOf EXCEPT ![t][Len(OutcomesOf[t])] = outcome]
    BY <1>0, <1>3, LedgerCloses
  <2>2. Ledger!InFlight(t) BY <1>0, <1>3, InFlightIs
  <2>3. Phase' = [Phase EXCEPT ![t] = Phase'[t]] BY <1>3, PhaseStep
  <2>4. OutcomesOf'[t][Len(OutcomesOf[t])] = outcome
    <3>1. OutcomesOf[t] \in Seq(Outcomes) /\ OutcomesOf[t] # <<>>
      BY <1>0, <2>2, LedgerOf DEF Ledger!InFlight
    <3>2. Len(OutcomesOf[t]) \in DOMAIN OutcomesOf[t] BY <3>1
    <3>3. t \in DOMAIN OutcomesOf BY DEF OutcomesOf
    <3> QED BY <2>1, <3>2, <3>3
  <2>5. outcome \in {"completed", "failed", "cancelled", "interrupted"}
    BY DEF Outcomes
  <2>6. Phase' = [Phase EXCEPT ![t] = "ended"] \/ Phase' = Phase
    BY <1>3, <2>3 DEF Phase
  <2>7. CASE Phase' = [Phase EXCEPT ![t] = "ended"]
    BY <1>3, <2>1, <2>2, <2>5, <2>7 DEF Ledger!Next, Ledger!Close
  <2>8. CASE Phase' = Phase /\ Phase'[t] # "ended"
    BY <1>3, <2>1, <2>2, <2>4, <2>5, <2>8 DEF Ledger!Next, Ledger!Close
  <2> QED BY <1>3, <2>6, <2>7, <2>8
<1>4. ASSUME NEW t \in Tasks, NEW k, Phase[t] = "live", Phase'[t] = "live",
                OpenTurn(t, k), turns[t] # <<>>
              => turns[t][Len(turns[t])].outcome = "completed",
             \A u \in Tasks : u # t => state'[u] = state[u]
      PROVE Ledger!Next
  <2>1. OutcomesOf' = [OutcomesOf EXCEPT ![t] = Append(OutcomesOf[t], "open")]
    BY <1>0, <1>4, LedgerOpens
  <2>2. Phase' = Phase BY <1>4 DEF Phase
  <2>3. OutcomesOf[t] # <<>> => OutcomesOf[t][Len(OutcomesOf[t])] = "completed"
    <3>1. turns[t] # <<>> => Len(turns[t]) \in 1..Len(turns[t])
      BY <1>0, TurnsTyped
    <3> QED BY <1>0, <1>4, <3>1, LedgerOf
  <2> QED BY <1>4, <2>1, <2>2, <2>3 DEF Ledger!Next, Ledger!OpenNext
<1>5. \A t \in Tasks : /\ state[t] = "absent" => Phase[t] = "absent"
                       /\ state[t] \in Terminal => Phase[t] = "ended"
                       /\ state[t] \notin Terminal \cup {"absent"}
                          => Phase[t] = "live"
                       /\ state'[t] \in Terminal => Phase'[t] = "ended"
                       /\ state'[t] \notin Terminal \cup {"absent"}
                          => Phase'[t] = "live"
                       /\ state'[t] = state[t] => Phase'[t] = Phase[t]
  BY DEF Phase, Terminal
<1>6. \A t \in Tasks : turns'[t] = turns[t] => OutcomesOf'[t] = OutcomesOf[t]
  BY DEF OutcomesOf
<1>7. ASSUME NEW t \in Tasks, CreateTask(t) PROVE Ledger!Next
  <2>1. Phase[t] = "absent" /\ Phase' = [Phase EXCEPT ![t] = "live"]
    BY <1>5, <1>7 DEF CreateTask, Phase, Terminal, Inv, TypeOK, RowsOK
  <2>2. OutcomesOf' = OutcomesOf BY <1>7 DEF CreateTask, OutcomesOf
  <2> QED BY <2>1, <2>2 DEF Ledger!Next, Ledger!Accept
<1>8. ASSUME NEW t \in Tasks, UNCHANGED turns,
              state'[t] \notin Terminal \cup {"absent"},
              state[t] \notin Terminal \cup {"absent"},
             \A u \in Tasks : u # t => state'[u] = state[u]
      PROVE [Ledger!Next]_(Ledger!vars)
  BY <1>1, <1>5, <1>8
<1>9. ASSUME NEW t \in Tasks, Queue(t)
              \/ Cancel(t) PROVE [Ledger!Next]_(Ledger!vars)
  <2>1. UNCHANGED <<state, turns>> \/ (/\ UNCHANGED turns
         /\ state'[t] \in {"queued", "cancelling"}
         /\ state[t] \notin Terminal \cup {"absent"}
             /\ \A u \in Tasks : u # t => state'[u] = state[u])
    BY <1>9, Arrows DEF Queue, Cancel, Move, Inv, TypeOK, RowsOK
  <2> QED BY <2>1, <1>1, <1>5, <1>8 DEF Terminal
<1>10. ASSUME NEW t \in Tasks,
               SettleRecovered(t) PROVE [Ledger!Next]_(Ledger!vars)
  <2>1. state[t] = "recovery_required" /\ state'[t] = "interrupted"
         /\ UNCHANGED turns /\ \A u \in Tasks : u # t => state'[u] = state[u]
    BY <1>10 DEF SettleRecovered, Move, Inv, TypeOK, RowsOK
  <2>2. ~HasOpenTurn(t) BY <2>1 DEF Inv, QuietTaskHasNoOpenTurn, Quiet
  <2> QED BY <1>2, <1>5, <1>6, <2>1, <2>2 DEF Terminal
<1>11. ASSUME NEW t \in Tasks, Recover(t) PROVE [Ledger!Next]_(Ledger!vars)
  <2>1. CASE UNCHANGED rows BY <2>1, <1>1, <1>5 DEF rows
  <2>2. CASE ~UNCHANGED rows
    <3>1. /\ state[t] \notin Terminal \cup {"absent"}
             /\ state'[t] \in {"interrupted", "recovery_required"}
             /\ turns'[t] = CloseTurn(t, "interrupted")
          /\ \A u \in Tasks : u # t => state'[u] = state[u]
             /\ turns'[u] = turns[u]
      BY <1>11, <2>2, Arrows DEF Recover, Move, Inv, TypeOK, RowsOK
    <3>2. "interrupted" \in Outcomes \ {"open"} BY DEF Outcomes
    <3>3. CASE HasOpenTurn(t)
      BY <1>3, <1>5, <3>1, <3>2, <3>3 DEF Terminal
    <3>4. CASE ~HasOpenTurn(t)
      <4>1. OutcomesOf'[t] = OutcomesOf[t]
        <5>1. /\ DOMAIN turns'[t] = DOMAIN turns[t]
                 /\ Len(turns'[t]) = Len(turns[t])
              /\ \A n \in DOMAIN turns[t] :
                 turns'[t][n].outcome = turns[t][n].outcome
          BY <1>0, <3>1, <3>2, <3>4, CloseTurnOutcome
             DEF HasOpenTurn, CurrentTurn
        <5>2. DOMAIN turns[t] = 1..Len(turns[t]) BY <1>0, TurnsTyped
        <5> QED BY <5>1, <5>2 DEF OutcomesOf
      <4>2. \A u \in Tasks : OutcomesOf'[u] = OutcomesOf[u] BY <4>1, <1>6, <3>1
      <4>3. CASE state'[t] = "interrupted"
        BY <1>2, <1>5, <3>1, <3>4, <4>2, <4>3 DEF Terminal
      <4>4. CASE state'[t] = "recovery_required"
        <5>1. Phase' = Phase BY <1>5, <3>1, <4>4 DEF Phase, Terminal
        <5>2. OutcomesOf' = OutcomesOf BY <4>2 DEF OutcomesOf
        <5> QED BY <5>1, <5>2
      <4> QED BY <3>1, <4>3, <4>4
    <3> QED BY <3>3, <3>4
  <2> QED BY <2>1, <2>2
<1>12. CASE HandOver \/ StartedRunning \/ RecordAnswer
  <2>1. /\ work.task \in Tasks /\ UNCHANGED turns
           /\ state'[work.task] \in {"starting", "running"}
           /\ state[work.task] \notin Terminal \cup {"absent"}
        /\ \A u \in Tasks : u # work.task => state'[u] = state[u]
    BY <1>12, LockHolder, Arrows
       DEF HandOver, StartedRunning, RecordAnswer, At, Move, Inv, TypeOK,
           RowsOK
  <2> QED BY <2>1, <1>8 DEF Terminal
<1>13. CASE OpenFirstTurn
  <2>1. /\ work.task \in Tasks /\ state[work.task] = "running"
           /\ UNCHANGED state /\ turns[work.task] = <<>>
           /\ OpenTurn(work.task, work.key)
    BY <1>13, LockHolder
       DEF OpenFirstTurn, At, Inv, WorkInv, StepInv, ExpectInv, FirstTurnInv
  <2> QED BY <2>1, <1>4, <1>5 DEF Terminal
<1>14. CASE Deliver
  <2>1. /\ work.task \in Tasks
           /\ state[work.task] = IF work.fresh THEN "ready_for_followup" ELSE
             "waiting_for_user"
        /\ work # Idle /\ work.step = "deliver" /\ mode = "up"
    BY <1>14, LockHolder
       DEF Deliver, At, Inv, WorkInv, LockInv, StepInv, ExpectInv
  <2>2. /\ UNCHANGED state \/ state' = [state EXCEPT ![work.task] = "running"]
        /\ UNCHANGED turns \/ (work.fresh /\ OpenTurn(work.task, work.key)
           /\ ~UNCHANGED state)
    BY <1>14, <2>1 DEF Deliver, OpensTurn, Move, Inv, TypeOK, RowsOK
  <2>3. \A u \in Tasks : u # work.task => state'[u] = state[u]
    BY <2>2 DEF Inv, TypeOK, RowsOK
  <2>4. state'[work.task] \notin Terminal \cup {"absent"}
         /\ state[work.task] \notin Terminal \cup {"absent"}
    BY <2>1, <2>2 DEF Terminal, Inv, TypeOK, RowsOK
  <2>5. CASE UNCHANGED turns BY <2>1, <2>3, <2>4, <2>5, <1>8
  <2>6. CASE work.fresh /\ OpenTurn(work.task, work.key)
    <3>1. turns[work.task] # <<>>
           => turns[work.task][Len(turns[work.task])].outcome = "completed"
      <4>1. ~HasOpenTurn(work.task)
        BY <2>1, <2>6 DEF Inv, QuietTaskHasNoOpenTurn, Quiet
      <4>2. turns[work.task] # <<>>
             /\ turns[work.task][Len(turns[work.task])].outcome \in {"open",
               "completed"}
        BY <2>1, <2>6 DEF Inv, HistoryInv, GoingOn, LastTurn
      <4>3. Len(turns[work.task]) \in DOMAIN turns[work.task]
        BY <1>0, <2>1, <4>2, TurnsTyped
      <4> QED BY <4>1, <4>2, <4>3 DEF HasOpenTurn, CurrentTurn
    <3> QED BY <2>1, <2>3, <2>4, <2>6, <3>1, <1>4, <1>5
  <2> QED BY <2>2, <2>5, <2>6
<1>15. CASE Settle
  <2>1. /\ work # Idle /\ work.step = "settle" /\ work.task \in Tasks
           /\ CanTransition(state[work.task], work.to)
        /\ work.to \in Reported \ {"none", "running"}
        /\ state' = [state EXCEPT ![work.task] = work.to]
           /\ turns' = IF work.closes THEN [turns EXCEPT ![work.task] =
             CloseTurn(work.task, IF work.to = "ready_for_followup" THEN
             "completed"
                      ELSE work.to)] ELSE turns
        /\ state \in [Tasks -> States \cup {"absent"}]
           /\ turns \in [Tasks -> Seq(Turn)]
    BY <1>15, LockHolder
       DEF Settle, TurnOutcome, At, Move, Inv, TypeOK, RowsOK, WorkInv,
           StepInv
  <2>2. state[work.task] \notin Terminal \cup {"absent"}
         /\ Phase[work.task] = "live"
    BY <2>1, <1>5, Arrows
  <2>3. \A u \in Tasks : u # work.task => state'[u] = state[u]
         /\ turns'[u] = turns[u]
    BY <2>1
  <2>4. state'[work.task] = work.to BY <2>1
  <2>5. CASE work.closes
    <3> DEFINE outcome == IF work.to = "ready_for_followup" THEN "completed"
                             ELSE work.to
    <3>1. HasOpenTurn(work.task) /\ work.to \in TurnEndingStates
      BY <2>1, <2>5 DEF Inv, ClosingInv
    <3>2. outcome \in Outcomes \ {"open"}
      BY <3>1 DEF TurnEndingStates, Outcomes
    <3>3. turns'[work.task] = CloseTurn(work.task, outcome) BY <2>1, <2>5
    <3>4. Phase'[work.task] = "ended" \/ (outcome = "completed"
           /\ Phase'[work.task] = "live")
      BY <2>1, <2>4, <3>1, <1>5 DEF TurnEndingStates, Terminal
    <3> HIDE DEF outcome
    <3> QED BY <2>1, <2>2, <2>3, <3>1, <3>2, <3>3, <3>4, <1>3
  <2>6. CASE ~work.closes
    <3>1. UNCHANGED turns BY <2>1, <2>6
    <3>2. CASE work.to \in Terminal
      <4>1. ~HasOpenTurn(work.task)
        BY <2>1, <2>6, <3>2
           DEF Inv, ClosingInv, TurnEndingStates, Reported, Terminal
      <4>2. \A u \in Tasks : OutcomesOf'[u] = OutcomesOf[u] BY <3>1, <1>6
      <4> QED BY <1>2, <1>5, <2>1, <2>2, <2>3, <2>4, <3>2, <4>1, <4>2
    <3>3. CASE work.to \notin Terminal
      BY <1>8, <2>1, <2>2, <2>3, <2>4, <3>1, <3>3, Arrows
    <3> QED BY <3>2, <3>3
  <2> QED BY <2>5, <2>6
<1>16. CASE Apply \/ UNCHANGED rows
  BY <1>16, <1>1, <1>5 DEF Apply, rows
<1> QED
  BY <1>7, <1>9, <1>10, <1>11, <1>12, <1>13, <1>14, <1>15, <1>16, RowsWriters

\* Task Core implements the turn ledger: whatever crashes, retries and refusals
\* happen between the transactions of the store (create_task, transition), a
\* reader sees turns opened in order, closed once, and never touched after the
\* task ended.
THEOREM ImplementsLedger == Spec => LedgerSpec
<1>1. Inv /\ [Next]_vars => [Ledger!Next]_(Ledger!vars)
  <2>1. ASSUME Inv, UNCHANGED vars PROVE UNCHANGED Ledger!vars
    BY <2>1 DEF vars, rows, Ledger!vars, Phase, OutcomesOf
  <2> QED BY <2>1, LedgerStep
<1> QED
  BY <1>1, LedgerInit, InvariantHolds, PTL DEF Spec, LedgerSpec, Ledger!Spec
-----------------------------------------------------------------------------
(* The second half: what Task Core keeps true of the facts, the messages,   *)
(* the judgements and the questions of a task, beside its rows.             *)
-----------------------------------------------------------------------------
(* What a step leaves alone.                                                *)

\* The operation goes on with the same task, message and turn, or returns.
SameOperation ==
    /\ work' \in Work /\ work' # Idle
    /\ work'.op = work.op /\ work'.task = work.task /\ work'.key = work.key
    /\ work'.fresh = work.fresh /\ work'.turn = work.turn

\* A step of the lock holder goes on with the same operation or ends it.
LEMMA OperationGoesOn ==
    ASSUME Inv, WorkStep
    PROVE  work \in Work /\ work # Idle /\ mode = "up" /\ (work' = Idle \/ SameOperation)
<1>1. work \in Work /\ work # Idle BY HolderSteps
<1>2. work' \in Work \cup {Idle} BY WorkStepTypes DEF WorkOK
<1>3. \/ work' = Idle
      \/ /\ work'.op = work.op /\ work'.task = work.task /\ work'.key = work.key
         /\ work'.fresh = work.fresh /\ work'.turn = work.turn
  <2>1. ASSUME NEW s, Goto(s) \/ Loop(s)
        PROVE /\ work'.op = work.op /\ work'.task = work.task /\ work'.key = work.key
              /\ work'.fresh = work.fresh /\ work'.turn = work.turn
    BY <1>1, <2>1 DEF Goto, Loop, Work
  <2>2. CASE StartStep BY <1>1, <2>1, <2>2
    DEF StartStep, HandOver, StartedRunning, OpenFirstTurn, Work
  <2>3. CASE DispatchStep BY <1>1, <2>1, <2>3
    DEF DispatchStep, Reserve, RefuseLineage, MarkDispatchStarted,
        MarkDispatchRefused, CallAdapter, Return
  <2>4. CASE AdapterReports
    <3>1. PICK r \in Report :
             work' = IF work.op = "refresh" /\ r.to = "none" THEN Idle
                     ELSE [work EXCEPT
                             !.to = r.to, !.asks = r.asks,
                             !.step = CASE work.op = "start" -> "running"
                                        [] work.op = "followup" -> "deliver"
                                        [] OTHER -> "apply"]
      BY <2>4 DEF AdapterReports
    <3>2. CASE work' # Idle
      <4> DEFINE s == CASE work.op = "start" -> "running"
                        [] work.op = "followup" -> "deliver"
                        [] OTHER -> "apply"
      <4>1. work' = [work EXCEPT !.to = r.to, !.asks = r.asks, !.step = s]
        BY <3>1, <3>2
      <4> HIDE DEF s
      <4> QED BY <1>1, <4>1 DEF Work
    <3> QED BY <3>2
  <2>5. CASE AdapterConsents
    <3>1. Goto("answered") \/ work' = [work EXCEPT !.step = "settle", !.to = "completed"]
      BY <2>5 DEF AdapterConsents
    <3>2. CASE work' = [work EXCEPT !.step = "settle", !.to = "completed"]
      BY <1>1, <3>2 DEF Work
    <3> QED BY <2>1, <3>1, <3>2
  <2>6. CASE AdapterRefuses \/ AdapterFaults
    <3>1. work' = Idle \/ \E s, b : work' = [work EXCEPT !.step = s, !.failing = b]
      BY <2>6 DEF AdapterRefuses, AdapterFaults, Return
    <3> QED BY <1>1, <3>1 DEF Work
  <2>7. CASE Deliver \/ RecordAnswer
    <3>1. work' = Idle \/ Goto("apply") BY <2>7 DEF Deliver, RecordAnswer, Return
    <3> QED BY <2>1, <3>1
  <2>8. CASE Apply
    <3> DEFINE a == work.asks /\ HasRoom(work.task)
               c == work.to \in TurnEndingStates /\ HasOpenTurn(work.task)
               s == IF c THEN "range" ELSE "settle"
    <3>1. \/ work' = Idle
          \/ work' = [work EXCEPT !.from = state[work.task], !.asks = a, !.closes = c,
                                  !.step = s]
      BY <2>8 DEF Apply, Return
    <3> HIDE DEF a, c, s
    <3> QED BY <1>1, <3>1 DEF Work
  <2>9. CASE Fail
    <3>1. \E c, s : work' = [work EXCEPT !.to = "failed", !.asks = FALSE, !.closes = c,
                                        !.failing = TRUE, !.i = 1, !.step = s]
      BY <2>9 DEF Fail
    <3> QED BY <1>1, <3>1 DEF Work
  <2>10. CASE CaptureRange \/ CaptureFinal BY <2>1, <2>10 DEF CaptureRange, CaptureFinal
  <2>11. CASE Settle BY <2>1, <2>11 DEF Settle, Return
  <2>12. CASE Evaluate BY <2>12 DEF Evaluate, Return
  <2> QED BY <2>2, <2>3, <2>4, <2>5, <2>6, <2>7, <2>8, <2>9, <2>10, <2>11, <2>12
          DEF WorkStep, AdapterStep, SettleStep
<1>4. mode = "up" BY <1>1 DEF Inv, WorkInv, LockInv
<1>5. \A w \in Work : w # Idle BY DEF Work, Idle, Steps
<1> QED BY <1>1, <1>2, <1>3, <1>4, <1>5 DEF SameOperation

\* A loop over the facts moves to the next fact or to the step after it.
LEMMA LoopGoesOn ==
    ASSUME NEW s, work \in Work, Loop(s)
    PROVE  \/ work'.i = work.i + 1 /\ work'.step = work.step /\ work.i \in 1 .. 2
           \/ work'.i = 1 /\ work'.step = s /\ work.i = 3
<1>1. work.i \in 1 .. 3 BY WorkFields
<1> QED BY <1>1 DEF Loop, Work

\* Where each step of an operation that goes on was, and where it goes.
LEMMA StepsFollow ==
    ASSUME Inv, WorkStep, SameOperation
    PROVE  /\ HandOver => work.step = "handover" /\ work'.step = "reserve"
           /\ Reserve => work.step = "reserve" /\ work'.step \in {"reserve", "mark"}
           /\ RefuseLineage => work.step = "reserve" /\ work'.step = "fail"
           /\ MarkDispatchStarted => work.step = "mark" /\ work'.step \in {"mark", "call"}
           /\ CallAdapter => work.step = "call" /\ work'.step = "adapter"
           /\ AdapterReports => /\ work.step = "adapter"
                                /\ work'.step \in {"running", "deliver", "apply"}
           /\ AdapterConsents => /\ work.step = "adapter"
                                 /\ work'.step \in {"answered", "settle"}
           /\ AdapterRefuses => work.step = "adapter" /\ work'.step = "unmark"
           /\ AdapterFaults => work.step = "adapter" /\ work'.step \in {"unmark", "fail"}
           /\ MarkDispatchRefused =>
                 work.step = "unmark" /\ work'.step \in {"unmark", "fail"}
           /\ StartedRunning => work.step = "running" /\ work'.step = "open"
           /\ OpenFirstTurn => work.step = "open" /\ work'.step = "apply"
           /\ Deliver => work.step = "deliver" /\ work'.step = "apply"
           /\ ~ RecordAnswer
           /\ Apply => work.step = "apply" /\ work'.step \in {"range", "settle"}
           /\ Fail => work.step = "fail" /\ work'.step \in {"range", "settle"}
           /\ CaptureRange => work.step = "range" /\ work'.step = "final"
           /\ CaptureFinal => work.step = "final" /\ work'.step = "settle"
           /\ Settle => work.step = "settle" /\ work'.step = "evaluate"
           /\ Evaluate => work.step = "evaluate" /\ work'.step = "evaluate"
<1> USE DEF SameOperation, At
<1>1. work \in Work BY OperationGoesOn
<1>2. /\ HandOver => work.step = "handover" /\ work'.step = "reserve"
      /\ AdapterRefuses => work.step = "adapter" /\ work'.step = "unmark"
      /\ AdapterFaults => work.step = "adapter" /\ work'.step \in {"unmark", "fail"}
      /\ ~ RecordAnswer
  BY <1>1 DEF HandOver, AdapterRefuses, AdapterFaults, RecordAnswer, Return, Work
<1>3. Reserve => work.step = "reserve" /\ work'.step \in {"reserve", "mark"}
  BY <1>1, LoopGoesOn DEF Reserve
<1>4. RefuseLineage => work.step = "reserve" /\ work'.step = "fail"
  BY <1>1, GotoFields DEF RefuseLineage, Return
<1>5. MarkDispatchStarted => work.step = "mark" /\ work'.step \in {"mark", "call"}
  BY <1>1, LoopGoesOn DEF MarkDispatchStarted
<1>6. CallAdapter => work.step = "call" /\ work'.step = "adapter"
  BY <1>1, GotoFields DEF CallAdapter
<1>7. AdapterReports => /\ work.step = "adapter"
                        /\ work'.step \in {"running", "deliver", "apply"}
  BY <1>1 DEF AdapterReports, Work
<1>8. AdapterConsents => /\ work.step = "adapter"
                         /\ work'.step \in {"answered", "settle"}
  BY <1>1, GotoFields DEF AdapterConsents, Work
<1>9. MarkDispatchRefused => work.step = "unmark" /\ work'.step \in {"unmark", "fail"}
  BY <1>1, LoopGoesOn DEF MarkDispatchRefused, Return
<1>10. /\ StartedRunning => work.step = "running" /\ work'.step = "open"
       /\ OpenFirstTurn => work.step = "open" /\ work'.step = "apply"
       /\ Deliver => work.step = "deliver" /\ work'.step = "apply"
  BY <1>1, GotoFields DEF StartedRunning, OpenFirstTurn, Deliver, Return
<1>11. /\ Apply => work.step = "apply" /\ work'.step \in {"range", "settle"}
       /\ Fail => work.step = "fail" /\ work'.step \in {"range", "settle"}
  BY <1>1 DEF Apply, Fail, Return, Work
<1>12. /\ CaptureRange => work.step = "range" /\ work'.step = "final"
       /\ CaptureFinal => work.step = "final" /\ work'.step = "settle"
       /\ Settle => work.step = "settle" /\ work'.step = "evaluate"
       /\ Evaluate => work.step = "evaluate" /\ work'.step = "evaluate"
  BY <1>1, GotoFields DEF CaptureRange, CaptureFinal, Settle, Evaluate, Return
<1> QED BY <1>2, <1>3, <1>4, <1>5, <1>6, <1>7, <1>8, <1>9, <1>10, <1>11, <1>12

\* Beside the work: an operation takes the lock, whose turn is the next one.
Acquired ==
    /\ work = Idle /\ mode = "up" /\ work' \in Work /\ work' # Idle
    /\ work'.turn = LastTurn(work'.task) + 1 /\ work'.i = 1 /\ work'.to = "none"
    /\ work'.asks = FALSE /\ work'.failing = FALSE
    /\ UNCHANGED <<turns, questions, session, mode>>
    /\ \/ /\ work'.op = "start" /\ work'.step = "handover" /\ work'.fresh
          /\ work'.key = NoKey /\ Queue(work'.task)
       \/ /\ work'.op = "followup"
          /\ work'.step = IF work'.fresh THEN "reserve" ELSE "call"
          /\ \E c \in inFlight :
                LockFollowup(c) /\ work'.task = c.task /\ work'.key = c.key
       \/ /\ work'.op \in {"refresh", "cancel", "answer", "finish"}
          /\ work'.step = "adapter" \/ (work'.op = "cancel" /\ work'.step = "fail")
          /\ ~ work'.fresh /\ work'.key = NoKey
          /\ UNCHANGED <<followKeys, calls>>
          /\ \/ work'.op = "cancel" /\ Cancel(work'.task)
             \/ work'.op # "cancel" /\ UNCHANGED rows
          /\ work'.op = "refresh" => Live(work'.task) /\ work'.task \notin Recoverable
          /\ work'.op = "answer" => state[work'.task] = "waiting_for_user"
          /\ work'.op = "finish" => state[work'.task] = "ready_for_followup"

\* What an operation that takes the lock starts with.
LEMMA LeaseFields ==
    ASSUME TypeOK, NEW op \in Operations, NEW t \in Tasks, NEW k \in Keys \cup {NoKey},
           NEW from \in States, NEW fresh \in BOOLEAN, NEW step \in Steps,
           work' = Lease(op, t, k, from, fresh, step)
    PROVE  /\ work' \in Work /\ work' # Idle
           /\ work'.turn = LastTurn(work'.task) + 1 /\ work'.i = 1 /\ work'.to = "none"
           /\ work'.asks = FALSE /\ work'.failing = FALSE
           /\ work'.op = op /\ work'.task = t /\ work'.key = k /\ work'.step = step
           /\ work'.fresh = fresh
<1>1. work' \in Work BY LeaseTypes
<1>2. work'.step \in Steps /\ work'.step = step BY DEF Lease
<1>3. work' # Idle BY <1>2 DEF Idle, Steps
<1> QED BY <1>1, <1>3 DEF Lease

\* A follow-up takes the lock for its own message.
LEMMA LockFollowupAcquires ==
    ASSUME Inv, NEW c \in inFlight, LockFollowup(c), work' # work
    PROVE  Acquired
<1> DEFINE t == c.task
           fresh == state[t] = "ready_for_followup"
           step == IF fresh THEN "reserve" ELSE "call"
<1>1. /\ work' = Lease("followup", t, c.key, state[t], fresh, step)
      /\ state[t] \in FollowupStates /\ Free
  BY DEF LockFollowup, Acquire
<1>2. t \in Tasks /\ c.key \in Keys BY DEF Inv, TypeOK, CallsOK, FollowupCall
<1>3. "followup" \in Operations /\ state[t] \in States /\ fresh \in BOOLEAN
      /\ step \in Steps
  BY <1>1 DEF Operations, Steps, States, FollowupStates
<1>4. UNCHANGED <<turns, questions, session, mode>> BY DEF LockFollowup, rows, host
<1> HIDE DEF fresh
<1>5. step \in Steps BY <1>3
<1>6. step = IF fresh THEN "reserve" ELSE "call" OBVIOUS
<1> HIDE DEF t, step
<1>7. /\ work' \in Work /\ work' # Idle
      /\ work'.turn = LastTurn(work'.task) + 1 /\ work'.i = 1 /\ work'.to = "none"
      /\ work'.asks = FALSE /\ work'.failing = FALSE
      /\ work'.op = "followup" /\ work'.task = t /\ work'.key = c.key
      /\ work'.step = step /\ work'.fresh = fresh
  BY <1>1, <1>2, <1>3, LeaseFields DEF Inv
<1>8. work'.step = IF work'.fresh THEN "reserve" ELSE "call" BY <1>6, <1>7
<1>9. work'.task = c.task BY <1>7 DEF t
<1> QED BY <1>1, <1>4, <1>7, <1>8, <1>9 DEF Acquired, Free

\* A start, a refresh, a cancel or a finish takes the lock for a task it
\* may work on.
LEMMA RequestAcquires ==
    ASSUME Inv, NEW t \in Tasks, work' # work,
           Queue(t) \/ Refresh(t) \/ Cancel(t) \/ Finish(t)
    PROVE  Acquired
<1> DEFINE At2(op, from, fresh, step) == work' = Lease(op, t, NoKey, from, fresh, step)
<1>1. ASSUME NEW op \in Operations, NEW from \in States, NEW fresh \in BOOLEAN,
             NEW step \in Steps, At2(op, from, fresh, step)
      PROVE  /\ work' \in Work /\ work' # Idle
             /\ work'.turn = LastTurn(work'.task) + 1 /\ work'.i = 1 /\ work'.to = "none"
             /\ work'.asks = FALSE /\ work'.failing = FALSE
             /\ work'.op = op /\ work'.task = t /\ work'.key = NoKey /\ work'.step = step
             /\ work'.fresh = fresh
  BY <1>1, LeaseFields DEF Inv
<1>2. /\ {"start", "refresh", "cancel", "finish"} \subseteq Operations
      /\ {"handover", "adapter", "fail"} \subseteq Steps
      /\ {"queued", "cancelling"} \subseteq States
      /\ TRUE \in BOOLEAN /\ FALSE \in BOOLEAN
  BY DEF Operations, Steps, States
<1> HIDE DEF At2
<1>3. CASE Queue(t)
  <2>1. At2("start", "queued", TRUE, "handover") /\ Free
        /\ UNCHANGED <<turns, questions, session, mode>>
    BY <1>3 DEF Queue, Acquire, At2, host
  <2> QED BY <1>1, <1>2, <1>3, <2>1 DEF Acquired, Free
<1>4. CASE Refresh(t)
  <2>1. At2("refresh", state[t], FALSE, "adapter") /\ Free /\ state[t] \in States
        /\ UNCHANGED <<session, mode, followKeys, calls, rows>>
        /\ Live(t) /\ t \notin Recoverable
    BY <1>4 DEF Refresh, Acquire, At2, host, Live
  <2> QED BY <1>1, <1>2, <2>1 DEF Acquired, Free, rows
<1>5. CASE Cancel(t)
  <2>1. /\ \E step \in {"adapter", "fail"} : At2("cancel", "cancelling", FALSE, step)
        /\ Free /\ UNCHANGED <<turns, questions, session, mode, followKeys, calls>>
    BY <1>5 DEF Cancel, Acquire, At2, host
  <2> QED BY <1>1, <1>2, <1>5, <2>1 DEF Acquired, Free
<1>6. CASE Finish(t)
  <2>1. At2("finish", state[t], FALSE, "adapter") /\ Free /\ state[t] \in States
        /\ UNCHANGED <<session, mode, followKeys, calls, rows>>
        /\ state[t] = "ready_for_followup"
    BY <1>6 DEF Finish, Acquire, At2, host, States
  <2> QED BY <1>1, <1>2, <2>1 DEF Acquired, Free, rows
<1> QED BY <1>3, <1>4, <1>5, <1>6

\* An answer takes the lock for a task that waits for one.
LEMMA AnswerAcquires ==
    ASSUME Inv, NEW t \in Tasks, NEW q \in 1..MaxQuestions, Answer(t, q)
    PROVE  Acquired
<1> DEFINE l == Lease("answer", t, NoKey, state[t], FALSE, "adapter")
<1>1. work' = [l EXCEPT !.question = q] /\ Free
      /\ UNCHANGED <<session, mode, followKeys, calls, rows>>
      /\ state[t] = "waiting_for_user"
  BY DEF Answer, host
<1>2. work' \in Work BY <1>1, AnswerTypes DEF WorkOK, Lease, Idle
<1>3. /\ work'.turn = LastTurn(work'.task) + 1 /\ work'.i = 1 /\ work'.to = "none"
      /\ work'.asks = FALSE /\ work'.failing = FALSE /\ work'.op = "answer"
      /\ work'.task = t /\ work'.key = NoKey /\ work'.step = "adapter"
      /\ work'.fresh = FALSE
  BY <1>1 DEF Lease
<1>4. work' # Idle BY <1>3 DEF Idle
<1> QED BY <1>1, <1>2, <1>3, <1>4 DEF Acquired, Free, rows

\* What a step that is not the lock holder's does to it, and what it never writes.
LEMMA BesideTheWork ==
    ASSUME Inv, Next, ~ WorkStep
    PROVE  /\ UNCHANGED <<facts, reached, delivered, ranged, finals>>
           /\ \/ work' = Idle
              \/ UNCHANGED <<work, turns, questions, evaluated, session, mode>>
              \/ Acquired
<1>1. UNCHANGED <<facts, reached, delivered, ranged, finals>>
  BY DEF Next, Request, Boot, CreateTask, Refresh, Cancel, Finish, BeginFollowup,
         Answer, Queue, SettleRecovered, RememberFollowup, LockFollowup, ExpireKey,
         Restart, EvaluateAtBoot, Recover, Crash, facts, history, evidence
<1>2. CASE UNCHANGED work
  <2>1. CASE \E t \in Tasks : Refresh(t) \/ Cancel(t) \/ Finish(t)
    BY <1>1, <1>2, <2>1 DEF Refresh, Cancel, Finish, Acquire, Free
  <2>2. CASE \E t \in Tasks : \/ CreateTask(t) \/ Queue(t) \/ SettleRecovered(t)
                              \/ (\E k \in Keys : BeginFollowup(t, k))
                              \/ (\E k \in Keys : ExpireKey(t, k))
                              \/ (\E q \in 1..MaxQuestions : Answer(t, q))
    BY <1>1, <1>2, <2>2 DEF CreateTask, Queue, SettleRecovered, BeginFollowup, ExpireKey,
                      Answer, rows, evidence, host
  <2>3. CASE \E c \in inFlight : RememberFollowup(c) \/ LockFollowup(c)
    BY <1>1, <1>2, <2>3 DEF RememberFollowup, LockFollowup, rows, evidence, host
  <2>4. CASE Boot \/ Crash
    BY <1>1, <1>2, <2>4 DEF Boot, Crash, Restart, EvaluateAtBoot, Recover, Inv, WorkInv,
                      LockInv
  <2> QED BY <2>1, <2>2, <2>3, <2>4 DEF Next, Request
<1>3. CASE work' # work
  BY <1>1, <1>3, WorkWriters, RequestAcquires, AnswerAcquires, LockFollowupAcquires DEF Crash
<1> QED BY <1>1, <1>2, <1>3

-----------------------------------------------------------------------------
(* Turns and facts.                                                         *)

\* The operation opens the next turn of its task.
Opens ==
    /\ work # Idle /\ work \in Work /\ OpenTurn(work.task, work.key)
    /\ OpenFirstTurn \/ (Deliver /\ OpensTurn /\ work.step = "deliver")

\* A step leaves the turns of a task alone, opens one or closes the open one.
LEMMA TurnsWritten ==
    ASSUME Inv, Next, NEW t \in Tasks
    PROVE  \/ turns'[t] = turns[t]
           \/ Opens /\ work.task = t
           \/ /\ Settle \/ Recover(t)
              /\ \E outcome \in Outcomes \ {"open"} : turns'[t] = CloseTurn(t, outcome)
<1> USE DEF Inv, TypeOK, RowsOK
<1>1. CASE UNCHANGED rows BY <1>1 DEF rows
<1>2. CASE \E u \in Tasks : CreateTask(u) \/ Queue(u) \/ Cancel(u) \/ SettleRecovered(u)
  BY <1>2 DEF CreateTask, Queue, Cancel, SettleRecovered
<1>3. CASE \E u \in Tasks : Recover(u)
  <2>1. PICK u \in Tasks : Recover(u) BY <1>3
  <2>2. turns' = turns \/ turns' = [turns EXCEPT ![u] = CloseTurn(u, "interrupted")]
    BY <2>1 DEF Recover, rows
  <2>3. "interrupted" \in Outcomes \ {"open"} BY DEF Outcomes
  <2> QED BY <2>1, <2>2, <2>3
<1>4. CASE HandOver \/ StartedRunning \/ RecordAnswer \/ Apply
  BY <1>4 DEF HandOver, StartedRunning, RecordAnswer, Apply
<1>5. CASE OpenFirstTurn \/ Deliver
  <2>1. work # Idle /\ work \in Work /\ work.task \in Tasks
    BY <1>5, LockHolder DEF OpenFirstTurn, Deliver, At
  <2>2. \/ UNCHANGED turns
        \/ OpenTurn(work.task, work.key)
           /\ (OpenFirstTurn \/ (Deliver /\ OpensTurn /\ work.step = "deliver"))
    BY <1>5 DEF OpenFirstTurn, Deliver, At
  <2>3. OpenTurn(work.task, work.key) => \A u \in Tasks : u # work.task => turns'[u] = turns[u]
    BY <2>1, OpenTurnRows
  <2> QED BY <2>1, <2>2, <2>3 DEF Opens
<1>6. CASE Settle
  <2>1. /\ work.task \in Tasks /\ work # Idle /\ work.step = "settle"
        /\ \/ UNCHANGED turns
           \/ /\ turns' = [turns EXCEPT ![work.task] =
                             CloseTurn(work.task, TurnOutcome(work.to))]
              /\ work.closes
    BY <1>6, LockHolder DEF Settle, At
  <2>2. work.closes => TurnOutcome(work.to) \in Outcomes \ {"open"}
    BY <2>1 DEF ClosingInv, TurnOutcome, TurnEndingStates, Outcomes
  <2> QED BY <1>6, <2>1, <2>2
<1> QED BY <1>1, <1>2, <1>3, <1>4, <1>5, <1>6, RowsWriters

\* A turn keeps its number and its message, and a closed one its outcome; the
\* only turn added is the one the operation opens.
LEMMA TurnsKept ==
    ASSUME Inv, Next, NEW t \in Tasks
    PROVE  /\ \A n \in DOMAIN turns[t] :
                 /\ n \in DOMAIN turns'[t] /\ turns'[t][n].key = turns[t][n].key
                 /\ turns[t][n].outcome # "open" => turns'[t][n] = turns[t][n]
           /\ \A n \in DOMAIN turns'[t] : n \notin DOMAIN turns[t] =>
                 /\ Opens /\ work.task = t /\ n = LastTurn(t) + 1
                 /\ turns'[t][n] = [outcome |-> "open", key |-> work.key]
<1>0. /\ turns[t] \in Seq(Turn) /\ DOMAIN turns[t] = 1 .. Len(turns[t])
      /\ Len(turns[t]) \in Nat
      /\ \A n \in DOMAIN turns[t] : turns[t][n] \in Turn
  BY TurnsTyped DEF Inv
<1>1. CASE turns'[t] = turns[t] BY <1>1
<1>2. CASE Opens /\ work.task = t
  <2>1. turns'[t] = Append(turns[t], [outcome |-> "open", key |-> work.key])
    BY <1>2 DEF Opens, OpenTurn, Inv, TypeOK, RowsOK
  <2>2. /\ DOMAIN turns'[t] = 1 .. Len(turns[t]) + 1
        /\ \A n \in DOMAIN turns[t] : turns'[t][n] = turns[t][n]
        /\ turns'[t][Len(turns[t]) + 1] = [outcome |-> "open", key |-> work.key]
    BY <1>0, <2>1
  <2> QED BY <1>0, <1>2, <2>2 DEF LastTurn
<1>3. CASE \E outcome \in Outcomes : turns'[t] = CloseTurn(t, outcome)
  <2>1. PICK outcome \in Outcomes : turns'[t] = CloseTurn(t, outcome) BY <1>3
  <2>2. DOMAIN turns'[t] = DOMAIN turns[t] BY <2>1 DEF CloseTurn
  <2>3. \A n \in DOMAIN turns[t] :
           turns'[t][n] = IF turns[t][n].outcome = "open"
                          THEN [turns[t][n] EXCEPT !.outcome = outcome]
                          ELSE turns[t][n]
    BY <2>1 DEF CloseTurn
  <2>4. \A n \in DOMAIN turns[t] :
           [turns[t][n] EXCEPT !.outcome = outcome].key = turns[t][n].key
    BY <1>0 DEF Turn
  <2> QED BY <2>2, <2>3, <2>4
<1> QED BY <1>1, <1>2, <1>3, TurnsWritten

\* What the dispatch state of a fact never does: go back to being redrawn.
LEMMA FactsKept ==
    ASSUME Inv, Next, NEW t \in Tasks, NEW f \in Facts, NEW n \in TurnNumbers
    PROVE  /\ prework[t][f][n] \notin Replaceable => prework'[t][f][n] \notin Replaceable
           /\ prework[t][f][n] # "none" => prework'[t][f][n] # "none"
           /\ prework[t][f][n] = "turn_opened" => prework'[t][f][n] = "turn_opened"
<1>0. /\ prework \in [Tasks -> [Facts -> [TurnNumbers -> Dispatch]]]
      /\ prework[t][f][n] \in Dispatch
  BY DEF Inv, TypeOK, FactsOK
<1>1. CASE UNCHANGED prework BY <1>1
<1>2. CASE OpenTurn(work.task, work.key) /\ work.task \in Tasks
  <2> DEFINE m == LastTurn(work.task) + 1
             g(h) == IF prework[work.task][h][m] = "none" THEN prework[work.task][h]
                     ELSE [prework[work.task][h] EXCEPT ![m] = "turn_opened"]
  <2>1. prework' = [prework EXCEPT ![work.task] = [h \in Facts |-> g(h)]]
    BY <1>2 DEF OpenTurn
  <2>2. g(f)[n] = IF prework[work.task][f][m] = "none" \/ n # m
                  THEN prework[work.task][f][n] ELSE "turn_opened"
    BY <1>0, <1>2
  <2>3. t = work.task => prework'[t][f][n] = g(f)[n] BY <1>0, <2>1
  <2>4. t # work.task => prework'[t][f][n] = prework[t][f][n] BY <1>0, <2>1
  <2> HIDE DEF g
  <2> QED BY <2>2, <2>3, <2>4 DEF Replaceable
<1>3. ASSUME NEW u \in Tasks, NEW h \in Facts, NEW m \in TurnNumbers,
             NEW v \in {"captured", "dispatch_started", "dispatch_refused"},
             prework' = [prework EXCEPT ![u][h][m] = v],
             v = "captured" => prework[u][h][m] \in Replaceable,
             prework[u][h][m] # "turn_opened"
      PROVE  /\ prework[t][f][n] \notin Replaceable => prework'[t][f][n] \notin Replaceable
             /\ prework[t][f][n] # "none" => prework'[t][f][n] # "none"
             /\ prework[t][f][n] = "turn_opened" => prework'[t][f][n] = "turn_opened"
  <2>1. prework'[t][f][n] = IF t = u /\ f = h /\ n = m THEN v ELSE prework[t][f][n]
    BY <1>0, <1>3
  <2> QED BY <1>3, <2>1 DEF Replaceable
<1>4. CASE Reserve \/ MarkDispatchStarted \/ MarkDispatchRefused
  <2>1. /\ work \in Work /\ work.task \in Tasks /\ work.turn \in TurnNumbers
        /\ work.i \in 1 .. 3
    BY <1>4, LockHolder DEF Reserve, MarkDispatchStarted, MarkDispatchRefused, At
  <2>2. ReserveOrder[work.i] \in Facts /\ MarkOrder[work.i] \in Facts
    BY <2>1 DEF ReserveOrder, MarkOrder, Facts
  <2> DEFINE u == work.task
             h == ReserveOrder[work.i]
             g == MarkOrder[work.i]
             m == work.turn
  <2>a. u \in Tasks /\ h \in Facts /\ g \in Facts /\ m \in TurnNumbers BY <2>1, <2>2
  <2>3. CASE Reserve
    <3>1. \/ UNCHANGED prework
          \/ /\ prework' = [prework EXCEPT ![u][h][m] = "captured"]
             /\ prework[u][h][m] \in Replaceable
      BY <2>3 DEF Reserve
    <3>2. prework[u][h][m] \in Replaceable => prework[u][h][m] # "turn_opened"
      BY DEF Replaceable
    <3> HIDE DEF u, h, g, m
    <3> QED BY <1>1, <1>3, <2>a, <3>1, <3>2
  <2>4. CASE MarkDispatchStarted
    <3>1. \/ UNCHANGED prework
          \/ /\ prework' = [prework EXCEPT ![u][g][m] = "dispatch_started"]
             /\ prework[u][g][m] \in {"captured", "dispatch_refused"}
      BY <2>4 DEF MarkDispatchStarted
    <3> HIDE DEF u, h, g, m
    <3> QED BY <1>1, <1>3, <2>a, <3>1
  <2>5. CASE MarkDispatchRefused
    <3>1. \/ UNCHANGED prework
          \/ /\ prework' = [prework EXCEPT ![u][g][m] = "dispatch_refused"]
             /\ prework[u][g][m] = "dispatch_started"
      BY <2>5 DEF MarkDispatchRefused
    <3> HIDE DEF u, h, g, m
    <3> QED BY <1>1, <1>3, <2>a, <3>1
  <2> QED BY <1>4, <2>3, <2>4, <2>5
<1>5. CASE OpenFirstTurn \/ Deliver
  <2>1. work.task \in Tasks BY <1>5, LockHolder DEF OpenFirstTurn, Deliver, At
  <2>2. OpenTurn(work.task, work.key) \/ UNCHANGED prework
    BY <1>5 DEF OpenFirstTurn, Deliver, facts
  <2> QED BY <1>1, <1>2, <2>1, <2>2
<1> QED BY <1>1, <1>4, <1>5, FactsWriters DEF facts

\* A turn number is reached when its adapter is called, and stays reached.
LEMMA ReachedKept ==
    ASSUME Inv, Next, NEW t \in Tasks
    PROVE  /\ reached[t] \subseteq reached'[t]
           /\ \A n \in reached'[t] : n \notin reached[t] =>
                 /\ CallAdapter /\ work # Idle /\ work.step = "call" /\ work.fresh
                 /\ work.task = t /\ n = work.turn /\ UNCHANGED prework
<1>1. CASE CallAdapter
  <2>1. /\ work # Idle /\ work.step = "call" /\ work.task \in Tasks
        /\ UNCHANGED prework
        /\ reached' = IF work.fresh
                      THEN [reached EXCEPT ![work.task] = @ \cup {work.turn}]
                      ELSE reached
    BY <1>1, LockHolder DEF CallAdapter, At, facts
  <2> QED BY <1>1, <2>1 DEF Inv, TypeOK, HistoryOK
<1>2. CASE UNCHANGED reached BY <1>2
<1> QED BY <1>1, <1>2, HistoryWriters DEF history, AdapterReports, RememberFollowup

\* The facts are reserved one after the other, and then marked.
LEMMA ReserveFreezes ==
    ASSUME Inv, FactsInv, Reserve
    PROVE  FreezingInv'
<1> DEFINE t == work.task
           n == work.turn
<1>1. /\ work \in Work /\ work # Idle /\ work.step = "reserve" /\ t \in Tasks
      /\ n \in TurnNumbers /\ work.i \in 1 .. 3 /\ work.fresh
  BY LockHolder DEF Reserve, At, Inv, WorkInv, StepInv
<1>2. Next /\ WorkStep BY DEF Next, WorkStep, DispatchStep
<1>3. work' = Idle \/ SameOperation BY <1>2, OperationGoesOn
<1>4. ReserveOrder[work.i] \in Facts BY <1>1 DEF ReserveOrder, Facts
<1>5. prework'[t][ReserveOrder[work.i]][n] # "none"
  <2>1. CASE prework[t][ReserveOrder[work.i]][n] \in Replaceable
    <3>1. prework' = [prework EXCEPT ![t][ReserveOrder[work.i]][n] = "captured"]
      BY <2>1 DEF Reserve
    <3>2. prework \in [Tasks -> [Facts -> [TurnNumbers -> Dispatch]]]
      BY DEF Inv, TypeOK, FactsOK
    <3>3. prework'[t][ReserveOrder[work.i]][n] = "captured"
      BY <1>1, <1>4, <3>1, <3>2
    <3> QED BY <3>3
  <2>2. CASE prework[t][ReserveOrder[work.i]][n] \notin Replaceable
    BY <1>1, <1>2, <1>4, <2>2, FactsKept DEF Replaceable
  <2> QED BY <2>1, <2>2
<1>6. \A j \in 1 .. 3 : j < work.i => prework'[t][ReserveOrder[j]][n] # "none"
  <2> SUFFICES ASSUME NEW j \in 1 .. 3, j < work.i
               PROVE  prework'[t][ReserveOrder[j]][n] # "none"
    OBVIOUS
  <2>1. ReserveOrder[j] \in Facts BY DEF ReserveOrder, Facts
  <2>2. prework[t][ReserveOrder[j]][n] # "none" BY <1>1 DEF FactsInv, FreezingInv
  <2> QED BY <1>1, <1>2, <2>1, <2>2, FactsKept
<1>7. \A j \in 1 .. 3 : j < work.i + 1 => prework'[t][ReserveOrder[j]][n] # "none"
  BY <1>1, <1>5, <1>6
<1>8. \/ work'.i = work.i + 1 /\ work'.step = "reserve"
      \/ work'.i = 1 /\ work'.step = "mark" /\ work.i = 3
  BY <1>1, LoopGoesOn DEF Reserve
<1>9. work.i = 3 => \A f \in Facts : prework'[t][f][n] # "none"
  <2> SUFFICES ASSUME work.i = 3, NEW f \in Facts PROVE prework'[t][f][n] # "none"
    OBVIOUS
  <2>1. PICK j \in 1 .. 3 : f = ReserveOrder[j] BY DEF Facts, ReserveOrder
  <2> QED BY <1>7, <2>1
<1>10. SameOperation => work'.task = t /\ work'.turn = n BY DEF SameOperation
<1> HIDE DEF t, n
<1>11. CASE work'.i = work.i + 1 /\ work'.step = "reserve"
  BY <1>3, <1>7, <1>10, <1>11 DEF FreezingInv
<1>12. CASE work'.i = 1 /\ work'.step = "mark" /\ work.i = 3
  BY <1>3, <1>9, <1>10, <1>12 DEF FreezingInv
<1> QED BY <1>8, <1>11, <1>12

\* Marking the facts one by one leaves none to be redrawn when the adapter
\* is called.
LEMMA MarkFreezes ==
    ASSUME Inv, FactsInv, MarkDispatchStarted
    PROVE  FreezingInv'
<1> DEFINE t == work.task
           n == work.turn
<1>1. /\ work \in Work /\ work # Idle /\ work.step = "mark" /\ t \in Tasks
      /\ n \in TurnNumbers /\ work.i \in 1 .. 3 /\ work.fresh
  BY LockHolder DEF MarkDispatchStarted, At, Inv, WorkInv, StepInv
<1>2. Next /\ WorkStep BY DEF Next, WorkStep, DispatchStep
<1>3. work' = Idle \/ SameOperation BY <1>2, OperationGoesOn
<1>4. MarkOrder[work.i] \in Facts BY <1>1 DEF MarkOrder, Facts
<1>5. \A f \in Facts : prework'[t][f][n] # "none"
  BY <1>1, <1>2, FactsKept DEF FactsInv, FreezingInv
<1>6. prework'[t][MarkOrder[work.i]][n] \notin Replaceable
  <2>0. /\ prework \in [Tasks -> [Facts -> [TurnNumbers -> Dispatch]]]
        /\ prework[t][MarkOrder[work.i]][n] \in Dispatch
    BY <1>1, <1>4 DEF Inv, TypeOK, FactsOK
  <2>1. CASE prework[t][MarkOrder[work.i]][n] \in {"captured", "dispatch_refused"}
    <3>1. prework' = [prework EXCEPT ![t][MarkOrder[work.i]][n] = "dispatch_started"]
      BY <2>1 DEF MarkDispatchStarted
    <3>2. prework'[t][MarkOrder[work.i]][n] = "dispatch_started"
      BY <1>1, <1>4, <2>0, <3>1
    <3> QED BY <3>2 DEF Replaceable
  <2>2. CASE prework[t][MarkOrder[work.i]][n] \notin {"captured", "dispatch_refused"}
    <3>1. prework' = prework BY <2>2 DEF MarkDispatchStarted
    <3> QED BY <1>4, <1>5, <2>2, <3>1 DEF Replaceable
  <2> QED BY <2>1, <2>2
<1>7. \A j \in 1 .. 3 : j < work.i => prework'[t][MarkOrder[j]][n] \notin Replaceable
  <2> SUFFICES ASSUME NEW j \in 1 .. 3, j < work.i
               PROVE  prework'[t][MarkOrder[j]][n] \notin Replaceable
    OBVIOUS
  <2>1. MarkOrder[j] \in Facts BY DEF MarkOrder, Facts
  <2>2. prework[t][MarkOrder[j]][n] \notin Replaceable
    BY <1>1 DEF FactsInv, FreezingInv
  <2> QED BY <1>1, <1>2, <2>1, <2>2, FactsKept
<1>8. \A j \in 1 .. 3 : j < work.i + 1 => prework'[t][MarkOrder[j]][n] \notin Replaceable
  BY <1>1, <1>6, <1>7
<1>9. \/ work'.i = work.i + 1 /\ work'.step = "mark"
      \/ work'.i = 1 /\ work'.step = "call" /\ work.i = 3
  BY <1>1, LoopGoesOn DEF MarkDispatchStarted
<1>10. work.i = 3 => \A f \in Facts : prework'[t][f][n] \notin Replaceable
  <2> SUFFICES ASSUME work.i = 3, NEW f \in Facts
               PROVE  prework'[t][f][n] \notin Replaceable
    OBVIOUS
  <2>1. PICK j \in 1 .. 3 : f = MarkOrder[j] BY DEF Facts, MarkOrder
  <2> QED BY <1>8, <2>1
<1>11. SameOperation => work'.task = t /\ work'.turn = n BY DEF SameOperation
<1> HIDE DEF t, n
<1>12. CASE work'.i = work.i + 1 /\ work'.step = "mark"
  BY <1>3, <1>5, <1>8, <1>11, <1>12 DEF FreezingInv
<1>13. CASE work'.i = 1 /\ work'.step = "call" /\ work.i = 3
  BY <1>3, <1>10, <1>11, <1>13 DEF FreezingInv
<1> QED BY <1>9, <1>12, <1>13

\* The other steps of the lock holder keep what is fixed.
LEMMA WorkFreezes ==
    ASSUME Inv, FactsInv, WorkStep
    PROVE  FreezingInv'
<1>0. Next BY DEF Next
<1>1. /\ work \in Work /\ work # Idle /\ work.task \in Tasks /\ work.turn \in TurnNumbers
      /\ work' = Idle \/ SameOperation
  BY LockHolder, OperationGoesOn
<1>2. CASE work' = Idle BY <1>2 DEF FreezingInv
<1>3. CASE ~ work.fresh /\ SameOperation BY <1>3 DEF FreezingInv, SameOperation
<1>4. CASE work.fresh /\ SameOperation
  <2>1. reached[work.task] \subseteq reached'[work.task] BY <1>0, <1>1, ReachedKept
  <2>2. CASE HandOver
    <3>1. work'.step = "reserve" /\ work'.i = 1
      BY <1>1, <1>4, <2>2 DEF HandOver, At, FactsInv, FreezingInv, Work
    <3> QED BY <3>1 DEF FreezingInv
  <2>3. CASE Reserve BY <2>3, ReserveFreezes
  <2>4. CASE MarkDispatchStarted BY <2>4, MarkFreezes
  <2>5. CASE CallAdapter
    <3>1. work'.step = "adapter" /\ work.turn \in reached'[work.task]
      BY <1>1, <1>4, <2>5, GotoFields DEF CallAdapter, Inv, TypeOK, HistoryOK
    <3> QED BY <1>4, <3>1 DEF FreezingInv, SameOperation
  <2>6. CASE AdapterReports \/ StartedRunning
    <3>1. /\ work.step \in {"adapter", "running"}
          /\ work'.step \in {"running", "open", "deliver", "apply"}
      BY <1>1, <1>4, <2>6, GotoFields
         DEF AdapterReports, StartedRunning, At, Work, SameOperation
    <3>2. work.turn \in reached'[work.task]
      BY <1>1, <1>4, <2>1, <3>1 DEF FactsInv, FreezingInv
    <3> QED BY <1>4, <3>1, <3>2 DEF FreezingInv, SameOperation
  <2>7. CASE \/ RefuseLineage \/ AdapterConsents \/ AdapterRefuses \/ AdapterFaults
             \/ OpenFirstTurn \/ SettleStep
    <3>1. work'.step \notin {"handover", "reserve", "mark", "call", "adapter",
                             "running", "open", "deliver"}
      BY <1>4, <2>7, StepsFollow DEF SettleStep
    <3> QED BY <3>1 DEF FreezingInv
  <2>8. CASE MarkDispatchRefused
    <3>1. work'.step \in {"unmark", "fail"}
      BY <1>1, <1>4, <2>8, LoopGoesOn DEF MarkDispatchRefused, At, Return, SameOperation
    <3> QED BY <3>1 DEF FreezingInv
  <2> QED BY <2>2, <2>3, <2>4, <2>5, <2>6, <2>7, <2>8
          DEF WorkStep, StartStep, DispatchStep, AdapterStep
<1> QED BY <1>1, <1>2, <1>3, <1>4, WorkFields

\* Only the operation opens turns of its task, so its number stays the next
\* one.
LEMMA WorkNumbers ==
    ASSUME Inv, FactsInv, WorkStep
    PROVE  NumberInv'
<1>0. Next BY DEF Next
<1>1. /\ work \in Work /\ work # Idle /\ work.task \in Tasks
      /\ (work' = Idle \/ SameOperation) /\ mode = "up"
  BY LockHolder, OperationGoesOn
<1>2. SUFFICES ASSUME SameOperation, work'.fresh, work'.step \in PreparingSteps
               PROVE  work.turn = Len(turns'[work.task]) + 1
  BY <1>1 DEF NumberInv, SameOperation, LastTurn
<1>3. /\ work.step \in PreparingSteps /\ work.fresh
      /\ ~ OpenFirstTurn /\ ~ Deliver /\ ~ Settle
  BY <1>2, StepsFollow DEF WorkStep, StartStep, DispatchStep, AdapterStep, SettleStep,
                           PreparingSteps, SameOperation
<1>4. turns'[work.task] = turns[work.task]
  BY <1>0, <1>1, <1>3, TurnsWritten DEF Opens, Recover
<1> QED BY <1>1, <1>3, <1>4 DEF FactsInv, NumberInv, LastTurn

\* Beside the work, nothing is fixed and nothing is opened.
LEMMA BesideFreezes ==
    ASSUME Inv, FactsInv, Next, ~ WorkStep
    PROVE  NumberInv' /\ FreezingInv'
<1>1. UNCHANGED <<prework, reached>> BY BesideTheWork DEF facts
<1>2. CASE work' = Idle BY <1>2 DEF NumberInv, FreezingInv
<1>3. CASE UNCHANGED <<work, turns>>
  BY <1>1, <1>3 DEF FactsInv, NumberInv, FreezingInv, LastTurn
<1>4. CASE Acquired
  <2>1. NumberInv' BY <1>4 DEF Acquired, NumberInv, LastTurn
  <2>2. FreezingInv'
    <3>1. \A j \in 1 .. 3 : ~ (j < 1) OBVIOUS
    <3>2. work'.fresh => work'.i = 1 /\ work'.step \in {"handover", "reserve"}
      BY <1>4 DEF Acquired
    <3> QED BY <3>1, <3>2 DEF FreezingInv
  <2> QED BY <2>1, <2>2
<1> QED BY <1>2, <1>3, <1>4, BesideTheWork

\* Whatever is retried or crashes, an adapter works under facts that are fixed,
\* and a turn is bound to those it was handed over under.
LEMMA FactsStep ==
    ASSUME Inv, FactsInv, Next
    PROVE  FactsInv'
<1>1. NumberInv' /\ FreezingInv' BY WorkFreezes, WorkNumbers, BesideFreezes
<1>2. reached \in [Tasks -> SUBSET TurnNumbers] BY DEF Inv, TypeOK, HistoryOK
<1>3. FrozenBeforeReached'
  <2> SUFFICES ASSUME NEW t \in Tasks, NEW n \in reached'[t], NEW f \in Facts
               PROVE  prework'[t][f][n] \notin Replaceable
    BY DEF FrozenBeforeReached
  <2>1. CASE n \in reached[t]
    <3>1. n \in TurnNumbers /\ prework[t][f][n] \notin Replaceable
      BY <1>2, <2>1 DEF FactsInv, FrozenBeforeReached
    <3> QED BY <3>1, FactsKept
  <2>2. CASE n \notin reached[t]
    <3>1. /\ work # Idle /\ work.step = "call" /\ work.fresh /\ work.task = t
          /\ n = work.turn /\ UNCHANGED prework
      BY <2>2, ReachedKept
    <3> QED BY <3>1 DEF FactsInv, FreezingInv
  <2> QED BY <2>1, <2>2
<1>4. TurnStandsOnItsFacts'
  <2> SUFFICES ASSUME NEW t \in Tasks, NEW n \in DOMAIN turns'[t]
               PROVE  n \in reached'[t] /\ \A f \in Facts : prework'[t][f][n] = "turn_opened"
    BY DEF TurnStandsOnItsFacts
  <2>1. CASE n \in DOMAIN turns[t]
    <3>1. n \in reached[t] /\ \A f \in Facts : prework[t][f][n] = "turn_opened"
      BY <2>1 DEF FactsInv, TurnStandsOnItsFacts
    <3>2. n \in TurnNumbers BY <1>2, <3>1
    <3> QED BY <3>1, <3>2, FactsKept, ReachedKept
  <2>2. CASE n \notin DOMAIN turns[t]
    <3>1. Opens /\ work.task = t /\ n = LastTurn(t) + 1 BY <2>2, TurnsKept
    <3>2. work # Idle /\ work.fresh /\ work.step \in {"open", "deliver"}
      BY <3>1 DEF Opens, OpenFirstTurn, At, Inv, WorkInv, StepInv, OpensTurn
    <3>3. n = work.turn /\ n \in reached[t]
      BY <3>1, <3>2 DEF FactsInv, NumberInv, FreezingInv, PreparingSteps
    <3>4. ASSUME NEW f \in Facts PROVE prework'[t][f][n] = "turn_opened"
      <4> DEFINE g(h) == IF prework[t][h][n] = "none" THEN prework[t][h]
                         ELSE [prework[t][h] EXCEPT ![n] = "turn_opened"]
      <4>1. prework' = [prework EXCEPT ![t] = [h \in Facts |-> g(h)]]
        BY <3>1 DEF Opens, OpenTurn
      <4>2. prework[t][f][n] # "none"
        BY <3>3 DEF FactsInv, FrozenBeforeReached, Replaceable
      <4>3. /\ prework \in [Tasks -> [Facts -> [TurnNumbers -> Dispatch]]]
            /\ n \in TurnNumbers
        BY <1>2, <3>3 DEF Inv, TypeOK, FactsOK
      <4>4. g(f)[n] = "turn_opened" BY <4>2, <4>3
      <4> HIDE DEF g
      <4>5. prework'[t][f] = g(f) BY <4>1, <4>3
      <4> QED BY <4>4, <4>5
    <3> QED BY <3>3, <3>4, ReachedKept
  <2> QED BY <2>1, <2>2
<1> QED BY <1>1, <1>3, <1>4 DEF FactsInv

-----------------------------------------------------------------------------
(* Judgements.                                                              *)

\* A judgement is given on a closed turn, and a closed turn stays closed.
LEMMA JudgedStep ==
    ASSUME Inv, JudgedInv, Next
    PROVE  JudgedInv'
<1> SUFFICES ASSUME NEW t \in Tasks, NEW n \in evaluated'[t]
             PROVE  n \in DOMAIN turns'[t] /\ turns'[t][n].outcome # "open"
  BY DEF JudgedInv
<1>1. n \in DOMAIN turns[t] /\ turns[t][n].outcome # "open"
  <2>1. CASE n \in evaluated[t] BY <2>1 DEF JudgedInv
  <2>2. CASE n \notin evaluated[t]
    <3>1. evaluated'[t] \subseteq evaluated[t] \cup AwaitingEvaluation(t)
      <4>1. CASE Evaluate
        BY <4>1, LockHolder DEF Evaluate, At, Inv, TypeOK, EvidenceOK
      <4>2. CASE EvaluateAtBoot BY <4>2 DEF EvaluateAtBoot, Inv, TypeOK, EvidenceOK
      <4>3. CASE UNCHANGED evaluated BY <4>3
      <4> QED BY <4>1, <4>2, <4>3, EvidenceWriters DEF evidence, CaptureRange, CaptureFinal
    <3> QED BY <2>2, <3>1 DEF AwaitingEvaluation
  <2> QED BY <2>1, <2>2
<1> QED BY <1>1, TurnsKept

\* The snapshot of criteria is drawn once more only for a number whose facts
\* could still be redrawn, which no adapter was called for.
LEMMA CriteriaKept ==
    ASSUME Inv, FactsInv, Next, NEW t \in Tasks, NEW n \in reached[t]
    PROVE  asker'[t][n] = asker[t][n]
<1>1. CASE Reserve
  <2>1. work.task \in Tasks /\ work.turn \in TurnNumbers
    BY <1>1, LockHolder DEF Reserve, At
  <2>2. \/ UNCHANGED asker
        \/ /\ prework[work.task]["criteria"][work.turn] \in Replaceable
           /\ asker' = [asker EXCEPT ![work.task][work.turn] = work.key]
    BY <1>1 DEF Reserve
  <2>3. ~ (t = work.task /\ n = work.turn
           /\ prework[work.task]["criteria"][work.turn] \in Replaceable)
    BY DEF FactsInv, FrozenBeforeReached, Facts
  <2> QED BY <2>1, <2>2, <2>3 DEF Inv, TypeOK, FactsOK, HistoryOK
<1>2. CASE UNCHANGED asker BY <1>2
<1> QED BY <1>1, <1>2, FactsWriters
        DEF facts, OpenFirstTurn, OpenTurn, Deliver, MarkDispatchStarted,
            MarkDispatchRefused

\* Nothing a judgement was given on is written again.
LEMMA JudgementKept ==
    ASSUME Inv, FactsInv, JudgedInv, Next, NEW t \in Tasks, NEW n \in evaluated[t]
    PROVE  /\ turns'[t][n] = turns[t][n]
           /\ asker'[t][n] = asker[t][n]
           /\ (n \in ranged'[t]) <=> (n \in ranged[t])
           /\ (n \in finals'[t]) <=> (n \in finals[t])
<1>1. n \in DOMAIN turns[t] /\ turns[t][n].outcome # "open" BY DEF JudgedInv
<1>2. turns'[t][n] = turns[t][n] BY <1>1, TurnsKept
<1>3. n \in reached[t] BY <1>1 DEF FactsInv, TurnStandsOnItsFacts
<1>4. asker'[t][n] = asker[t][n] BY <1>3, CriteriaKept
<1>5. n \notin CurrentTurn(t) BY <1>1 DEF CurrentTurn
<1>6. /\ n \in ranged'[t] <=> n \in ranged[t]
      /\ n \in finals'[t] <=> n \in finals[t]
  <2>1. CASE CaptureRange \/ CaptureFinal
    BY <1>5, <2>1, LockHolder DEF CaptureRange, CaptureFinal, At, Inv, TypeOK, EvidenceOK
  <2>2. CASE UNCHANGED <<ranged, finals>> BY <2>2
  <2> QED BY <2>1, <2>2, EvidenceWriters DEF evidence, Evaluate, EvaluateAtBoot
<1> QED BY <1>2, <1>4, <1>6

-----------------------------------------------------------------------------
(* Questions.                                                               *)

\* Closing the pending questions of a task leaves none pending.
LEMMA ClosedQuestions ==
    ASSUME Inv, NEW t \in Tasks, NEW status, status # "pending"
    PROVE  /\ DOMAIN ClosePending(t, status) = DOMAIN questions[t]
           /\ {q \in DOMAIN ClosePending(t, status) :
                  ClosePending(t, status)[q] = "pending"} = {}
BY DEF ClosePending

\* The questions of a task are finitely many.
LEMMA PendingFinite ==
    ASSUME Inv, NEW t \in Tasks
    PROVE  IsFiniteSet(Pending(t)) /\ Cardinality(Pending(t)) \in Nat
           /\ Len(questions[t]) \in Nat /\ DOMAIN questions[t] = 1 .. Len(questions[t])
<1>1. Len(questions[t]) \in Nat /\ DOMAIN questions[t] = 1 .. Len(questions[t])
  BY DEF Inv, TypeOK, RowsOK
<1>2. IsFiniteSet(1 .. Len(questions[t])) BY <1>1, FS_Interval
<1>3. IsFiniteSet(Pending(t)) BY <1>1, <1>2, FS_Subset DEF Pending
<1> QED BY <1>1, <1>3, FS_CardinalityType

\* Pending, of the rows after the step.
PendingNext(t) == {q \in DOMAIN questions'[t] : questions'[t][q] = "pending"}

\* A step leaves the questions of a task alone, settles some or all of them, or
\* has one more with room for it, and only for a task that waits.
LEMMA QuestionsWritten ==
    ASSUME Inv, QuestionsInv, Next, NEW t \in Tasks
    PROVE  \/ PendingNext(t) \subseteq Pending(t)
           \/ /\ HasRoom(t) /\ state'[t] = "waiting_for_user"
              /\ \E q \in Nat : PendingNext(t) = Pending(t) \cup {q}
<1> USE DEF Inv, TypeOK, RowsOK
<1>1. CASE UNCHANGED questions BY <1>1 DEF PendingNext, Pending
<1>2. ASSUME NEW u \in Tasks, NEW status, status # "pending",
             questions' = [questions EXCEPT ![u] = ClosePending(u, status)]
      PROVE  PendingNext(t) \subseteq Pending(t)
  BY <1>2, ClosedQuestions DEF PendingNext, Pending
<1>3. ASSUME NEW u \in Tasks, HasRoom(u), state'[u] = "waiting_for_user",
             questions' = [questions EXCEPT ![u] = Append(questions[u], "pending")]
      PROVE  \/ PendingNext(t) \subseteq Pending(t)
             \/ /\ HasRoom(t) /\ state'[t] = "waiting_for_user"
                /\ \E q \in Nat : PendingNext(t) = Pending(t) \cup {q}
  <2>1. CASE t = u
    <3>1. questions'[t] = Append(questions[t], "pending") BY <1>3, <2>1
    <3>2. questions[t] \in Seq(QuestionStatus) /\ Len(questions[t]) \in Nat OBVIOUS
    <3> DEFINE L == Len(questions[t])
    <3>3. /\ DOMAIN questions'[t] = 1 .. L + 1 /\ DOMAIN questions[t] = 1 .. L
          /\ questions'[t][L + 1] = "pending"
          /\ \A q \in 1 .. L : questions'[t][q] = questions[t][q]
      BY <3>1, <3>2
    <3>4. PendingNext(t) = Pending(t) \cup {L + 1}
      BY <3>2, <3>3 DEF PendingNext, Pending
    <3>5. L + 1 \in Nat BY <3>2
    <3> HIDE DEF L
    <3> QED BY <1>3, <2>1, <3>4, <3>5
  <2>2. CASE t # u BY <1>3, <2>2 DEF PendingNext, Pending
  <2> QED BY <2>1, <2>2
<1>4. CASE \E u \in Tasks : Recover(u)
  <2>1. PICK u \in Tasks : Recover(u) BY <1>4
  <2>2. \/ UNCHANGED questions
        \/ questions' = [questions EXCEPT ![u] = ClosePending(u, "superseded")]
    BY <2>1 DEF Recover, rows
  <2> QED BY <1>1, <1>2, <2>2
<1>5. CASE RecordAnswer
  <2>1. questions' = [questions EXCEPT ![work.task][work.question] = "answered"]
        /\ work.task \in Tasks
    BY <1>5, LockHolder DEF RecordAnswer, At
  <2>2. \A u \in Tasks : /\ DOMAIN questions'[u] = DOMAIN questions[u]
                         /\ \A q \in DOMAIN questions[u] :
                               questions'[u][q] \in {questions[u][q], "answered"}
    BY <2>1
  <2> QED BY <2>2 DEF PendingNext, Pending
<1>6. CASE Apply
  <2>1. work # Idle /\ work.task \in Tasks /\ UNCHANGED state
    BY <1>6, LockHolder DEF Apply, At
  <2>2. \/ UNCHANGED questions
        \/ /\ work.asks /\ HasRoom(work.task) /\ work.to = state[work.task]
           /\ questions' = [questions EXCEPT ![work.task] =
                               Append(questions[work.task], "pending")]
    BY <1>6 DEF Apply
  <2>3. work.asks => work.to = "waiting_for_user"
    BY <2>1 DEF QuestionsInv, AskingInv
  <2> QED BY <1>1, <1>3, <2>1, <2>2, <2>3
<1>7. CASE Settle
  <2>1. work # Idle /\ work.task \in Tasks /\ work.step = "settle"
        /\ state'[work.task] = work.to
        /\ questions' = [questions EXCEPT ![work.task] = SettledQuestions(work.task)]
    BY <1>7, LockHolder DEF Settle, At, Move
  <2>2. CASE SettledQuestions(work.task) = questions[work.task]
    BY <1>1, <2>1, <2>2
  <2>3. CASE \E status : /\ status # "pending"
                         /\ SettledQuestions(work.task) = ClosePending(work.task, status)
    BY <1>2, <2>1, <2>3
  <2>4. CASE work.asks /\ SettledQuestions(work.task) = Append(questions[work.task], "pending")
    <3>1. work.to = "waiting_for_user" /\ HasRoom(work.task)
      BY <2>1, <2>4 DEF QuestionsInv, AskingInv
    <3> QED BY <1>3, <2>1, <2>4, <3>1
  <2>5. /\ "superseded" # "pending" /\ "cancelled" # "pending" OBVIOUS
  <2> QED BY <2>2, <2>3, <2>4, <2>5 DEF SettledQuestions
<1> QED BY <1>1, <1>4, <1>5, <1>6, <1>7, RowsWriters
        DEF rows, CreateTask, Queue, Cancel, SettleRecovered, HandOver, StartedRunning,
            OpenFirstTurn, Deliver

\* What stops a task closes its questions in the same transaction.
LEMMA StopsClose ==
    ASSUME Inv, QuestionsInv, Next, NEW t \in Tasks,
           state[t] \notin {"cancelled", "interrupted", "recovery_required"},
           state'[t] \in {"cancelled", "interrupted", "recovery_required"}
    PROVE  PendingNext(t) = {}
<1> USE DEF Inv, TypeOK, RowsOK
<1>1. CASE \E u \in Tasks : Recover(u)
  <2>1. PICK u \in Tasks : Recover(u) BY <1>1
  <2>2. u = t /\ questions' = [questions EXCEPT ![u] = ClosePending(u, "superseded")]
    BY <2>1 DEF Recover, rows, Move
  <2> QED BY <2>2, ClosedQuestions DEF PendingNext
<1>2. CASE Settle
  <2>1. /\ work # Idle /\ work.task = t /\ work.step = "settle" /\ state'[t] = work.to
        /\ questions' = [questions EXCEPT ![t] = SettledQuestions(t)]
    BY <1>2, LockHolder DEF Settle, At, Move
  <2>2. work.to = "cancelled"
    BY <2>1 DEF WorkInv, StepInv, Reported, TurnEndingStates
  <2>3. ~ work.failing /\ work.op # "finish"
    BY <2>1, <2>2 DEF QuestionsInv, AskingInv
  <2>4. SettledQuestions(t) = ClosePending(t, "cancelled")
    BY <2>2, <2>3 DEF SettledQuestions, Terminal
  <2>5. questions'[t] = ClosePending(t, "cancelled") BY <2>1, <2>4
  <2>6. {q \in DOMAIN ClosePending(t, "cancelled") :
           ClosePending(t, "cancelled")[q] = "pending"} = {}
    BY ClosedQuestions
  <2> QED BY <2>5, <2>6 DEF PendingNext
<1>3. ASSUME \/ \E u \in Tasks : CreateTask(u) \/ Queue(u) \/ Cancel(u) \/ SettleRecovered(u)
             \/ HandOver \/ StartedRunning \/ RecordAnswer \/ Deliver
      PROVE  FALSE
  BY <1>3, LockHolder
     DEF CreateTask, Queue, Cancel, SettleRecovered, HandOver, StartedRunning,
         RecordAnswer, Deliver, Move, At
<1>4. ASSUME UNCHANGED rows \/ OpenFirstTurn \/ Apply PROVE FALSE
  BY <1>4 DEF rows, OpenFirstTurn, Apply
<1> QED BY <1>1, <1>2, <1>3, <1>4, RowsWriters

\* What the reports of the shipped adapters have in common.
LEMMA ReportsTell ==
    ASSUME NEW op, NEW t, NEW r \in ReportsOn(op, t)
    PROVE  /\ op \in {"start", "followup", "refresh", "cancel"}
           /\ r.asks => r.to = "waiting_for_user"
           /\ r.to = "waiting_for_user" => op \in {"start", "refresh"}
           /\ r.to = "waiting_for_user" /\ op = "refresh" => session[t] = "busy"
           /\ r.to = "ready_for_followup" => r.leaves = "idle"
           /\ r.leaves = "busy" /\ op \notin {"start", "followup"} => session[t] = "busy"
           /\ session[t] = "none" =>
                 /\ op \in {"start", "refresh"}
                 /\ op = "refresh" => r.to = "none" /\ r.leaves = "none"
           /\ t \in Recoverable /\ op = "start" => r.leaves = "none"
<1>1. op \in {"start", "followup", "refresh", "cancel"} BY DEF ReportsOn
<1>2. CASE op = "start" BY <1>2 DEF ReportsOn, StartReports, Says, Ended
<1>3. CASE op = "followup" BY <1>3 DEF ReportsOn, FollowupReports, Says
<1>4. CASE op = "refresh" BY <1>4 DEF ReportsOn, InspectReports, Says, Ended
<1>5. CASE op = "cancel" BY <1>5 DEF ReportsOn, CancelReports, Says, Ended
<1> QED BY <1>1, <1>2, <1>3, <1>4, <1>5

\* What an operation has learnt once its adapter has reported.
LEMMA ReportArrives ==
    ASSUME Inv, AdapterReports
    PROVE  \E r \in ReportsOn(work.op, work.task) :
              /\ session' = [session EXCEPT ![work.task] = r.leaves]
              /\ \/ work' = Idle
                 \/ /\ SameOperation /\ work'.to = r.to /\ work'.asks = r.asks
                    /\ work'.failing = work.failing
                    /\ work'.step = CASE work.op = "start" -> "running"
                                      [] work.op = "followup" -> "deliver"
                                      [] OTHER -> "apply"
<1>1. work \in Work /\ WorkStep
  BY LockHolder DEF AdapterReports, At, WorkStep, AdapterStep
<1>2. PICK r \in Report :
          /\ r \in ReportsOn(work.op, work.task)
          /\ session' = [session EXCEPT ![work.task] = r.leaves]
          /\ work' = IF work.op = "refresh" /\ r.to = "none" THEN Idle
                     ELSE [work EXCEPT
                             !.to = r.to, !.asks = r.asks,
                             !.step = CASE work.op = "start" -> "running"
                                        [] work.op = "followup" -> "deliver"
                                        [] OTHER -> "apply"]
  BY DEF AdapterReports
<1>3. CASE work' = Idle BY <1>2, <1>3
<1>4. CASE work' # Idle
  <2>1. SameOperation BY <1>1, <1>4, OperationGoesOn
  <2> QED BY <1>1, <1>2, <1>4, <2>1 DEF Work
<1> QED BY <1>3, <1>4

\* A question is carried from the report that asks it to the row, with room
\* for it.
LEMMA AskingStep ==
    ASSUME Inv, QuestionsInv, Next
    PROVE  AskingInv'
<1>1. CASE work' = Idle BY <1>1 DEF AskingInv
<1>2. CASE ~ WorkStep /\ work' # Idle
  <2>1. CASE UNCHANGED <<work, questions>>
    BY <2>1 DEF QuestionsInv, AskingInv, HasRoom, Pending
  <2>2. CASE Acquired BY <2>2 DEF Acquired, AskingInv
  <2> QED BY <1>2, <2>1, <2>2, BesideTheWork
<1>3. CASE WorkStep /\ SameOperation
  <2>1. /\ work \in Work /\ work # Idle /\ work.task \in Tasks
        /\ work.asks \in BOOLEAN /\ work.failing \in BOOLEAN
    BY <1>3, OperationGoesOn, WorkFields
  <2> DEFINE Told(w) == /\ w.asks => /\ w.to = "waiting_for_user"
                                     /\ w.step \in {"running", "open", "deliver", "apply"}
                                                     \cup Closing
                        /\ w.failing => \/ w.step \in {"unmark", "fail"}
                                        \/ w.to = "failed" /\ w.step \in Closing
                        /\ w.op = "finish" => \/ w.step \in {"adapter", "fail"}
                                              \/ w.to \in {"completed", "failed"}
  <2>2. Told(work) /\ (work.asks /\ work.step \in {"range", "final", "settle"}
                         => HasRoom(work.task))
    BY <2>1 DEF QuestionsInv, AskingInv
  <2>3. SUFFICES /\ Told(work')
                 /\ work'.asks /\ work'.step \in {"range", "final", "settle"} =>
                      Cardinality(PendingNext(work.task)) < MaxPending
    BY <1>3 DEF AskingInv, SameOperation, HasRoom, Pending, PendingNext
  <2>4. CASE AdapterReports
    <3>1. PICK r \in ReportsOn(work.op, work.task) :
             /\ work'.to = r.to /\ work'.asks = r.asks /\ work'.failing = work.failing
             /\ work'.step \in {"running", "deliver", "apply"}
      BY <1>3, <2>4, ReportArrives DEF SameOperation
    <3>2. work.op # "finish" /\ (r.asks => r.to = "waiting_for_user")
      BY <3>1, ReportsTell
    <3>3. ~ work.failing
      BY <1>3, <2>2, <2>4, StepsFollow DEF Closing
    <3> QED BY <1>3, <3>1, <3>2, <3>3 DEF SameOperation, Closing
  <2>5. CASE StartStep \/ DispatchStep \/ Deliver
    <3>1. work'.asks = work.asks /\ work'.to = work.to /\ work'.failing = work.failing
      BY <1>3, <2>1, <2>5, GotoFields
         DEF StartStep, DispatchStep, HandOver, StartedRunning, OpenFirstTurn, Reserve,
             RefuseLineage, MarkDispatchStarted, MarkDispatchRefused, CallAdapter,
             Deliver, Loop, Return, Work, SameOperation
    <3>2. /\ work'.step \notin Closing
          /\ work.step \in {"running", "open", "deliver"} => work'.step \in {"open", "apply"}
          /\ work.step = "unmark" => work'.step \in {"unmark", "fail"}
          /\ work.step \notin Closing \cup {"fail", "adapter", "apply"}
      BY <1>3, <2>5, StepsFollow DEF StartStep, DispatchStep, Closing
    <3>3. work.failing => work'.step \in {"unmark", "fail"} BY <2>2, <3>2
    <3>4. work.asks => work.to = "waiting_for_user" /\ work'.step \in {"open", "apply"}
      BY <2>2, <3>2
    <3>5. work'.op = "finish" => work'.to \in {"completed", "failed"}
      BY <1>3, <2>2, <3>1, <3>2 DEF SameOperation
    <3> QED BY <3>1, <3>2, <3>3, <3>4, <3>5 DEF Closing
  <2>6. CASE AdapterConsents
    <3>1. /\ work'.asks = work.asks /\ work'.failing = work.failing
          /\ work'.to \in {work.to, "completed"}
          /\ work.op = "finish" => work'.to = "completed"
          /\ work.op # "finish" => work'.to = work.to
      <4>1. CASE work.op = "answer" /\ Goto("answered")
        BY <2>1, <4>1, GotoFields, StepsFollow
      <4>2. CASE /\ work.op = "finish"
                 /\ work' = [work EXCEPT !.step = "settle", !.to = "completed"]
        BY <2>1, <4>2 DEF Work
      <4> QED BY <2>6, <4>1, <4>2 DEF AdapterConsents
    <3>2. ~ work.asks /\ ~ work.failing
      BY <1>3, <2>2, <2>6, StepsFollow DEF Closing
    <3> QED BY <1>3, <3>1, <3>2 DEF SameOperation
  <2>7. CASE AdapterRefuses \/ AdapterFaults
    <3>1. /\ work'.asks = work.asks /\ work'.to = work.to
          /\ work'.step = IF work.fresh THEN "unmark" ELSE "fail"
      BY <1>3, <2>1, <2>7 DEF AdapterRefuses, AdapterFaults, Return, Work, SameOperation
    <3>2. ~ work.asks /\ (work.op = "finish" => ~ work.fresh)
      BY <1>3, <2>1, <2>2, <2>7, StepsFollow DEF Closing, Inv, WorkInv, StepInv
    <3> QED BY <1>3, <3>1, <3>2 DEF SameOperation
  <2>8. CASE Apply
    <3>1. /\ work'.asks => work.asks /\ HasRoom(work.task)
          /\ work'.to = work.to /\ work'.failing = work.failing
          /\ UNCHANGED questions /\ work'.step \in {"range", "settle"}
      BY <1>3, <2>1, <2>8 DEF Apply, Work, Return, SameOperation
    <3>2. PendingNext(work.task) = Pending(work.task) BY <3>1 DEF PendingNext, Pending
    <3>3. ~ work.failing /\ (work.op = "finish" => work.to \in {"completed", "failed"})
      BY <1>3, <2>2, <2>8, StepsFollow DEF Closing
    <3> QED BY <1>3, <2>2, <3>1, <3>2, <3>3 DEF SameOperation, HasRoom, Closing
  <2>9. CASE Fail
    <3>1. work'.asks = FALSE /\ work'.to = "failed" /\ work'.step \in {"range", "settle"}
      BY <1>3, <2>1, <2>9 DEF Fail, Work
    <3> QED BY <3>1 DEF Closing
  <2>10. CASE CaptureRange \/ CaptureFinal \/ Settle \/ Evaluate
    <3>1. /\ work'.asks = work.asks /\ work'.to = work.to /\ work'.failing = work.failing
          /\ work.step \in Closing /\ work'.step \in Closing
      BY <1>3, <2>1, <2>10, GotoFields, StepsFollow
         DEF CaptureRange, CaptureFinal, Settle, Evaluate, Return, SameOperation, Closing
    <3>2. work'.step \in {"range", "final", "settle"} =>
             /\ UNCHANGED questions /\ work.step \in {"range", "final", "settle"}
      BY <1>3, <2>10, StepsFollow DEF CaptureRange, CaptureFinal, rows
    <3>3. UNCHANGED questions => PendingNext(work.task) = Pending(work.task)
      BY DEF PendingNext, Pending
    <3>4. Told(work') BY <1>3, <2>2, <3>1 DEF SameOperation, Closing
    <3> QED BY <2>2, <3>1, <3>2, <3>3, <3>4 DEF HasRoom
  <2> QED BY <1>3, <2>4, <2>5, <2>6, <2>7, <2>8, <2>9, <2>10, StepsFollow
          DEF WorkStep, AdapterStep, SettleStep
<1> QED BY <1>1, <1>2, <1>3, OperationGoesOn

\* However questions are asked, answered and given up, few are left, and none on
\* a task that was stopped.
LEMMA QuestionsStep ==
    ASSUME Inv, QuestionsInv, Next
    PROVE  QuestionsInv'
<1>1. AskingInv' BY AskingStep
<1>2. PendingBounded'
  <2> SUFFICES ASSUME NEW t \in Tasks PROVE Cardinality(PendingNext(t)) <= MaxPending
    BY DEF PendingBounded, Pending, PendingNext
  <2>1. /\ IsFiniteSet(Pending(t)) /\ Cardinality(Pending(t)) \in Nat
        /\ Cardinality(Pending(t)) <= MaxPending
    BY PendingFinite DEF QuestionsInv, PendingBounded
  <2>2. CASE PendingNext(t) \subseteq Pending(t)
    <3>1. Cardinality(PendingNext(t)) <= Cardinality(Pending(t))
          /\ IsFiniteSet(PendingNext(t))
      BY <2>1, <2>2, FS_Subset
    <3>2. Cardinality(PendingNext(t)) \in Nat BY <3>1, FS_CardinalityType
    <3> QED BY <2>1, <3>1, <3>2, LimitsAssumption
  <2>3. CASE HasRoom(t) /\ \E q \in Nat : PendingNext(t) = Pending(t) \cup {q}
    <3>1. PICK q \in Nat : PendingNext(t) = Pending(t) \cup {q} BY <2>3
    <3>2. Cardinality(PendingNext(t)) \in {Cardinality(Pending(t)), Cardinality(Pending(t)) + 1}
      BY <2>1, <3>1, FS_AddElement
    <3> QED BY <2>1, <2>3, <3>2, LimitsAssumption DEF HasRoom
  <2> QED BY <2>2, <2>3, QuestionsWritten
<1>3. StoppedTaskAsksNothing'
  <2> SUFFICES ASSUME NEW t \in Tasks,
                      state'[t] \in {"cancelled", "interrupted", "recovery_required"}
               PROVE  PendingNext(t) = {}
    BY DEF StoppedTaskAsksNothing, Pending, PendingNext
  <2>1. CASE state[t] \in {"cancelled", "interrupted", "recovery_required"}
    <3>1. Pending(t) = {} BY <2>1 DEF QuestionsInv, StoppedTaskAsksNothing
    <3>2. PendingNext(t) \subseteq Pending(t) BY QuestionsWritten
    <3> QED BY <3>1, <3>2
  <2>2. CASE state[t] \notin {"cancelled", "interrupted", "recovery_required"}
    BY <2>2, StopsClose
  <2> QED BY <2>1, <2>2
<1> QED BY <1>1, <1>2, <1>3 DEF QuestionsInv

-----------------------------------------------------------------------------
(* Restarts.                                                                *)

\* Who writes the state of a task.
LEMMA StateWritten ==
    ASSUME Inv, Next, NEW t \in Tasks, state'[t] # state[t]
    PROVE  \/ CreateTask(t) /\ state[t] = "absent" /\ state'[t] = "created"
           \/ Queue(t) /\ state[t] = "created" /\ state'[t] = "queued"
           \/ Cancel(t) /\ state'[t] = "cancelling"
           \/ /\ SettleRecovered(t)
              /\ state[t] = "recovery_required" /\ state'[t] = "interrupted"
           \/ /\ Recover(t) /\ CanTransition(state[t], state'[t])
              /\ state'[t] = IF t \in Recoverable THEN "recovery_required"
                             ELSE "interrupted"
           \/ /\ work # Idle /\ work \in Work /\ work.task = t /\ state[t] = work.from
              /\ CanTransition(state[t], state'[t])
              /\ \/ HandOver /\ work.step = "handover" /\ state'[t] = "starting"
                 \/ StartedRunning /\ work.step = "running" /\ state'[t] = "running"
                 \/ Deliver /\ work.step = "deliver" /\ state'[t] = "running"
                 \/ RecordAnswer /\ work.step = "answered" /\ state'[t] = "running"
                 \/ Settle /\ work.step = "settle" /\ state'[t] = work.to
<1> USE DEF Inv, TypeOK, RowsOK
<1>1. ASSUME NEW u \in Tasks,
             CreateTask(u) \/ Queue(u) \/ Cancel(u) \/ SettleRecovered(u)
      PROVE  \/ CreateTask(t) /\ state[t] = "absent" /\ state'[t] = "created"
             \/ Queue(t) /\ state[t] = "created" /\ state'[t] = "queued"
             \/ Cancel(t) /\ state'[t] = "cancelling"
             \/ /\ SettleRecovered(t)
                /\ state[t] = "recovery_required" /\ state'[t] = "interrupted"
  <2>1. \/ CreateTask(u) /\ state[u] = "absent" /\ state' = [state EXCEPT ![u] = "created"]
        \/ Queue(u) /\ state[u] = "created" /\ state' = [state EXCEPT ![u] = "queued"]
        \/ Queue(u) /\ UNCHANGED state
        \/ Cancel(u) /\ state' = [state EXCEPT ![u] = "cancelling"]
        \/ /\ SettleRecovered(u) /\ state[u] = "recovery_required"
           /\ state' = [state EXCEPT ![u] = "interrupted"]
    BY <1>1 DEF CreateTask, Queue, Cancel, SettleRecovered, Move
  <2>2. u = t BY <2>1
  <2> QED BY <2>1, <2>2
<1>2. CASE \E u \in Tasks : Recover(u) BY <1>2 DEF Recover, Move, rows
<1>3. CASE HandOver \/ StartedRunning \/ Deliver \/ RecordAnswer \/ Settle
  <2>1. work # Idle /\ work \in Work /\ work.task \in Tasks
    BY <1>3, LockHolder DEF HandOver, StartedRunning, Deliver, RecordAnswer, Settle, At
  <2> QED BY <1>3, <2>1
          DEF HandOver, StartedRunning, Deliver, RecordAnswer, Settle, At, Move
<1>4. ASSUME UNCHANGED rows \/ OpenFirstTurn \/ Apply PROVE FALSE
  BY <1>4 DEF rows, OpenFirstTurn, Apply
<1> QED BY <1>1, <1>2, <1>3, <1>4, RowsWriters

\* What was reported stays what was reported.
LEMMA ReportKept ==
    ASSUME Inv, WorkStep, SameOperation
    PROVE  \/ AdapterReports \/ AdapterConsents
           \/ Fail /\ work'.to = "failed"
           \/ work'.to = work.to
<1>1. work \in Work BY OperationGoesOn
<1>2. CASE StartStep \/ DispatchStep
  BY <1>1, <1>2, GotoFields
     DEF StartStep, DispatchStep, HandOver, StartedRunning, OpenFirstTurn, Reserve,
         RefuseLineage, MarkDispatchStarted, MarkDispatchRefused, CallAdapter, Loop,
         Return, Work, SameOperation
<1>3. CASE AdapterRefuses \/ AdapterFaults
  BY <1>1, <1>3 DEF AdapterRefuses, AdapterFaults, Return, Work, SameOperation
<1>4. CASE SettleStep
  BY <1>1, <1>4, GotoFields
     DEF SettleStep, Deliver, RecordAnswer, Apply, Fail, CaptureRange, CaptureFinal,
         Settle, Evaluate, Return, Work, SameOperation
<1> QED BY <1>2, <1>3, <1>4 DEF WorkStep, AdapterStep

\* Only a restart cuts a turn off.
LEMMA CutOffWritten ==
    ASSUME Inv, Next, NEW t \in Tasks, CutOff(t)'
    PROVE  CutOff(t) \/ (Recover(t) /\ state'[t] # state[t])
<1>1. PICK n \in DOMAIN turns'[t] : turns'[t][n].outcome = "interrupted"
  BY DEF CutOff
<1>2. CASE turns'[t] = turns[t] BY <1>1, <1>2 DEF CutOff
<1>3. CASE Opens /\ work.task = t
  <2>1. n \in DOMAIN turns[t] BY <1>1, TurnsKept
  <2>2. turns'[t][n] = turns[t][n]
    BY <1>3, <2>1, OpenTurnRows, TurnsTyped, TurnsKept, <1>1
       DEF Opens, OpenTurn, Inv, TypeOK, RowsOK
  <2> QED BY <1>1, <2>1, <2>2 DEF CutOff
<1>4. CASE Settle /\ turns'[t] # turns[t]
  <2>1. /\ work # Idle /\ work.task = t /\ work.step = "settle" /\ work.closes
        /\ turns'[t] = CloseTurn(t, TurnOutcome(work.to))
    BY <1>4, LockHolder DEF Settle, At, Inv, TypeOK, RowsOK
  <2>2. TurnOutcome(work.to) \in Outcomes \ {"interrupted"}
    BY <2>1 DEF Inv, ClosingInv, TurnOutcome, TurnEndingStates, Outcomes
  <2>3. n \in DOMAIN turns[t] /\ turns[t][n].outcome = "interrupted"
    BY <1>1, <2>1, <2>2, CloseTurnOutcome DEF Inv
  <2> QED BY <2>3 DEF CutOff
<1>5. CASE Recover(t) /\ turns'[t] # turns[t]
  <2>1. Move(t, state[t], IF t \in Recoverable THEN "recovery_required" ELSE "interrupted")
    BY <1>5 DEF Recover, rows
  <2>2. state'[t] # state[t]
    BY <2>1 DEF Move, CanTransition, AllowedTransitions, States, Terminal, Inv, TypeOK, RowsOK
  <2> QED BY <1>5, <2>2
<1> QED BY <1>2, <1>3, <1>4, <1>5, TurnsWritten

\* No call leaves a session behind on the adapter that recovers.
LEMMA SessionsStayAway ==
    ASSUME Inv, CutOffInv, Next, NEW t \in Recoverable
    PROVE  session'[t] = "none"
<1>1. t \in Tasks /\ session[t] = "none" BY RecoverableAssumption DEF CutOffInv
<1>2. session \in [Tasks -> {"none", "idle", "busy"}] BY DEF Inv, TypeOK, HostOK
<1>3. CASE AdapterReports
  <2>1. PICK r \in ReportsOn(work.op, work.task) :
            session' = [session EXCEPT ![work.task] = r.leaves]
    BY <1>3, ReportArrives
  <2>2. work.task = t => r.leaves = "none" BY <1>1, ReportsTell
  <2> QED BY <1>1, <1>2, <2>1, <2>2
<1>4. CASE AdapterConsents BY <1>1, <1>2, <1>4 DEF AdapterConsents
<1>5. CASE Crash BY <1>1, <1>5 DEF Crash
<1>6. CASE UNCHANGED session BY <1>1, <1>6
<1> QED BY <1>3, <1>4, <1>5, <1>6, HostWriters
        DEF Restart, Recover, EvaluateAtBoot, ExpireKey

\* The task of a cut-off turn stays where a restart or its cancel left it.
LEMMA CutOffStays ==
    ASSUME Inv, CutOffInv, Next, NEW t \in Tasks, CutOff(t)'
    PROVE  \/ state'[t] \in {"interrupted", "failed"}
           \/ t \in Recoverable /\ state'[t] \in {"recovery_required", "cancelling"}
<1>1. CASE Recover(t) /\ state'[t] # state[t]
  BY <1>1 DEF Recover, Move, rows, Inv, TypeOK, RowsOK
<1>2. CASE CutOff(t) /\ state'[t] = state[t] BY <1>2 DEF CutOffInv
<1>3. CASE CutOff(t) /\ state'[t] # state[t]
  <2>1. t \in Recoverable /\ state[t] \in {"recovery_required", "cancelling"}
    BY <1>3, EndedStep DEF CutOffInv, Terminal
  <2>2. CASE work # Idle /\ work.task = t /\ work.step \in
                 {"handover", "running", "deliver", "answered"}
    BY <1>3, <2>2 DEF CutOffInv, Inv, WorkInv, StepInv
  <2>3. CASE work # Idle /\ work.task = t /\ work.step = "settle" /\ state'[t] = work.to
    BY <1>3, <2>3 DEF CutOffInv
  <2> QED BY <1>3, <2>1, <2>2, <2>3, StateWritten
<1> QED BY <1>1, <1>2, <1>3, CutOffWritten

\* Only a cancel takes up a task whose turn was cut off.
LEMMA CutOffIsCancelled ==
    ASSUME Inv, CutOffInv, Acquired, CutOff(work'.task)
    PROVE  work'.op = "cancel" /\ work'.step \in {"adapter", "fail"}
<1> DEFINE t == work'.task
<1>1. t \in Tasks /\ work' # work BY DEF Acquired, Work
<1>2. state[t] \in {"interrupted", "failed", "recovery_required", "cancelling"}
      /\ (state[t] \in {"recovery_required", "cancelling"} => t \in Recoverable)
      /\ state[t] \in States
  BY <1>1 DEF CutOffInv, States, Terminal
<1>3. work'.op # "start"
  <2> SUFFICES ASSUME Queue(t) PROVE state[t] = "created" BY <1>2 DEF Acquired
  <2> QED BY <1>1 DEF Queue, Move
<1>4. work'.op # "followup"
  <2> SUFFICES ASSUME NEW c \in inFlight, LockFollowup(c), t = c.task
               PROVE  state[t] \in FollowupStates
    BY <1>2 DEF Acquired, FollowupStates
  <2> QED BY <1>1 DEF LockFollowup
<1>5. work'.op \notin {"refresh", "answer", "finish"}
  BY <1>2 DEF Acquired, Live, Terminal
<1> QED BY <1>3, <1>4, <1>5 DEF Acquired

\* CutOff, of the rows after the step.
CutOffNext(t) == \E n \in DOMAIN turns'[t] : turns'[t][n].outcome = "interrupted"

\* No step lets a task whose turn was cut off claim success.
LEMMA CutOffStep ==
    ASSUME Inv, CutOffInv, Next
    PROVE  CutOffInv'
<1>1. /\ \A t \in Recoverable : session'[t] = "none"
      /\ \A t \in Tasks : CutOff(t)' =>
           \/ state'[t] \in {"interrupted", "failed"}
           \/ t \in Recoverable /\ state'[t] \in {"recovery_required", "cancelling"}
  BY SessionsStayAway, CutOffStays
<1>2. ASSUME work' # Idle, CutOffNext(work'.task)
      PROVE  /\ work'.op = "cancel"
             /\ work'.step \in {"adapter", "fail"} \/ work'.to = "failed"
  <2>1. CASE ~ WorkStep
    <3>1. CASE UNCHANGED <<work, turns>>
      BY <1>2, <3>1 DEF CutOffInv, CutOff, CutOffNext
    <3>2. CASE Acquired
      <4>1. UNCHANGED turns BY <3>2 DEF Acquired
      <4>2. CutOff(work'.task) BY <1>2, <4>1 DEF CutOff, CutOffNext
      <4> QED BY <3>2, <4>2, CutOffIsCancelled
    <3> QED BY <1>2, <2>1, <3>1, <3>2, BesideTheWork
  <2>2. CASE WorkStep
    <3>1. /\ SameOperation /\ work \in Work /\ work # Idle /\ mode = "up"
          /\ work.task \in Tasks /\ work'.task = work.task
      BY <1>2, <2>2, OperationGoesOn DEF SameOperation, Work
    <3>2. CutOff(work.task)
      <4>1. \A t \in Tasks : CutOffNext(t) => CutOff(t) \/ Recover(t)
        BY CutOffWritten DEF CutOff, CutOffNext
      <4> QED BY <1>2, <3>1, <4>1 DEF Recover
    <3>3. /\ work.op = "cancel" /\ work'.op = "cancel" /\ ~ work.fresh
          /\ work.step \in {"adapter", "fail"} \/ work.to = "failed"
      BY <3>1, <3>2 DEF CutOffInv, SameOperation, Inv, WorkInv, StepInv
    <3>4. ~ AdapterReports
      <4> SUFFICES ASSUME AdapterReports PROVE FALSE OBVIOUS
      <4>1. PICK r \in ReportsOn(work.op, work.task) : TRUE BY ReportArrives
      <4>2. work.step = "adapter" BY DEF AdapterReports, At
      <4>3. work.task \in Recoverable
        BY <3>1, <3>2, <4>2 DEF CutOffInv, Inv, LiveInv, Terminal
      <4> QED BY <3>3, <4>3, ReportsTell DEF CutOffInv
    <3>5. ~ AdapterConsents BY <3>3 DEF AdapterConsents
    <3>6. ~ AdapterRefuses
      BY <3>1, <3>3 DEF AdapterRefuses, Return, SameOperation
    <3>7. CASE AdapterFaults
      <4>1. work'.step = "fail" BY <3>1, <3>3, <3>7 DEF AdapterFaults, Work
      <4> QED BY <3>3, <4>1
    <3>8. CASE Fail BY <3>1, <3>3, <3>8 DEF Fail, Work
    <3>9. CASE work'.to = work.to /\ ~ AdapterFaults /\ ~ Fail
      <4>1. work.step \notin {"adapter", "fail"}
        BY <2>2, <3>1, <3>4, <3>5, <3>6, <3>9, StepsFollow
           DEF WorkStep, StartStep, DispatchStep, AdapterStep, SettleStep
      <4> QED BY <3>3, <3>9, <4>1
    <3> QED BY <2>2, <3>1, <3>4, <3>5, <3>7, <3>8, <3>9, ReportKept
  <2> QED BY <2>1, <2>2
<1>3. CutOffNext(work'.task) <=> CutOff(work.task)' BY DEF CutOff, CutOffNext
<1> QED BY <1>1, <1>2, <1>3 DEF CutOffInv

-----------------------------------------------------------------------------
(* Starts.                                                                  *)

\* While an operation holds the lock nobody else takes it.
LEMMA LockIsHeld ==
    ASSUME Inv, Next, ~ WorkStep, work # Idle
    PROVE  UNCHANGED work \/ (Crash /\ mode' = "down")
BY WorkWriters DEF Queue, LockFollowup, Refresh, Cancel, Answer, Finish, Acquire, Free, Crash

\* A step that goes to another does not return.
LEMMA GotoGoesOn == ASSUME NEW s \in Steps, work \in Work, Goto(s) PROVE work' # Idle
BY GotoFields DEF Idle, Steps

\* Nor does a step of a loop.
LEMMA LoopNotIdle == ASSUME NEW s \in Steps, work \in Work, Loop(s) PROVE work' # Idle
BY LoopGoesOn DEF Idle, Steps, Work

\* The operation that starts a task goes on until the task runs or failed.
LEMMA StartGoesOn ==
    ASSUME Inv, StartInv, WorkStep, work.op = "start", state[work.task] \in Starting
    PROVE  SameOperation
<1>1. work \in Work /\ work # Idle /\ work.fresh /\ (work' # Idle => SameOperation)
  BY OperationGoesOn DEF Inv, WorkInv, StepInv
<1>2. work.step \notin {"open", "apply", "evaluate", "deliver", "answered"}
  BY <1>1 DEF Inv, WorkInv, StepInv, ExpectInv, StartInv, Starting
<1>3. work.step = "unmark" => work.failing BY <1>1 DEF StartInv
<1>4. {"reserve", "mark", "call", "adapter", "fail", "open", "final", "settle",
       "evaluate"} \subseteq Steps
  BY DEF Steps
<1>5. ASSUME NEW s \in Steps, work'.step = s PROVE work' # Idle BY <1>5 DEF Idle, Steps
<1>6. CASE HandOver BY <1>1, <1>4, <1>5, <1>6 DEF HandOver, Work
<1>7. CASE StartedRunning \/ CallAdapter \/ RefuseLineage \/ CaptureRange \/ CaptureFinal
  BY <1>1, <1>4, <1>7, GotoGoesOn
     DEF StartedRunning, CallAdapter, RefuseLineage, CaptureRange, CaptureFinal
<1>8. CASE Reserve \/ MarkDispatchStarted \/ MarkDispatchRefused
  BY <1>1, <1>3, <1>4, <1>8, LoopNotIdle
     DEF Reserve, MarkDispatchStarted, MarkDispatchRefused, At
<1>9. CASE AdapterReports
  <2>1. PICK r \in Report :
            work' = [work EXCEPT !.to = r.to, !.asks = r.asks, !.step = "running"]
    BY <1>1, <1>9 DEF AdapterReports
  <2> QED BY <1>1, <2>1 DEF Work, Idle
<1>10. CASE AdapterConsents BY <1>10 DEF AdapterConsents
<1>11. CASE AdapterRefuses \/ AdapterFaults
  BY <1>1, <1>11 DEF AdapterRefuses, AdapterFaults, Work, Idle
<1>12. CASE Fail
  <2>1. work'.step \in {"range", "settle"} BY <1>1, <1>12 DEF Fail, Work
  <2> QED BY <1>1, <2>1 DEF Idle
<1>13. CASE Settle BY <1>1, <1>4, <1>13, GotoGoesOn DEF Settle
<1>14. ~ OpenFirstTurn /\ ~ Deliver /\ ~ RecordAnswer /\ ~ Apply /\ ~ Evaluate
  BY <1>2 DEF OpenFirstTurn, Deliver, RecordAnswer, Apply, Evaluate, At
<1> QED BY <1>6, <1>7, <1>8, <1>9, <1>10, <1>11, <1>12, <1>13, <1>14
        DEF WorkStep, StartStep, DispatchStep, AdapterStep, SettleStep

\* How a task comes to be absent, created or starting, and how it stops being so.
LEMMA StartsWritten ==
    ASSUME Inv, Next, NEW t \in Tasks, state'[t] # state[t]
    PROVE  /\ state'[t] # "absent"
           /\ state'[t] = "created" => CreateTask(t)
           /\ state'[t] \in Starting =>
                 \/ Queue(t) /\ state[t] = "created" /\ work' # work
                 \/ HandOver /\ work.task = t /\ state[t] = "queued" /\ work # Idle
<1>1. CASE Queue(t) /\ state'[t] = "queued"
  <2>1. work = Idle /\ state[t] = "created"
        /\ work' = Lease("start", t, NoKey, "queued", TRUE, "handover")
    BY <1>1 DEF Queue, Move, Acquire, Free
  <2>2. work' # work BY <2>1 DEF Lease, Idle
  <2> QED BY <1>1, <2>1, <2>2 DEF Starting
<1>2. CASE HandOver /\ work.task = t /\ state'[t] = "starting"
           /\ work # Idle /\ CanTransition(state[t], state'[t])
  BY <1>2 DEF CanTransition, AllowedTransitions, States, Terminal
<1>3. CASE work # Idle /\ work.step = "settle" /\ state'[t] = work.to
  BY <1>3 DEF Inv, WorkInv, StepInv, Reported, TurnEndingStates, Starting
<1>4. CASE CreateTask(t) /\ state'[t] = "created" BY <1>4 DEF Starting
<1>5. CASE state'[t] \in {"cancelling", "interrupted", "recovery_required", "running"}
  BY <1>5 DEF Starting
<1> QED BY <1>1, <1>2, <1>3, <1>4, <1>5, StateWritten

\* The row of a call that waits to start a task is not starting yet.
LEMMA WaitingCallsStep ==
    ASSUME Inv, StartInv, Next, NEW t \in toStart'
    PROVE  state'[t] \notin {"absent"} \cup Starting
<1>1. \/ t \in toStart /\ ~ (Queue(t) /\ state[t] = "created")
      \/ CreateTask(t) /\ t \in Tasks
  BY CallsWriters DEF calls, RememberFollowup, ExpireKey, CreateTask, Queue, BeginFollowup,
                      LockFollowup, Crash
<1>2. t \in Tasks BY <1>1 DEF Inv, TypeOK, CallsOK
<1>3. CASE CreateTask(t) BY <1>2, <1>3 DEF CreateTask, Starting, Inv, TypeOK, RowsOK
<1>4. CASE t \in toStart /\ ~ (Queue(t) /\ state[t] = "created")
  BY <1>2, <1>4, StartsWritten DEF StartInv, Starting
<1> QED BY <1>1, <1>3, <1>4

\* While the service is up, who starts a task stays there to do it.
LEMMA ServedStartsStep ==
    ASSUME Inv, StartInv, Next, mode' = "up", NEW t \in Tasks \ Recoverable
    PROVE  /\ state'[t] = "created" => t \in toStart'
           /\ state'[t] \in Starting => work' # Idle /\ work'.task = t /\ work'.op = "start"
<1>1. CASE mode # "up"
  <2>1. EvaluateAtBoot
    BY <1>1, HostWriters DEF host, AdapterReports, AdapterConsents, Crash, Restart,
       Recover, ExpireKey
  <2> QED BY <1>1, <2>1 DEF EvaluateAtBoot, StartInv, rows
<1>2. CASE mode = "up" /\ state'[t] = "created"
  <2>1. CASE state[t] = "created"
    <3>1. t \in toStart BY <1>2, <2>1 DEF StartInv
    <3>2. ~ Crash BY DEF Crash
    <3>3. ~ Queue(t)
      BY <1>2, <2>1 DEF Queue, Move, Inv, TypeOK, RowsOK
    <3>4. CASE UNCHANGED toStart BY <1>2, <3>1, <3>4 DEF Starting
    <3>5. CASE \E u \in Tasks : CreateTask(u) \/ Queue(u)
      BY <1>2, <3>1, <3>3, <3>5 DEF Starting, CreateTask, Queue
    <3> QED BY <3>2, <3>4, <3>5, CallsWriters
            DEF calls, RememberFollowup, ExpireKey, BeginFollowup, LockFollowup
  <2>2. CASE state[t] # "created" BY <1>2, <2>2, StartsWritten DEF CreateTask
  <2> QED BY <2>1, <2>2
<1>3. CASE mode = "up" /\ state'[t] \in Starting
  <2>0. state'[t] # "created" BY <1>3 DEF Starting
  <2>1. CASE state'[t] # state[t] /\ Queue(t) /\ work' # work
    <3>1. /\ work' = Lease("start", t, NoKey, "queued", TRUE, "handover")
      BY <2>1 DEF Queue, Acquire
    <3>2. /\ "start" \in Operations /\ "queued" \in States /\ "handover" \in Steps
      BY DEF Operations, States, Steps
    <3> QED BY <2>0, <3>1, <3>2, LeaseFields DEF Inv
  <2>2. CASE state'[t] # state[t] /\ HandOver /\ work.task = t /\ work # Idle
    <3>1. work.op = "start" /\ work \in Work
      BY <2>2, LockHolder DEF HandOver, At, Inv, WorkInv, StepInv
    <3>2. work'.step = "reserve" /\ work'.task = t /\ work'.op = "start"
      BY <2>2, <3>1 DEF HandOver, Work
    <3> QED BY <2>0, <3>2 DEF Idle
  <2>3. CASE state'[t] = state[t]
    <3>1. work # Idle /\ work.task = t /\ work.op = "start"
      BY <1>3, <2>3 DEF StartInv
    <3>2. CASE WorkStep BY <1>3, <2>0, <2>3, <3>1, <3>2, StartGoesOn DEF SameOperation
    <3>3. CASE ~ WorkStep BY <2>0, <3>1, <3>3, LockIsHeld
    <3> QED BY <3>2, <3>3
  <2> QED BY <1>3, <2>1, <2>2, <2>3, StartsWritten
<1> QED BY <1>1, <1>2, <1>3

\* A restart lists the tasks that nobody starts any more.
LEMMA ListedStartsStep ==
    ASSUME Inv, StartInv, Next, mode' = "recovering", NEW t \in Tasks \ Recoverable,
           state'[t] \in {"created"} \cup Starting
    PROVE  t \in todo'
<1>1. CASE mode # "recovering"
  <2>1. Restart
    BY <1>1, HostWriters DEF host, AdapterReports, AdapterConsents, Crash, EvaluateAtBoot,
       Recover, ExpireKey
  <2> QED BY <2>1 DEF Restart, Unfinished, Live, rows, Starting, States, Terminal
<1>2. CASE mode = "recovering"
  <2>1. work = Idle /\ ~ CreateTask(t) /\ ~ Queue(t)
    BY <1>2 DEF Inv, WorkInv, LockInv, CreateTask, Queue, Free
  <2>2. state'[t] = state[t] BY <2>1, StartsWritten DEF Starting
  <2>3. t \in todo BY <1>2, <2>2 DEF StartInv
  <2>4. ~ Recover(t)
    BY <2>2 DEF Recover, Move, CanTransition, AllowedTransitions, States, Terminal,
                Starting, Inv, TypeOK, RowsOK
  <2> QED BY <1>2, <2>1, <2>3, <2>4, HostWriters
          DEF host, AdapterReports, AdapterConsents, At, Crash, Restart, EvaluateAtBoot,
              Recover, ExpireKey
<1> QED BY <1>1, <1>2

\* A start that unmarks its facts fails, and a task that is judged has
\* started.
LEMMA StartedStep ==
    ASSUME Inv, StartInv, Next, work' # Idle
    PROVE  /\ work'.op = "start" /\ work'.step = "unmark" => work'.failing
           /\ work'.step = "evaluate" => state'[work'.task] \notin Starting
<1>1. CASE WorkStep
  <2>1. SameOperation /\ work \in Work /\ work # Idle /\ work.task \in Tasks
    BY <1>1, OperationGoesOn, LockHolder
  <2>2. work'.op = "start" /\ work'.step = "unmark" => work'.failing
    <3> SUFFICES ASSUME work'.op = "start", work'.step = "unmark" PROVE work'.failing
      OBVIOUS
    <3>1. CASE AdapterRefuses \/ AdapterFaults
      BY <2>1, <3>1 DEF AdapterRefuses, AdapterFaults, Return, Work, SameOperation
    <3>2. CASE MarkDispatchRefused
      BY <2>1, <3>2 DEF MarkDispatchRefused, At, Loop, Return, Work, SameOperation, StartInv
    <3> QED BY <1>1, <2>1, <3>1, <3>2, StepsFollow
            DEF WorkStep, StartStep, DispatchStep, AdapterStep, SettleStep
  <2>3. work'.step = "evaluate" => state'[work'.task] \notin Starting
    <3> SUFFICES ASSUME work'.step = "evaluate" PROVE state'[work.task] \notin Starting
      BY <2>1 DEF SameOperation
    <3>1. CASE Settle
      <4>1. state'[work.task] = work.to
        BY <2>1, <3>1 DEF Settle, Move, Inv, TypeOK, RowsOK
      <4> QED BY <2>1, <4>1 DEF Inv, WorkInv, StepInv, Reported, TurnEndingStates, Starting
    <3>2. CASE Evaluate BY <2>1, <3>2 DEF Evaluate, At, StartInv, rows
    <3> QED BY <1>1, <2>1, <3>1, <3>2, StepsFollow
            DEF WorkStep, StartStep, DispatchStep, AdapterStep, SettleStep
  <2> QED BY <2>2, <2>3
<1>2. CASE ~ WorkStep /\ work # Idle
  <2>1. UNCHANGED work /\ work.task \in Tasks /\ ~ Queue(work.task) /\ ~ HandOver
    BY <1>2, LockIsHeld, LockHolder
       DEF Crash, Queue, Free, WorkStep, StartStep
  <2> QED BY <1>2, <2>1, StartsWritten DEF StartInv
<1>3. CASE ~ WorkStep /\ work = Idle
  <2>1. Acquired BY <1>3, BesideTheWork
  <2> QED BY <2>1 DEF Acquired
<1> QED BY <1>1, <1>2, <1>3

\* Every step keeps who starts a task.
LEMMA StartStaysTrue ==
    ASSUME Inv, StartInv, Next
    PROVE  StartInv'
BY WaitingCallsStep, ServedStartsStep, ListedStartsStep, StartedStep DEF StartInv

-----------------------------------------------------------------------------
(* Messages.                                                                *)

\* Who writes the keys and the calls that wait for the lock.
LEMMA MessagesWritten ==
    ASSUME Inv, Next
    PROVE  \/ UNCHANGED <<followKeys, inFlight>> /\ ~ (\E c \in inFlight : LockFollowup(c))
           \/ \E c \in inFlight : RememberFollowup(c)
           \/ \E c \in inFlight : LockFollowup(c)
           \/ \E t \in Tasks, k \in Keys : ExpireKey(t, k)
           \/ \E t \in Tasks, k \in Keys : BeginFollowup(t, k)
           \/ Crash
BY CallsWriters DEF calls, CreateTask, Queue

\* A message that the holder of the lock carries after the step was carried by
\* it before, or by the call that took the lock.
LEMMA CarriedOn ==
    ASSUME Inv, CarriersInv, Next, NEW t \in Tasks, NEW k \in Keys, Sends(t, k)'
    PROVE  \/ Sends(t, k) /\ ((WorkStep /\ SameOperation) \/ UNCHANGED work)
           \/ /\ Acquired /\ work'.step \in {"reserve", "call"}
              /\ \E c \in inFlight : LockFollowup(c) /\ c.task = t /\ c.key = k
<1>1. CASE WorkStep
  <2>1. SameOperation BY <1>1, OperationGoesOn DEF Sends
  <2>2. work # Idle BY <1>1, OperationGoesOn
  <2> QED BY <1>1, <2>1, <2>2 DEF Sends, SameOperation
<1>2. CASE ~ WorkStep /\ UNCHANGED work BY <1>2 DEF Sends
<1>3. CASE Acquired
  <2>1. work'.op = "followup" /\ work'.task = t /\ work'.key = k BY DEF Sends
  <2> QED BY <1>3, <2>1 DEF Acquired
<1> QED BY <1>1, <1>2, <1>3, BesideTheWork DEF Sends

\* A message has one carrier, which keeps its key.
LEMMA CarriersStep ==
    ASSUME Inv, CarriersInv, Next
    PROVE  CarriersInv'
<1>0. /\ \A c \in inFlight : c \in FollowupCall /\ c.task \in Tasks /\ c.key \in Keys
      /\ followKeys \in [Tasks -> SUBSET Keys]
  BY DEF Inv, TypeOK, CallsOK, FollowupCall
<1>1. work' # Idle => (work'.op = "followup" <=> work'.key \in Keys)
  <2>1. CASE WorkStep BY <2>1, OperationGoesOn DEF SameOperation, CarriersInv
  <2>2. CASE Acquired BY <1>0, <2>2, NoKeyAssumption DEF Acquired
  <2>3. CASE UNCHANGED work BY <2>3 DEF CarriersInv
  <2> QED BY <2>1, <2>2, <2>3, BesideTheWork
<1>2. \A c \in inFlight : LockFollowup(c) =>
         Waits(c) /\ work = Idle /\ inFlight' = inFlight \ {c} /\ UNCHANGED followKeys
  BY DEF LockFollowup, Waits, Free
<1>3. CASE UNCHANGED <<followKeys, inFlight>> /\ ~ (\E c \in inFlight : LockFollowup(c))
  <2>1. \A t \in Tasks, k \in Keys : Sends(t, k)' => Sends(t, k) BY <1>3, CarriedOn
  <2>2. \A t \in Tasks, k \in Keys : Sends(t, k)' => k \in followKeys'[t]
    BY <1>3, <2>1 DEF CarriersInv
  <2>3. ASSUME NEW c \in inFlight', Waits(c)'
        PROVE  /\ c.key \in followKeys'[c.task] /\ ~ Sends(c.task, c.key)'
               /\ \A d \in inFlight' :
                     Waits(d)' /\ d.task = c.task /\ d.key = c.key => d = c
    BY <1>0, <1>3, <2>1, <2>3 DEF CarriersInv, Waits
  <2> QED BY <1>1, <2>2, <2>3 DEF CarriersInv
<1>4. ASSUME NEW c \in inFlight, LockFollowup(c) PROVE CarriersInv'
  <2>1. /\ Waits(c) /\ work = Idle /\ inFlight' = inFlight \ {c} /\ UNCHANGED followKeys
    BY <1>2, <1>4
  <2>2. \A t \in Tasks, k \in Keys : Sends(t, k)' => t = c.task /\ k = c.key
    <3> SUFFICES ASSUME NEW t \in Tasks, NEW k \in Keys, Sends(t, k)'
                 PROVE  t = c.task /\ k = c.key
      OBVIOUS
    <3>1. PICK d \in inFlight : LockFollowup(d) /\ d.task = t /\ d.key = k
      BY <2>1, CarriedOn DEF Sends
    <3>2. inFlight' = inFlight \ {d} BY <1>2, <3>1
    <3> QED BY <2>1, <3>1, <3>2
  <2>3. \A t \in Tasks, k \in Keys : Sends(t, k)' => k \in followKeys'[t]
    BY <2>1, <2>2 DEF CarriersInv
  <2>4. ASSUME NEW d \in inFlight', Waits(d)'
        PROVE  /\ d.key \in followKeys'[d.task] /\ ~ Sends(d.task, d.key)'
               /\ \A e \in inFlight' :
                     Waits(e)' /\ e.task = d.task /\ e.key = d.key => e = d
    BY <1>0, <2>1, <2>2, <2>4 DEF CarriersInv, Waits
  <2> QED BY <1>1, <2>3, <2>4 DEF CarriersInv
<1>5. ASSUME NEW c \in inFlight, RememberFollowup(c) PROVE CarriersInv'
  <2> DEFINE e == [c EXCEPT !.step = "locking"]
  <2>0. c \in FollowupCall /\ e.task = c.task /\ e.key = c.key BY <1>0 DEF FollowupCall
  <2>1. /\ UNCHANGED work /\ followKeys' = [followKeys EXCEPT ![c.task] = @ \cup {c.key}]
        /\ \A d \in inFlight' : d \in inFlight \/ (d = e /\ c.key \notin followKeys[c.task])
    BY <1>5 DEF RememberFollowup, KeysWith
  <2>2. \A t \in Tasks : followKeys[t] \subseteq followKeys'[t] BY <1>0, <2>1
  <2>3. \A t \in Tasks, k \in Keys : Sends(t, k)' <=> Sends(t, k) BY <2>1 DEF Sends
  <2>4. \A t \in Tasks, k \in Keys : Sends(t, k)' => k \in followKeys'[t]
    BY <2>2, <2>3 DEF CarriersInv
  <2>5. ASSUME NEW d \in inFlight', Waits(d)'
        PROVE  d.key \in followKeys'[d.task] /\ ~ Sends(d.task, d.key)'
    <3>1. CASE d \in inFlight BY <1>0, <2>2, <2>3, <2>5, <3>1 DEF CarriersInv, Waits
    <3>2. CASE d = e /\ c.key \notin followKeys[c.task]
      BY <1>0, <2>0, <2>1, <2>3, <3>2 DEF CarriersInv
    <3> QED BY <2>1, <3>1, <3>2
  <2>6. ASSUME NEW d \in inFlight', NEW f \in inFlight', Waits(d)', Waits(f)',
               f.task = d.task, f.key = d.key
        PROVE  f = d
    <3>1. CASE d \in inFlight /\ f \in inFlight BY <2>6, <3>1 DEF CarriersInv, Waits
    <3>2. ASSUME c.key \notin followKeys[c.task], NEW g \in inFlight, Waits(g)
          PROVE  ~ (g.task = c.task /\ g.key = c.key)
      BY <3>2 DEF CarriersInv
    <3>3. CASE (d = e \/ f = e) /\ c.key \notin followKeys[c.task]
      <4>1. d.task = c.task /\ d.key = c.key /\ f.task = c.task /\ f.key = c.key
        BY <2>0, <2>6, <3>3
      <4>2. ASSUME NEW g \in {d, f}, g \in inFlight PROVE Waits(g)
        BY <2>6, <4>2 DEF Waits
      <4>3. d \notin inFlight /\ f \notin inFlight BY <3>2, <3>3, <4>1, <4>2
      <4> QED BY <2>1, <4>3
    <3> QED BY <2>1, <3>1, <3>3
  <2> QED BY <1>1, <2>4, <2>5, <2>6 DEF CarriersInv
<1>6. CASE \E t \in Tasks, k \in Keys : ExpireKey(t, k)
  BY <1>1, <1>6 DEF ExpireKey, calls, CarriersInv, Sends, Waits
<1>7. CASE Crash BY <1>1, <1>7 DEF Crash, CarriersInv, Sends, Waits
<1>8. ASSUME NEW t \in Tasks, NEW k \in Keys, BeginFollowup(t, k) PROVE CarriersInv'
  <2>1. /\ UNCHANGED <<followKeys, work>>
        /\ \A c \in inFlight' : c \in inFlight \/ c.step = "read"
    BY <1>8 DEF BeginFollowup
  <2>2. \A u \in Tasks, j \in Keys : Sends(u, j)' <=> Sends(u, j) BY <2>1 DEF Sends
  <2>3. \A u \in Tasks, j \in Keys : Sends(u, j)' => j \in followKeys'[u]
    BY <2>1, <2>2 DEF CarriersInv
  <2>4. ASSUME NEW c \in inFlight', Waits(c)'
        PROVE  /\ c.key \in followKeys'[c.task] /\ ~ Sends(c.task, c.key)'
               /\ \A d \in inFlight' :
                     Waits(d)' /\ d.task = c.task /\ d.key = c.key => d = c
    BY <1>0, <2>1, <2>2, <2>4 DEF CarriersInv, Waits
  <2> QED BY <1>1, <2>3, <2>4 DEF CarriersInv
<1> QED BY <1>3, <1>4, <1>5, <1>6, <1>7, <1>8, MessagesWritten

\* Keys stay until they are pruned, and a message that is under way was under
\* way before or had a key nobody knew.
LEMMA UndeliveredBefore ==
    ASSUME Inv, CarriersInv, Next, NEW t \in Tasks, NEW k \in Keys
    PROVE  \/ \E u \in Tasks, j \in Keys : ExpireKey(u, j)
           \/ /\ expiries' = expiries /\ followKeys[t] \subseteq followKeys'[t]
              /\ Undelivered(t, k)' => Undelivered(t, k) \/ k \notin followKeys[t]
<1>0. /\ \A c \in inFlight : c \in FollowupCall /\ c.task \in Tasks /\ c.key \in Keys
      /\ followKeys \in [Tasks -> SUBSET Keys]
  BY DEF Inv, TypeOK, CallsOK, FollowupCall
<1>1. SUFFICES ASSUME ~ \E u \in Tasks, j \in Keys : ExpireKey(u, j)
               PROVE  /\ expiries' = expiries /\ followKeys[t] \subseteq followKeys'[t]
                      /\ Undelivered(t, k)' => Undelivered(t, k) \/ k \notin followKeys[t]
  OBVIOUS
<1>2. expiries' = expiries
  BY <1>1, HostWriters DEF host, AdapterReports, AdapterConsents, Crash, Restart, Recover,
                           EvaluateAtBoot
<1>3. followKeys[t] \subseteq followKeys'[t]
  BY <1>0, <1>1, MessagesWritten DEF RememberFollowup, KeysWith, LockFollowup,
                                     BeginFollowup, Crash
<1>4. ASSUME NEW c \in inFlight', Waits(c)', c.task = t, c.key = k
      PROVE  Undelivered(t, k) \/ k \notin followKeys[t]
  <2>1. CASE c \in inFlight /\ Waits(c) BY <1>4, <2>1 DEF Undelivered
  <2>2. CASE ~ (c \in inFlight /\ Waits(c))
    <3>1. c.step = "locking" BY <1>4 DEF Waits
    <3>2. PICK d \in inFlight : RememberFollowup(d)
      BY <1>1, <1>4, <2>2, <3>1, MessagesWritten
         DEF LockFollowup, BeginFollowup, Crash, Waits
    <3>3. c = [d EXCEPT !.step = "locking"] /\ d.key \notin followKeys[d.task]
      BY <1>4, <2>2, <3>1, <3>2 DEF RememberFollowup, Waits
    <3> QED BY <1>0, <1>4, <3>2, <3>3 DEF FollowupCall
  <2> QED BY <2>1, <2>2
<1>5. ASSUME Sends(t, k)', work'.step \in {"reserve", "mark", "call", "adapter"}
      PROVE  Undelivered(t, k)
  <2>1. CASE Sends(t, k) /\ WorkStep /\ SameOperation
    <3>1. work.step # "handover" BY <2>1 DEF Sends, Inv, WorkInv, StepInv
    <3>2. work.step \in {"reserve", "mark", "call", "adapter"}
      BY <1>5, <2>1, <3>1, StepsFollow
         DEF WorkStep, StartStep, DispatchStep, AdapterStep, SettleStep
    <3> QED BY <2>1, <3>2 DEF Undelivered
  <2>2. CASE Sends(t, k) /\ UNCHANGED work BY <1>5, <2>2 DEF Undelivered
  <2>3. CASE \E c \in inFlight : LockFollowup(c) /\ c.task = t /\ c.key = k
    BY <2>3 DEF LockFollowup, Undelivered, Waits
  <2> QED BY <1>5, <2>1, <2>2, <2>3, CarriedOn
<1> QED BY <1>2, <1>3, <1>4, <1>5 DEF Undelivered

\* Only the adapter's acceptance of a message that was under way counts as a
\* delivery, and the message is under way no longer.
LEMMA DeliveryWritten ==
    ASSUME Inv, CarriersInv, Next, NEW t \in Tasks, NEW k \in Keys,
           delivered'[t][k] # delivered[t][k]
    PROVE  /\ delivered'[t][k] = delivered[t][k] + 1
           /\ Undelivered(t, k) /\ ~ Undelivered(t, k)'
           /\ k \in followKeys'[t] /\ expiries' = expiries
<1>1. AdapterReports
  BY HistoryWriters DEF history, CallAdapter, RememberFollowup
<1>2. /\ work # Idle /\ work \in Work /\ work.step = "adapter" /\ work.op = "followup"
      /\ delivered' = [delivered EXCEPT ![work.task][work.key] = @ + 1]
      /\ UNCHANGED <<followKeys, calls, host>>
  BY <1>1, LockHolder DEF AdapterReports, At
<1>3. work.key \in Keys /\ work.task \in Tasks BY <1>2, LockHolder DEF CarriersInv
<1>4. work.task = t /\ work.key = k /\ delivered'[t][k] = delivered[t][k] + 1
  BY <1>2, <1>3 DEF Inv, TypeOK, HistoryOK
<1>5. Sends(t, k) BY <1>2, <1>4 DEF Sends
<1>6. work' = Idle \/ work'.step = "deliver"
  BY <1>1, <1>2, ReportArrives
<1>7. \A c \in inFlight : ~ (Waits(c) /\ c.task = t /\ c.key = k)
  BY <1>5 DEF CarriersInv
<1>8. ~ Undelivered(t, k)'
  BY <1>2, <1>6, <1>7 DEF Undelivered, Waits, Sends, calls
<1> QED BY <1>2, <1>4, <1>5, <1>8 DEF Undelivered, CarriersInv, host

\* A message is delivered once for every day of its key.
LEMMA DeliveriesStep ==
    ASSUME Inv, CarriersInv, DeliveriesInv, Next
    PROVE  DeliveriesInv'
<1> SUFFICES ASSUME NEW t \in Tasks, NEW k \in Keys
             PROVE  /\ delivered'[t][k] <= expiries' + 1
                    /\ k \notin followKeys'[t] \/ Undelivered(t, k)' =>
                          delivered'[t][k] <= expiries'
  BY DEF DeliveriesInv
<1>1. /\ delivered[t][k] \in Nat /\ expiries \in Nat
      /\ delivered[t][k] <= expiries + 1
      /\ k \notin followKeys[t] \/ Undelivered(t, k) => delivered[t][k] <= expiries
  BY BoundsAssumption DEF DeliveriesInv, Inv, TypeOK, HistoryOK, HostOK
<1>2. CASE delivered'[t][k] # delivered[t][k] BY <1>1, <1>2, DeliveryWritten
<1>3. CASE delivered'[t][k] = delivered[t][k]
  <2>1. CASE \E u \in Tasks, j \in Keys : ExpireKey(u, j)
    <3>1. expiries' = expiries + 1 BY <2>1 DEF ExpireKey
    <3> QED BY <1>1, <1>3, <3>1
  <2>2. CASE ~ \E u \in Tasks, j \in Keys : ExpireKey(u, j)
    BY <1>1, <1>3, <2>2, UndeliveredBefore
  <2> QED BY <2>1, <2>2
<1> QED BY <1>2, <1>3

\* A turn is opened for a message by the operation that delivers it.
LEMMA OpenedBefore ==
    ASSUME Inv, CarriersInv, Next, NEW t \in Tasks, NEW k \in Keys, Opened(t, k)'
    PROVE  Opened(t, k) \/ (Sends(t, k) /\ Deliver /\ work.step = "deliver")
<1>1. PICK n \in DOMAIN turns'[t] : turns'[t][n].key = k BY DEF Opened
<1>2. CASE n \in DOMAIN turns[t]
  <2>1. turns[t][n].key = k BY <1>1, <1>2, TurnsKept
  <2> QED BY <1>2, <2>1 DEF Opened
<1>3. CASE n \notin DOMAIN turns[t]
  <2>1. Opens /\ work.task = t /\ turns'[t][n] = [outcome |-> "open", key |-> work.key]
    BY <1>3, TurnsKept
  <2>2. work # Idle /\ work.key = k BY <1>1, <2>1 DEF Opens
  <2>3. work.op = "followup" BY <2>2 DEF CarriersInv
  <2>4. ~ OpenFirstTurn
    BY <2>2, <2>3 DEF OpenFirstTurn, At, Inv, WorkInv, StepInv
  <2> QED BY <2>1, <2>2, <2>3, <2>4 DEF Opens, Sends
<1> QED BY <1>2, <1>3

\* A message that still has to open its turn has none.
LEMMA OpenedStep ==
    ASSUME Inv, CarriersInv, OpenedInv, Next
    PROVE  OpenedInv'
<1>1. SUFFICES ASSUME expiries' = 0, NEW t \in Tasks, NEW k \in Keys
               PROVE  /\ Opened(t, k)' => k \in followKeys'[t]
                      /\ Unopened(t, k)' => ~ Opened(t, k)'
  BY DEF OpenedInv
<1>2. ~ \E u \in Tasks, j \in Keys : ExpireKey(u, j)
  BY <1>1 DEF ExpireKey, Inv, TypeOK, HostOK
<1>3. /\ expiries = 0 /\ followKeys[t] \subseteq followKeys'[t]
      /\ Undelivered(t, k)' => Undelivered(t, k) \/ k \notin followKeys[t]
  BY <1>1, <1>2, UndeliveredBefore
<1>4. Unopened(t, k)' => Unopened(t, k) \/ k \notin followKeys[t]
  <2> SUFFICES ASSUME Sends(t, k)', work'.step = "deliver" PROVE Unopened(t, k)
    BY <1>3 DEF Unopened
  <2>1. CASE Sends(t, k) /\ WorkStep /\ SameOperation
    <3>1. work.step = "adapter"
      BY <2>1, StepsFollow DEF WorkStep, StartStep, DispatchStep, AdapterStep, SettleStep
    <3> QED BY <2>1, <3>1 DEF Unopened, Undelivered
  <2>2. CASE Sends(t, k) /\ UNCHANGED work BY <2>2 DEF Unopened
  <2> QED BY <2>1, <2>2, CarriedOn
<1>5. CASE Opened(t, k)' /\ ~ Opened(t, k)
  <2>1. Sends(t, k) /\ Deliver /\ work.step = "deliver" BY <1>5, OpenedBefore
  <2>2. WorkStep /\ work \in Work BY <2>1, LockHolder DEF WorkStep, SettleStep, Sends
  <2>3. work' = Idle \/ work'.step = "apply"
    BY <2>1, <2>2, StepsFollow, OperationGoesOn
  <2>4. UNCHANGED inFlight BY <2>1 DEF Deliver, calls
  <2>5. \A c \in inFlight : ~ (Waits(c) /\ c.task = t /\ c.key = k)
    BY <2>1 DEF CarriersInv
  <2>6. ~ Unopened(t, k)'
    BY <2>3, <2>4, <2>5 DEF Unopened, Undelivered, Sends, Waits
  <2> QED BY <1>3, <2>1, <2>6 DEF CarriersInv
<1>6. CASE Opened(t, k)' => Opened(t, k) BY <1>3, <1>4, <1>6 DEF OpenedInv
<1> QED BY <1>5, <1>6

\* A turn is never opened for a message that has one.
LEMMA OneTurnStep ==
    ASSUME Inv, OneTurnPerMessage, Next
    PROVE  OneTurnPerMessage'
<1> SUFFICES ASSUME NEW t \in Tasks, NEW m \in DOMAIN turns'[t], NEW n \in DOMAIN turns'[t],
                    turns'[t][m].key = turns'[t][n].key
             PROVE  m = n
  BY DEF OneTurnPerMessage
<1>1. ASSUME NEW i \in DOMAIN turns[t], NEW j \in DOMAIN turns'[t],
             turns'[t][i].key = turns'[t][j].key, j \notin DOMAIN turns[t]
      PROVE  FALSE
  <2>1. /\ Opens /\ work.task = t /\ turns'[t][j].key = work.key
        /\ turns'[t][i].key = turns[t][i].key
    BY <1>1, TurnsKept
  <2>2. CASE OpenFirstTurn
    <3>1. work.op = "start" /\ work.step = "open" /\ work # Idle
      BY <2>2 DEF OpenFirstTurn, At, Inv, WorkInv, StepInv
    <3>2. turns[t] = <<>> BY <2>1, <3>1 DEF Inv, FirstTurnInv
    <3> QED BY <3>2
  <2>3. CASE OpensTurn BY <1>1, <2>1, <2>3 DEF OpensTurn, KnownMessage
  <2> QED BY <2>1, <2>2, <2>3 DEF Opens
<1>2. CASE m \in DOMAIN turns[t] /\ n \in DOMAIN turns[t]
  <2>1. turns[t][m].key = turns[t][n].key BY <1>2, TurnsKept
  <2> QED BY <1>2, <2>1 DEF OneTurnPerMessage
<1>3. CASE m \notin DOMAIN turns[t] /\ n \notin DOMAIN turns[t] BY <1>3, TurnsKept
<1> QED BY <1>1, <1>2, <1>3

\* Every step keeps what the keys say of messages and turns.
LEMMA KeysStep ==
    ASSUME Inv, KeysInv, Next
    PROVE  KeysInv'
BY CarriersStep, DeliveriesStep, OpenedStep, OneTurnStep DEF KeysInv

-----------------------------------------------------------------------------
(* Open turns and results.                                                  *)

\* A message that went uncounted stays so: the history only grows.
LEMMA UncountedKept ==
    ASSUME Inv, Next, NEW t \in Tasks, Uncounted(t)
    PROVE  Uncounted(t)'
<1>1. reached[t] \subseteq reached'[t] BY ReachedKept
<1>2. expiries \in Nat BY BoundsAssumption DEF Inv, TypeOK, HostOK
<1>3. expiries' = expiries \/ expiries' = expiries + 1
  BY HostWriters DEF host, AdapterReports, AdapterConsents, Crash, Restart, Recover,
                     EvaluateAtBoot, ExpireKey
<1> QED BY <1>1, <1>2, <1>3 DEF Uncounted

\* HasOpenTurn and Uncounted, of the state after the step.
OpenNext(t) == \E n \in DOMAIN turns'[t] : turns'[t][n].outcome = "open"
UncountedNext(t) == MaxTurns + 1 \in reached'[t] \/ expiries' > 0

\* A task that goes on working keeps its open turn.
LEMMA OpenTurnKept ==
    ASSUME Inv, Next, mode = "up", NEW t \in Tasks, HasOpenTurn(t) \/ (Opens /\ work.task = t),
           state'[t] \in {"running", "waiting_for_user"}
    PROVE  OpenNext(t)
<1>1. CASE turns'[t] = turns[t] /\ HasOpenTurn(t)
  BY <1>1 DEF OpenNext, HasOpenTurn, CurrentTurn
<1>2. CASE Opens /\ work.task = t
  <2>1. turns'[t] # <<>> /\ turns'[t][Len(turns'[t])].outcome = "open"
    BY <1>2, OpenTurnRows DEF Opens, Inv
  <2>2. turns'[t] \in Seq(Turn) BY InvStep DEF Inv, TypeOK, RowsOK
  <2>3. Len(turns'[t]) \in DOMAIN turns'[t] BY <2>1, <2>2
  <2> QED BY <2>1, <2>3 DEF OpenNext
<1>3. CASE Settle /\ turns'[t] # turns[t]
  <2>1. /\ work # Idle /\ work.task = t /\ work.step = "settle" /\ work.closes
        /\ state'[t] = work.to
    BY <1>3, LockHolder DEF Settle, At, Move, Inv, TypeOK, RowsOK
  <2> QED BY <2>1 DEF Inv, ClosingInv, TurnEndingStates
<1>4. ~ Recover(t) BY DEF Recover
<1> QED BY <1>1, <1>2, <1>3, <1>4, TurnsWritten

\* A message that takes a task out of ready_for_followup opens its turn, unless a
\* key was pruned.
LEMMA DeliverOpens ==
    ASSUME Inv, FactsInv, KeysInv, Deliver, work.fresh
    PROVE  IF work' = Idle THEN MaxTurns + 1 \in reached[work.task]
           ELSE Opens \/ expiries > 0
<1> DEFINE t == work.task
<1>1. /\ work # Idle /\ work \in Work /\ work.step = "deliver" /\ t \in Tasks
      /\ work.op = "followup"
  BY LockHolder DEF Deliver, At, Inv, WorkInv, StepInv
<1>2. CASE LastTurn(t) >= MaxTurns
  <2>1. work.turn = LastTurn(t) + 1 /\ work.turn \in reached[t]
    BY <1>1 DEF FactsInv, NumberInv, FreezingInv, PreparingSteps
  <2>2. reached[t] \subseteq 1 .. (MaxTurns + 1) /\ LastTurn(t) \in Nat
    BY <1>1, TurnsTyped DEF Inv, TypeOK, HistoryOK, TurnNumbers, LastTurn
  <2>3. MaxTurns + 1 \in reached[t] BY <1>2, <2>1, <2>2, LimitsAssumption
  <2>4. work' = Idle BY <1>2 DEF Deliver, Return
  <2> QED BY <2>3, <2>4
<1>3. CASE ~ (LastTurn(t) >= MaxTurns)
  <2>1. Goto("apply") /\ (OpensTurn => OpenTurn(t, work.key)) BY <1>3 DEF Deliver
  <2>2. work' # Idle BY <1>1, <2>1, GotoGoesOn DEF Steps
  <2>3. work.key \in Keys /\ Sends(t, work.key) BY <1>1 DEF KeysInv, CarriersInv, Sends
  <2>4. CASE KnownMessage
    <3>1. Unopened(t, work.key) /\ Opened(t, work.key)
      BY <1>1, <2>3, <2>4 DEF KnownMessage, Opened, Unopened
    <3>2. expiries # 0 /\ expiries \in Nat
      BY <1>1, <2>3, <3>1 DEF KeysInv, OpenedInv, Inv, TypeOK, HostOK
    <3> QED BY <2>2, <3>2
  <2>5. CASE ~ KnownMessage BY <1>1, <2>1, <2>2, <2>5 DEF Opens, OpensTurn
  <2> QED BY <2>4, <2>5
<1> QED BY <1>2, <1>3

\* A task that goes on working has its open turn.
LEMMA WorkingStep ==
    ASSUME Inv, FactsInv, KeysInv, RunningInv, Next, NEW t \in Tasks, mode' = "up",
           state'[t] \in {"running", "waiting_for_user"},
           ~ (work' # Idle /\ work'.step = "open" /\ work'.task = t)
    PROVE  OpenNext(t) \/ Uncounted(t)'
<1>1. mode = "up"
  <2> SUFFICES ASSUME mode # "up" PROVE FALSE OBVIOUS
  <2>1. EvaluateAtBoot
    BY HostWriters DEF host, AdapterReports, AdapterConsents, Crash, Restart, Recover,
                       ExpireKey
  <2> QED BY <2>1 DEF EvaluateAtBoot, Inv, RecoveryInv, GoingOn, rows
<1>2. CASE /\ state[t] \in {"running", "waiting_for_user"}
           /\ ~ (work # Idle /\ work.step = "open" /\ work.task = t)
  BY <1>1, <1>2, OpenTurnKept, UncountedKept DEF RunningInv
<1>3. CASE work # Idle /\ work.step = "open" /\ work.task = t
  <2>1. WorkStep BY <1>3, LockIsHeld
  <2>2. OpenFirstTurn
    <3>1. \/ OpenFirstTurn
          \/ work.step # "open"
      BY <2>1 DEF WorkStep, StartStep, DispatchStep, AdapterStep, SettleStep, At,
         HandOver, StartedRunning, Reserve, RefuseLineage, MarkDispatchStarted,
         MarkDispatchRefused, CallAdapter, AdapterReports, AdapterConsents,
         AdapterRefuses, AdapterFaults, Deliver, RecordAnswer, Apply, Fail,
         CaptureRange, CaptureFinal, Settle, Evaluate
    <3> QED BY <1>3, <3>1
  <2>3. Opens BY <1>3, <2>2, LockHolder DEF Opens, OpenFirstTurn
  <2> QED BY <1>1, <1>3, <2>3, OpenTurnKept
<1>4. CASE /\ state[t] \notin {"running", "waiting_for_user"}
           /\ ~ (work # Idle /\ work.step = "open" /\ work.task = t)
  <2>1. /\ work # Idle /\ work \in Work /\ work.task = t /\ state[t] = work.from
        /\ CanTransition(state[t], state'[t])
        /\ \/ StartedRunning /\ work.step = "running"
           \/ Deliver /\ work.step = "deliver"
           \/ RecordAnswer /\ work.step = "answered"
           \/ Settle /\ work.step = "settle" /\ state'[t] = work.to
    BY <1>4, StateWritten
  <2>2. CASE StartedRunning
    <3>1. work'.step = "open" /\ work'.task = t
      BY <2>1, <2>2, GotoFields DEF StartedRunning
    <3>2. work' # Idle BY <3>1 DEF Idle
    <3> QED BY <3>1, <3>2
  <2>3. CASE Deliver /\ work.step = "deliver"
    <3>1. work.fresh BY <1>4, <2>1, <2>3 DEF Inv, WorkInv, StepInv, ExpectInv
    <3>2. work' # Idle
      BY <1>4, <2>1, <2>3, <3>1 DEF Deliver, Return, Goto, Work, Idle, Steps
    <3>3. Opens \/ expiries > 0 BY <2>3, <3>1, <3>2, DeliverOpens
    <3> QED BY <1>1, <2>1, <3>3, OpenTurnKept, UncountedKept DEF Uncounted
  <2>4. CASE RecordAnswer /\ work.step = "answered"
    BY <1>4, <2>1, <2>4 DEF Inv, WorkInv, StepInv, ExpectInv
  <2>5. CASE Settle /\ work.step = "settle" /\ state'[t] = work.to
    <3>1. work.to = "waiting_for_user" BY <2>1, <2>5 DEF Inv, WorkInv, StepInv
    <3>2. state[t] = "ready_for_followup" BY <1>4, <2>1, <2>5, <3>1, IntoWaiting
    <3>3. Uncounted(t) BY <2>1, <2>5, <3>1, <3>2 DEF RunningInv
    <3> QED BY <3>3, UncountedKept
  <2> QED BY <2>1, <2>2, <2>3, <2>4, <2>5
<1> QED BY <1>2, <1>3, <1>4

\* A session is left busy on a task that waits for a message only by a message
\* that is being delivered, or one past the turn limit.
LEMMA BusyStep ==
    ASSUME Inv, FactsInv, KeysInv, RunningInv, Next, NEW t \in Tasks,
           state'[t] = "ready_for_followup", session'[t] = "busy"
    PROVE  \/ Uncounted(t)'
           \/ work' # Idle /\ work'.task = t /\ work'.fresh /\ work'.step = "deliver"
<1>0. /\ session \in [Tasks -> {"none", "idle", "busy"}]
      /\ state \in [Tasks -> States \cup {"absent"}]
  BY DEF Inv, TypeOK, HostOK, RowsOK
<1>1. state[t] = "ready_for_followup"
  <2> SUFFICES ASSUME state[t] # "ready_for_followup" PROVE FALSE OBVIOUS
  <2>1. Settle /\ work # Idle /\ work.task = t /\ work.to = "ready_for_followup"
    BY StateWritten
  <2>2. session' = session BY <2>1 DEF Settle
  <2> QED BY <2>1, <2>2 DEF RunningInv
<1>2. CASE session[t] = "busy"
  <2>1. CASE Uncounted(t) BY <2>1, UncountedKept
  <2>2. CASE work # Idle /\ work.task = t /\ work.fresh /\ work.step = "deliver"
    <3>1. CASE WorkStep
      <4>1. Deliver
        <5>1. Deliver \/ work.step # "deliver"
          BY <3>1 DEF WorkStep, StartStep, DispatchStep, AdapterStep, SettleStep, At,
             HandOver, StartedRunning, OpenFirstTurn, Reserve, RefuseLineage,
             MarkDispatchStarted, MarkDispatchRefused, CallAdapter, AdapterReports,
             AdapterConsents, AdapterRefuses, AdapterFaults, RecordAnswer, Apply, Fail,
             CaptureRange, CaptureFinal, Settle, Evaluate
        <5> QED BY <2>2, <5>1
      <4>2. Return BY <1>0, <2>2, <4>1 DEF Deliver, Move
      <4>3. MaxTurns + 1 \in reached[t] BY <2>2, <4>1, <4>2, DeliverOpens DEF Return
      <4> QED BY <4>3, UncountedKept DEF Uncounted
    <3>2. CASE ~ WorkStep
      <4>1. ~ Crash BY DEF Crash
      <4> QED BY <2>2, <3>2, <4>1, LockIsHeld
    <3> QED BY <3>1, <3>2
  <2> QED BY <1>1, <1>2, <2>1, <2>2 DEF RunningInv
<1>3. CASE session[t] # "busy"
  <2>1. AdapterReports
    BY <1>0, <1>3, HostWriters DEF AdapterConsents, Crash, Restart, Recover, EvaluateAtBoot,
                              ExpireKey
  <2>2. /\ work # Idle /\ work.step = "adapter" /\ mode = "up" /\ work.task \in Tasks
        /\ work \in Work
    BY <2>1, LockHolder DEF AdapterReports, At, Inv, WorkInv, LockInv
  <2>3. PICK r \in ReportsOn(work.op, work.task) :
            /\ session' = [session EXCEPT ![work.task] = r.leaves]
            /\ \/ work' = Idle
               \/ SameOperation /\ work'.step = CASE work.op = "start" -> "running"
                                                  [] work.op = "followup" -> "deliver"
                                                  [] OTHER -> "apply"
    BY <2>1, ReportArrives
  <2>4. work.task = t /\ r.leaves = "busy" BY <1>0, <1>3, <2>2, <2>3
  <2>5. work.op # "start"
    BY <1>1, <2>2, <2>4 DEF Inv, FirstTurnInv, HistoryInv, GoingOn
  <2>6. work.op = "followup" BY <1>3, <2>4, <2>5, ReportsTell
  <2>7. work.fresh BY <1>1, <2>2, <2>4, <2>6 DEF Inv, WorkInv, ExpectInv
  <2>8. work' # Idle
    BY <2>1, <2>2, <2>6 DEF AdapterReports, Work, Idle
  <2> QED BY <2>3, <2>4, <2>6, <2>7, <2>8 DEF SameOperation
<1> QED BY <1>2, <1>3

\* What is reported of a task lets go of its session before the task waits for
\* a message, and is no wait while it does.
LEMMA ReportLetsGo ==
    ASSUME Inv, RunningInv, AdapterReports, work' # Idle
    PROVE  /\ work'.to = "ready_for_followup" => session'[work.task] # "busy"
           /\ /\ work'.to = "waiting_for_user"
              /\ work'.step \in {"apply", "settle"}
              /\ state[work.task] = "ready_for_followup"
              => Uncounted(work.task)
<1>1. /\ work # Idle /\ work.step = "adapter" /\ work.task \in Tasks
      /\ session \in [Tasks -> {"none", "idle", "busy"}]
  BY LockHolder DEF AdapterReports, At, Inv, TypeOK, HostOK
<1>2. PICK r \in ReportsOn(work.op, work.task) :
          /\ session' = [session EXCEPT ![work.task] = r.leaves]
          /\ SameOperation /\ work'.to = r.to
          /\ work'.step = CASE work.op = "start" -> "running"
                            [] work.op = "followup" -> "deliver"
                            [] OTHER -> "apply"
  BY ReportArrives
<1>3. work'.to = "ready_for_followup" => session'[work.task] # "busy"
  BY <1>1, <1>2, ReportsTell
<1>4. ASSUME work'.to = "waiting_for_user", work'.step \in {"apply", "settle"},
             state[work.task] = "ready_for_followup"
      PROVE  Uncounted(work.task)
  <2>1. work.op # "start" BY <1>2, <1>4
  <2>2. r.to = "waiting_for_user" BY <1>2, <1>4
  <2>3. work.op = "refresh" BY <2>1, <2>2, ReportsTell
  <2>4. session[work.task] = "busy" BY <2>2, <2>3, ReportsTell
  <2> QED BY <1>1, <1>4, <2>4 DEF RunningInv
<1> QED BY <1>3, <1>4

\* The wait that a report asks for reaches apply or settle only from a report,
\* unless the row is running.
LEMMA WaitArrives ==
    ASSUME Inv, WorkStep, SameOperation, work'.to = "waiting_for_user",
           work'.step \in {"apply", "settle"}, ~ AdapterReports,
           state'[work.task] = "ready_for_followup"
    PROVE  /\ work.to = "waiting_for_user" /\ work.step = "apply"
           /\ state[work.task] = "ready_for_followup"
<1>1. /\ work # Idle /\ work \in Work /\ work.task \in Tasks
      /\ state \in [Tasks -> States \cup {"absent"}]
  BY OperationGoesOn, LockHolder DEF Inv, TypeOK, RowsOK
<1>2. ~ AdapterConsents
  BY <1>1, GotoFields DEF AdapterConsents, Work
<1>3. ~ Fail BY <1>1 DEF Fail, Work
<1>4. work.to = "waiting_for_user" BY <1>2, <1>3, ReportKept
<1>5. ~ OpenFirstTurn
  BY <1>1 DEF OpenFirstTurn, At, Inv, WorkInv, StepInv, ExpectInv
<1>6. ~ Deliver
  BY <1>1 DEF Deliver, Return, SameOperation, Move
<1>7. ~ CaptureFinal
  BY <1>1, <1>4 DEF CaptureFinal, At, Inv, ClosingInv, TurnEndingStates
<1>8. Apply
  BY <1>2, <1>3, <1>5, <1>6, <1>7, StepsFollow
     DEF WorkStep, StartStep, DispatchStep, AdapterStep, SettleStep
<1> QED BY <1>4, <1>8 DEF Apply, At

\* What an operation carries of a report agrees with the session.
LEMMA ReportedStep ==
    ASSUME Inv, RunningInv, Next, work' # Idle, NEW t \in Tasks, work'.task = t
    PROVE  /\ work'.to = "ready_for_followup" => session'[t] # "busy"
           /\ /\ work'.to = "waiting_for_user"
              /\ work'.step \in {"apply", "settle"}
              /\ state'[t] = "ready_for_followup"
              => Uncounted(t)'
<1>1. CASE Acquired BY <1>1 DEF Acquired
<1>2. CASE ~ WorkStep /\ ~ Acquired
  <2>1. UNCHANGED <<work, session>> BY <1>2, BesideTheWork
  <2>2. state'[t] = "ready_for_followup" => state[t] = "ready_for_followup"
    BY <1>2, StateWritten DEF WorkStep, SettleStep
  <2> QED BY <2>1, <2>2, UncountedKept DEF RunningInv
<1>3. CASE WorkStep
  <2>1. SameOperation /\ work # Idle /\ work.task = t /\ work \in Work
    BY <1>3, OperationGoesOn DEF SameOperation
  <2>2. CASE AdapterReports
    <3>1. UNCHANGED state BY <2>2 DEF AdapterReports, rows
    <3> QED BY <2>1, <2>2, <3>1, ReportLetsGo, UncountedKept
  <2>3. CASE AdapterConsents
    <3>1. \/ work'.to = "completed"
          \/ work'.to = work.to /\ UNCHANGED session /\ work'.step = "answered"
      BY <2>1, <2>3, GotoFields DEF AdapterConsents, Work
    <3> QED BY <2>1, <3>1 DEF RunningInv
  <2>4. CASE ~ AdapterReports /\ ~ AdapterConsents
    <3>1. UNCHANGED session
      BY <1>3, <2>1, <2>4, HostWriters, OperationGoesOn
         DEF Crash, Restart, Recover, EvaluateAtBoot, ExpireKey
    <3>2. work'.to = "ready_for_followup" => session'[t] # "busy"
      BY <1>3, <2>1, <2>4, <3>1, ReportKept DEF RunningInv
    <3>3. ASSUME work'.to = "waiting_for_user", work'.step \in {"apply", "settle"},
                 state'[t] = "ready_for_followup"
          PROVE  Uncounted(t)'
      <4>1. /\ work.to = "waiting_for_user" /\ work.step = "apply"
            /\ state[t] = "ready_for_followup"
        BY <1>3, <2>1, <2>4, <3>3, WaitArrives
      <4> QED BY <2>1, <4>1, UncountedKept DEF RunningInv
    <3> QED BY <3>2, <3>3
  <2> QED BY <2>2, <2>3, <2>4
<1> QED BY <1>1, <1>2, <1>3

\* Every step keeps the open turns of the working tasks.
LEMMA RunningStep ==
    ASSUME Inv, FactsInv, KeysInv, RunningInv, Next
    PROVE  RunningInv'
<1>1. \A t \in Tasks : HasOpenTurn(t)' <=> OpenNext(t)
  BY DEF HasOpenTurn, CurrentTurn, OpenNext
<1>2. ASSUME NEW t \in Tasks, mode' = "up", state'[t] \in {"running", "waiting_for_user"},
             ~ (work' # Idle /\ work'.step = "open" /\ work'.task = t)
      PROVE  HasOpenTurn(t)' \/ Uncounted(t)'
  BY <1>1, <1>2, WorkingStep
<1>3. \A t \in Tasks : state'[t] = "ready_for_followup" /\ session'[t] = "busy" =>
         \/ Uncounted(t)'
         \/ work' # Idle /\ work'.task = t /\ work'.fresh /\ work'.step = "deliver"
  BY BusyStep
<1>4. \A t \in Tasks : work' # Idle /\ work'.task = t =>
         /\ work'.to = "ready_for_followup" => session'[t] # "busy"
         /\ /\ work'.to = "waiting_for_user"
            /\ work'.step \in {"apply", "settle"}
            /\ state'[t] = "ready_for_followup"
            => Uncounted(t)'
  BY ReportedStep
<1>5. work' # Idle => work'.task \in Tasks
  <2>1. WorkOK' BY InvStep DEF Inv, TypeOK
  <2> QED BY <2>1 DEF WorkOK, Work
<1>6. \A t \in Tasks : Uncounted(t)' <=> UncountedNext(t)
  BY DEF Uncounted, UncountedNext
<1>7. (work # Idle => Uncounted(work.task))' <=> (work' # Idle => UncountedNext(work'.task))
  BY DEF Uncounted, UncountedNext
<1> QED BY <1>2, <1>3, <1>4, <1>5, <1>6, <1>7 DEF RunningInv

\* The lock holder neither starts nor ends a process, nor prunes a key.
LEMMA WorkKeepsHost == ASSUME WorkStep PROVE UNCHANGED host
BY DEF WorkStep, StartStep, DispatchStep, AdapterStep, SettleStep, HandOver, StartedRunning,
       OpenFirstTurn, Reserve, RefuseLineage, MarkDispatchStarted, MarkDispatchRefused,
       CallAdapter, AdapterReports, AdapterConsents, AdapterRefuses, AdapterFaults, Deliver,
       RecordAnswer, Apply, Fail, CaptureRange, CaptureFinal, Settle, Evaluate

\* A task waits for the next message with the result of the last one.
LEMMA ResultStep ==
    ASSUME Inv, ReadyHasResult, Next
    PROVE  ReadyHasResult'
<1> SUFFICES ASSUME NEW t \in Tasks, state'[t] = "ready_for_followup"
             PROVE  Len(turns'[t]) > 0 /\ turns'[t][Len(turns'[t])].outcome = "completed"
  BY DEF ReadyHasResult, LastTurn
<1>1. Inv' BY InvStep
<1>2. CASE mode' = "up"
  <2>1. ~ (work' # Idle /\ work'.step = "open" /\ work'.task = t)
    BY <1>1 DEF Inv, WorkInv, StepInv, ExpectInv
  <2>2. /\ turns'[t] # <<>>
        /\ turns'[t][Len(turns'[t])].outcome \in {"open", "completed"}
    BY <1>1, <1>2, <2>1 DEF Inv, HistoryInv, GoingOn, LastTurn
  <2>3. turns'[t] \in Seq(Turn) BY <1>1 DEF Inv, TypeOK, RowsOK
  <2>4. Len(turns'[t]) \in DOMAIN turns'[t] /\ Len(turns'[t]) > 0 BY <2>2, <2>3
  <2>5. \A n \in DOMAIN turns'[t] : turns'[t][n].outcome # "open"
    BY <1>1 DEF Inv, QuietTaskHasNoOpenTurn, HasOpenTurn, CurrentTurn, Quiet
  <2> QED BY <2>2, <2>4, <2>5
<1>3. CASE mode' # "up"
  <2>1. ~ WorkStep BY <1>3, OperationGoesOn, WorkKeepsHost DEF host
  <2>2. ~ Settle /\ ~ Opens
    BY <2>1 DEF WorkStep, StartStep, SettleStep, Opens
  <2>3. state'[t] = state[t]
    BY <2>2, StateWritten
  <2>4. CASE Recover(t) /\ turns'[t] # turns[t]
    <3>1. state'[t] \in {"recovery_required", "interrupted"}
      BY <2>4 DEF Recover, Move, rows, Inv, TypeOK, RowsOK
    <3> QED BY <3>1
  <2>5. CASE turns'[t] = turns[t] BY <2>3, <2>5 DEF ReadyHasResult, LastTurn
  <2> QED BY <2>2, <2>4, <2>5, TurnsWritten
<1> QED BY <1>2, <1>3

-----------------------------------------------------------------------------
(* The theorems.                                                            *)

\* Nothing is on record at first.
LEMMA InitFull == Init => FullInv
<1> SUFFICES ASSUME Init PROVE FullInv
  OBVIOUS
<1>1. Inv BY InitInv
<1>2. /\ work = Idle /\ inFlight = {} /\ toStart = {} /\ expiries = 0
      /\ \A t \in Tasks :
            /\ state[t] = "absent" /\ turns[t] = <<>> /\ questions[t] = <<>>
            /\ evaluated[t] = {} /\ reached[t] = {} /\ followKeys[t] = {}
            /\ session[t] = "none" /\ \A k \in Keys : delivered[t][k] = 0
      /\ mode = "up"
  BY DEF Init
<1>3. \A t \in Tasks : DOMAIN turns[t] = {} /\ DOMAIN questions[t] = {} BY <1>2
<1>4. FactsInv
  BY <1>2, <1>3 DEF FactsInv, FrozenBeforeReached, TurnStandsOnItsFacts, NumberInv, FreezingInv
<1>5. JudgedInv BY <1>2 DEF JudgedInv
<1>6. QuestionsInv
  <2>1. \A t \in Tasks : Pending(t) = {} BY <1>3 DEF Pending
  <2>2. StoppedTaskAsksNothing /\ AskingInv
    BY <1>2, <2>1 DEF StoppedTaskAsksNothing, AskingInv
  <2>3. PendingBounded BY <2>1, FS_EmptySet, LimitsAssumption DEF PendingBounded
  <2> QED BY <2>2, <2>3 DEF QuestionsInv
<1>7. CutOffInv BY <1>2, <1>3, RecoverableAssumption DEF CutOffInv, CutOff
<1>8. StartInv BY <1>2 DEF StartInv, Starting
<1>9. KeysInv
  <2>1. CarriersInv BY <1>2 DEF CarriersInv, Sends, Waits
  <2>2. DeliveriesInv BY <1>2 DEF DeliveriesInv
  <2>3. OpenedInv BY <1>2, <1>3 DEF OpenedInv, Opened
  <2>4. OneTurnPerMessage BY <1>3 DEF OneTurnPerMessage
  <2> QED BY <2>1, <2>2, <2>3, <2>4 DEF KeysInv
<1>10. RunningInv /\ ReadyHasResult BY <1>2 DEF RunningInv, ReadyHasResult
<1> QED BY <1>1, <1>4, <1>5, <1>6, <1>7, <1>8, <1>9, <1>10 DEF FullInv

\* Every step keeps the whole invariant.
LEMMA FullStep == FullInv /\ [Next]_vars => FullInv'
<1> SUFFICES ASSUME FullInv, [Next]_vars PROVE FullInv'
  OBVIOUS
<1>1. Inv' BY InvStep DEF FullInv
<1>2. CASE Next
  <2>1. /\ Inv /\ FactsInv /\ JudgedInv /\ QuestionsInv /\ CutOffInv /\ StartInv
        /\ KeysInv /\ RunningInv /\ ReadyHasResult
    BY DEF FullInv
  <2> QED BY <1>1, <1>2, <2>1, FactsStep, JudgedStep, QuestionsStep, CutOffStep,
             StartStaysTrue, KeysStep, RunningStep, ResultStep
          DEF FullInv
<1>3. CASE UNCHANGED vars
  <2>1. /\ UNCHANGED <<state, turns, questions, prework, asker, ranged, finals, evaluated>>
        /\ UNCHANGED <<followKeys, toStart, inFlight, work, session, mode, todo, expiries>>
        /\ UNCHANGED <<reached, delivered, told>>
    BY <1>3 DEF vars, rows, facts, evidence, calls, host, history
  <2>2. FactsInv'
    BY <2>1 DEF FullInv, FactsInv, FrozenBeforeReached, TurnStandsOnItsFacts, NumberInv,
                FreezingInv, LastTurn
  <2>3. JudgedInv' /\ CutOffInv' /\ StartInv' /\ ReadyHasResult'
    BY <2>1 DEF FullInv, JudgedInv, CutOffInv, CutOff, StartInv, ReadyHasResult, LastTurn
  <2>4. QuestionsInv'
    BY <2>1 DEF FullInv, QuestionsInv, StoppedTaskAsksNothing, PendingBounded, AskingInv,
                HasRoom, Pending
  <2>5. KeysInv'
    BY <2>1 DEF FullInv, KeysInv, CarriersInv, DeliveriesInv, OpenedInv, OneTurnPerMessage,
                Sends, Waits, Undelivered, Unopened, Opened
  <2>6. RunningInv'
    BY <2>1 DEF FullInv, RunningInv, HasOpenTurn, CurrentTurn, Uncounted
  <2> QED BY <1>1, <2>2, <2>3, <2>4, <2>5, <2>6 DEF FullInv
<1> QED BY <1>2, <1>3

\* What the rows, the facts, the keys, the questions and the holder of the lock
\* say of one another holds in every state of Task Core (service.py, store.py).
THEOREM AccountsInvariant == Spec => []FullInv
<1> QED BY InitFull, FullStep, PTL DEF Spec

\* A message is one delivery for every day its key is remembered, and one turn;
\* turns follow one another, each on the facts it was handed over under
\* (remember_followup, _open_turn_locked, _record_pre_work).
THEOREM MessagesAreTurnsAlways == Spec => []MessagesAreTurns
<1>1. FullInv => MessagesAreTurns
  <2> SUFFICES ASSUME FullInv PROVE MessagesAreTurns
    OBVIOUS
  <2>1. expiries \in Nat BY BoundsAssumption DEF FullInv, Inv, TypeOK, HostOK
  <2>2. \A t \in Tasks, k \in Keys :
           delivered[t][k] \in Nat /\ delivered[t][k] <= expiries + 1
    BY DEF FullInv, KeysInv, DeliveriesInv, Inv, TypeOK, HistoryOK
  <2>3. DeliveredOnce BY <2>1, <2>2 DEF DeliveredOnce
  <2> QED BY <2>3 DEF MessagesAreTurns, FullInv, Inv, KeysInv, FactsInv
<1> QED BY <1>1, AccountsInvariant, PTL

\* A provider never leaves more than MAX_PENDING_PER_TASK questions, and none on
\* a task that a cancel or a restart stopped (clarification_room, _close_pending).
THEOREM QuestionsStayBounded == Spec => []QuestionsAreBounded
<1>1. FullInv => QuestionsAreBounded BY DEF FullInv, QuestionsInv, QuestionsAreBounded
<1> QED BY <1>1, AccountsInvariant, PTL

\* A task whose turn a restart interrupted never completes afterwards
\* (recover_after_restart, settle_recovered_task).
THEOREM RestartsClaimNoSuccess == Spec => []InterruptedNeverCompletes
<1>1. FullInv => InterruptedNeverCompletes
  BY DEF FullInv, CutOffInv, CutOff, InterruptedNeverCompletes
<1> QED BY <1>1, AccountsInvariant, PTL

\* What ready_for_followup promises is there to be read, and no adapter is called
\* on facts that could be redrawn; until a key is pruned a working task has the
\* open turn it works for; and where no adapter recovers, a starting task has the
\* call that starts it.
THEOREM RowsAccountForWork ==
    Spec => [](/\ ReadyHasResult /\ FrozenBeforeReached
               /\ expiries = 0 => RunningHasOpenTurn
               /\ Recoverable = {} => NoOrphan)
<1>1. FullInv => /\ ReadyHasResult /\ FrozenBeforeReached
                 /\ expiries = 0 => RunningHasOpenTurn
                 /\ Recoverable = {} => NoOrphan
  <2> SUFFICES ASSUME FullInv
               PROVE  /\ ReadyHasResult /\ FrozenBeforeReached
                      /\ expiries = 0 => RunningHasOpenTurn
                      /\ Recoverable = {} => NoOrphan
    OBVIOUS
  <2>1. Recoverable = {} => NoOrphan BY DEF FullInv, StartInv, Starting, NoOrphan
  <2>2. expiries = 0 => RunningHasOpenTurn
    BY DEF FullInv, RunningInv, Uncounted, RunningHasOpenTurn, At
  <2> QED BY <2>1, <2>2 DEF FullInv, FactsInv
<1> QED BY <1>1, AccountsInvariant, PTL

\* All of it together, on a host without an adapter that recovers, until a key is
\* pruned: the two exceptions are the ones TLC finds.
THEOREM WorkIsAccountedFor ==
    Spec => [](Recoverable = {} /\ expiries = 0 => WorkIsAccounted)
<1>1. (/\ ReadyHasResult /\ FrozenBeforeReached
       /\ expiries = 0 => RunningHasOpenTurn
       /\ Recoverable = {} => NoOrphan)
      => (Recoverable = {} /\ expiries = 0 => WorkIsAccounted)
  BY DEF WorkIsAccounted
<1> QED BY <1>1, RowsAccountForWork, PTL

\* The criteria an adapter was called under are never redrawn, whatever crashes
\* or is sent again (_record_pre_work_criteria).
THEOREM CriteriaAreFrozen == Spec => CriteriaStayFrozen
<1>1. FullInv /\ [Next]_vars =>
        [\A t \in Tasks : \A n \in reached[t] : asker'[t][n] = asker[t][n]]_vars
  BY CriteriaKept DEF FullInv
<1> QED BY <1>1, AccountsInvariant, PTL DEF Spec, CriteriaStayFrozen

\* What a judgement was given on - the turn, its criteria, the observations of
\* its boundary - stays what it was (evaluate_closed_turns).
THEOREM JudgementsStand == Spec => JudgementStands
<1>1. FullInv /\ [Next]_vars =>
        [\A t \in Tasks : \A n \in evaluated[t] :
           /\ turns'[t][n] = turns[t][n]
           /\ asker'[t][n] = asker[t][n]
           /\ (n \in ranged'[t]) <=> (n \in ranged[t])
           /\ (n \in finals'[t]) <=> (n \in finals[t])]_vars
  BY JudgementKept DEF FullInv
<1> QED BY <1>1, AccountsInvariant, PTL DEF Spec, JudgementStands
=============================================================================
