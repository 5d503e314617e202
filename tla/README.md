# Cofferdam in TLA+

Cofferdam is a workstation daemon through which one person, from a phone or a
Custom GPT, delegates work to coding agents on the host, watches it, answers its
questions, and approves what may run. These modules model the parts of it that
change durable state while several requests, an agent process and a restart get
in each other's way. They are written from the code in `src/cofferdam`; each
definition names its lines in `PROJECT.json` under `map`.

## 1. The system

| Component | State it keeps | Operations | Hard behaviour |
|---|---|---|---|
| Task Core (`tasks/service.py`, `tasks/store.py`) | SQLite: tasks, turns, questions, pre-work facts, boundary observations, evaluations, events, idempotency keys | create, follow up, refresh, cancel, finish, answer, recover, settle, evaluate | one lock but many transactions; a call into an adapter in the middle; retries; restarts |
| Task adapters (`tasks/adapters`) | one live session per task, in memory | start, send_followup, inspect, cancel, answer | reports that race with requests; refusal and fault; nothing survives a restart |
| Evidence and evaluation (`tasks/evidence.py`, `lineage.py`, `acceptance.py`, ...) | none (pure over rows) | derive a bundle, judge criteria | when they run, and over what |
| Planner (`planner/`) | a second SQLite: requests, ingress receipts, authority events, dispatches, reconciliations, publications | submit, approve or reject, dispatch, cancel, reconcile | two databases without a common transaction; a cloud call that must be made at most once |
| Development worker (`worker/`) | a Git worktree and a journal file per dispatch | prepare, run, check, commit, classify after a restart | a crash between intent and result |
| Publisher (`publisher/`) | a publication row; a remote branch and a pull request | publish, reconcile | external state that outlives the process |
| Actions bridge (`actions_bridge/`) | claims of request ids | claim, settle, release | stale claims taken over |
| Mind (`mind/`) | memory proposals; Markdown documents | propose, accept, reject, recover | claim, replace, finalize; the document may drift |
| Workspace, context | the active workspace, objectives | activate, set, build a pack | little: single rows under one lock |
| Remote Control sessions (`sessions/`) | systemd units, one state file per project, host processes | start, stop, status, link | the link of one generation served for another |
| YouTube player (`youtubeplayer/`, `web/player.js`) | a queue and a cursor; a channel to one page | play, next, remove; register, report, acknowledge | one launch; an older page that still runs |
| Spotify player (`spotifyplayer/`) | an authorization, in a file and in an object; an attempt and its thread; the level to restore after a mute | read, control, disconnect; authorize, cancel; mute | one object changed by every request; a disconnect or a cancel while others are at work |
| Trust Core (`approval_store.py`, `approve_cli.py`) | an append-only ledger file under an OS lock | approve, consume | torn appends, lost barriers, single use |
| Host runtime, audio, media search, HTTP service, web client | caches and projections | reads | none of their own |

The HTTP service, the bridge and the planner all reach work through Task Core:
the bridge turns a Custom GPT's call into `create_task` or `send_followup`, the
planner dispatches an approved prompt as `create_task` with the worker adapter,
and after a restart it alone settles the tasks that Task Core parked. Task Core
calls adapters synchronously, holding its lock, and learns what an adapter did
only from the report a call returns. `create_app` (`workstation/service.py`)
runs recovery before the first request is served.

What makes each component correct, in one line: **Task Core** - a task, its
turns, its questions and its evidence never disagree, and every closed turn is
judged on facts that no longer move; **adapters** - a report never claims what
the session did not do; **planner** - one planner call per request id, one human
decision per gate, one worker per decision; **worker** - a restart never repeats
work and never claims work that is not in Git; **publisher** - one pull request
per dispatch, for exactly the reviewed commit; **bridge** - one mutation per
request id; **Mind** - a document changes only by an accepted proposal against
the content it was reviewed against; **Trust Core** - an approval is used once,
for what was read; **Remote Control** - a link is of a host that runs; **YouTube
player** - what is answered is what a page did, and the list is kept; **Spotify
player** - an account given up stays given up, and a live token is not lost.

The hazards this code is exposed to are listed, at their lines, in
`PROJECT.json`; the properties below are written against them.

## 2. Plan and what there is

| Module | What it models | Composed with | Runs | Proofs |
|---|---|---|---|---|
| `TaskLifecycle` | the graph of task states | used by `TaskCore` | | |
| `TaskCore` | tasks, turns, facts, questions, keys, restarts | refines `TurnLedger` | `TaskCore`, `TaskCoreMessages` | `TaskCoreProofs` |
| `TurnLedger` | what Task Core promises of its turns | abstract | `LedgerSpec` in `TaskCore` | `TaskCoreProofs` |
| `AgentSession` | the adapter's session: two processes, two pipes | the other side of `AdapterReports` in `TaskCore` | `AgentSession` | `TurnEvidenceProofs`, second part |
| `TurnEvidence` | what was observed of a turn, and the verdict on it | what `Evaluate` in `TaskCore` runs | `Evidence` | `TurnEvidenceProofs` |
| `PlannerIngress` | request keys, planner rows, decisions, boot | its `carried` is what `Delivery` does | `PlannerIngress` | `PlannerIngressProofs` |
| `Delivery` | dispatch, worker, reconciliation, publication | Task Core, worker, Git and GitHub in one module | `Delivery` | `DeliveryProofs` |
| `RequestClaims` | the bridge's two-phase claim | | `RequestClaims` | `TrustLedgerProofs`, second part |
| `Mind` | proposals against documents | refines `ProposalBook` | `Mind` | `MindProofs` |
| `ProposalBook` | what Mind promises of a proposal | abstract | `BookSpec` in `Mind` | `MindProofs` |
| `YoutubePlayer` | list, channel, action and pages | | `YoutubePlayer` | `RemoteControlProofs`, second part |
| `RemoteControl` | requests, unit, host and state file | | `RemoteControl` | `RemoteControlProofs` |
| `SpotifyAccount` | authorization, renewals, attempts | | `SpotifyAccount` | `SpotifyAccountProofs` |
| `TrustLedger` | approvals, lock, appends and faults | | `TrustLedger` | `TrustLedgerProofs` |

To come, in this order: volume and mute of the Spotify player; the Claude Code
adapter that runs one process per turn.

A run answers one question, so there is one run per component, and two for Task
Core, where messages and questions have little to do with each other and would
multiply. Where the documentation says something the code does
not keep, the statement is a definition beside the properties, under a comment
that says so; `findings` in `PROJECT.json` quotes the documentation, and the
section of each component names the instance in which TLC finds the exception.
To see one, put the statement under `INVARIANTS` (under `PROPERTIES` where said)
of the named configuration, with the constants changed as named.

## 3. Task Core

### How the model corresponds to the code

`TaskService` holds one `RLock` over most of each operation, and inside it every
write of `TaskStore` is a SQLite transaction. So the model has one variable
`work`, the operation holding the lock with its local variables, and one action
per transaction or adapter call; between any two the process may die. Two writes
happen before the lock: the insert of `create_task` and the key that
`send_followup` remembers. Those calls wait in `toStart` and `inFlight`.

| Variable | Code |
|---|---|
| `state`, `turns`, `questions` | rows of `tasks`, `task_turns`, `task_clarifications` |
| `prework`, `asker` | `dispatch_state` of the baseline, criteria and continuity rows of a turn number, and whose criteria the snapshot holds |
| `ranged`, `finals`, `evaluated` | the `committed_range_observed` event, `task_turn_final_state`, `task_turn_evaluations` |
| `followKeys` | idempotency rows of scope `task_followup:<task>` |
| `session` | what the adapter still holds for a task: nothing, an idle session, a busy one |
| `mode`, `todo` | serving, dead or recovering, and the rows recovery has still to settle |
| `reached`, `delivered`, `told` | history: turn numbers an adapter was called for, deliveries of a message, answers "duplicate" |

| Actions | Code |
|---|---|
| `CreateTask`, `Queue`, `HandOver`, `Reserve`, `RefuseLineage`, `MarkDispatchStarted`, `CallAdapter`, `StartedRunning`, `OpenFirstTurn` | `create_task` and `_start` |
| `BeginFollowup`, `RememberFollowup`, `LockFollowup`, `Deliver` | `send_followup`: read, key, lock and checks, delivery |
| `Refresh`, `Cancel`, `Finish`, `Answer`, `RecordAnswer` | the other requests |
| `AdapterReports`, `AdapterConsents`, `AdapterRefuses`, `AdapterFaults`, `MarkDispatchRefused` | how a call into an adapter ends |
| `Apply`, `Fail`, `CaptureRange`, `CaptureFinal`, `Settle`, `Evaluate` | `_apply`, `_fail`, the boundary of a turn, the closing transaction, `evaluate_closed_turns` |
| `Crash`, `Restart`, `Recover`, `EvaluateAtBoot`, `SettleRecovered`, `ExpireKey` | the end of a process, `recover_after_restart`, the planner's settle, `_prune_idempotency` |

Abstractions. A message is its key, a criteria snapshot is the key of the
message it came from, a question is its status. The text of events, titles,
errors and the audit trail is left out. A report is the state it asks for,
whether it carries a question, and what it leaves of the session; the sets
`StartReports`, `FollowupReports`, `InspectReports` and `CancelReports` are the
reports the shipped adapters can return in a session of that kind.

### Runs

All runs use the module `MCTaskCore`. Deadlock is not checked: a host with
nothing left to do, or one that died for the last time the bound allows, stops.

| Run | Question | Instance |
|---|---|---|
| `TaskCore` | Do the rows of one task ever disagree, whichever of the paths closes a turn and wherever the process dies? Is the invariant of the proofs true, does Task Core implement the ledger, is every closed turn judged, does a starting task get anywhere? | 1 task, 1 key, 2 turns, 2 questions with room for 1, 2 crashes, `FairSpec`; 125 thousand states |
| `TaskCoreMessages` | Which message opened which turn, under which facts, when follow-ups race, are retried and outlive their key? What may happen to a parked task beside an interrupted one? | `TwoMessagesOrTwoTasks`: 2 keys with 3 turns, 2 in flight and a pruned key; or 2 tasks, the second recoverable, with one message and a crash; symmetric in keys; 3.6 million states |

What the properties say:

- `QuietTaskHasNoOpenTurn` and `WorkIsAccounted`: turns and task states agree. A
  running task has its turn open (`RunningHasOpenTurn`, which excuses a task
  whose session took a message past the turn limit), a ready
  one has a result (`ReadyHasResult`), a created or starting one is in somebody's
  hands (`NoOrphan`), and the facts of a turn are fixed before an adapter is
  called (`FrozenBeforeReached`).
- `CriteriaStayFrozen`: what the evaluator will judge by does not move under it.
- `BoundaryObserved`, `JudgementStands`, `ClosedTurnIsEvaluated`: the boundary of
  a turn is observed before it closes, on each path, and judged once, later, on
  what cannot move.
- `QuestionsAreBounded`: a cancelled, interrupted or parked task asks nothing, and
  questions stay within their limit.
- `MessagesAreTurns`: only the last turn is open, a message is delivered once and
  opens one turn (`OneTurnPerMessage`, `DeliveredOnce`), and a turn stands on its
  own facts.
- `EndedIsFinal`, `InterruptedNeverCompletes`, `StartingResolves`, `LedgerSpec`:
  what may happen after an end, an interruption or a start.

What the documentation says and the code does not keep, each with the instance
that shows it:

| Statement | What happens | Instance |
|---|---|---|
| `DuplicateMeansDelivered` | a refused follow-up sent again is answered as a delivered one | `TaskCoreMessages.cfg` |
| `CriteriaOfTheMessage` | a turn is judged by the criteria of a message that was refused | `TaskCoreMessages.cfg` |
| `RunningHasOpenTurn`, once keys are pruned | a message sent again a day later is delivered and opens no turn | `TaskCoreMessages.cfg` |
| `DispatchIsAccounted` | a message accepted past the turn limit is neither a turn nor refused | `TaskCore.cfg`, `MaxTurns = 1` |
| `EndedTaskAsksNothing` | an adapter fault leaves the question of a failed task pending | `TaskCore.cfg` |
| `NoOrphan`, with adapters that recover | a restart leaves a created task to nobody | `TaskCore.cfg`, `Recoverable <- OneTask` |

Why the bounds are enough. Every loop of the code that matters has at most three
rounds (three facts) or is over turns, and two turns already give a closed turn
beside an open one, a resumed turn beside a new one, and a turn beyond the limit
(`MaxTurns` is the real limit made small, and is met). Two keys give a race and a
refused message followed by another. One crash per run reaches every point
between two transactions, the second a crash during recovery and one after it.
One task is enough where nothing relates two, since the lock is the only thing
tasks share; `TaskCoreMessages` has two for that reason, in states where at most
one message was sent. A crash while two messages race is in no run: a restart
forgets every request in flight, and what it finds of an accepted message is
what `TaskCore` crashes on. Questions are in `TaskCore` only, because
messages and questions meet in no variable but the state. Of the two liveness
properties neither needs two tasks or two messages, for both speak of one turn
or one start.

Fairness. `WF(WorkStep)`: an operation that holds the lock goes on - it is a
thread, and every adapter call has a timeout after which it returns or raises.
`WF(Boot)`: the service manager restarts a dead process and recovery is a loop
over rows. No request is fair: nobody has to refresh, answer or cancel.

## 4. Mind

### How the model corresponds to the code

A proposal to change a memory document is a row with the scope and role it is
for, a fingerprint of the document that role named (`target_binding_hash`), the
hash of the content it was reviewed against, and the whole new content. Requests
run in a thread pool (`_run_mind`) and share no lock, so every thread in `Calls`
has a step and local variables of its own, and every read of the configuration,
read of a document, compare-and-set of a row and rename is one action.

| Variable | Code |
|---|---|
| `file` | the documents; `None` is a document that cannot be read as an ordinary file |
| `names`, `active` | `workspaces.json`, the vault grant, and the active workspace |
| `state`, `review` | the state of a row and its immutable columns |
| `call` | each thread: its step, proposal, resolved target and base |
| `mode` | serving, or starting and classifying |
| `shown`, `last`, `blind`, `lost` | history: contents a document has held, its newest writer, claims given back unseen, claims the store refused to end |

| Actions | Code |
|---|---|
| `Propose`, `ReadBase`, `InsertProposal` | `create_proposal`: resolve, inspect, insert |
| `BeginReject`, `Reject` | `reject_proposal` |
| `BeginAccept`, `CheckWorkspace`, `Resolve`, `Inspect`, `MarkStale`, `Claim`, `Replace`, `ReplaceFails`, `Release`, `FinalizeApplied` | `accept_proposal`, in its order |
| `StoreFails` | a transaction that raises and is rolled back |
| `Crash`, `Recover`, `Serve` | the end of a process; `recover_after_restart`, one row at a time, before the first request |
| `Edit`, `Remap`, `Activate` | the host: an editor, the configuration files, `activate` and `deactivate` |

Abstractions. A hash is the content, for only equality is asked of it. A root
with a relative name is one document, and a scope has one role. A global proposal
is bound to the vault's document, a project proposal to the active workspace's,
and resolution uses the workspace active *now*, as the code does. A workspace or
project that is disabled or missing is a scope that maps the role to nothing. The
temporary file and its rename are one atomic change or none. Recovery classifies
at most 100 rows per start in the code, all of them in the model.

### Runs

One run, `Mind`: who writes a document, what does the row say of it afterwards,
and does a claim end? Two documents, two contents, a workspace and the vault, one
proposal, two threads, one edit, one change of configuration and one crash, with
`FairSpec`; 560 thousand states.

- `RowsAreTrue` is a conjunction. One writer per proposal (`OneClaimant`). The row
  against the document, in both directions, through failed writes, failed records
  and crashes (`AppliedIsTrue`, `LastWriterIsRecorded`); the exception, `blind`, is
  the one the code documents: a restart that cannot see the document gives the
  claim back although the bytes may have landed. A claim has an owner
  (`NoAbandonedClaim`), unless the store refused to end it (`lost`): then the row
  stays `applying` until the next start.
- `DecidedIsFinal`: the compare-and-set does what the reads before it cannot, and
  a decision stands.
- `OnlyTheClaimantWrites`: however the configuration moves between the checks and
  the rename, a write is the content of a claimed proposal in the document that
  proposal was reviewed for.
- `BookSpec`: Mind implements `ProposalBook`, in which there are no threads, no
  configuration and no claims to take: a proposal is open, accepted, written or
  failed, and decided, in this order. It is written once for each time it is
  accepted; it is recorded as applied by its writer after the writing, or by a restart
  that finds its content in the document; and stale, after it was accepted, only where
  the document holds neither that nor the base. Which of these an `applying` row is
  in, only the thread that holds the claim knows (`Phase`); with the thread gone the
  proposal is abandoned. A restart may leave it open whatever the document holds, for
  it may not be able to see it.
- `ClaimIsSettled`: a claim ends.
- `HashedIsWritten` is stated by a comment and refuted: the claim belongs to the
  proposal, not to the document. Two proposals with the same base, accepted at
  once, are both written and both recorded as applied, and the first one's content
  is gone. Instance: `Mind.cfg` with `Docs <- OneDoc`, `Contents <- ThreeContents`,
  `Proposals <- TwoProposals` and no edit, change or crash, under `PROPERTIES`.

Why the bounds are enough. Two documents let a role move to another one, two
contents let a document drift, two threads are what a race on one proposal needs,
and one edit, one change and one crash can each fall between any two steps. A
second proposal adds nothing to properties that speak of one proposal and its
document, and the theorems below hold for any number.

Fairness. `WF(CallStep(c))`: a request taken by the pool goes on until it
returns. `WF(Boot)`: start-up is a loop over rows. No request has to arrive.

## 5. Planner ingress

`PlannerIngress` is `POST /api/development-requests` (`planner/ingress.py`,
`planner/service.py`) and the decisions on what it prepared
(`planner/authority_service.py`), over the planner's database. A submit runs in a
thread of its own and every step of it is a transaction of its own; the boot
settles what a dead process left before anything is served.

| Variable | Code |
|---|---|
| `receipts` | `planner_ingress_receipts`, by project and `client_request_id` |
| `requests`, `authority` | `planner_requests`, `planner_authority_events` |
| `carried` | what the dispatch, the worker and the publisher made of an approved request, as far as operations tells "settled" from "working" |
| `active` | the active workspace |
| `calls`, `deciders`, `host` | threads inside `submit` and inside a decision; is the daemon up, and how far is its boot |

| Actions | Code |
|---|---|
| `Claim`, `Replay`, `CheckSettled`, `RefuseContext`, `Release`, `BuildContext`, `CreateRequest` | `submit`, in its order; `CheckSettled` is `_require_no_unresolved_step`, a read of its own after the claim |
| `MarkRunning`, `RecordSuccess`, `RecordFailure`, `Answer` | `run_planner_invocation` and `_outcome` |
| `Look`, `Decide` | `_record`: read the row, then write under the unique index and read back |
| `Crash`, `MarkInterrupted`, `AbandonOpenIngress` | the end of a process and the boot |
| `Carry`, `SwitchWorkspace` | what happens further down, and `activate` |

Run `PlannerIngress`: two projects, one key each, two threads that submit, two
that decide, two rows, one switch and one crash; `FairSpec`, 236 thousand states.
`ClaimsAreSound`: a key plans once, a row is bound to its receipt in the same
transaction, and no claim is left with nobody. `DecisionsStand`: of two people who
decide at once, both are told what is stored (`ToldIsStored`), and what an
invocation came to is never rewritten, although neither `record_success` nor the
boot looks at who else wrote (`FinishedStands`). `ClaimEnds`: a claim does not stay open. Two threads are what a
race on a key or a gate needs; a second row and a second project are what a switch
of the workspace can confuse.

Fairness: `WF(CallStep(c))`, for a thread in the pool goes on and the planner call
has a timeout, and `WF(Boot)`. Nobody has to submit or decide.

Refuted statements: `OneDevelopmentThread` ("One development thread per project"),
with `Projects <- OneProject` and `Keys <- TwoKeys`: two submits both see the
project settled and both plan. `PlannedForItsProject` ("the pack the builder
produces is this project's"), with the run's constants: the workspace is switched
between the resolution and the pack, and the row is the other project's.

## 6. Delivery

`Delivery` follows an approved prompt to a pull request through four stores with
no common transaction: Task Core, the planner's database, Git and GitHub. It
composes the parts of `planner/dispatch_service.py`,
`tasks/adapters/claude_code_worker/adapter.py`, `worker/`, `publisher/` and
`operations/view.py` that write or read more than one of them.

| Variable | Code |
|---|---|
| `tasks`, `known` | rows of worker tasks, and the one still found under a request's derived key |
| `dispatch`, `recon`, `pub` | `planner_worker_dispatches`, `planner_dispatch_reconciliations`, `planner_publications` |
| `tree`, `journal` | the worktree of a task (is it there, is it ours, where its branch points, is it dirty) and the phases in its journal |
| `remote`, `prs` | the branch on GitHub and its pull requests |
| `dispatchers`, `publishers`, `reconciling`, `host` | threads, the boot's loop, and is the daemon up |
| `baseAuthor`, `made` | who wrote the commit the worktree was cut from; history: what the worker did |

| Actions | Code |
|---|---|
| `Dispatch`, `CreateTask`, `Start`, `RefuseStart`, `Link`, `ForgetKey`, `Cancel` | `dispatch_approved_worker_prompt`, `cancel_dispatch`, the pruning of keys |
| `Prepare`, `NotePrepared`, `NoteRunning`, `Edit`, `Return`, `Commit`, `NoteCommitted`, `Finish` | the worker adapter's `start`, with its journal before and after each effect; the contained session is `Edit` and `Return`; the project's check, which may write too, is `Edit` before `Commit`; a worker that reports an error ends the task as failed with its edits committed |
| `PassGate`, `RefuseGate`, `RecordPending`, `RefuseCredential`, `Push`, `RecordPushed`, `FindPullRequest`, `CreatePullRequest`, `LoseAnswer`, `PublishFails`, `RecordPublished` | `publish` and the GitHub client |
| `Crash`, `RecoverTasks`, `Classify`, `SettleTask`, `RecordReconciliation`, `Reconciled`, `ReconcilePublications` | the end of a process; Task Core's recovery, then both reconciliations at boot |
| `Disturb`, `CommitOnTop`, `ClosePullRequest` | people in a worktree and on GitHub |

`Phase` is `derive` of the operations view, the rules in their order.

Run `Delivery`: one request, two dispatchers, two publishers, one worker task, one
crash and one touch; `FairSpec`, 646 thousand states. `ReconciliationIsTrue`: what
a restart records is what the worker did, as long as nobody touched the worktree
and the base can be told from a worker's commit. `NothingUnfinishedShows`: a
settled phase has no worker running, and what left the host is the branch of a
worker that ended. `ParkedIsSettled`: what a restart finds parked it settles. Two
threads of each kind race for one row; one crash falls between any two steps, and
what two do to each other is in the statement below that needs it. Fairness is
`WF(Boot)` alone.

Refuted statements: `SettledIsReconciled` (`MaxCrashes = 2`: a crash between the
settle and its record); `OneWorker` (`MaxTasks = 2`: the key was pruned before the
retry); `RecoveredIsMade`, `CommitIsShown`, `PublishedIsRecorded` (the run's
constants).

## 7. Turn evidence

`TurnEvidence` is the pure part of Task Core: `observe_git` and `git_evidence`
(`tasks/adapters/claude_code/evidence.py`), the committed range
(`tasks/gitrange.py`), attribution and the verdicts (`tasks/evaluation.py`), the
comparison with a worker's claims (`tasks/evidence.py`). The operators are applied
to every repository a turn can lead to: `base`, `head`, `index` and `work` are
trees, `Write`, `Stage`, `Commit` and `Reset` what a worker does to them, `Report`
and `CaptureRange` the two observations, each of which may fail, be cut short or
drop a path it may not name. Git's rename detection is external: equal content.

Run `Evidence`: two paths, two contents, up to four steps, room for one
observation per report, all initial trees; symmetry over paths and contents, which
nothing orders; 2.3 million states. The reference definition is `ever`, what each
path really went through. `VerdictsAreTrue`: a criterion is met only by what the
turn did (`MetWasDone`), and absence is concluded only from a complete look
(`NotMetIsUnchanged`).
`ReportsAreSound`: two observations of one change never contradict a truthful
claim. Two paths are what a rename needs, and room for one makes a report of two
incomplete.

Refuted statements: `RenamedAwayIsNotUnchanged` (the run's constants): the old path
of a rename is judged unchanged. `RenamedAwayIsNoConflict` (`MaxSteps = 8`,
`Room = RangeRoom = 2`): of a file that was committed as modified and then renamed away
without a commit, only the commit speaks, and the true claim "deleted" is published
as a conflict. The run's four steps are too few to reach it. The proof found it, and
`TruthIsNoConflict` names it as its exception.

## 8. Agent session

`AgentSession` is one session of the Claude Agent SDK adapter
(`tasks/adapters/claude_agent_sdk/`): the daemon, a helper process, two pipes and
three threads.

| Variable | Code |
|---|---|
| `drive`, `turn`, `complete`, `message`, `cancelled`, `question`, `asked`, `out` | `SdkSession` in the helper, and its event queue |
| `main`, `announced` | the helper's main loop (`host.main`): a command, a flush, an announcement |
| `up`, `down` | stdout and stdin of the helper |
| `hostTurn` ... `buffer` | `HostSession`, written by the daemon's reader |
| `held` | the adapter still has the session (`_sessions`) |
| `task`, `waitingFor`, `caller` | the task as its reports set it, and the adapter call under way |
| `said`, `reported`, `unrecorded` | history: the last result the helper said, the last one the task took, the last one it could not take |

The actions are the loop thread's (`Ask`, `StopAsking`, `EndTurn`, `BreakOff`,
`Park`, `WakeUp`, `Query`, `EndDrive`), the main thread's (`TakeFollowup`,
`TakeAnswer`, `TakeCancel`, `TakeClose`, `NoCommand`, `Flush`, `Announce`,
`Leave`), the reader's (`Absorb`, `EndOfFile`) and the caller's (`Inspect`,
`SettleTurn`, `PutQuestion`, `LookAround`, `SendFollowup`, `EndFollowup`,
`Answer`, `RequestCancel`, `Cancel`, `EndCancel`, `ForgetFinished`, `Finish`). `Die`
ends the helper anywhere. What a call asks for (`Requested`, the adapter's `_settle`)
and what becomes of it (`Settle`, Task Core's `_apply`) are two things: the task goes
only where `TaskLifecycle` has an arrow, and a result that has none is gone, for the
adapter has emptied its buffer and closed its log of the turn.

Run `AgentSession`: one follow-up, one question, one death; `FairSessionSpec`, 201
thousand states.
`SessionIsSound`: a follow-up that was accepted was given to Claude, and a task is not
recorded as cancelled over a result the helper managed to say, unless that result was
read while the task could not take it. `ReportedInOrder`: no turn is ended with the
answer of an earlier one, however late it is read. `TurnIsSettled`: whatever dies or
falls silent, an open turn does not stay open while the adapter has anything left to
say of it. Its two exceptions are what the code does, and are refuted statements below:
the result of this very turn was read and rejected, or the session was let go of. Such
a task is left to the helper's end, a restart or nobody. One follow-up gives an old
turn and a new one, which is what late lines confuse; one question and one cancel cross
the pipes with them.

Fairness: the two threads of the helper, the reader and a call under way go on;
`EndTurn` is the provider's, which the session's own timeout stands behind.
`WF(Inspect)` says that somebody keeps looking: the code settles a turn only when
it is asked (`refresh`), and the phone asks every few seconds. The caller is one
at a time, for Task Core's lock serialises adapter calls.

Refuted statements, with the run's constants, the last four under `PROPERTIES`:

- `RecordedAnswerIsHeard`, `AvailableIsContinuable`, `CompletedMeansGone`: an answer that
  was recorded is not heard, a message that is offered is refused, and a result read
  before the announcement that the session waits ends the task of a live session.
- `ArrivedResultWins`: a cancel that finds the result of a live session asks for
  `ready_for_followup`, to which there is no arrow from `cancelling`; the task stays
  `cancelling`, and a second cancel changes nothing.
- `UnansweredTurnIsReported`: a turn that goes on after nobody answered ends with a
  result that a task in `waiting_for_user` cannot take.
- `ForgottenWasRead`: starting another task lets go of every session that has stopped,
  with what nobody has read of it.

## 9. Request claims

`RequestClaims` is the bridge's replay table (`actions_bridge/idempotency.py`) and
`_mutate` around it (`actions_bridge/service.py`): `Claim`, `Replay` and
`AskAgain` are the branches of `claim`; `Upstream`, `LoseAnswer` and
`CarryOutLate` the call to Cofferdam, answered, lost, or carried out after nobody
waits; `Settle`, `Release` and `Finish` its end; `Age` the wall clock by which a
claim grows stale and old. Three kinds of mutation differ in what guards a
repetition: the id itself (`ByKey`) or the state acted on (`ByState`).

Run `RequestClaims`: two ids of any kind, two contents, two calls, two ageings;
5 million states; ids, contents and calls are symmetric, for the module only
compares them. `ReplayIsTrue`: a caller told that its request went through is told
the truth, of the content it sent, also when a stale claim changed hands while both
owners were at work. The exception is an id in `crossed`: `settle` names a row by its
key only, so where an id was claimed anew for another content while a call was at work
under it, all that is known is that something was done.
`SettledStands`: no attempt that fails later takes the record of a success away.
Two calls are one owner and one taker-over.

Refuted statements, with the run's constants. `ReplayIsOfItself`: the first owner of a
claim that went stale, was taken over, released by its new owner and claimed for another
content, succeeds late and settles the row of that content, whose retry is told that it
went through. `NobodyIsDenied` (under `PROPERTIES`): the retry of a guarded mutation
whose answer was lost is refused by its own first attempt.

## 10. YouTube player

`YoutubePlayer` has four parts: the list (`youtubeplayer/queue.py`), the channel
to the one current page (`channel.py`), the action that holds the write lock
(`actions.py`, `service.py`) and the pages with their iframe (`web/player.js`).
An action is a sequence of steps - wait for a player, enqueue, send, acknowledged,
which video, no error, playing - between which pages register, report, collect,
acknowledge, fall silent and are closed, and YouTube follows or does not. The
YouTube API is external: a load plays, is blocked or is an error. Commands have
their order from their numbers, so what the channel holds and what an answered poll
carries are sets of them. A page runs the commands of one answer one by one, and
while it does (`busy`) none of its other callbacks: it has one thread.

Run `YoutubePlayer`: one video, two pages, two actions, a list of at most three
that starts empty or full, one interference; `FairPlayerSpec`, 1 million states.
`ChannelIsSound`: an acknowledgement counts for the command it is waited for with.
`UpcomingIsKept`: no step but a removal drops or reorders what is coming, not even
on a full list. `SupersededStops`: a page that was superseded stops. The
properties tell commands and items apart by number, so one video is enough for
them, and it keeps the liveness check small; the statements below that compare
videos have two. Fairness: a page that is open re-arms its poll, and the channel
answers it.

Refuted statements, with `Videos <- TwoVideos`: `OnePlays`,
`NothingLoadedNothingShown`, `CursorIsLoaded`; and `PlayingIsTrue` under
`PROPERTIES`, with `MaxPages = 1` and `MaxTouches = 0` as well.

## 11. Trust ledger

`TrustLedger` is `approve` (`approve_cli.py`), `consume_approval` (`approval.py`)
and the file they share (`approval_store.py`): one process per command, the lock,
lines with the length that is known to survive (`durable`), a clock.

`Show`, `Confirm` and `Mint` are what a person reads, says and what is then
checked again under the lock; `Begin` and `Consume` the other side, with the clock
read before the wait; `Write`, `WriteFails`, `Sync`, `SyncFails`, `CloseFails` the
steps of `_append`; `LockTimeout` the five seconds. `Die`, `LosePower`, `SetBack`
and `Edit` are the faults and the person at the target. A process that dies
without the lock might as well never go on, so `Die` is of the holder. A barrier
that succeeds covers every earlier line, as `fsync` does. Only a loss of power
takes lines, or a directory that was new, away.

Run `TrustLedger`: two approvers, two consumers, two contents, three lines, a
lifetime of one tick, and each of the three faults - a loss of power, a clock set
back, an edit - at most once, with no more than two of them in one behaviour
(`TwoFaults`); 5.6 million states; symmetric in processes of a kind and contents.
A command that was not yet run survives a loss of power: it may be run afterwards. `SingleUse`: no two callers are given the same
approval. `LedgerIsTrue`: what was told stays true and a refusal left nothing
(`AnswersAreTrue`), an approval binds what was read, and a binding has one active
approval at a time (`ApprovalsAreSound`). Two approvers and two consumers make every race; three lines
are two approvals and a consumption, or the reverse.

Refuted statements, with the run's constants: `RefusedIsUnwritten`,
`RecordedSurvives`, `CapIsKept`, and under `PROPERTIES` `ConsumedWhileActive`.

## 12. Remote Control

`RemoteControl` is the host of one project: requests in the daemon's thread pool
(`sessions/supervisor.py`), the unit as the systemd user manager runs it, the host
process (`sessions/host.py`, `wrapper.py`) with its main thread and the reader of
its child's terminal, and the state file (`state.py`) that both sides touch.
Requests share no lock.

The host's steps are `ClearEarlier`, `WriteGeneration`, `Spawn`, `Report`,
`ReaderEnds`, `ChildExits`, `Join`, `ClearOwn` and `Exit`, or `HostRefuses`; the
manager's `Respawn`, `RunQueued` and `Kill`; a request's `Ask`, then `Start`,
`Started`, `SettleAsk`, `ReadEvidence`, `ReadLink`, `Stop`, `StopEnds`, `Forget`.
systemd is external and modelled from the unit file: `Restart=on-failure`, a start
limit (`MaxLaunches` stands for it), a stop job that replaces a waiting start. A
host may be there before the daemon. A child that waits for consent prints no
link, which is `Report(FALSE)`. Files and units of two projects have nothing in
common.

Run `RemoteControl`: two requests of any kind, three launches, one of them killed;
`FairSpec`, 415 thousand states. `LinksAreTrue`: what a request is given belonged
to a host that ran when the file was read, unless that host was ended before it
could clear its file; after a stop has answered nothing of the launches it took
down can be found. `CallIsAnswered`: every request ends, above all a stop that
waits while others start the unit again. Two requests are enough for a start that
queues behind a stop, because a host may already be there.

Fairness: the host's main thread, a queued job of the manager, a request in the
pool, and a child that was told to stop, which `terminate` kills after its grace
period. No child has to print or exit by itself.

Refuted statements, with the run's constants: `OfferedIsCurrent`,
`StartNamesItsHost`, `LiveHostIsKnown`.

## 13. Spotify player

`SpotifyAccount` is the user's authorization. `TokenStore` (`spotifyplayer/tokens.py`)
keeps it in a file and in an object, `UserTokens`, that every request shares and
changes in place; the object in a request's hands may no longer be the one that is
cached. Requests run in a thread pool: a snapshot holds the lock of the service,
writes and `disconnect` do not. An authorization (`authorize.py`) runs in its own
thread, which listens for the redirect.

| Actions | Code |
|---|---|
| `Begin`, `Enter`, `Load` | `snapshot`, and `_fresh` or `authorized_tokens` of an action |
| `Renew`, `Apply`, `Persist`, `Replace`, `ReplaceFails`, `Remember` | `_ensure_access`, `apply_refresh`, `persist_if_changed`, the steps of `save` |
| `Send`, `Denied`, `Answered` | `_authorized`: a call, and once more after a 401; then the next of the request |
| `Clear` | `disconnect` |
| `Check`, `Register`, `SetPending`, `Launch`; `Cancel`, `ClearPending` | `AuthorizationRunner.start`, `.cancel` |
| `Bind`, `Callback`, `TimeOut`, `Consume`, `Exchange`, `Save`, `RememberNew`, `Conclude` | its thread, `_run` |

Spotify is external: renewing rotates the refresh token or does not, retires the old
one or does not, and any call may be refused (`Renew`, `Send`, `Exchange`); and a renewal
that rotated and retired may go unheard, for the answer comes too late or cannot be read,
which leaves the daemon with a token that is refused from then on (`lost`). A request
that is answered otherwise than with success or 401 ends. An action is one snapshot,
one write and one snapshot; that the second may be repeated adds reads of the same
kind. `Wear` is an access token that expires early.

Run `SpotifyAccount`: two requests of any kind in two threads, two attempts, three
tokens of which the first is there, one fault (an access token that ends early, or a
write that fails); `FairSpec`, 251 thousand states. `AuthorizationIsSound` has three
parts. `DisconnectStays`: what was disconnected while nobody was at work with it
stays so until somebody authorizes. `LiveTokenIsHeld`: renewals that overlap never
lose the token that works; only an answer that never arrives does, of the renewal that
retired it. `CancelledNeverConnects`: at whatever point of a thread
or of another start the cancel falls. `AttemptEnds`: pending ends however the
attempt does, and every request returns. Two requests make each race, for an action
is two snapshots and a write; the invariants hold of three as well (`Spec`, 10
million states).

Fairness: threads run, and Spotify answers or the transport times out, which is why
`RunnerStep` includes `TimeOut` and no redirect has to come. Weak fairness is enough
for the lock, for requests are bounded and it is in the end free.

Refuted statements, as invariants with the run's constants: `RemovedIsGone` (a read
in flight writes a disconnected account back), `ConnectedIsStored` (or an old
account over a new one), `StoredIsLive` (a retired token is stored over the live
one; with `MaxFaults = 0` too), and with `MaxRequests = 3` and `MaxFaults = 0`
`CancelMakesRoom` (a cancelled attempt refuses the next).

## 14. Proofs

| Component | Invariant, and where it is stated | Theorems that state a property of a run |
|---|---|---|
| Task Core | `FullInv` (`TaskCoreInvariant`) | `NoTurnLeftOpen`, `BoundaryAlwaysObserved`, `EndedTasksAreFinal`, `ImplementsLedger`, `MessagesAreTurnsAlways`, `QuestionsStayBounded`, `RestartsClaimNoSuccess`, `WorkIsAccountedFor`, `CriteriaAreFrozen`, `JudgementsStand` |
| Mind | `MindInv` (`MindProofs`) | `WritesAreClaimed`, `DecisionsStand`, `RowsStayTrue`, `ImplementsBook` |
| Actions bridge | `ClaimsInv` (`TrustLedgerProofs`) | `RepliesAreTrue`, `SettledRowsStand` |
| Trust Core | `LedgerInv` (`TrustLedgerProofs`) | `ApprovalIsUsedOnce`, `LedgerStaysTrue` |
| Remote Control | `ControlInv` (`RemoteControlProofs`) | `LinksStayTrue` |
| YouTube player | `PlayerInv` (`RemoteControlProofs`) | `ChannelStaysSound`, `UpcomingStaysKept` |
| Planner ingress | `IngressInv` (`PlannerIngressProofs`) | `ClaimsStaySound`, `DecisionsAreKept` |
| Delivery | `DeliveryInv` (`DeliveryProofs`) | `ReconciliationStaysTrue`, `NothingUnfinishedEverShows` |
| Spotify player | `AccountInv` (`SpotifyAccountProofs`) | `AuthorizationStaysSound` |
| Evidence | `EvidenceInv` (`TurnEvidenceProofs`) | `VerdictsStayTrue`, `ReportsStaySound` |
| Agent session | `SessionInv` (`TurnEvidenceProofs`) | `SessionStaysSound`, `ReportsStayInOrder` |

With these every safety property of every run is proved for every value of the
constants that satisfies the named assumptions, but for two exceptions that Task
Core's section names. The invariants were checked with TLC on the instances of the
runs before they were proved, `DeliveryInv` also with two tasks and two crashes, and
`SessionInv` with two follow-ups (3.9 million states).

### Task Core

`TaskCoreInvariant` states the invariant in two layers. `Inv` has the types; what
the locals of the operation holding the lock say of the rows it has read (the
state it expects, the turn it reserved, whether a turn will close); that a turn
is open only where its state allows, and only as the last one; that work which is
past its boundary captures has them; and that an ended task has no operation
that could still write it. None of the safety properties is inductive by itself:
`Settle` closes a turn whose observations were recorded two steps before, and it
preserves `BoundaryObserved` only because `Inv` remembers, at that step, that
they were.

`FullInv` adds what the history, the keys, the questions and the sessions say. Its
parts, and the property each is needed for:

- `FactsInv` (`WorkIsAccounted`, `CriteriaStayFrozen`, and the facts of
  `MessagesAreTurns`): the loops of reserving and marking have fixed every fact
  they have passed, and the number that was reserved is still the next one when the
  turn opens, for only the operation that holds the lock opens turns of its task.
- `JudgedInv` (`JudgementStands`): a judged turn is closed, and closed turns are
  final by `TurnsKept`.
- `QuestionsInv` (`QuestionsAreBounded`): room was checked under the same lock as the
  question is written, and an operation that carries a question never stops its task.
- `CutOffInv` (`InterruptedNeverCompletes`): a task whose turn was cut off is taken
  up by a cancel only, whose adapter has no session to report success of.
- `StartInv` (`NoOrphan`): the call that starts a task stays until the task runs or
  has failed; a restart lists what it left.
- `KeysInv` (`MessagesAreTurns`): one call at a time carries a message, because its
  key is written before the call waits and the key of a carried message is kept;
  so deliveries are at most one for each life of the key.
- `RunningInv` and `ReadyHasResult` (`WorkIsAccounted`): a working task has its open
  turn, or was given a message that counts as no turn; a wait that an adapter
  reports while its task is ready for a message is of such a message.

`TaskCoreProofs` has two halves. The first proves that every action preserves
`TypeOK`; then `InvariantHolds` (`Spec => []Inv`), `TypeCorrect`, `NoTurnLeftOpen`,
`BoundaryAlwaysObserved`, `EndedTasksAreFinal`; then `ImplementsLedger`, every step of
Task Core is a step of `TurnLedger` or leaves it unchanged. The second proves
`AccountsInvariant` (`Spec => []FullInv`) and what follows. Its lemmas first say once
who writes each variable (`TurnsWritten`, `FactsKept`, `QuestionsWritten`,
`StateWritten`, `MessagesWritten`, `StepsFollow`); each part of `FullInv` is then
preserved by one lemma that needs only those.

They hold for all `Tasks`, `Keys`, `Recoverable` and bounds that satisfy the named
assumptions of `TaskCore`: `NoKey` is no key, recoverable tasks are tasks, the
limits are positive and the bounds natural numbers.

Two parts of `WorkIsAccounted` have an exception, and the theorems name it.
`NoOrphan` is proved where `Recoverable = {}`, for a restart leaves a created task of
an adapter that recovers to nobody. `RunningHasOpenTurn` is proved until a key is
pruned (`expiries = 0`): a message sent again after that is delivered and opens no
turn. Both exceptions are the refuted statements of section 3, and the instance of
the run `TaskCore`, which checks `WorkIsAccounted`, has neither. `RowsAccountForWork`
states the parts one by one, `ReadyHasResult` and `FrozenBeforeReached` without any
condition.

Only model-checked: `ClosedTurnIsEvaluated` and `StartingResolves`, for liveness
under fairness is out of the prover's reach here.

### Mind

`MindProofs` states `MindInv` and proves every safety property of the run `Mind`
for all documents, contents, workspaces, proposals, threads and bounds, assuming
only that `Global` is no workspace and `None` is nothing else
(`GlobalAssumption`, `NoneAssumption`). The properties alone are not inductive:
`OnlyTheClaimantWrites` needs to know that a thread about to rename holds the
target its proposal was reviewed for (`TargetOK`), `AppliedIsTrue` that a thread
about to record has shown the content (`WriterOK`) and that recovery, finding a
document equal to the proposed content, finds one that was shown (`ReviewedOK`),
and `LastWriterIsRecorded` that a thread giving a claim back is not the newest
writer (`WriterOK`, `LastOK`). One lemma per action preserves the conjuncts, and
`StepPreserves` combines them. `ClaimIsSettled` is only model-checked.

`ImplementsBook` is the refinement of `ProposalBook`. That the phase of a claimed
proposal is the one of its writer (`PhaseIsKnown`) needs `OneClaimant`: with two owners
it would be two phases. A step of a thread then moves the phase of its own proposal
only (`OnlyItsPhase`), a crash those of all that were in somebody's hands
(`DyingIsABookStep`), and recovery, which runs with all threads gone (`QuietWhenDown`),
one that was abandoned (`RecoveryIsABookStep`).

### Request claims

The second part of `TrustLedgerProofs`; the two modules share no state. `ClaimsInv` has `ClaimsTypeOK` and, of every call and row, that nothing says "it went
through" before the work was done: a call that is "ok" or replays, and a row that
is settled, are about a content that is in `done` of their id, or the id is in
`crossed`. `ReplayIsTrue` alone is not inductive, since a replay reads it from the row
and the row got it from a call whose claim another may have taken over meanwhile:
`OwnersAgree` says that all calls whose success would settle a row carry its content,
which a takeover keeps and a new claim after a release does not unless nobody is left
at work. `SettledStands` follows from the
types and the guards of `release` and of the pruning, action by action. The
assumption is that `Nothing` is no row and the bound on ageing a natural number.

### Trust ledger

`SingleUse` needs the position of lines and the order of commands: `ClaimsOK` says
that what a consumer under the lock has chosen was minted, by an approve that is
over, and is not consumed yet; `ExclusiveOK` that no two consumers that have chosen
or were given an approval have the same; `WrittenOK` that the line just written
stays the last one until the lock is let go; `WholeOK` that nobody writes behind a
torn line, for the fold refuses to read it. A loss of power cuts the ledger
(`CutPreserves`): an approval that was given is still consumed, because its
consumption was covered by a barrier before it was told, or the whole directory is
gone and the approval with it. `LedgerIsTrue` needs that of two approvals of one
content the first was spent when the second was minted (`PairsOK`) as long as the
clock has not been set back (`ClockOK`), from which one is active at most
(`AtMostOne`). The proofs hold for any processes, contents, `MaxEntries` and number
of faults; `TrustLedgerAssumption` says that approvers are not consumers, that
`None` is no process and no answer, and that times are natural numbers.

### Planner ingress

`IngressInv` says what connects a thread inside `submit` with the rows it left in
the database. A thread that claimed a key and has not answered yet still finds the
claim open (`CallsOK`), and no two threads hold one claim or plan one row
(`ExclusiveOK`): so the row it creates is the only one of its key, and the binding
it writes with it replaces nothing. The thread that plans a row finds it `running`
when it writes the result, which is why a finished row stands although neither
`record_success` nor the boot looks at who else wrote: while a thread plans, the
daemon is up, and it is the only one that writes a running row; the boot writes
when no thread is left (`HostOK`). `ClaimHasOwner`, part of `ClaimsAreSound`, is
inductive only with these. `RoomOK` counts who may still write a row, for the bound
on rows. A decision is told after it was read back, and an authority event is
never written twice (`DecidersOK`, `ToldIsStored`). The assumptions are that `None`
is nothing else and the bounds natural numbers. `ClaimEnds` is only model-checked.

### Delivery

`DeliveryInv` follows one request through the four stores.

- `TasksOK`, `WorkersOK`, `OwnersOK`: the task a request is linked to, and the one
  its key names, are rows of that request, and the same while both are there; a
  thread has the task of its request's key, and the one whose worker runs is alone
  with it, from the creation of the row on.
- `FreshOK`, `WorkOK`: a task whose adapter did not start has nothing on disk;
  while nobody touched a worktree, it and its journal show what the worker did, so
  that `Classify` can tell (`ClassifyIsTrue`). `ReconOK` carries the outcome over the
  step between the settle and its record, and to every later state, for the worker
  of a settled task is gone.
- `RemoteOK`, `PublishersOK`, `PubOK`: a thread past the gate, a publication row and
  the remote agree on one commit of a task that ended, or a person has committed on
  top of it. The gate's checks are old when the row is written and older when the
  branch is pushed; they still hold because a task never leaves `completed` or
  `interrupted` and a branch moves on only by a person's commit.

A settled phase rests on a published row or on a cancelled task (`SettledPhase`, from
the order of the rules in `derive`); a published row is of an ended task, a running
worker has the task of the same key, and that one has not ended. The proofs hold for
any requests, threads, tasks, crashes and touches; `None` is assumed to be nothing
else and the bounds natural numbers. `ParkedIsSettled` is only model-checked.

### Remote Control

`LinksAreTrue` depends on the file that an earlier host left. `EarlyOK` and `FileOK`
say whose file it is: of the host that runs, or of one that could not clear it;
`StopsOK` that a stop forgets the file only when no launch it was told to take down
is left, which holds because the unit is deactivating as long as one is; `ReadsOK`
that what a request read of a host that is gone is among what could not be cleared.
`RemoteControlAssumption` says that `None` is no number, the limit of starts positive
and the bound on kills a natural number. `CallIsAnswered` is only model-checked.

### YouTube player

The second part of `RemoteControlProofs`; the two modules share no state. `PlayerInv`
follows a command from the action that sends it to the page that runs it.

- `ListOK`: an item's id is the number of its adding, so no two items have the same.
  Play now keeps it wherever it puts the item, on a full list too (`PlayNowSays`).
- `ChannelOK`: a command has one number, and none beyond what was counted.
- `AcksOK`: a page acknowledges what it ran and nothing else, and the highest number
  the channel has heard is of a command that some page ran, alive or closed.
- `SentOK`: the number an action waits with is the last one counted, and everything
  with that number - held, on the wire or run - is the command of that action.

Together they make an acknowledgement count: what was heard is at least the number
waited for, no page has run a higher one, so a page ran exactly that command, and
named its video when it did. `UpcomingIsKept` needs of `PlayerInv` only `ListOK`: the
places of the list after an insertion or a removal (`InsertSays`, `RemoveSays`), and
for the removal of the current item that no other item is the same. Most steps say
nothing new of any command and are proved at once (`NothingIsSaid`, `QuietPage`).
The proofs hold for any number of pages, videos, actions and interferences and any
bound of the list; `YoutubePlayerAssumption` says that there is a video, that
`Nothing` is neither a video nor a page, and that the bounds are natural numbers.
`SupersededStops` is only model-checked.

### Spotify player

Of `AuthorizationIsSound` only the types are inductive. `DisconnectStays` needs that an
account given up is not in memory either, with nobody at work with an object
(`GoneOK`): `Alone` says so of the moment of `Clear`, and only an object that is loaded
again could bring it back. `LiveTokenIsHeld` needs to know where tokens are: in objects,
in payloads about to be written and in the file, together `Pairs`. A token belongs to one
grant (`GrantsOK`), so that retiring the one a renewal was asked with can hurt only
objects of that grant; a token just issued is in nobody's pairs (`AnswersOK`); and the
only object of a grant has a token that works, or an answer under way, or a token whose
successor was in an answer that was lost, as has the file as long as no object was made
from it (`LiveOK`; `Taken` is what Spotify accepts and what was so lost). Steps that only copy tokens are proved at
once (`SameTokens`, `TokensKept`), and `Renew`, `Apply` and `Exchange` by themselves.
`CancelledNeverConnects` needs that a start has an attempt of its own (`StartsOK`) and
that the registry never holds one that was cancelled or consumed (`AttemptsOK`). The
proofs hold for any threads and bounds; `None` is assumed to be no number and the bounds
natural numbers. `AttemptEnds` is only model-checked.

### Turn evidence

`EvidenceInv` ties what was reported to what the repository went through. `HistoryOK`
says that the content of a path in the tree, and in the index and at HEAD as long as
HEAD stays on its history, is one the path has gone through since the turn began; that
a baseline is called clean only of a tree given as HEAD has it is `CleanIsGivenAsBase`;
`StatusOK` and `RangeOK` that a report holds records of Git and nothing else, all of
them when it says that it is whole. The invariant is easily kept; the work is in what
follows from it. The lemmas `DifferenceSays`, `RecordSays`, `FactsSay` and
`CommittedIsTyped` say once what one word of Git means for the trees it compares.
`CreditedWasDone` concludes that an observation a criterion may be credited with is of
a path that went through more than it was given with, `UnseenIsUnchanged` that a path
without one, in two whole reports, did not change; for `ReportsAreSound` the word for a
claim that tells the truth is compared with each word either report can hold.
The theorems hold for any paths and contents, turns of any length, and reports of any
size; `Absent` is assumed to be no content and `None` nothing else.

### Agent session

The second part of `TurnEvidenceProofs`; the two modules share no state. What was said
of a session and not acted on is in four places: the event the caller acts on, the
daemon's buffer, the pipe and the helper's queue. `Chain` makes one stream of them: any
two of it are in a relation, the earlier one first. Whatever moves a line on, from the
queue to the pipe and from there to the buffer, keeps that (`ChainFlushed`,
`ChainSent` and the like), and only a line that is new has to be compared with all
before it.

- `OrderOK`: the results in the stream are of different turns, in their order, none
  later than the open turn and all later than what was reported; so with questions.
- `PresentOK`: what ends a turn ends the open one, and nothing of that turn comes
  after it. Both are lost when a follow-up is given up on and still arrives, which is
  why `givenUp` is their exception, as it is of the properties.
- `SaidOK`: a result that was said, not reported and not read in vain is on its way
  (`Owed`).
- `CompleteOK`: a session that says it is complete rests between two turns, with no
  follow-up under way and nothing to come but its end.
- `SendOK`: while a follow-up is being sent it is delivered, or is still on its way and
  what the session last said is of the turn before (`Delivered`, `Undelivered`).
- `LoopOK`, `MessagesOK`, `TaskOK`: one message and one question at a time, a
  follow-up on its way is for a turn not begun, a task has ended only when the adapter
  let go of its session, and that session is gone and stopped.

A start is then never mistaken: `hostComplete` and `hostTurn` can say so only when
`Delivered` holds (`AcceptedWasQueried`). After a cancel the helper is
gone and the pipe was read to its end, so a result that was said is in what `EndCancel`
looks through, or was rejected before (`CancelKeepsResult`). An open task can always fail
(`FailedIsTaken`), so only a success is ever rejected without an end. `ReportsStayInOrder` needs of the invariant
`OrderOK` only. What the first terminal event of a sequence is follows from the
minimum that defines it, by well-founded induction on `Nat`. The proofs hold for any
number of follow-ups, questions and deaths; `AgentSessionAssumption` says that they are
natural numbers. `TurnIsSettled` is only model-checked.

### What no theorem states

The liveness properties: `ClosedTurnIsEvaluated` and `StartingResolves` of Task Core,
`TurnIsSettled`, `ClaimEnds`, `ParkedIsSettled`, `ClaimIsSettled`, `CallIsAnswered`,
`SupersededStops` and `AttemptEnds`. They hold under fairness, whose rules need
`ENABLED`, and that is out of the prover's reach here.

## 15. What is not modelled

- Failing store writes: a `TaskError` in the middle of an operation. The code
  treats most of them as if the process had died there, which is modelled.
- The idempotency key of `create_task`, and follow-ups without a key, which
  behave as messages whose key nobody sends again.
- `closed_turns_awaiting_evaluation` returns at most 256 turns; the model
  evaluates at boot until nothing is owed.
- The Claude Code adapter that runs one subprocess per turn, beyond the contract
  in `TaskCore` (`StartReports`, `InspectReports`, ...). Frame parsing, and what an
  event looks like, in all adapters.
- Criteria text, identities of paths, extraction of claims and lineage: pure
  functions over text, which the verdicts in `TurnEvidence` take as given.
- In `TurnEvidence`, a repository that moves between the report of its status and the
  capture of its range: the worker has returned by then.
- In `TrustLedger`, that a directory is synchronised only by the append that created the
  ledger: the barriers of file and directory are one step, and fail as one.
- In `YoutubePlayer`, which of several videos an acknowledgement names: the run has one,
  and tells a video from none; the theorem holds for any.
- In `PlannerIngress` and `Delivery`, what a prompt or an answer says, the session
  and budget checks that only refuse, and the sandbox of the worker.
- In `YoutubePlayer`, volume and mute, which take the path of pause, and a launcher
  that refuses. In `RemoteControl`, how a link is recognised in terminal output and
  writes of the state file that fail. In `TrustLedger`, how a diff is judged and
  shown, the screening of characters and file permissions: checks that only refuse.
- Workspace and context: single rows under one lock, and a pure projection; what
  other components see of them is `active` in `PlannerIngress` and in `Mind`.
- In `SpotifyAccount`, scopes, the name of the account, the snapshot that is cached, and
  that the read of the profile before `Save` may itself renew and write
  (`authorize.py:201`): the object is the thread's own until then. `pending` is the
  status that `start` and `_run` set; `authorization.status()` also reads the registry,
  which after a failed bind says pending until the attempt runs out. Of the player itself volume and mute with the level to restore, the choice
  of a device, the cold start of the application, and what is played with its
  confirmations.
- Claude sessions and media search: one lock, and nothing else to get wrong.
- Host runtime, audio, registries, operations view (but for `Phase` in `Delivery`),
  HTTP service, web client (but for `player.js`) and deployment: reads of the host,
  projections, routing and presentation.

Observations that no run shows: a workspace switched between the check of
`accept_proposal` and its resolution marks the proposal stale for good, although
the comment at the check (`mind/service.py`, near line 526) wants it left
decidable; a crash between the boundary observations and the
closing write leaves an interrupted turn that has both, although the docstring of
`_capture_terminal_boundary` (`service.py`, near line 933) says such a
turn gets none; a question asked by a report that is followed by
`ready_for_followup` stays pending; a cancel that takes the lock between the
insert of a task and its start makes `create_task` raise `IllegalTransition` to a
caller whose task exists and is cancelled.
