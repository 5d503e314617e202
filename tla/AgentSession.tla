----------------------------- MODULE AgentSession -----------------------------
(***************************************************************************)
(* One conversation with Claude over two processes.                         *)
(*                                                                          *)
(* A helper process holds the SDK client.  In it the loop thread drives the *)
(* turns (SdkSession) and the main thread takes commands, flushes events    *)
(* and announces turns that ended (host.main).  In the daemon a reader      *)
(* thread absorbs the helper's lines (HostSession._absorb), and the caller  *)
(* of the adapter, one at a time under the Task service's lock, looks,      *)
(* sends, answers and cancels.  Two pipes are between them.                 *)
(*                                                                          *)
(* The session has been started.  A follow-up is the number of its sending, *)
(* a question that of its asking; what they say is left out, and the one    *)
(* activity event of a turn stands for all.                                 *)
(***************************************************************************)
EXTENDS Naturals, Sequences, SequencesExt

CONSTANTS MaxFollowups, MaxQuestions,
          MaxDeaths     \* of the helper, by itself

VARIABLES
    \* the helper: its loop thread, and its main thread
    drive, turn, complete, message, cancelled, question, asked, out,
    main, announced,
    \* the pipes
    up, down,
    \* HostSession
    hostTurn, hostComplete, inFlight, refusal, token, cancelRequested,
    stopped, buffer,
    \* the adapter holds the session; the task, the question it waits with, and
    \* the call under way
    held, task, waitingFor, caller,
    \* history: follow-ups sent, accepted, given to Claude, one given up on;
    \* answers recorded, and heard; the last result said, the last recorded, and
    \* the last that the task could not take
    sent, accepted, queried, givenUp, answered, heard, said, reported, unrecorded,
    deaths

loopVars == <<drive, turn, complete, message, cancelled, question, asked, out, queried, heard,
              said>>
mainVars == <<main, announced>>
pipes == <<up, down>>
hostVars == <<hostTurn, hostComplete, inFlight, refusal, token, cancelRequested,
              stopped, buffer>>
adapterVars == <<held, task, waitingFor, caller, sent, accepted, answered, reported,
                 unrecorded, givenUp>>
sessionVars == <<loopVars, mainVars, pipes, hostVars, adapterVars, deaths>>

ASSUME AgentSessionAssumption == {MaxFollowups, MaxQuestions, MaxDeaths} \subseteq Nat

Nothing == 0

Event(kind, n) == [kind |-> kind, n |-> n]
Terminal == {"succeeded", "failed", "cancelled"}
Final == {"completed", "failed", "cancelled"}

\* A task goes where the state graph has an arrow.
Graph == INSTANCE TaskLifecycle

NoQuestion == [token |-> Nothing, answer |-> FALSE, cancelled |-> FALSE]
-----------------------------------------------------------------------------
SessionInit ==
    /\ drive = "working" /\ turn = 1 /\ complete = FALSE /\ message = Nothing
    /\ cancelled = FALSE /\ question = NoQuestion /\ asked = 0 /\ out = <<>>
    /\ main = "get" /\ announced = FALSE
    /\ up = <<>> /\ down = <<>>
    /\ hostTurn = 1 /\ hostComplete = FALSE /\ inFlight = FALSE /\ refusal = FALSE
    /\ token = Nothing /\ cancelRequested = FALSE /\ stopped = FALSE /\ buffer = <<>>
    /\ held = TRUE /\ task = "running" /\ waitingFor = Nothing
    /\ caller = [op |-> "none", n |-> Nothing]
    /\ sent = 0 /\ queried = {} /\ accepted = {} /\ answered = {} /\ heard = {}
    /\ said = 0 /\ reported = 0 /\ unrecorded = 0 /\ givenUp = FALSE /\ deaths = 0

(* The helper's loop thread.                                                *)

LoopStep == /\ main # "gone"
            /\ UNCHANGED <<mainVars, pipes, hostVars, adapterVars, deaths>>

\* _handle_question: the callback holds the tool call open.
Ask ==
    /\ LoopStep
    /\ drive = "working"
    /\ asked < MaxQuestions
    /\ asked' = asked + 1
    /\ question' = [NoQuestion EXCEPT !.token = asked']
    /\ out' = Append(out, Event("question", asked'))
    /\ drive' = "asking"
    /\ UNCHANGED <<turn, complete, message, cancelled, queried, heard, said>>

\* The callback goes on: woken by an answer or a cancel, or when the time is up,
\* which also overtakes an answer that was put down but has not woken it yet.
StopAsking(timeout) ==
    /\ LoopStep
    /\ drive = "asking"
    /\ question.answer \/ question.cancelled \/ timeout
    /\ heard' = IF question.answer /\ ~ question.cancelled /\ ~ timeout
                THEN heard \cup {question.token} ELSE heard
    /\ out' = Append(out, Event("activity", turn))
    /\ question' = NoQuestion
    /\ drive' = "working"
    /\ UNCHANGED <<turn, complete, message, cancelled, asked, queried, said>>

\* The provider's result, good or bad, ends the turn.
EndTurn(kind) ==
    /\ LoopStep
    /\ drive = "working"
    /\ out' = Append(out, Event(kind, turn))
    /\ drive' = "told"
    /\ UNCHANGED <<turn, complete, message, cancelled, question, asked, queried, heard, said>>

\* The transport breaks, the session is another one, or the stream just ends.
BreakOff ==
    /\ LoopStep
    /\ drive = "working"
    /\ out' \in {out, Append(out, Event("failed", turn))}
    /\ drive' = "ending"
    /\ UNCHANGED <<turn, complete, message, cancelled, question, asked, queried, heard, said>>

\* _hold_for_followup, up to the wait.
Park ==
    /\ LoopStep
    /\ drive = "told"
    /\ drive' = IF cancelled THEN "ending" ELSE "parked"
    /\ complete' = ~ cancelled
    /\ UNCHANGED <<turn, message, cancelled, question, asked, out, queried, heard, said>>

\* ... and after it: the message is taken, unless the session is to stop.
WakeUp ==
    /\ LoopStep
    /\ drive = "parked"
    /\ message # Nothing \/ cancelled
    /\ IF cancelled
       THEN /\ drive' = "ending"
            /\ complete' = TRUE
            /\ message' = Nothing
            /\ UNCHANGED turn
       ELSE /\ drive' = "querying"
            /\ turn' = turn + 1
            /\ UNCHANGED <<complete, message>>
    /\ UNCHANGED <<cancelled, question, asked, out, queried, heard, said>>

Query(works) ==
    /\ LoopStep
    /\ drive = "querying"
    /\ message' = Nothing
    /\ IF works
       THEN /\ queried' = queried \cup {message}
            /\ out' = Append(out, Event("activity", turn))
            /\ drive' = "working"
       ELSE /\ out' = Append(out, Event("failed", turn))
            /\ drive' = "ending"
            /\ UNCHANGED queried
    /\ UNCHANGED <<turn, complete, cancelled, question, asked, heard, said>>

\* The end of _drive and of _run.
EndDrive ==
    /\ LoopStep
    /\ drive = "ending"
    /\ out' = IF cancelled THEN Append(out, Event("cancelled", turn)) ELSE out
    /\ drive' = "stopped"
    /\ UNCHANGED <<turn, complete, message, cancelled, question, asked, queried, heard, said>>
-----------------------------------------------------------------------------
(* The helper's main thread: a command if there is one, a flush, an         *)
(* announcement, and round again.                                           *)

MainStep == UNCHANGED <<hostVars, adapterVars, deaths>>

TakesFollowup == /\ drive # "stopped"
                 /\ ~ cancelled
                 /\ question.token = Nothing \/ question.cancelled
                 /\ complete

\* The next command of the pipe, and a flush after it; the one that closes ends
\* the loop.
Take(kind) ==
    /\ MainStep
    /\ main = "get"
    /\ down # <<>> /\ Head(down).kind = kind
    /\ down' = Tail(down)
    /\ main' = IF kind = "close" THEN "leaving" ELSE "flush"
    /\ UNCHANGED <<drive, turn, asked, queried, heard, said, announced>>

TakeClose == /\ Take("close")
             /\ UNCHANGED <<question, cancelled, message, complete, up, out>>

\* An answer that comes too late is dropped, and nobody is told.
TakeAnswer ==
    /\ Take("answer")
    /\ question' = [question EXCEPT
          !.answer = @ \/ (question.token = Head(down).n /\ ~ question.cancelled)]
    /\ UNCHANGED <<cancelled, message, complete, up, out>>

TakeFollowup ==
    /\ Take("followup")
    /\ IF TakesFollowup
       THEN message' = Head(down).n /\ complete' = FALSE /\ UNCHANGED up
       ELSE up' = Append(up, Event("error", Head(down).n)) /\ UNCHANGED <<message, complete>>
    /\ UNCHANGED <<question, cancelled, out>>

\* A question that is held open is released.
TakeCancel ==
    /\ Take("cancel")
    /\ question' = [question EXCEPT !.cancelled = @ \/ question.token # Nothing]
    /\ cancelled' = TRUE
    /\ out' = IF cancelled THEN out ELSE Append(out, Event("activity", turn))
    /\ UNCHANGED <<message, complete, up>>

NoCommand ==
    /\ MainStep
    /\ main = "get"
    /\ down = <<>>
    /\ main' = "flush"
    /\ UNCHANGED <<loopVars, announced, pipes>>

LastResult(events) ==
    LET i == SelectLastInSeq(events, LAMBDA e : e.kind = "succeeded") IN
    IF i = 0 THEN said ELSE events[i].n

Flush ==
    /\ MainStep
    /\ main = "flush"
    /\ up' = up \o out
    /\ said' = LastResult(out)
    /\ out' = <<>>
    /\ main' = "announce"
    /\ UNCHANGED <<drive, turn, complete, message, cancelled, question, asked,
                   queried, heard, announced, down>>

\* A turn that has ended is announced once.
Announce ==
    /\ MainStep
    /\ main = "announce"
    /\ LET ended == complete /\ drive # "stopped" IN
       /\ up' = IF ended /\ ~ announced THEN Append(up, Event("turn_complete", turn)) ELSE up
       /\ announced' = ended
    /\ main' = IF drive = "stopped" THEN "leaving" ELSE "get"
    /\ UNCHANGED <<loopVars, down>>

\* The last flush, and the loop is stopped wherever it is.
Leave ==
    /\ MainStep
    /\ main = "leaving"
    /\ up' = up \o out \o <<Event("finished", Nothing)>>
    /\ said' = LastResult(out)
    /\ out' = <<>>
    /\ main' = "gone"
    /\ UNCHANGED <<drive, turn, complete, message, cancelled, question, asked,
                   queried, heard, announced, down>>

\* Killed, out of time, out of memory.
Die ==
    /\ main # "gone"
    /\ deaths < MaxDeaths
    /\ deaths' = deaths + 1
    /\ main' = "gone"
    /\ UNCHANGED <<loopVars, announced, pipes, hostVars, adapterVars>>
-----------------------------------------------------------------------------
(* The daemon's reader.                                                     *)

ReaderStep == UNCHANGED <<loopVars, mainVars, down, adapterVars, deaths>>

Absorb ==
    /\ ReaderStep
    /\ up # <<>>
    /\ up' = Tail(up)
    /\ LET line == Head(up)
           event == line.kind \in Terminal \cup {"activity", "question"}
           ended == line.kind = "turn_complete" IN
       /\ buffer' = IF event THEN Append(buffer, line) ELSE buffer
       /\ hostTurn' = IF ended /\ line.n > hostTurn THEN line.n ELSE hostTurn
       /\ hostComplete' = CASE ended -> TRUE
                            [] event /\ line.kind \notin Terminal -> FALSE
                            [] OTHER -> hostComplete
       /\ inFlight' = (inFlight /\ ~ ended)
       /\ refusal' = (refusal \/ (line.kind = "error" /\ inFlight))
       /\ token' = IF line.kind = "question" THEN line.n ELSE token
       /\ stopped' = (stopped \/ line.kind = "finished")
    /\ UNCHANGED cancelRequested

EndOfFile ==
    /\ ReaderStep
    /\ main = "gone"
    /\ up = <<>>
    /\ ~ stopped
    /\ stopped' = TRUE
    /\ UNCHANGED <<up, hostTurn, hostComplete, inFlight, refusal, token,
                   cancelRequested, buffer>>
-----------------------------------------------------------------------------
(* The caller.                                                              *)

Others == UNCHANGED <<loopVars, announced, up, hostTurn, hostComplete, deaths>>
Open == task \notin Final
Idle == [op |-> "none", n |-> Nothing]
Call(op, n) == caller' = [op |-> op, n |-> n]

\* Where the first terminal event is, and the last question; 0 if there is none.
FirstTerminal(events) == SelectInSeq(events, LAMBDA e : e.kind \in Terminal)
LastQuestion(events) == SelectLastInSeq(events, LAMBDA e : e.kind = "question")

\* DelegatedEventLog: the first terminal event of a turn, and none after it.
Ended(events, otherwise) ==
    IF FirstTerminal(events) = 0 THEN otherwise ELSE events[FirstTerminal(events)]

\* _retire: the session is closed, and the helper is gone, whatever it takes.
Retire == main' = "gone" /\ stopped' = TRUE /\ held' = FALSE

\* _settle: a result asks for another message if the session is known to wait
\* for one.
Requested(terminal) ==
    IF terminal.kind # "succeeded" THEN terminal.kind
    ELSE IF hostComplete /\ ~ stopped /\ caller.op # "closing" THEN "ready_for_followup"
    ELSE "completed"

\* ... and otherwise the session is retired.  _apply then records what the graph
\* allows: a task that waits for an answer takes no result, and one that is being
\* cancelled only takes one that ends it.  The session is not asked again.
Settle(terminal) ==
    /\ caller' = Idle
    /\ IF Requested(terminal) = "ready_for_followup" THEN UNCHANGED <<main, stopped, held>>
       ELSE Retire
    /\ IF Graph!CanTransition(task, Requested(terminal))
       THEN /\ task' = Requested(terminal)
            /\ waitingFor' = Nothing
            /\ reported' = IF terminal.kind = "succeeded" THEN terminal.n ELSE reported
            /\ UNCHANGED unrecorded
       ELSE /\ unrecorded' = IF terminal.kind = "succeeded" THEN terminal.n ELSE unrecorded
            /\ UNCHANGED <<task, waitingFor, reported>>

\* Definitions named ...Mutant are not part of the specification: each is the
\* definition after it with a slip a programmer could make, and some property
\* must notice it.

\* Mutant: drain does not clear the buffer.
ReadAgainMutant ==
    /\ Open /\ held
    /\ caller = Idle
    /\ UNCHANGED buffer
    /\ LET terminal == FirstTerminal(buffer)
           put == LastQuestion(buffer) IN
       IF terminal # 0 THEN Call(buffer[terminal].kind, buffer[terminal].n)
       ELSE IF put # 0 THEN Call("asking", buffer[put].n)
       ELSE Call("looking", Nothing)
    /\ Others
    /\ UNCHANGED <<main, down, inFlight, refusal, token, cancelRequested, stopped, held,
                   task, waitingFor, sent, accepted, answered, reported, unrecorded,
                   givenUp>>

\* inspect: what has arrived is taken.  A terminal event is settled and a
\* question is put, a moment later, or the session is asked how it is.
Inspect ==
    /\ Open /\ held
    /\ caller = Idle
    /\ buffer' = <<>>
    /\ LET terminal == FirstTerminal(buffer)
           put == LastQuestion(buffer) IN
       IF terminal # 0 THEN Call(buffer[terminal].kind, buffer[terminal].n)
       ELSE IF put # 0 THEN Call("asking", buffer[put].n)
       ELSE Call("looking", Nothing)
    /\ Others
    /\ UNCHANGED <<main, down, inFlight, refusal, token, cancelRequested, stopped, held,
                   task, waitingFor, sent, accepted, answered, reported, unrecorded,
                   givenUp>>

SettleTurn ==
    /\ caller.op \in Terminal
    /\ Settle(Event(caller.op, caller.n))
    /\ Others
    /\ UNCHANGED <<down, inFlight, refusal, token, cancelRequested, buffer, sent,
                   accepted, answered, givenUp>>

\* A task that is being cancelled is not asked anything any more.
PutQuestion ==
    /\ caller.op = "asking"
    /\ caller' = Idle
    /\ IF task = "cancelling" THEN UNCHANGED <<task, waitingFor>>
       ELSE task' = "waiting_for_user" /\ waitingFor' = caller.n
    /\ Others
    /\ UNCHANGED <<main, down, inFlight, refusal, token, cancelRequested, stopped,
                   buffer, held, sent, accepted, answered, reported, unrecorded,
                   givenUp>>

\* Mutant: a helper that is gone is not noticed.
NeverLostMutant ==
    /\ caller.op = "looking"
    /\ IF stopped /\ cancelRequested
       THEN /\ Settle(Ended(IF cancelRequested THEN <<>> ELSE buffer,
                            Event("failed", Nothing)))
            /\ buffer' = <<>>
       ELSE /\ caller' = Idle
            /\ UNCHANGED <<main, stopped, held, buffer, task, waitingFor, reported,
                           unrecorded>>
    /\ Others
    /\ UNCHANGED <<down, inFlight, refusal, token, cancelRequested, sent, accepted,
                   answered, givenUp>>

\* note_lost, unless somebody cancelled: what came in since still goes first.
LookAround ==
    /\ caller.op = "looking"
    /\ IF stopped
       THEN /\ Settle(Ended(IF cancelRequested THEN <<>> ELSE buffer,
                            Event("failed", Nothing)))
            /\ buffer' = <<>>
       ELSE /\ caller' = Idle
            /\ UNCHANGED <<main, stopped, held, buffer, task, waitingFor, reported,
                           unrecorded>>
    /\ Others
    /\ UNCHANGED <<down, inFlight, refusal, token, cancelRequested, sent, accepted,
                   answered, givenUp>>
-----------------------------------------------------------------------------
\* send_followup: written to the pipe, if nothing the host knows speaks against.
SendFollowup ==
    /\ caller = Idle
    /\ task \in {"ready_for_followup", "waiting_for_user"}
    /\ sent < MaxFollowups
    /\ ~ stopped /\ hostComplete /\ token = Nothing /\ ~ inFlight /\ main # "gone"
    /\ sent' = sent + 1
    /\ down' = Append(down, Event("followup", sent'))
    /\ inFlight' = TRUE
    /\ refusal' = FALSE
    /\ Call("sending", hostTurn)
    /\ Others
    /\ UNCHANGED <<main, token, cancelRequested, stopped, buffer, held, task,
                   waitingFor, accepted, answered, reported, unrecorded, givenUp>>

Started == ~ hostComplete \/ hostTurn > caller.n

\* ... and waited for: refused, gone, started, or not taken in time.
EndFollowup(outcome) ==
    /\ caller.op = "sending"
    /\ CASE outcome = "refused" -> refusal \/ stopped
         [] outcome = "accepted" -> ~ refusal /\ ~ stopped /\ Started
         [] outcome = "late" -> TRUE
    /\ caller' = Idle
    /\ inFlight' = IF outcome = "accepted" THEN inFlight ELSE FALSE
    /\ refusal' = IF outcome = "refused" THEN FALSE ELSE refusal
    /\ IF outcome = "accepted"
       THEN accepted' = accepted \cup {sent} /\ task' = "running" /\ waitingFor' = Nothing
       ELSE UNCHANGED <<accepted, task, waitingFor>>
    /\ givenUp' = (givenUp \/ outcome = "late")
    /\ Others
    /\ UNCHANGED <<main, down, token, cancelRequested, stopped, buffer, held, sent,
                   answered, reported, unrecorded>>

\* deliver_clarification_answer: recorded once the line is written.
Answer ==
    /\ caller = Idle
    /\ task = "waiting_for_user"
    /\ token = waitingFor
    /\ main # "gone"
    /\ token' = Nothing
    /\ down' = Append(down, Event("answer", waitingFor))
    /\ answered' = answered \cup {waitingFor}
    /\ waitingFor' = Nothing
    /\ task' = "running"
    /\ Others
    /\ UNCHANGED <<main, inFlight, refusal, cancelRequested, stopped, buffer, held,
                   caller, sent, accepted, reported, unrecorded, givenUp>>

\* request_cancel and close, written to the pipe.
RequestCancel ==
    /\ cancelRequested' = TRUE
    /\ token' = Nothing
    /\ down' = down \o <<Event("cancel", Nothing), Event("close", Nothing)>>

\* cancel: a result that is already here goes first.  A helper whose pipe is
\* broken does not count as stopped, and a session that was let go cannot be.
Cancel ==
    /\ caller = Idle
    /\ Open
    /\ task # "cancelling"
    /\ task' = "cancelling"
    /\ IF ~ held THEN UNCHANGED <<buffer, caller, down, token, cancelRequested>>
       ELSE /\ buffer' = <<>>
            /\ IF FirstTerminal(buffer) # 0
               THEN /\ Call(buffer[FirstTerminal(buffer)].kind,
                            buffer[FirstTerminal(buffer)].n)
                    /\ UNCHANGED <<down, token, cancelRequested>>
               ELSE /\ RequestCancel
                    /\ Call(IF stopped \/ main # "gone" THEN "closing" ELSE "none", Nothing)
    /\ Others
    /\ UNCHANGED <<main, inFlight, refusal, stopped, held, waitingFor, sent, accepted,
                   answered, reported, unrecorded, givenUp>>

\* close() waits for the helper, and stops it when that takes too long.
Kill ==
    /\ caller.op = "closing"
    /\ main # "gone"
    /\ main' = "gone"
    /\ UNCHANGED <<loopVars, announced, pipes, hostVars, adapterVars, deaths>>

\* Mutant: the cancellation is noted before what came in is read.
CancelFirstMutant ==
    /\ caller.op = "closing"
    /\ main = "gone"
    /\ up = <<>>
    /\ Settle(Event("cancelled", Nothing))
    /\ buffer' = <<>>
    /\ Others
    /\ UNCHANGED <<down, inFlight, refusal, token, cancelRequested, sent, accepted,
                   answered, givenUp>>

\* note_cancelled comes after everything the helper still said.
EndCancel ==
    /\ caller.op = "closing"
    /\ main = "gone"
    /\ up = <<>>
    /\ Settle(Ended(buffer, Event("cancelled", Nothing)))
    /\ buffer' = <<>>
    /\ Others
    /\ UNCHANGED <<down, inFlight, refusal, token, cancelRequested, sent, accepted,
                   answered, givenUp>>

\* Another task is started: a session that has stopped is let go of, with what
\* nobody has read of it.
ForgetFinished ==
    /\ caller = Idle
    /\ held /\ stopped
    /\ held' = FALSE
    /\ Others
    /\ UNCHANGED <<main, down, inFlight, refusal, token, cancelRequested, stopped,
                   buffer, task, waitingFor, caller, sent, accepted, answered, reported,
                   unrecorded, givenUp>>

\* finish_task: release_session, and the task completes with what it has.
Finish ==
    /\ caller = Idle
    /\ task = "ready_for_followup"
    /\ task' = "completed"
    /\ Retire
    /\ Others
    /\ UNCHANGED <<down, inFlight, refusal, token, cancelRequested, buffer, waitingFor,
                   caller, sent, accepted, answered, reported, unrecorded, givenUp>>
-----------------------------------------------------------------------------
Loop == \/ Ask \/ BreakOff \/ Park \/ WakeUp \/ EndDrive
        \/ \E timeout \in BOOLEAN : StopAsking(timeout)
        \/ \E kind \in {"succeeded", "failed"} : EndTurn(kind)
        \/ \E works \in BOOLEAN : Query(works)
Main == \/ TakeClose \/ TakeAnswer \/ TakeFollowup \/ TakeCancel \/ NoCommand
        \/ Flush \/ Announce \/ Leave
Reader == Absorb \/ EndOfFile
Caller == \/ SettleTurn \/ PutQuestion \/ LookAround \/ Kill \/ EndCancel
          \/ \E outcome \in {"refused", "accepted", "late"} : EndFollowup(outcome)

SessionNext == \/ Loop \/ Main \/ Die \/ Reader
        \/ Inspect \/ Caller
        \/ SendFollowup \/ Answer \/ Cancel \/ ForgetFinished \/ Finish

SessionSpec == SessionInit /\ [][SessionNext]_sessionVars

\* Threads go on, Claude ends its turns, and somebody keeps looking.
FairSessionSpec == SessionSpec /\ WF_sessionVars(Loop) /\ WF_sessionVars(Main) /\ WF_sessionVars(Reader)
                 /\ WF_sessionVars(Caller) /\ WF_sessionVars(Inspect)
-----------------------------------------------------------------------------
Lines(kinds) == [kind: kinds, n: Nat]

SessionTypeOK ==
    /\ drive \in {"working", "asking", "told", "parked", "querying", "ending", "stopped"}
    /\ turn \in 1 .. MaxFollowups + 1 /\ message \in 0 .. MaxFollowups
    /\ {complete, cancelled, announced, hostComplete, inFlight, refusal,
        cancelRequested, stopped, held, givenUp} \subseteq BOOLEAN
    /\ question \in [token: 0 .. MaxQuestions, answer: BOOLEAN, cancelled: BOOLEAN]
    /\ main \in {"get", "flush", "announce", "leaving", "gone"}
    /\ {out, buffer} \subseteq Seq(Lines(Terminal \cup {"activity", "question"}))
    /\ down \in Seq(Lines({"followup", "answer", "cancel", "close"}))
    /\ task \in {"running", "waiting_for_user", "ready_for_followup", "cancelling"} \cup Final
    /\ accepted \cup queried \subseteq 1 .. sent /\ heard \subseteq 1 .. asked

\* A follow-up the caller is told went through was given to Claude, as a turn of
\* its own: neither a written line nor an old turn's late events pass for a
\* start (send_followup, _absorb).  After a follow-up that was not taken in time
\* the next one may be told what belongs to it.
AcceptedWasQueried == ~ givenUp => accepted \subseteq queried

\* A turn's result is recorded once and in its order: no turn is ended with the
\* answer of an earlier one, however late it is read (_settle, _begin_next_turn).
ReportedInOrder ==
    [][/\ caller.op = "succeeded" => caller.n > reported
       /\ reported' # reported => reported' > reported]_sessionVars

\* A task is not recorded as cancelled over a result the helper still managed to
\* say, at whatever point the cancel came between the two (cancel,
\* note_cancelled): the result was read, at a time when the task could not take it.
CancelKeepsResult ==
    task = "cancelled" /\ ~ givenUp => said <= reported \/ said <= unrecorded

\* What the daemon says of the session is true of the helper.
SessionIsSound == SessionTypeOK /\ AcceptedWasQueried /\ CancelKeepsResult

\* Whatever dies or falls silent, a task with an open turn does not stay so,
\* unless the adapter has nothing more to say of that turn: its result was read
\* at a time when the task could not take it, or the session was let go of.
Busy == task \in {"running", "cancelling"}
NothingMore == unrecorded = turn \/ ~ held
TurnIsSettled == Busy ~> ~ Busy \/ NothingMore

-----------------------------------------------------------------------------
(* Statements of the documentation that the code does not keep *)

\* A result that had already arrived wins over a cancel that arrives after it.
ArrivedResultWins ==
    [][task = "cancelling" /\ caller.op = "succeeded" /\ caller' = Idle
          => task' = "completed"]_sessionVars

\* A turn that goes on after nobody answered is reported like any other.
UnansweredTurnIsReported ==
    [][caller.op = "succeeded" /\ caller' = Idle /\ task # "cancelling"
          => reported' = caller.n]_sessionVars

\* Everything a session produced is returned, before it is let go of.
ForgottenWasRead ==
    [][caller = Idle /\ held /\ ~ held' /\ task' = task => buffer = <<>>]_sessionVars

\* An answer recorded as delivered reached the session that asked: it is not
\* recorded when the question was timed out.
RecordedAnswerIsHeard ==
    \A q \in answered : question.token # q /\ main # "gone" /\ ~ cancelRequested /\ down = <<>>
                        => q \in heard

\* A session said to be continuable takes a follow-up.
AvailableIsContinuable ==
    task = "ready_for_followup" /\ hostComplete /\ ~ stopped => token = Nothing

\* A task completes by itself only when its session is gone.
CompletedMeansGone ==
    [][task = "running" /\ task' = "completed" => main = "gone" \/ drive = "stopped"]_sessionVars
=============================================================================
