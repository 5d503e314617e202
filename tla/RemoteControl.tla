---------------------------- MODULE RemoteControl ----------------------------
(***************************************************************************)
(* The Remote Control host of one project.                                  *)
(*                                                                          *)
(* Requests run in a thread pool and share no lock.  Each asks the systemd  *)
(* user manager about the unit, may tell it to start or stop, and reads or  *)
(* removes the state file; the host, a process of its own, writes that file *)
(* from two threads.  Nothing but the order of these steps relates the file *)
(* to the process it speaks of: a launch is known by its generation, and a  *)
(* host that is killed leaves its file behind.                              *)
(*                                                                          *)
(* Units and files of two projects have nothing in common, so one is        *)
(* enough.  The registry can refuse a request, which changes nothing here,  *)
(* and the host, which is HostRefuses.                                      *)
(***************************************************************************)
EXTENDS Naturals, FiniteSets

CONSTANTS Calls,        \* requests, each made once
          None,
          MaxLaunches,  \* bound; it also stands for StartLimitBurst
          MaxKills      \* bound on processes killed from outside

ASSUME RemoteControlAssumption ==
    /\ MaxLaunches \in Nat \ {0}
    /\ MaxKills \in Nat
    /\ None \notin Nat

VARIABLES unit,      \* ActiveState of the unit
          queued,    \* a start job waits until the unit is down
          host,      \* the main process of the unit
          file,      \* <state>/remote-control/<project>.json
          call,      \* the requests
          launches,  \* generations so far
          kills,
          untidy,    \* history: generations that did not end by clearing the file
          stopped    \* history: the last generation a stop has answered for

vars == <<unit, queued, host, file, call, launches, kills, untidy, stopped>>

NoHost == [step |-> "none", gen |-> 0, reader |-> FALSE, reported |-> FALSE,
           stopping |-> FALSE, ok |-> TRUE]

Operations == {"start", "stop", "status", "link"}

\* LIVE_STATES.  A unit that waits for its next restart is "activating".
Live == unit \in {"active", "activating"}

Alive(g) == host.step # "none" /\ host.gen = g

\* A host outlives the daemon that started it: one may be there already.
Init == /\ \/ /\ unit = "inactive"
              /\ host = NoHost
              /\ file = None
              /\ launches = 0
           \/ /\ unit = "active"
              /\ host = [NoHost EXCEPT !.step = "watch", !.gen = 1, !.reader = TRUE]
              /\ file = [gen |-> 1, link |-> FALSE]
              /\ launches = 1
        /\ queued = FALSE
        /\ call = [c \in Calls |-> [op |-> None, at |-> "new", told |-> None, true |-> TRUE]]
        /\ kills = 0
        /\ untidy = {}
        /\ stopped = 0
-----------------------------------------------------------------------------
(* The manager *)

\* Type=simple: the unit is active as soon as the process is forked.  Past the
\* limit of starts the unit fails.
Fork == IF launches < MaxLaunches
        THEN /\ launches' = launches + 1
             /\ host' = [NoHost EXCEPT !.step = "resolve", !.gen = launches + 1]
             /\ unit' = "active"
        ELSE /\ unit' = "failed"
             /\ UNCHANGED <<launches, host>>

\* Restart=on-failure, unless a stop was asked for.
HostEnds(clean) ==
    /\ host' = NoHost
    /\ unit' = CASE clean                 -> "inactive"
                 [] unit = "deactivating" -> "failed"
                 [] OTHER                 -> "activating"

\* RestartSec has passed.
Respawn == /\ unit = "activating"
           /\ Fork
           /\ UNCHANGED <<queued, file, call, kills, untidy, stopped>>

\* The start job that waited for the unit to be down.
RunQueued == /\ queued
             /\ unit # "deactivating"
             /\ queued' = FALSE
             /\ IF unit = "active" THEN UNCHANGED <<unit, host, launches>> ELSE Fork
             /\ UNCHANGED <<file, call, kills, untidy, stopped>>

\* The memory of the host is exhausted, a person kills it, or TimeoutStopSec
\* has passed.
Kill == /\ host.step # "none"
        /\ kills < MaxKills
        /\ kills' = kills + 1
        /\ HostEnds(FALSE)
        /\ untidy' = untidy \cup {host.gen}
        /\ UNCHANGED <<queued, file, call, launches, stopped>>
-----------------------------------------------------------------------------
(* The host: main and SupervisedHost.run in one thread, a reader in another *)

\* resolve refuses: the project was taken off the registry, or its root moved.
HostRefuses == /\ host.step = "resolve"
               /\ HostEnds(FALSE)
               /\ UNCHANGED <<queued, file, call, launches, kills, untidy, stopped>>

\* Before, not after: the link of an earlier launch goes first.
ClearEarlier == /\ host.step = "resolve"
                /\ file' = None
                /\ host' = [host EXCEPT !.step = "write"]
                /\ UNCHANGED <<unit, queued, call, launches, kills, untidy, stopped>>

Write(link) == file' = [gen |-> host.gen, link |-> link]

WriteGeneration == /\ host.step = "write"
                   /\ Write(FALSE)
                   /\ host' = [host EXCEPT !.step = "spawn"]
                   /\ UNCHANGED <<unit, queued, call, launches, kills, untidy, stopped>>

\* The child, the signal handlers and the reader.
Spawn == /\ host.step = "spawn"
         /\ host' = [host EXCEPT !.step = "watch", !.reader = TRUE]
         /\ UNCHANGED <<unit, queued, file, call, launches, kills, untidy, stopped>>

\* on_link and on_consent_required, each at most once.  A child that asks for
\* consent prints no link, for nothing can answer it.
Report(link) == /\ host.reader
                /\ ~ host.reported
                /\ Write(link)
                /\ host' = [host EXCEPT !.reported = TRUE]
                /\ untidy' = IF host.step = "exit" THEN untidy \cup {host.gen} ELSE untidy
                /\ UNCHANGED <<unit, queued, call, launches, kills, stopped>>

\* The terminal is at its end: no writer is left, or the child has gone and
\* nothing came for a second.
ReaderEnds == /\ host.reader
              /\ host.step \in {"join", "tidy", "exit"}
              /\ host' = [host EXCEPT !.reader = FALSE]
              /\ UNCHANGED <<unit, queued, file, call, launches, kills, untidy, stopped>>

\* The child exits, by itself or because its group was told to and then killed.
ChildExits(ok) == /\ host.step = "watch"
                  /\ host' = [host EXCEPT !.step = "join", !.ok = ok \/ host.stopping]
                  /\ UNCHANGED <<unit, queued, file, call, launches, kills, untidy, stopped>>

\* reader.join has a timeout: a reader somebody still writes to goes on.
Join == /\ host.step = "join"
        /\ host' = [host EXCEPT !.step = "tidy"]
        /\ UNCHANGED <<unit, queued, file, call, launches, kills, untidy, stopped>>

\* Definitions named ...Mutant are not part of the specification: each is the
\* definition after it with a slip a programmer could make, and some property
\* must notice it.

\* Mutant: the link is left for whoever starts or stops the host next.
ClearOwnMutant == /\ host.step = "tidy"
                  /\ host' = [host EXCEPT !.step = "exit"]
                  /\ UNCHANGED <<unit, queued, file, call, launches, kills, untidy, stopped>>

\* The finally of main.
ClearOwn == /\ host.step = "tidy"
            /\ file' = None
            /\ host' = [host EXCEPT !.step = "exit"]
            /\ UNCHANGED <<unit, queued, call, launches, kills, untidy, stopped>>

Exit == /\ host.step = "exit"
        /\ HostEnds(host.ok)
        /\ UNCHANGED <<queued, file, call, launches, kills, untidy, stopped>>
-----------------------------------------------------------------------------
(* The requests *)

Goto(c, at) == call' = [call EXCEPT ![c].at = at]
Done(c, told, true) == call' = [call EXCEPT ![c].at = "done", ![c].told = told, ![c].true = true]

\* Every operation asks first.
Ask(c, op) ==
    /\ call[c].at = "new"
    /\ call' = [call EXCEPT ![c].op = op, ![c].told = IF op = "stop" THEN launches ELSE None,
                            ![c].at = CASE op = "stop"  -> IF unit = "inactive" THEN "forget" ELSE "stop"
                                        [] op = "start" -> IF Live THEN "read" ELSE "start"
                                        [] OTHER        -> IF Live THEN "read" ELSE "done"]
    /\ UNCHANGED <<unit, queued, host, file, launches, kills, untidy, stopped>>

\* backend.start.  A unit on its way down is started when it is down, and who
\* waited for its stop is told that the job was cancelled.
Start(c) ==
    /\ call[c].at = "start"
    /\ CASE unit = "active" -> Goto(c, "settle") /\ UNCHANGED <<unit, queued, host, launches>>
         [] unit = "deactivating" ->
              /\ queued' = TRUE
              /\ call' = [d \in Calls |->
                             IF d = c THEN [call[d] EXCEPT !.at = "starting"]
                             ELSE IF call[d].at = "stopping" THEN [call[d] EXCEPT !.at = "refused"]
                             ELSE call[d]]
              /\ UNCHANGED <<unit, host, launches>>
         [] OTHER -> /\ Fork
                     /\ Goto(c, IF launches < MaxLaunches THEN "settle" ELSE "refused")
                     /\ UNCHANGED queued
    /\ UNCHANGED <<file, kills, untidy, stopped>>

Started(c) == /\ call[c].at = "starting"
              /\ ~ queued
              /\ \/ Goto(c, "settle")
                 \/ unit = "failed" /\ Goto(c, "refused")
              /\ UNCHANGED <<unit, queued, host, file, launches, kills, untidy, stopped>>

\* _settle asks the manager once, and then the file a few times.
SettleAsk(c) == /\ call[c].at = "settle"
                /\ Goto(c, IF Live THEN "read" ELSE "done")
                /\ UNCHANGED <<unit, queued, host, file, launches, kills, untidy, stopped>>

\* _with_link_evidence: the generation is whatever the file says now.
ReadEvidence(c) == /\ call[c].at = "read"
                   /\ call[c].op # "link"
                   /\ IF file # None THEN Done(c, file.gen, Alive(file.gen))
                                     ELSE Done(c, None, TRUE)
                   /\ UNCHANGED <<unit, queued, host, file, launches, kills, untidy, stopped>>

\* link: the link of the file, whoever wrote it, or a refusal.
ReadLink(c) == /\ call[c].at = "read"
               /\ call[c].op = "link"
               /\ IF file # None /\ file.link THEN Done(c, file.gen, Alive(file.gen))
                                              ELSE Goto(c, "refused")
               /\ UNCHANGED <<unit, queued, host, file, launches, kills, untidy, stopped>>

\* Mutant: the stop that waits does not let the wrapper end its child.
StopMutant(c) ==
    /\ call[c].at = "stop"
    /\ unit' = IF unit = "active" THEN "deactivating"
               ELSE IF unit = "activating" THEN "inactive" ELSE unit
    /\ call' = [call EXCEPT ![c].at = "stopping", ![c].told = launches]
    /\ UNCHANGED <<queued, host, file, launches, kills, untidy, stopped>>

\* backend.stop: a stop job, which replaces a start that waits.  SIGTERM ends
\* a host without handlers at once; one that watches its child forwards it.
\* What is told is the last launch the job can take down.
Stop(c) ==
    /\ call[c].at = "stop"
    /\ CASE unit = "active" ->
              IF host.step = "watch"
              THEN /\ host' = [host EXCEPT !.stopping = TRUE]
                   /\ unit' = "deactivating"
                   /\ UNCHANGED untidy
              ELSE /\ HostEnds(TRUE)
                   /\ untidy' = untidy \cup {host.gen}
         [] unit = "activating" -> unit' = "inactive" /\ UNCHANGED <<host, untidy>>
         [] OTHER -> UNCHANGED <<unit, host, untidy>>
    /\ queued' = FALSE
    /\ call' = [d \in Calls |->
                   IF d = c THEN [call[d] EXCEPT !.at = "stopping", !.told = launches]
                   ELSE IF call[d].at = "starting" /\ queued THEN [call[d] EXCEPT !.at = "refused"]
                   ELSE call[d]]
    /\ UNCHANGED <<file, launches, kills, stopped>>

StopEnds(c) == /\ call[c].at = "stopping"
               /\ unit # "deactivating"
               /\ Goto(c, "forget")
               /\ UNCHANGED <<unit, queued, host, file, launches, kills, untidy, stopped>>

\* _forget, after which the stop is answered.
Forget(c) == /\ call[c].at = "forget"
             /\ file' = None
             /\ stopped' = IF call[c].told > stopped THEN call[c].told ELSE stopped
             /\ Done(c, None, TRUE)
             /\ UNCHANGED <<unit, queued, host, launches, kills, untidy>>
-----------------------------------------------------------------------------
HostStep == ClearEarlier \/ WriteGeneration \/ Spawn \/ Join \/ ClearOwn \/ Exit

CallStep(c) == Start(c) \/ Started(c) \/ SettleAsk(c) \/ ReadEvidence(c)
               \/ ReadLink(c) \/ Stop(c) \/ StopEnds(c) \/ Forget(c)

Next == \/ Respawn \/ RunQueued \/ Kill
        \/ HostRefuses \/ HostStep \/ ReaderEnds
        \/ \E link \in BOOLEAN : Report(link)
        \/ \E ok \in BOOLEAN : ChildExits(ok)
        \/ \E c \in Calls : (\E op \in Operations : Ask(c, op)) \/ CallStep(c)

\* A process goes on, the manager carries out its jobs, a request in the pool
\* goes on, and a child that was told to stop is gone after the grace period.
\* No request has to be made, and no child has to print or to exit.
Fairness == /\ WF_vars(HostStep)
            /\ WF_vars(host.stopping /\ ChildExits(TRUE))
            /\ WF_vars(RunQueued)
            /\ \A c \in Calls : WF_vars(CallStep(c))

Spec == Init /\ [][Next]_vars
FairSpec == Spec /\ Fairness
-----------------------------------------------------------------------------
(* Properties *)

\* What the variables hold; a unit is up exactly while its process is there.
TypeOK ==
    /\ unit \in {"inactive", "active", "activating", "deactivating", "failed"}
    /\ host.step # "none" <=> unit \in {"active", "deactivating"}
    /\ file \in [gen: 1 .. launches, link: BOOLEAN] \cup {None}
    /\ launches \in 0 .. MaxLaunches
    /\ kills \in 0 .. MaxKills
    /\ stopped \in 0 .. launches
    /\ untidy \subseteq 1 .. launches
    /\ queued \in BOOLEAN

\* A generation or a link that a request was given belonged to a host that ran
\* when the file was read, unless that host was ended before it could clear its
\* file, or its reader wrote after it had.  Two clears, one finally and what the
\* manager says stand between a host that ended in order and a client.
OfferedWasLive ==
    \A c \in Calls : (call[c].at = "done" /\ call[c].told # None /\ ~ call[c].true)
                     => call[c].told \in untidy

\* After a stop has answered, nothing of the launches it took down can be found,
\* however they ended, and nothing of them comes back.
StoppedLeavesNothing == file # None => file.gen > stopped

\* What the state file offers is true of the process.
LinksAreTrue == TypeOK /\ OfferedWasLive /\ StoppedLeavesNothing

\* Every request is answered: above all a stop, which waits for a child that
\* does not exit when it is told to, while other requests start the unit again.
CallIsAnswered == \A c \in Calls : call[c].at # "new" ~> call[c].at \in {"done", "refused"}
-----------------------------------------------------------------------------
(* Statements of the documentation that the code does not keep *)

\* supervisor.py:180: link "refuses whenever the link is not *currently* live:
\* never started, host stopped, link not yet reported, or the stored link belongs
\* to a previous generation".
OfferedIsCurrent ==
    \A c \in Calls : (call[c].op = "link" /\ call[c].at = "done") => call[c].true

\* supervisor.py:251: a start response must not let "a caller mistake a fresh
\* host for the one it already had".
StartNamesItsHost ==
    \A c \in Calls : (call[c].op = "start" /\ call[c].at = "done") => call[c].true

\* state.py:233: a file is cleared at moments "after which the stored URL is no
\* longer a live capability", so a host that watches its child is known.
LiveHostIsKnown == host.step = "watch" => file # None
=============================================================================
