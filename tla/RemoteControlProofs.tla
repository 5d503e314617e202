-------------------------- MODULE RemoteControlProofs --------------------------
(***************************************************************************)
(* The proofs of the two things that are started on the host and then       *)
(* spoken to: the Remote Control host, for any number of requests, launches *)
(* and kills, and, from "The YouTube player" on, the player page, for any   *)
(* number of pages, videos, actions and interferences.  The two share       *)
(* nothing: each part has the variables of its own specification.           *)
(***************************************************************************)
EXTENDS RemoteControl, YoutubePlayer, SequenceTheorems, TLAPS

HostRecords ==
    [step: {"none", "resolve", "write", "spawn", "watch", "join", "tidy", "exit"},
     gen: Nat, reader: BOOLEAN, reported: BOOLEAN, stopping: BOOLEAN, ok: BOOLEAN]
Places == {"new", "start", "starting", "settle", "read", "stop", "stopping", "forget",
           "done", "refused"}
CallRecords == [op: Operations \cup {None}, at: Places, told: Nat \cup {None},
                true: BOOLEAN]
RecordsOK == host \in HostRecords /\ call \in [Calls -> CallRecords]

\* There is one host, of the last launch, and only one that watches a child or
\* has watched it has a reader.
HostOK ==
    /\ host.step # "none" => host.gen = launches /\ 0 < host.gen /\ stopped < host.gen
    /\ host.reader => host.step \in {"watch", "join", "tidy", "exit"}

\* A host that has not cleared the file finds one of an earlier launch, if any.
EarlyOK ==
    host.step \in {"resolve", "write"} /\ file # None => file.gen < host.gen

\* The file speaks of the host that runs, or of one that could not clear it; one
\* about to exit has cleared it, unless its reader wrote again.
FileOK ==
    file # None =>
        \/ host.step \notin {"none", "exit"} /\ file.gen = host.gen
        \/ file.gen \in untidy

\* A stop waits for the launches it can take down to be gone, and forgets the
\* file when they are.
StopsOK ==
    \A c \in Calls :
        /\ call[c].at \in {"stopping", "forget"} => call[c].told \in 0 .. launches
        /\ call[c].at = "stopping" /\ host.step # "none" /\ host.gen <= call[c].told
             => unit = "deactivating"
        /\ call[c].at = "forget" /\ host.step # "none" => call[c].told < host.gen

\* What was read of a dead host was left by one that could not clear it.
ReadsOK ==
    \A c \in Calls : ~ call[c].true => call[c].at = "done" /\ call[c].told \in untidy

ControlInv ==
    /\ TypeOK /\ RecordsOK /\ HostOK /\ EarlyOK /\ FileOK /\ StopsOK /\ ReadsOK
    /\ StoppedLeavesNothing
-----------------------------------------------------------------------------
\* What the variables hold, in a form that needs no enumeration of records.
LEMMA TypesGive ==
    ASSUME TypeOK, RecordsOK
    PROVE  /\ launches \in Nat /\ stopped \in Nat /\ stopped <= launches
           /\ host.gen \in Nat
           /\ file # None => file.gen \in Nat /\ 1 <= file.gen /\ file.gen <= launches
           /\ \A c \in Calls : call[c] \in CallRecords
BY RemoteControlAssumption DEF TypeOK, RecordsOK, HostRecords

\* What the requests know depends on the host and the unit only.
LEMMA CallsKeep ==
    ASSUME ControlInv, UNCHANGED call,
           launches' \in Nat, launches <= launches', untidy \subseteq untidy',
           \/ UNCHANGED unit /\ (host'.step # "none" => host.step # "none" /\ host'.gen = host.gen)
           \/ host'.step = "none"
           \/ host'.gen = launches + 1 /\ host.step = "none"
    PROVE  StopsOK' /\ ReadsOK'
<1> USE RemoteControlAssumption DEF ControlInv
<1>1. /\ launches \in Nat /\ launches' \in Nat
      /\ \A c \in Calls : call[c] \in CallRecords
  BY TypesGive DEF TypeOK
<1>2. StopsOK'
  <2> SUFFICES ASSUME NEW c \in Calls
               PROVE  /\ call[c].at \in {"stopping", "forget"} => call[c].told \in 0 .. launches'
                      /\ call[c].at = "stopping" /\ host'.step # "none"
                         /\ host'.gen <= call[c].told => unit' = "deactivating"
                      /\ call[c].at = "forget" /\ host'.step # "none" =>
                           call[c].told < host'.gen
    BY DEF StopsOK
  <2> QED BY <1>1 DEF StopsOK
<1>3. ReadsOK' BY DEF ReadsOK
<1> QED BY <1>2, <1>3

\* A launch: nothing of an earlier one is left but its file.
LEMMA LaunchKeeps ==
    ASSUME ControlInv, host.step = "none", Fork,
           queued' \in BOOLEAN, UNCHANGED <<file, kills, untidy, stopped>>
    PROVE  /\ TypeOK' /\ HostOK' /\ EarlyOK' /\ FileOK' /\ StoppedLeavesNothing'
           /\ host' \in HostRecords
           /\ launches' \in Nat /\ launches <= launches' /\ launches \in Nat
           /\ host'.step # "none" => host'.gen = launches + 1
<1> USE RemoteControlAssumption DEF ControlInv
<1>1. /\ launches \in Nat /\ stopped \in Nat /\ stopped <= launches /\ host.gen \in Nat
      /\ file # None => file.gen \in Nat /\ 1 <= file.gen /\ file.gen <= launches
      /\ launches <= MaxLaunches
  BY TypesGive DEF TypeOK
<1>2. CASE launches < MaxLaunches
  <2>1. /\ launches' = launches + 1 /\ unit' = "active"
        /\ host' = [NoHost EXCEPT !.step = "resolve", !.gen = launches + 1]
    BY <1>2 DEF Fork
  <2>2. host' \in HostRecords /\ host'.step = "resolve" /\ host'.gen = launches + 1
        /\ ~ host'.reader
    <3>1. host' = [step |-> "resolve", gen |-> launches + 1, reader |-> FALSE,
                   reported |-> FALSE, stopping |-> FALSE, ok |-> TRUE]
      BY <2>1 DEF NoHost
    <3> QED BY <1>1, <3>1 DEF HostRecords
  <2>3. TypeOK' BY <1>1, <1>2, <2>1, <2>2 DEF TypeOK
  <2>4. HostOK' /\ EarlyOK' BY <1>1, <2>1, <2>2 DEF HostOK, EarlyOK
  <2>5. FileOK' BY <2>2 DEF FileOK
  <2>6. StoppedLeavesNothing' BY DEF StoppedLeavesNothing
  <2> QED BY <1>1, <2>1, <2>2, <2>3, <2>4, <2>5, <2>6
<1>3. CASE ~ (launches < MaxLaunches)
  <2>1. unit' = "failed" /\ UNCHANGED <<launches, host>> BY <1>3 DEF Fork
  <2>2. TypeOK' BY <2>1 DEF TypeOK
  <2> QED BY <1>1, <2>1, <2>2
          DEF RecordsOK, HostOK, EarlyOK, FileOK, StoppedLeavesNothing
<1> QED BY <1>2, <1>3

\* A session that is forked is a new generation, or the launch is at its limit.
LEMMA ForkPreserves ==
    ASSUME ControlInv, host.step = "none", Fork,
           queued' \in BOOLEAN, UNCHANGED <<file, call, kills, untidy, stopped>>
    PROVE  ControlInv'
<1>1. /\ TypeOK' /\ HostOK' /\ EarlyOK' /\ FileOK' /\ StoppedLeavesNothing'
      /\ host' \in HostRecords
      /\ launches' \in Nat /\ launches <= launches' /\ launches \in Nat
      /\ host'.step # "none" => host'.gen = launches + 1
  BY LaunchKeeps
<1>2. StopsOK' /\ ReadsOK' BY <1>1, CallsKeep
<1> QED BY <1>1, <1>2 DEF ControlInv, RecordsOK

\* An end: the file is not of this host, or it is known to be untidy.
LEMMA EndsPreserves ==
    ASSUME ControlInv, NEW clean, HostEnds(clean), host.step # "none",
           file # None => file.gen \in untidy',
           untidy' \in {untidy, untidy \cup {host.gen}},
           kills' \in 0 .. MaxKills, queued' \in BOOLEAN,
           UNCHANGED <<file, launches, stopped>>
    PROVE  /\ TypeOK' /\ host' \in HostRecords /\ HostOK' /\ EarlyOK' /\ FileOK'
           /\ StoppedLeavesNothing'
           /\ host'.step = "none" /\ untidy \subseteq untidy'
<1> USE RemoteControlAssumption DEF ControlInv
<1>1. launches \in Nat /\ host.gen \in 1 .. launches
  BY TypesGive DEF HostOK
<1>2. host' = NoHost /\ host' \in HostRecords /\ host'.step = "none" /\ ~ host'.reader
  BY DEF HostEnds, NoHost, HostRecords
<1>3. unit' \in {"inactive", "failed", "activating"} BY DEF HostEnds
<1>4. TypeOK' BY <1>1, <1>2, <1>3 DEF TypeOK
<1>5. HostOK' /\ EarlyOK' /\ FileOK' BY <1>2 DEF HostOK, EarlyOK, FileOK
<1>6. StoppedLeavesNothing' BY DEF StoppedLeavesNothing
<1> QED BY <1>2, <1>4, <1>5, <1>6

\* A step of the host that neither writes nor clears the file.
LEMMA AdvancePreserves ==
    ASSUME ControlInv, host.step # "none", host' \in HostRecords,
           host'.gen = host.gen, host'.step # "none",
           host'.reader => host.reader \/ host'.step = "watch",
           host'.reader => host'.step \in {"watch", "join", "tidy", "exit"},
           host'.step \in {"resolve", "write"} => host'.step = host.step,
           host'.step = "exit" => host.step = "exit",
           UNCHANGED <<unit, queued, file, call, launches, kills, untidy, stopped>>
    PROVE  ControlInv'
<1> USE DEF ControlInv
<1>1. TypeOK' BY DEF TypeOK
<1>2. RecordsOK' BY DEF RecordsOK
<1>3. HostOK' /\ EarlyOK' /\ FileOK' BY DEF HostOK, EarlyOK, FileOK
<1>4. StopsOK' /\ ReadsOK' BY TypesGive, CallsKeep
<1>5. StoppedLeavesNothing' BY DEF StoppedLeavesNothing
<1> QED BY <1>1, <1>2, <1>3, <1>4, <1>5
-----------------------------------------------------------------------------
\* The manager and the host, action by action.

\* The manager starts a session that ended by itself again.
LEMMA RespawnPreserves == ControlInv /\ Respawn => ControlInv'
BY ForkPreserves DEF Respawn, ControlInv, TypeOK

\* The start that was queued behind a stop is carried out when the stop is
\* over.
LEMMA RunQueuedPreserves == ControlInv /\ RunQueued => ControlInv'
<1> SUFFICES ASSUME ControlInv, RunQueued PROVE ControlInv'
  OBVIOUS
<1> USE DEF ControlInv, RunQueued
<1>1. CASE unit = "active"
  <2>1. UNCHANGED <<unit, host, launches, file, call, kills, untidy, stopped>> BY <1>1
  <2>2. TypeOK' BY <2>1 DEF TypeOK
  <2> QED BY <2>1, <2>2 DEF RecordsOK, HostOK, EarlyOK, FileOK, StopsOK, ReadsOK,
                            StoppedLeavesNothing
<1>2. CASE unit # "active"
  <2>1. host.step = "none" BY <1>2 DEF TypeOK
  <2> QED BY <1>2, <2>1, ForkPreserves
<1> QED BY <1>1, <1>2

\* A host that is killed leaves its file as it is.
LEMMA KillPreserves == ControlInv /\ Kill => ControlInv'
<1> SUFFICES ASSUME ControlInv, Kill PROVE ControlInv'
  OBVIOUS
<1> USE DEF ControlInv, Kill
<1>1. file # None => file.gen \in untidy' BY DEF FileOK
<1>2. kills' \in 0 .. MaxKills /\ queued' \in BOOLEAN
  BY RemoteControlAssumption DEF TypeOK
<1>3. /\ TypeOK' /\ host' \in HostRecords /\ HostOK' /\ EarlyOK' /\ FileOK'
      /\ StoppedLeavesNothing' /\ host'.step = "none" /\ untidy \subseteq untidy'
  BY <1>1, <1>2, EndsPreserves
<1>4. StopsOK' /\ ReadsOK' BY <1>3, TypesGive, CallsKeep
<1> QED BY <1>3, <1>4 DEF RecordsOK

\* A host whose project cannot be resolved ends before it touches the file.
LEMMA HostRefusesPreserves == ControlInv /\ HostRefuses => ControlInv'
<1> SUFFICES ASSUME ControlInv, HostRefuses PROVE ControlInv'
  OBVIOUS
<1> USE DEF ControlInv, HostRefuses
<1>1. file # None => file.gen \in untidy' BY TypesGive DEF FileOK, EarlyOK
<1>2. kills' \in 0 .. MaxKills /\ queued' \in BOOLEAN BY DEF TypeOK
<1>3. /\ TypeOK' /\ host' \in HostRecords /\ HostOK' /\ EarlyOK' /\ FileOK'
      /\ StoppedLeavesNothing' /\ host'.step = "none" /\ untidy \subseteq untidy'
  BY <1>1, <1>2, EndsPreserves
<1>4. StopsOK' /\ ReadsOK' BY <1>3, TypesGive, CallsKeep
<1> QED BY <1>3, <1>4 DEF RecordsOK

\* A host that has cleared its file exits.
LEMMA ExitPreserves == ControlInv /\ Exit => ControlInv'
<1> SUFFICES ASSUME ControlInv, Exit PROVE ControlInv'
  OBVIOUS
<1> USE DEF ControlInv, Exit
<1>1. file # None => file.gen \in untidy' BY DEF FileOK
<1>2. kills' \in 0 .. MaxKills /\ queued' \in BOOLEAN BY DEF TypeOK
<1>3. /\ TypeOK' /\ host' \in HostRecords /\ HostOK' /\ EarlyOK' /\ FileOK'
      /\ StoppedLeavesNothing' /\ host'.step = "none" /\ untidy \subseteq untidy'
  BY <1>1, <1>2, EndsPreserves
<1>4. StopsOK' /\ ReadsOK' BY <1>3, TypesGive, CallsKeep
<1> QED BY <1>3, <1>4 DEF RecordsOK

\* The two that clear the file.
LEMMA ClearsPreserves == ControlInv /\ (ClearEarlier \/ ClearOwn) => ControlInv'
<1> SUFFICES ASSUME ControlInv, ClearEarlier \/ ClearOwn PROVE ControlInv'
  OBVIOUS
<1> USE DEF ControlInv
<1>1. /\ file' = None /\ host.step \in {"resolve", "tidy"} /\ host \in HostRecords
      /\ host' \in {[host EXCEPT !.step = "write"], [host EXCEPT !.step = "exit"]}
      /\ host'.step = "write" => host.step = "resolve"
      /\ UNCHANGED <<unit, queued, call, launches, kills, untidy, stopped>>
  BY DEF ClearEarlier, ClearOwn, RecordsOK, HostRecords
<1>2. /\ host' \in HostRecords /\ host'.step \in {"write", "exit"}
      /\ host'.gen = host.gen /\ host'.reader = host.reader
  BY <1>1 DEF HostRecords
<1>3. TypeOK' BY <1>1, <1>2 DEF TypeOK
<1>4. HostOK' /\ EarlyOK' /\ FileOK' BY <1>1, <1>2 DEF HostOK, EarlyOK, FileOK
<1>5. StopsOK' /\ ReadsOK' BY <1>1, <1>2, TypesGive, CallsKeep
<1>6. StoppedLeavesNothing' BY <1>1 DEF StoppedLeavesNothing
<1> QED BY <1>1, <1>2, <1>3, <1>4, <1>5, <1>6 DEF RecordsOK

\* The two that write it: they write of the host that runs.
LEMMA WriteGenerationPreserves == ControlInv /\ WriteGeneration => ControlInv'
<1> SUFFICES ASSUME ControlInv, WriteGeneration PROVE ControlInv'
  OBVIOUS
<1> USE DEF ControlInv
<1>1. /\ file' = [gen |-> host.gen, link |-> FALSE] /\ host.step = "write"
      /\ host \in HostRecords /\ host' = [host EXCEPT !.step = "spawn"]
      /\ UNCHANGED <<unit, queued, call, launches, kills, untidy, stopped>>
  BY DEF WriteGeneration, Write, RecordsOK
<1>2. /\ host' \in HostRecords /\ host'.step = "spawn"
      /\ host'.gen = host.gen /\ host'.reader = host.reader
  BY <1>1 DEF HostRecords
<1>3. host.gen \in 1 .. launches /\ stopped < host.gen BY <1>1, TypesGive DEF HostOK
<1>4. TypeOK' BY <1>1, <1>2, <1>3 DEF TypeOK
<1>5. HostOK' /\ EarlyOK' /\ FileOK' BY <1>1, <1>2 DEF HostOK, EarlyOK, FileOK
<1>6. StopsOK' /\ ReadsOK' BY <1>1, <1>2, TypesGive, CallsKeep
<1>7. StoppedLeavesNothing' BY <1>1, <1>3 DEF StoppedLeavesNothing
<1> QED BY <1>1, <1>2, <1>4, <1>5, <1>6, <1>7 DEF RecordsOK

\* The reader of a host reports its link once, in the file of its generation.
LEMMA ReportPreserves ==
    ASSUME ControlInv, NEW link \in BOOLEAN, Report(link)
    PROVE  ControlInv'
<1> USE DEF ControlInv
<1>1. /\ file' = [gen |-> host.gen, link |-> link] /\ host.reader
      /\ host.step \in {"watch", "join", "tidy", "exit"}
      /\ host \in HostRecords /\ host' = [host EXCEPT !.reported = TRUE]
      /\ untidy' = IF host.step = "exit" THEN untidy \cup {host.gen} ELSE untidy
      /\ UNCHANGED <<unit, queued, call, launches, kills, stopped>>
  BY DEF Report, Write, RecordsOK, HostOK
<1>2. /\ host' \in HostRecords /\ host'.step = host.step
      /\ host'.gen = host.gen /\ host'.reader = host.reader
  BY <1>1 DEF HostRecords
<1>3. host.gen \in 1 .. launches /\ stopped < host.gen BY <1>1, TypesGive DEF HostOK
<1>4. TypeOK' BY <1>1, <1>2, <1>3 DEF TypeOK
<1>5. HostOK' /\ EarlyOK' /\ FileOK' BY <1>1, <1>2 DEF HostOK, EarlyOK, FileOK
<1>6. StopsOK' /\ ReadsOK' BY <1>1, <1>2, TypesGive, CallsKeep
<1>7. StoppedLeavesNothing' BY <1>1, <1>3 DEF StoppedLeavesNothing
<1> QED BY <1>1, <1>2, <1>4, <1>5, <1>6, <1>7 DEF RecordsOK

\* The rest of the host touches only itself.
LEMMA HostPreserves ==
    ASSUME ControlInv, Spawn \/ ReaderEnds \/ Join \/ \E ok \in BOOLEAN : ChildExits(ok)
    PROVE  ControlInv'
<1> USE DEF ControlInv
<1>1. host \in HostRecords BY DEF RecordsOK
<1>2. UNCHANGED <<unit, queued, file, call, launches, kills, untidy, stopped>>
  BY DEF Spawn, ReaderEnds, Join, ChildExits
<1>3. CASE Spawn
  <2>1. host' = [host EXCEPT !.step = "watch", !.reader = TRUE] /\ host.step = "spawn"
    BY <1>3 DEF Spawn
  <2>2. host' \in HostRecords /\ host'.step = "watch" /\ host'.gen = host.gen
    BY <1>1, <2>1 DEF HostRecords
  <2> QED BY <1>2, <2>1, <2>2, AdvancePreserves
<1>4. CASE ReaderEnds
  <2>1. host' = [host EXCEPT !.reader = FALSE] /\ host.step \in {"join", "tidy", "exit"}
    BY <1>4 DEF ReaderEnds
  <2>2. /\ host' \in HostRecords /\ host'.step = host.step /\ host'.gen = host.gen
        /\ ~ host'.reader
    BY <1>1, <2>1 DEF HostRecords
  <2> QED BY <1>2, <2>1, <2>2, AdvancePreserves
<1>5. CASE Join
  <2>1. host' = [host EXCEPT !.step = "tidy"] /\ host.step = "join" BY <1>5 DEF Join
  <2>2. /\ host' \in HostRecords /\ host'.step = "tidy" /\ host'.gen = host.gen
        /\ host'.reader = host.reader
    BY <1>1, <2>1 DEF HostRecords
  <2> QED BY <1>2, <2>1, <2>2, AdvancePreserves
<1>6. CASE \E ok \in BOOLEAN : ChildExits(ok)
  <2>1. PICK ok \in BOOLEAN :
            host' = [host EXCEPT !.step = "join", !.ok = ok \/ host.stopping]
    BY <1>6 DEF ChildExits
  <2>2. host.step = "watch" BY <1>6 DEF ChildExits
  <2>3. (ok \/ host.stopping) \in BOOLEAN BY Zenon
  <2>4. /\ host' \in HostRecords /\ host'.step = "join" /\ host'.gen = host.gen
        /\ host'.reader = host.reader
    BY <1>1, <2>1, <2>3 DEF HostRecords
  <2> QED BY <1>2, <2>2, <2>4, AdvancePreserves
<1> QED BY <1>3, <1>4, <1>5, <1>6-----------------------------------------------------------------------------
\* The requests, action by action.

\* What a request that only asks or reads leaves alone.
HostSide == <<unit, host, file, launches, kills, untidy, stopped>>

\* A request that moves on, but not to wait for a stop or to forget.
Turns(c, r) ==
    /\ call' = [call EXCEPT ![c] = r]
    /\ call[c].at # "done"
    /\ r \in CallRecords /\ r.at \notin {"stopping", "forget"}
    /\ ~ r.true => r.at = "done" /\ r.told \in untidy

\* A call that only moves on keeps everything its record is not about.
LEMMA TurnsPreserves ==
    ASSUME ControlInv, NEW c \in Calls, NEW r, Turns(c, r),
           UNCHANGED HostSide, queued' \in BOOLEAN
    PROVE  ControlInv'
<1> USE DEF ControlInv, Turns, HostSide
<1>1. TypeOK' BY DEF TypeOK
<1>2. RecordsOK' BY DEF RecordsOK
<1>3. HostOK' /\ EarlyOK' /\ FileOK' /\ StoppedLeavesNothing'
  BY DEF HostOK, EarlyOK, FileOK, StoppedLeavesNothing
<1>4. call'[c] = r /\ \A d \in Calls \ {c} : call'[d] = call[d] BY DEF RecordsOK
<1>5. StopsOK' BY <1>4 DEF StopsOK
<1>6. ReadsOK' BY <1>4 DEF ReadsOK
<1> QED BY <1>1, <1>2, <1>3, <1>5, <1>6

\* A call goes to its next place.
LEMMA GotoPreserves ==
    ASSUME ControlInv, NEW c \in Calls, NEW at \in Places \ {"stopping", "forget"},
           Goto(c, at), call[c].at # "done", UNCHANGED HostSide, queued' \in BOOLEAN
    PROVE  ControlInv'
<1> DEFINE r == [call[c] EXCEPT !.at = at]
<1>1. call[c] \in CallRecords /\ call[c].true BY DEF ControlInv, RecordsOK, ReadsOK
<1>2. r \in CallRecords BY <1>1 DEF CallRecords
<1>3. r.at = at /\ r.true = call[c].true BY <1>1 DEF CallRecords
<1>4. call' = [call EXCEPT ![c] = r] BY DEF Goto
<1>5. Turns(c, r) BY <1>1, <1>2, <1>3, <1>4 DEF Turns
<1> QED BY <1>5, TurnsPreserves

\* A request asks the manager for the state of the unit first.
LEMMA AskPreserves ==
    ASSUME ControlInv, NEW c \in Calls, NEW op \in Operations, Ask(c, op)
    PROVE  ControlInv'
<1> USE RemoteControlAssumption
<1>1. /\ UNCHANGED HostSide /\ queued' = queued /\ queued \in BOOLEAN
      /\ call[c].at = "new" /\ call[c] \in CallRecords /\ call[c].true
      /\ launches \in Nat
  BY TypesGive DEF ControlInv, Ask, HostSide, TypeOK, RecordsOK, ReadsOK
<1> DEFINE told == IF op = "stop" THEN launches ELSE None
           at == CASE op = "stop"  -> IF unit = "inactive" THEN "forget" ELSE "stop"
                   [] op = "start" -> IF Live THEN "read" ELSE "start"
                   [] OTHER        -> IF Live THEN "read" ELSE "done"
           r == [call[c] EXCEPT !.op = op, !.told = told, !.at = at]
<1>2. at \in Places /\ (at = "forget" => op = "stop" /\ unit = "inactive")
      /\ at # "stopping"
  BY DEF Places, Operations
<1>3. told \in Nat \cup {None} BY <1>1
<1>4. call' = [call EXCEPT ![c] = r] BY DEF Ask
<1> HIDE DEF at
<1>5. r \in CallRecords /\ r.at = at /\ r.told = told /\ r.true = call[c].true
  BY <1>1, <1>2, <1>3 DEF CallRecords
<1>6. CASE at # "forget"
  <2>1. Turns(c, r) BY <1>1, <1>2, <1>4, <1>5, <1>6 DEF Turns
  <2> QED BY <1>1, <2>1, TurnsPreserves
<1>7. CASE at = "forget"
  <2>1. host.step = "none" /\ told = launches
    BY <1>2, <1>7 DEF ControlInv, TypeOK
  <2> HIDE DEF r, told
  <2> USE <1>1 DEF ControlInv, HostSide
  <2>2. TypeOK' BY DEF TypeOK
  <2>3. RecordsOK' BY <1>4, <1>5 DEF RecordsOK
  <2>4. HostOK' /\ EarlyOK' /\ FileOK' /\ StoppedLeavesNothing'
    BY DEF HostOK, EarlyOK, FileOK, StoppedLeavesNothing
  <2>5. call'[c] = r /\ \A d \in Calls \ {c} : call'[d] = call[d]
    BY <1>4 DEF RecordsOK
  <2>6. StopsOK' BY <1>5, <1>7, <2>1, <2>5 DEF StopsOK
  <2>7. ReadsOK' BY <1>5, <2>5 DEF ReadsOK
  <2> QED BY <2>2, <2>3, <2>4, <2>6, <2>7
<1> QED BY <1>6, <1>7

\* A request that is refused because another's job replaces the one it waits for.
LEMMA RefusedCalls ==
    ASSUME ControlInv, NEW c \in Calls, NEW r \in CallRecords, NEW W,
           \A d \in W : call[d].at # "done",
           call' = [d \in Calls |-> call'[d]], call'[c] = r,
           \A d \in Calls \ {c} :
              call'[d] = IF d \in W THEN [call[d] EXCEPT !.at = "refused"] ELSE call[d]
    PROVE  /\ call' \in [Calls -> CallRecords]
           /\ \A d \in Calls \ {c} :
                 \/ call'[d] = call[d]
                 \/ /\ d \in W /\ call'[d].at = "refused" /\ call'[d].true
<1>1. ASSUME NEW d \in Calls \ {c}
      PROVE  /\ call'[d] \in CallRecords
             /\ \/ call'[d] = call[d]
                \/ d \in W /\ call'[d].at = "refused" /\ call'[d].true
  <2>1. call[d] \in CallRecords BY DEF ControlInv, RecordsOK
  <2>2. CASE d \in W
    <3>1. call[d].true BY <2>2 DEF ControlInv, ReadsOK
    <3>2. call'[d] = [call[d] EXCEPT !.at = "refused"] BY <2>2
    <3> QED BY <2>1, <2>2, <3>1, <3>2 DEF CallRecords, Places
  <2> QED BY <2>1, <2>2
<1> QED BY <1>1

\* A start asks the manager for the unit, or finds it up.
LEMMA StartPreserves ==
    ASSUME ControlInv, NEW c \in Calls, Start(c)
    PROVE  ControlInv'
<1> USE RemoteControlAssumption
<1>1. /\ call[c].at = "start" /\ call[c] \in CallRecords /\ call[c].true
      /\ UNCHANGED <<file, kills, untidy, stopped>> /\ queued \in BOOLEAN
  BY DEF ControlInv, Start, TypeOK, RecordsOK, ReadsOK
<1>2. CASE unit = "active"
  <2>1. Goto(c, "settle") /\ UNCHANGED <<unit, queued, host, launches>> BY <1>2 DEF Start
  <2> QED BY <1>1, <2>1, GotoPreserves DEF HostSide, Places
<1>3. CASE unit = "deactivating"
  <2> DEFINE r == [call[c] EXCEPT !.at = "starting"]
             W == {d \in Calls : call[d].at = "stopping"}
  <2>1. /\ queued' = TRUE /\ UNCHANGED <<unit, host, launches>>
        /\ call' = [d \in Calls |-> IF d = c THEN r
                                    ELSE IF d \in W THEN [call[d] EXCEPT !.at = "refused"]
                                    ELSE call[d]]
    BY <1>3 DEF Start
  <2>2. r \in CallRecords /\ r.at = "starting" /\ r.true
    BY <1>1 DEF CallRecords, Places
  <2>waits. \A d \in W : call[d].at # "done" OBVIOUS
  <2>calls. call' = [d \in Calls |-> IF d = c THEN r
                                 ELSE IF d \in W THEN [call[d] EXCEPT !.at = "refused"]
                                 ELSE call[d]]
    BY <2>1
  <2> HIDE DEF r, W
  <2>own. call'[c] = r BY <2>calls
  <2>4. /\ call' \in [Calls -> CallRecords]
        /\ \A d \in Calls \ {c} :
              \/ call'[d] = call[d]
              \/ /\ d \in W /\ call'[d].at = "refused" /\ call'[d].true
    BY <2>2, <2>waits, <2>calls, <2>own, RefusedCalls
  <2> USE <1>1, <2>1 DEF ControlInv
  <2>5. RecordsOK' BY <2>4 DEF RecordsOK
  <2>6. TypeOK' BY DEF TypeOK
  <2>7. HostOK' /\ EarlyOK' /\ FileOK' /\ StoppedLeavesNothing'
    BY DEF HostOK, EarlyOK, FileOK, StoppedLeavesNothing
  <2>8. StopsOK' BY <2>2, <2>own, <2>4 DEF StopsOK
  <2>9. ReadsOK'
    <3> SUFFICES ASSUME NEW d \in Calls, ~ call'[d].true
                 PROVE  call'[d].at = "done" /\ call'[d].told \in untidy'
      BY DEF ReadsOK
    <3>1. d # c /\ call'[d] = call[d] BY <2>2, <2>own, <2>4
    <3>2. ~ call[d].true BY <3>1
    <3>3. call[d].at = "done" /\ call[d].told \in untidy BY <3>2 DEF ReadsOK
    <3>4. untidy' = untidy BY <1>1
    <3> QED BY <3>1, <3>3, <3>4
  <2> QED BY <2>5, <2>6, <2>7, <2>8, <2>9
<1>4. CASE unit \notin {"active", "deactivating"}
  <2>1. /\ Fork /\ queued' = queued
        /\ Goto(c, IF launches < MaxLaunches THEN "settle" ELSE "refused")
    BY <1>4 DEF Start
  <2> DEFINE at == IF launches < MaxLaunches THEN "settle" ELSE "refused"
             r == [call[c] EXCEPT !.at = at]
  <2>2. r \in CallRecords /\ r.at \in {"settle", "refused"} /\ r.true
    BY <1>1 DEF CallRecords, Places
  <2>3. call' = [call EXCEPT ![c] = r] BY <2>1 DEF Goto
  <2>4. host.step = "none" BY <1>4 DEF ControlInv, TypeOK
  <2> HIDE DEF r
  <2> USE <1>1 DEF ControlInv
  <2>5. call'[c] = r /\ \A d \in Calls \ {c} : call'[d] = call[d]
    BY <2>3 DEF RecordsOK
  <2>6. /\ TypeOK' /\ HostOK' /\ EarlyOK' /\ FileOK' /\ StoppedLeavesNothing'
        /\ host' \in HostRecords
        /\ launches' \in Nat /\ launches <= launches' /\ launches \in Nat
        /\ host'.step # "none" => host'.gen = launches + 1
    BY <2>1, <2>4, LaunchKeeps
  <2>7. RecordsOK' BY <2>2, <2>3, <2>6 DEF RecordsOK
  <2>8. StopsOK'
    <3> SUFFICES ASSUME NEW d \in Calls, d # c
                 PROVE  /\ call[d].at \in {"stopping", "forget"} =>
                             call[d].told \in 0 .. launches'
                        /\ call[d].at = "stopping" /\ host'.step # "none"
                           /\ host'.gen <= call[d].told => unit' = "deactivating"
                        /\ call[d].at = "forget" /\ host'.step # "none" =>
                             call[d].told < host'.gen
      BY <2>2, <2>5 DEF StopsOK
    <3> QED BY <2>6 DEF StopsOK
  <2>9. ReadsOK' BY <2>2, <2>5 DEF ReadsOK
  <2> QED BY <2>6, <2>7, <2>8, <2>9
<1> QED BY <1>2, <1>3, <1>4

\* A stop asks the manager to end the unit.
LEMMA StopPreserves ==
    ASSUME ControlInv, NEW c \in Calls, Stop(c)
    PROVE  ControlInv'
<1> USE RemoteControlAssumption DEF ControlInv
<1> DEFINE r == [call[c] EXCEPT !.at = "stopping", !.told = launches]
           W == {d \in Calls : call[d].at = "starting" /\ queued}
<1>1. /\ call[c].at = "stop" /\ call[c] \in CallRecords /\ call[c].true
      /\ UNCHANGED <<file, launches, kills, stopped>> /\ queued' = FALSE
      /\ launches \in Nat /\ host.gen \in Nat /\ stopped \in Nat
  BY TypesGive DEF Stop, TypeOK, RecordsOK, ReadsOK
<1>2. r \in CallRecords /\ r.at = "stopping" /\ r.true /\ r.told = launches
  BY <1>1 DEF CallRecords, Places
<1>3. \A d \in W : call[d].at # "done" OBVIOUS
<1>4. call' = [d \in Calls |-> IF d = c THEN r
                               ELSE IF d \in W THEN [call[d] EXCEPT !.at = "refused"]
                               ELSE call[d]]
  BY DEF Stop
<1> HIDE DEF r, W
<1>own. call'[c] = r BY <1>4
<1>5. /\ call' \in [Calls -> CallRecords]
      /\ \A d \in Calls \ {c} :
            \/ call'[d] = call[d]
            \/ /\ d \in W /\ call'[d].at = "refused" /\ call'[d].true
  BY <1>2, <1>3, <1>4, <1>own, RefusedCalls
<1>6. /\ TypeOK' /\ host' \in HostRecords /\ HostOK' /\ EarlyOK' /\ FileOK'
      /\ StoppedLeavesNothing' /\ untidy \subseteq untidy'
      /\ host'.step # "none" => /\ host.step # "none" /\ host'.gen = host.gen
                                /\ unit' = "deactivating"
  <2>1. CASE unit = "active" /\ host.step = "watch"
    <3>1. /\ host' = [host EXCEPT !.stopping = TRUE] /\ unit' = "deactivating"
          /\ untidy' = untidy /\ host \in HostRecords
      BY <2>1 DEF Stop, RecordsOK
    <3>2. /\ host' \in HostRecords /\ host'.step = host.step /\ host'.gen = host.gen
          /\ host'.reader = host.reader
      BY <3>1 DEF HostRecords
    <3>3. TypeOK' BY <1>1, <2>1, <3>1, <3>2 DEF TypeOK
    <3> QED BY <1>1, <2>1, <3>1, <3>2, <3>3 DEF HostOK, EarlyOK, FileOK,
                                                StoppedLeavesNothing
  <2>2. CASE unit = "active" /\ host.step # "watch"
    <3>1. HostEnds(TRUE) /\ untidy' = untidy \cup {host.gen} BY <2>2 DEF Stop
    <3>2. host.step # "none" BY <2>2 DEF TypeOK
    <3>3. file # None => file.gen \in untidy' BY <3>1 DEF FileOK
    <3> QED BY <1>1, <3>1, <3>2, <3>3, EndsPreserves DEF TypeOK
  <2>3. CASE unit # "active"
    <3>1. /\ unit' = IF unit = "activating" THEN "inactive" ELSE unit
          /\ UNCHANGED <<host, untidy>>
      BY <2>3 DEF Stop
    <3>2. TypeOK' BY <1>1, <2>3, <3>1 DEF TypeOK
    <3>3. host.step # "none" => unit = "deactivating" BY <2>3 DEF TypeOK
    <3>4. host \in HostRecords BY DEF RecordsOK
    <3> QED BY <1>1, <3>1, <3>2, <3>3, <3>4 DEF HostOK, EarlyOK, FileOK,
                                                StoppedLeavesNothing
  <2> QED BY <2>1, <2>2, <2>3
<1>7. RecordsOK' BY <1>5, <1>6 DEF RecordsOK
<1>8. StopsOK' BY <1>1, <1>2, <1>own, <1>5, <1>6 DEF StopsOK
<1>9. ReadsOK' BY <1>2, <1>own, <1>5, <1>6 DEF ReadsOK
<1> QED BY <1>6, <1>7, <1>8, <1>9

\* A request reads the generation or the link that the file has now.
LEMMA ReadsPreserves ==
    ASSUME ControlInv, NEW c \in Calls, ReadEvidence(c) \/ ReadLink(c)
    PROVE  ControlInv'
<1>1. /\ UNCHANGED HostSide /\ queued' \in BOOLEAN
      /\ call[c].at = "read" /\ call[c] \in CallRecords /\ call[c].true
  BY DEF ControlInv, ReadEvidence, ReadLink, HostSide, TypeOK, RecordsOK, ReadsOK
<1>2. CASE Goto(c, "refused") BY <1>1, <1>2, GotoPreserves DEF Places
<1>3. CASE Done(c, None, TRUE)
  <2> DEFINE r == [call[c] EXCEPT !.at = "done", !.told = None, !.true = TRUE]
  <2>1. r \in CallRecords /\ r.at = "done" /\ r.true BY <1>1 DEF CallRecords, Places
  <2>2. call' = [call EXCEPT ![c] = r] BY <1>3 DEF Done
  <2>3. Turns(c, r) BY <1>1, <2>1, <2>2 DEF Turns
  <2> QED BY <1>1, <2>3, TurnsPreserves
<1>4. CASE file # None /\ Done(c, file.gen, Alive(file.gen))
  <2> DEFINE r == [call[c] EXCEPT !.at = "done", !.told = file.gen,
                                  !.true = Alive(file.gen)]
  <2>1. file.gen \in Nat BY <1>4, TypesGive DEF ControlInv
  <2>2. Alive(file.gen) \in BOOLEAN BY Zenon DEF Alive
  <2>3. r \in CallRecords BY <1>1, <2>1, <2>2 DEF CallRecords, Places
  <2>4. r.at = "done" /\ r.told = file.gen /\ r.true = Alive(file.gen)
    BY <1>1 DEF CallRecords
  <2>5. ~ Alive(file.gen) => file.gen \in untidy
    BY <1>4 DEF ControlInv, FileOK, Alive
  <2>6. call' = [call EXCEPT ![c] = r] BY <1>4 DEF Done
  <2>7. Turns(c, r) BY <1>1, <2>3, <2>4, <2>5, <2>6 DEF Turns
  <2> QED BY <1>1, <2>7, TurnsPreserves
<1> QED BY <1>2, <1>3, <1>4 DEF ReadEvidence, ReadLink

\* A stop whose unit is down goes on to forget the file.
LEMMA StopEndsPreserves ==
    ASSUME ControlInv, NEW c \in Calls, StopEnds(c)
    PROVE  ControlInv'
<1> USE DEF ControlInv
<1> DEFINE r == [call[c] EXCEPT !.at = "forget"]
<1>1. /\ UNCHANGED HostSide /\ queued' = queued /\ unit # "deactivating"
      /\ call[c].at = "stopping" /\ call[c] \in CallRecords /\ call[c].true
      /\ host.gen \in Nat /\ launches \in Nat
  BY TypesGive DEF StopEnds, HostSide, RecordsOK, ReadsOK, TypeOK
<1>2. call' = [call EXCEPT ![c] = r] BY DEF StopEnds, Goto
<1>3. r \in CallRecords /\ r.at = "forget" /\ r.told = call[c].told /\ r.true
  BY <1>1 DEF CallRecords, Places
<1> HIDE DEF r
<1>4. call'[c] = r /\ \A d \in Calls \ {c} : call'[d] = call[d] BY <1>2 DEF RecordsOK
<1> USE <1>1 DEF HostSide
<1>5. TypeOK' BY DEF TypeOK
<1>6. RecordsOK' BY <1>2, <1>3 DEF RecordsOK
<1>7. HostOK' /\ EarlyOK' /\ FileOK' /\ StoppedLeavesNothing'
  BY DEF HostOK, EarlyOK, FileOK, StoppedLeavesNothing
<1>8. StopsOK' BY <1>3, <1>4 DEF StopsOK
<1>9. ReadsOK' BY <1>3, <1>4 DEF ReadsOK
<1> QED BY <1>5, <1>6, <1>7, <1>8, <1>9

\* A stop is answered: no host is left whose file it could have missed.
LEMMA ForgetPreserves ==
    ASSUME ControlInv, NEW c \in Calls, Forget(c)
    PROVE  ControlInv'
<1> USE DEF ControlInv
<1> DEFINE r == [call[c] EXCEPT !.at = "done", !.told = None, !.true = TRUE]
<1>1. /\ UNCHANGED <<unit, queued, host, launches, kills, untidy>> /\ file' = None
      /\ stopped' = IF call[c].told > stopped THEN call[c].told ELSE stopped
      /\ call[c].at = "forget" /\ call[c] \in CallRecords
      /\ call[c].told \in 0 .. launches
      /\ host.gen \in Nat /\ launches \in Nat /\ stopped \in 0 .. launches
  BY TypesGive DEF Forget, RecordsOK, StopsOK, TypeOK
<1>2. call' = [call EXCEPT ![c] = r] BY DEF Forget, Done
<1>3. r \in CallRecords /\ r.at = "done" /\ r.true BY <1>1 DEF CallRecords, Places
<1> HIDE DEF r
<1>4. call'[c] = r /\ \A d \in Calls \ {c} : call'[d] = call[d] BY <1>2 DEF RecordsOK
<1> USE <1>1
<1>5. TypeOK' BY DEF TypeOK
<1>6. RecordsOK' BY <1>2, <1>3 DEF RecordsOK
<1>7. HostOK' BY DEF HostOK, StopsOK
<1>8. EarlyOK' /\ FileOK' /\ StoppedLeavesNothing'
  BY DEF EarlyOK, FileOK, StoppedLeavesNothing
<1>9. StopsOK' BY <1>3, <1>4 DEF StopsOK
<1>10. ReadsOK' BY <1>3, <1>4 DEF ReadsOK
<1> QED BY <1>5, <1>6, <1>7, <1>8, <1>9, <1>10

\* Every step of a call.
LEMMA CallStepPreserves ==
    ASSUME ControlInv, NEW c \in Calls, CallStep(c)
    PROVE  ControlInv'
<1>1. CASE Started(c)
  BY <1>1, GotoPreserves DEF Started, HostSide, Places, ControlInv, TypeOK
<1>2. CASE SettleAsk(c)
  <2>1. (IF Live THEN "read" ELSE "done") \in Places \ {"stopping", "forget"}
    BY DEF Places
  <2> QED BY <1>2, <2>1, GotoPreserves DEF SettleAsk, HostSide, ControlInv, TypeOK
<1> QED BY <1>1, <1>2, StartPreserves, ReadsPreserves, StopPreserves,
           StopEndsPreserves, ForgetPreserves DEF CallStep
-----------------------------------------------------------------------------
\* The service may start while a session of an earlier one runs.
LEMMA InitEstablishes == Init => ControlInv
<1> SUFFICES ASSUME Init PROVE ControlInv
  OBVIOUS
<1> USE RemoteControlAssumption
<1>1. \A c \in Calls : call[c] = [op |-> None, at |-> "new", told |-> None, true |-> TRUE]
  BY DEF Init
<1>2. call \in [Calls -> CallRecords] BY DEF Init, CallRecords, Places
<1>3. StopsOK /\ ReadsOK BY <1>1 DEF StopsOK, ReadsOK
<1>4. CASE unit = "inactive" /\ host = NoHost /\ file = None /\ launches = 0
  <2>1. host.step = "none" /\ ~ host.reader /\ host \in HostRecords
    BY <1>4 DEF NoHost, HostRecords
  <2>2. TypeOK
    <3>1. file \in [gen: 1 .. launches, link: BOOLEAN] \cup {None} BY <1>4
    <3>2. untidy = {} /\ kills = 0 /\ stopped = 0 /\ queued = FALSE BY DEF Init
    <3>3. launches \in 0 .. MaxLaunches /\ stopped \in 0 .. launches
      BY <1>4, <3>2
    <3>4. 0 \in 0 .. MaxKills /\ untidy \subseteq 1 .. launches BY <3>2
    <3>5. host.step # "none" <=> unit \in {"active", "deactivating"} BY <1>4, <2>1
    <3> QED BY <1>4, <3>1, <3>2, <3>3, <3>4, <3>5 DEF TypeOK
  <2> QED BY <1>2, <1>3, <1>4, <2>1, <2>2
          DEF ControlInv, RecordsOK, HostOK, EarlyOK, FileOK, StoppedLeavesNothing
<1>5. CASE /\ unit = "active" /\ launches = 1 /\ file = [gen |-> 1, link |-> FALSE]
           /\ host = [NoHost EXCEPT !.step = "watch", !.gen = 1, !.reader = TRUE]
  <2>1. host = [step |-> "watch", gen |-> 1, reader |-> TRUE, reported |-> FALSE,
                stopping |-> FALSE, ok |-> TRUE]
    BY <1>5 DEF NoHost
  <2>2. host.step = "watch" /\ host.gen = 1 /\ host \in HostRecords
    BY <2>1 DEF HostRecords
  <2>3. file \in [gen: 1 .. launches, link: BOOLEAN] /\ file.gen = 1 BY <1>5
  <2>4. TypeOK
    <3>1. untidy = {} /\ kills = 0 /\ stopped = 0 /\ queued = FALSE BY DEF Init
    <3>2. launches \in 0 .. MaxLaunches /\ stopped \in 0 .. launches
      BY <1>5, <3>1
    <3>3. 0 \in 0 .. MaxKills /\ untidy \subseteq 1 .. launches BY <3>1
    <3>4. host.step # "none" <=> unit \in {"active", "deactivating"} BY <1>5, <2>2
    <3> QED BY <1>5, <2>3, <3>1, <3>2, <3>3, <3>4 DEF TypeOK
  <2>5. stopped = 0 BY DEF Init
  <2> QED BY <1>2, <1>3, <1>5, <2>2, <2>3, <2>4, <2>5
          DEF ControlInv, RecordsOK, HostOK, EarlyOK, FileOK, StoppedLeavesNothing
<1> QED BY <1>4, <1>5 DEF Init

\* Every step, of a call, of the manager and of the host.
LEMMA StepPreserves == ControlInv /\ [Next]_vars => ControlInv'
<1> SUFFICES ASSUME ControlInv, [Next]_vars PROVE ControlInv'
  OBVIOUS
<1>1. CASE Respawn \/ RunQueued \/ Kill
  BY <1>1, RespawnPreserves, RunQueuedPreserves, KillPreserves
<1>2. CASE HostRefuses \/ HostStep \/ ReaderEnds \/ \E ok \in BOOLEAN : ChildExits(ok)
  BY <1>2, HostRefusesPreserves, ClearsPreserves, WriteGenerationPreserves,
     ExitPreserves, HostPreserves DEF HostStep
<1>3. CASE \E link \in BOOLEAN : Report(link) BY <1>3, ReportPreserves
<1>4. CASE \E c \in Calls : (\E op \in Operations : Ask(c, op)) \/ CallStep(c)
  BY <1>4, AskPreserves, CallStepPreserves
<1>5. CASE UNCHANGED vars
  <2>1. UNCHANGED <<unit, queued, host, file, call, launches, kills, untidy, stopped>>
    BY <1>5 DEF vars
  <2> QED BY <2>1 DEF ControlInv, TypeOK, RecordsOK, HostOK, EarlyOK, FileOK, StopsOK,
                      ReadsOK, StoppedLeavesNothing
<1> QED BY <1>1, <1>2, <1>3, <1>4, <1>5 DEF Next

\* The file, the host, the manager and what requests know agree in every reachable
\* state, for any number of racing requests, relaunches and kills.
THEOREM ControlInvariant == Spec => []ControlInv
BY InitEstablishes, StepPreserves, PTL DEF Spec

\* A generation or link that a request is given belongs to a host that ran, unless
\* that host could not clear its file; and once a stop has answered, nothing of
\* the launches it took down is found again (_with_link_evidence, link, _forget).
THEOREM LinksStayTrue == Spec => []LinksAreTrue
<1>1. ControlInv => LinksAreTrue
  BY DEF ControlInv, ReadsOK, LinksAreTrue, OfferedWasLive
<1> QED BY <1>1, ControlInvariant, PTL
-----------------------------------------------------------------------------
(* The YouTube player.  What each part has, by its type.                    *)

ListItems == [id: Nat, video: Videos]
ActionKinds == {"none", "open", "load", "play", "pause"}
Commands == [n: Nat, name: ActionKinds, video: VideoOrNone]
PlayerReports == [video: VideoOrNone, state: States, error: BOOLEAN]
ActionRecords ==
    [kind: ActionKinds, item: [id: Nat, video: VideoOrNone], n: Nat,
     at: {"idle", "waiting", "queue", "send", "sent", "identity", "error", "state"}]
PageRecords ==
    [at: {"unborn", "opened", "live", "stopped", "closed"}, api: BOOLEAN,
     iframe: {"none", "building", "ready"}, video: VideoOrNone, state: States,
     error: BOOLEAN, asks: Seq(Commands), named: VideoOrNone, wanted: VideoOrNone,
     last: Nat, beat: PlayerReports \cup {Nothing}, answer: SUBSET Commands,
     busy: BOOLEAN, acks: SUBSET Nat]

\* An item's id is the number of its adding, so no two have the same.
ListOK ==
    /\ items \in Seq(ListItems) /\ added \in Nat
    /\ cursor \in 0 .. Len(items) /\ Len(items) <= Limit
    /\ \A i \in 1 .. Len(items) : items[i].id <= added
    /\ \A i, j \in 1 .. Len(items) : items[i].id = items[j].id => i = j

\* What goes to the queue is a video.
Queueing == action.at = "queue" \/ (action.at = "waiting" /\ action.kind = "load")

ServiceOK == /\ shownAs \in VideoOrNone /\ actions \in Nat
             /\ action \in ActionRecords
             /\ Queueing => action.item.video \in Videos

PagesOK == pages \in [Pages -> PageRecords] /\ touches \in Nat

\* A command is numbered once, and none beyond what was counted.
ChannelOK ==
    /\ current \in Pages \cup {Nothing} /\ seen \in BOOLEAN /\ (seen => current # Nothing)
    /\ sequence \in Nat /\ report \in PlayerReports \cup {Nothing}
    /\ pending \subseteq Commands
    /\ \A c \in pending : c.n <= sequence
    /\ \A c, d \in pending : c.n = d.n => c = d
    /\ \A p \in Pages : \A c \in pages[p].answer : c.n <= sequence

\* A page acknowledges what it ran, and what was acknowledged some page ran.
AcksOK ==
    /\ \A p \in Pages : pages[p].last <= sequence /\ pages[p].acks \subseteq 1 .. pages[p].last
    /\ acknowledged \in 0 .. sequence
    /\ acknowledged > 0 => \E p \in Pages : acknowledged <= pages[p].last

\* The command that was sent last is that of the action under way, wherever it
\* is: held, on the wire or run.
Sent == action.at \in {"sent", "identity", "error", "state"}
IsOwn(c) == c.n = action.n => c.name = action.kind /\ c.video = action.item.video
SentOK ==
    Sent =>
      /\ action.n = sequence /\ 0 < sequence
      /\ \A c \in pending : IsOwn(c)
      /\ \A p \in Pages : /\ \A c \in pages[p].answer : IsOwn(c)
                          /\ pages[p].last = action.n /\ action.kind = "load"
                               => pages[p].named = action.item.video
      /\ action.at # "sent" => action.n <= acknowledged

PlayerInv == ListOK /\ ServiceOK /\ PagesOK /\ ChannelOK /\ AcksOK /\ SentOK
-----------------------------------------------------------------------------
(* The list.                                                                *)

\* What insertion does, place by place.
LEMMA InsertSays ==
    ASSUME NEW S, NEW s \in Seq(S), NEW k \in 1 .. Len(s) + 1, NEW e \in S,
           NEW t, t = InsertAt(s, k, e)
    PROVE  /\ t \in Seq(S) /\ Len(t) = Len(s) + 1
           /\ \A i \in 1 .. k - 1 : t[i] = s[i]
           /\ t[k] = e
           /\ \A i \in k .. Len(s) : t[i + 1] = s[i]
<1> DEFINE a == SubSeq(s, 1, k - 1)
           b == SubSeq(s, k, Len(s))
           f == a \o <<e>>
<1>1. /\ a \in Seq(S) /\ Len(a) = k - 1
      /\ \A i \in 1 .. k - 1 : a[i] = s[i]
  BY SubSeqProperties
<1>2. /\ b \in Seq(S) /\ Len(b) = Len(s) - k + 1
      /\ \A i \in 1 .. Len(s) - k + 1 : b[i] = s[k + i - 1]
  BY SubSeqProperties
<1>3. t = f \o b BY DEF InsertAt
<1>4. <<e>> \in Seq(S) /\ Len(<<e>>) = 1 /\ <<e>>[1] = e OBVIOUS
<1> HIDE DEF a, b
<1>5. /\ f \in Seq(S) /\ Len(f) = k
      /\ \A i \in 1 .. k - 1 : f[i] = a[i]
      /\ f[k] = e
  BY <1>1, <1>4, ConcatProperties
<1> HIDE DEF f
<1>6. /\ f \o b \in Seq(S) /\ Len(f \o b) = Len(f) + Len(b)
      /\ \A i \in 1 .. Len(f) + Len(b) :
            (f \o b)[i] = IF i <= Len(f) THEN f[i] ELSE b[i - Len(f)]
  BY <1>2, <1>5, ConcatProperties
<1>7. /\ t \in Seq(S) /\ Len(t) = Len(s) + 1
      /\ \A i \in 1 .. Len(t) : t[i] = IF i <= k THEN f[i] ELSE b[i - k]
  BY <1>2, <1>3, <1>5, <1>6
<1>8. \A i \in 1 .. k - 1 : t[i] = s[i] BY <1>1, <1>5, <1>7
<1>9. t[k] = e BY <1>5, <1>7
<1>10. ASSUME NEW i \in k .. Len(s) PROVE t[i + 1] = s[i]
  <2>1. i + 1 \in 1 .. Len(t) /\ ~ (i + 1 <= k) BY <1>7
  <2>2. t[i + 1] = b[i + 1 - k] BY <1>7, <2>1
  <2>3. i + 1 - k \in 1 .. Len(s) - k + 1 /\ k + (i + 1 - k) - 1 = i OBVIOUS
  <2> QED BY <1>2, <2>2, <2>3
<1> QED BY <1>7, <1>8, <1>9, <1>10

\* And what removal does.
LEMMA RemoveSays ==
    ASSUME NEW S, NEW s \in Seq(S), NEW at \in 1 .. Len(s), NEW t, t = RemoveAt(s, at)
    PROVE  /\ t \in Seq(S) /\ Len(t) = Len(s) - 1
           /\ \A i \in 1 .. at - 1 : t[i] = s[i]
           /\ \A i \in at .. Len(t) : t[i] = s[i + 1]
<1> DEFINE a == SubSeq(s, 1, at - 1)
           b == SubSeq(s, at + 1, Len(s))
<1>1. /\ a \in Seq(S) /\ Len(a) = at - 1
      /\ \A i \in 1 .. at - 1 : a[i] = s[i]
  BY SubSeqProperties
<1>2. /\ b \in Seq(S) /\ Len(b) = Len(s) - at
      /\ \A i \in 1 .. Len(s) - at : b[i] = s[at + i]
  BY SubSeqProperties
<1>3. t = a \o b BY DEF RemoveAt
<1> HIDE DEF a, b
<1>4. /\ t \in Seq(S) /\ Len(t) = Len(s) - 1
      /\ \A i \in 1 .. Len(t) : t[i] = IF i <= at - 1 THEN a[i] ELSE b[i - (at - 1)]
  <2>1. Len(a) + Len(b) = Len(s) - 1 BY <1>1, <1>2
  <2>2. /\ a \o b \in Seq(S) /\ Len(a \o b) = Len(a) + Len(b)
        /\ \A i \in 1 .. Len(a) + Len(b) :
              (a \o b)[i] = IF i <= Len(a) THEN a[i] ELSE b[i - Len(a)]
    BY <1>1, <1>2, ConcatProperties
  <2> QED BY <1>1, <1>3, <2>1, <2>2
<1>5. ASSUME NEW i \in 1 .. at - 1 PROVE t[i] = s[i]
  <2>1. i \in 1 .. Len(t) /\ i <= at - 1 BY <1>4
  <2> QED BY <1>1, <1>4, <2>1
<1>6. ASSUME NEW i \in at .. Len(t) PROVE t[i] = s[i + 1]
  <2>1. t[i] = b[i - (at - 1)] /\ i - (at - 1) \in 1 .. Len(s) - at BY <1>4
  <2>2. at + (i - (at - 1)) = i + 1 BY <1>4
  <2> QED BY <1>2, <2>1, <2>2
<1> QED BY <1>4, <1>5, <1>6

\* The new item goes to the place k of what is kept of the list, where the cursor
\* is then.
Puts(v, kept, k) ==
    /\ items' = InsertAt(kept, k, Item(added + 1, v))
    /\ cursor' = k /\ added' = added + 1
    /\ k \in 1 .. Len(kept) + 1 /\ Len(kept) < Limit
    /\ \/ kept = items /\ k = cursor + 1
       \/ /\ kept = Tail(items) /\ k = cursor
          /\ items # <<>> /\ Len(items) = Limit /\ k > 1

\* Play now keeps all of it, or on a full list all but the oldest item played.
LEMMA PlayNowSays ==
    ASSUME ListOK, NEW v \in Videos, PlayNow(v)
    PROVE  \E kept \in Seq(ListItems), k \in Nat : Puts(v, kept, k)
<1>1. CASE Reclaims
  <2>1. items # <<>> /\ Len(items) = Limit /\ cursor \in 2 .. Len(items)
    BY <1>1, YoutubePlayerAssumption DEF ListOK, Reclaims
  <2>2. Tail(items) \in Seq(ListItems) /\ Len(Tail(items)) = Len(items) - 1
    BY <2>1, HeadTailProperties DEF ListOK
  <2>3. (cursor - 1) + 1 = cursor BY <2>1
  <2>4. /\ items' = InsertAt(Tail(items), cursor, Item(added + 1, v))
        /\ cursor' = cursor /\ added' = added + 1
    BY <1>1, <2>3 DEF PlayNow
  <2>5. Puts(v, Tail(items), cursor)
    BY <2>1, <2>2, <2>4 DEF Puts
  <2>6. cursor \in Nat BY <2>1
  <2> QED BY <2>2, <2>5, <2>6, Zenon
<1>2. CASE ~ Reclaims
  <2>1. /\ items' = InsertAt(items, cursor + 1, Item(added + 1, v))
        /\ cursor' = cursor + 1 /\ added' = added + 1
    BY <1>2 DEF PlayNow
  <2>2. Len(items) < Limit BY <1>2 DEF PlayNow, HasRoom
  <2>3. cursor + 1 \in Nat /\ Puts(v, items, cursor + 1)
    BY <2>1, <2>2 DEF ListOK, Puts
  <2>4. items \in Seq(ListItems) BY DEF ListOK
  <2> QED BY <2>3, <2>4, Zenon
<1> QED BY <1>1, <1>2

\* Play now puts one item, of a new id, on the list.
LEMMA PlayNowKeepsList ==
    ASSUME ListOK, NEW v \in Videos, PlayNow(v)
    PROVE  ListOK' /\ items'[cursor'] \in ListItems
<1> DEFINE e == Item(added + 1, v)
<1>1. PICK kept \in Seq(ListItems), k \in Nat : Puts(v, kept, k)
  BY PlayNowSays
<1>2. e \in ListItems /\ e.id = added + 1
  BY DEF ListOK, ListItems, Item
<1>3. /\ \A i \in 1 .. Len(kept) : kept[i] \in ListItems /\ kept[i].id <= added
      /\ \A i, j \in 1 .. Len(kept) : kept[i].id = kept[j].id => i = j
  <2>1. CASE kept = items BY <2>1 DEF ListOK
  <2>2. CASE kept = Tail(items) /\ items # <<>>
    <3>1. Len(kept) = Len(items) - 1 /\ \A i \in 1 .. Len(kept) : kept[i] = items[i + 1]
      BY <2>2, HeadTailProperties DEF ListOK
    <3>2. \A i \in 1 .. Len(kept) : i + 1 \in 1 .. Len(items) BY <3>1 DEF ListOK
    <3>3. \A i \in 1 .. Len(kept) : kept[i] \in ListItems /\ kept[i].id <= added
      BY <3>1, <3>2 DEF ListOK
    <3>4. ASSUME NEW i \in 1 .. Len(kept), NEW j \in 1 .. Len(kept), kept[i].id = kept[j].id
          PROVE  i = j
      <4>1. items[i + 1].id = items[j + 1].id BY <3>1, <3>4
      <4>2. i + 1 = j + 1 BY <3>2, <4>1 DEF ListOK
      <4> QED BY <4>2
    <3> QED BY <3>3, <3>4
  <2> QED BY <1>1, <2>1, <2>2 DEF Puts
<1>4. /\ items' \in Seq(ListItems) /\ Len(items') = Len(kept) + 1
      /\ \A i \in 1 .. k - 1 : items'[i] = kept[i]
      /\ items'[k] = e
      /\ \A i \in k .. Len(kept) : items'[i + 1] = kept[i]
  <2>1. k \in 1 .. Len(kept) + 1 /\ items' = InsertAt(kept, k, e) BY <1>1 DEF Puts
  <2> HIDE DEF e
  <2> QED BY <1>2, <2>1, InsertSays
<1> HIDE DEF e
<1>5. ASSUME NEW i \in 1 .. Len(items'), i # k
      PROVE  LET j == IF i < k THEN i ELSE i - 1 IN
             j \in 1 .. Len(kept) /\ items'[i] = kept[j]
  <2>1. k \in 1 .. Len(kept) + 1 BY <1>1 DEF Puts
  <2>2. CASE i < k BY <2>1, <2>2, <1>4
  <2>3. CASE k < i
    <3>1. i - 1 \in k .. Len(kept) /\ (i - 1) + 1 = i BY <2>1, <2>3, <1>4
    <3>2. items'[(i - 1) + 1] = kept[i - 1] BY <3>1, <1>4
    <3> QED BY <2>1, <2>3, <3>1, <3>2
  <2> QED BY <1>5, <2>2, <2>3
<1>6. ASSUME NEW i \in 1 .. Len(items')
      PROVE  /\ items'[i].id <= added + 1
             /\ i # k => items'[i].id # added + 1
  <2>1. \A j \in 1 .. Len(kept) : kept[j].id \in Nat /\ kept[j].id <= added
    BY <1>3 DEF ListItems
  <2>2. added \in Nat BY DEF ListOK
  <2>3. CASE i = k BY <2>2, <2>3, <1>2, <1>4
  <2>4. CASE i # k
    <3>1. PICK j \in 1 .. Len(kept) : items'[i] = kept[j] BY <2>4, <1>5
    <3> QED BY <2>1, <2>2, <3>1
  <2> QED BY <2>3, <2>4
<1>7. ASSUME NEW i \in 1 .. Len(items'), NEW j \in 1 .. Len(items'),
             items'[i].id = items'[j].id
      PROVE  i = j
  <2>1. CASE i = k \/ j = k BY <2>1, <1>2, <1>4, <1>6, <1>7
  <2>2. CASE i # k /\ j # k
    <3> DEFINE old(n) == IF n < k THEN n ELSE n - 1
    <3>3. old(i) \in 1 .. Len(kept) /\ items'[i] = kept[old(i)] BY <1>5, <2>2
    <3>4. old(j) \in 1 .. Len(kept) /\ items'[j] = kept[old(j)] BY <1>5, <2>2
    <3> HIDE DEF old
    <3>1. old(i) = old(j) BY <1>3, <1>7, <3>3, <3>4
    <3> USE DEF old
    <3> QED BY <2>2, <3>1
  <2> QED BY <2>1, <2>2
<1>8. Len(items') <= Limit /\ cursor' \in 1 .. Len(items') /\ added' = added + 1
  BY <1>1, <1>4, YoutubePlayerAssumption DEF Puts
<1>9. items'[cursor'] \in ListItems BY <1>4, <1>8
<1>10. added' \in Nat /\ cursor' \in 0 .. Len(items') BY <1>8 DEF ListOK
<1>11. \A i \in 1 .. Len(items') : items'[i].id <= added' BY <1>6, <1>8
<1>12. ListOK' BY <1>4, <1>7, <1>8, <1>10, <1>11 DEF ListOK
<1> QED BY <1>9, <1>12
-----------------------------------------------------------------------------
(* Steps that say nothing new of a command.                                 *)

\* A page has the same last command and the same name of its video, and has at
\* most collected what was held.
Keeps(p) == /\ pages'[p].last = pages[p].last /\ pages'[p].named = pages[p].named
            /\ pages'[p].answer \subseteq pages[p].answer \cup pending
            /\ pages'[p].acks \subseteq pages[p].acks

\* The action is over, has no command yet or goes on with the one it has, past the
\* wait for the acknowledgement only if there is one.
GoesOn == Sent' => /\ Sent
                   /\ action'.n = action.n /\ action'.kind = action.kind
                   /\ action'.item = action.item
                   /\ action'.at # "sent" => action.n <= acknowledged

\* So what holds of the commands goes on to hold.
LEMMA NothingIsSaid ==
    ASSUME PlayerInv, \A p \in Pages : Keeps(p), GoesOn,
           current' \in Pages \cup {Nothing}, seen' \in BOOLEAN, seen' => current' # Nothing,
           report' \in PlayerReports \cup {Nothing}, pending' \subseteq pending,
           UNCHANGED <<sequence, acknowledged>>
    PROVE  ChannelOK' /\ AcksOK' /\ SentOK'
<1>1. ChannelOK'
  <2>1. /\ pending' \subseteq Commands
        /\ \A c \in pending' : c.n <= sequence'
        /\ \A c, d \in pending' : c.n = d.n => c = d
    BY DEF PlayerInv, ChannelOK
  <2>2. \A p \in Pages : \A c \in pages'[p].answer : c.n <= sequence'
    BY DEF PlayerInv, ChannelOK, Keeps
  <2> QED BY <2>1, <2>2 DEF PlayerInv, ChannelOK
<1>2. AcksOK'
  <2>1. \A p \in Pages : /\ pages'[p].last <= sequence'
                         /\ pages'[p].acks \subseteq 1 .. pages'[p].last
    BY DEF PlayerInv, AcksOK, Keeps
  <2>2. acknowledged' > 0 => \E p \in Pages : acknowledged' <= pages'[p].last
    BY DEF PlayerInv, AcksOK, Keeps
  <2> QED BY <2>1, <2>2 DEF PlayerInv, AcksOK
<1>3. SentOK'
  <2> SUFFICES ASSUME Sent' PROVE SentOK'
    BY DEF SentOK
  <2>1. /\ Sent /\ action'.n = action.n /\ action'.kind = action.kind
        /\ action'.item = action.item
        /\ action'.at # "sent" => action.n <= acknowledged
    BY DEF GoesOn
  <2>2. \A c : IsOwn(c) => IsOwn(c)' BY <2>1 DEF IsOwn
  <2>3. \A c \in pending' : IsOwn(c)' BY <2>1, <2>2 DEF PlayerInv, SentOK
  <2>4. ASSUME NEW p \in Pages
        PROVE  /\ \A c \in pages'[p].answer : IsOwn(c)'
               /\ pages'[p].last = action'.n /\ action'.kind = "load"
                    => pages'[p].named = action'.item.video
    BY <2>1, <2>2 DEF PlayerInv, SentOK, Keeps
  <2>5. action'.n = sequence' /\ 0 < sequence' BY <2>1 DEF PlayerInv, SentOK
  <2> QED BY <2>1, <2>3, <2>4, <2>5 DEF SentOK
<1> QED BY <1>1, <1>2, <1>3

\* Nothing that is said of the commands, when the channel and the pages stay.
LEMMA ServiceStep ==
    ASSUME PlayerInv, GoesOn, UNCHANGED channelVars, UNCHANGED pageVars
    PROVE  PagesOK' /\ ChannelOK' /\ AcksOK' /\ SentOK'
<1>1. \A p \in Pages : Keeps(p) BY DEF Keeps, pageVars
<1>2. PagesOK' BY DEF PlayerInv, PagesOK, pageVars
<1>3. /\ current' \in Pages \cup {Nothing} /\ seen' \in BOOLEAN /\ (seen' => current' # Nothing)
      /\ report' \in PlayerReports \cup {Nothing} /\ pending' \subseteq pending
      /\ UNCHANGED <<sequence, acknowledged>>
  BY DEF PlayerInv, ChannelOK, channelVars
<1> QED BY <1>1, <1>2, <1>3, NothingIsSaid

\* A step of one page, by what becomes of its record.
LEMMA PageMoves ==
    ASSUME PlayerInv, NEW p \in Pages, NEW r \in PageRecords,
           pages' = [pages EXCEPT ![p] = r],
           r.last = pages[p].last, r.named = pages[p].named,
           r.answer \subseteq pages[p].answer \cup pending, r.acks \subseteq pages[p].acks
    PROVE  pages' \in [Pages -> PageRecords] /\ \A q \in Pages : Keeps(q)
<1>1. pages' \in [Pages -> PageRecords] BY DEF PlayerInv, PagesOK
<1>2. pages'[p] = r /\ \A q \in Pages \ {p} : pages'[q] = pages[q]
  BY DEF PlayerInv, PagesOK
<1>3. ASSUME NEW q \in Pages PROVE Keeps(q)
  <2>1. CASE q = p BY <1>2, <2>1 DEF Keeps
  <2>2. CASE q # p BY <1>2, <2>2 DEF Keeps
  <2> QED BY <2>1, <2>2
<1> QED BY <1>1, <1>3
-----------------------------------------------------------------------------
(* The edits of the list.                                                   *)

LEMMA ListStays == ASSUME ListOK, UNCHANGED queueVars PROVE ListOK'
BY DEF ListOK, queueVars

\* An edit counts as an action and leaves everything but the list alone.
LEMMA EditKeepsRest ==
    ASSUME PlayerInv, actions' = actions + 1,
           UNCHANGED <<channelVars, shownAs, action, pageVars>>
    PROVE  ServiceOK' /\ PagesOK' /\ ChannelOK' /\ AcksOK' /\ SentOK'
<1>1. ServiceOK' BY DEF PlayerInv, ServiceOK, Queueing
<1>2. GoesOn BY DEF GoesOn, Sent, PlayerInv, SentOK
<1> QED BY <1>1, <1>2, ServiceStep DEF channelVars, pageVars

\* What is added has an id of its own.
LEMMA AddPreserves ==
    ASSUME PlayerInv, NEW v \in Videos, Add(v)
    PROVE  PlayerInv'
<1> DEFINE e == Item(added + 1, v)
<1>1. e \in ListItems /\ e.id = added + 1
  BY DEF PlayerInv, ListOK, ListItems, Item
<1>2. items' = Append(items, e) /\ added' = added + 1 /\ Len(items) < Limit
      /\ cursor' = cursor
  BY DEF Add
<1> HIDE DEF e
<1>3. /\ items' \in Seq(ListItems) /\ Len(items') = Len(items) + 1
      /\ \A i \in 1 .. Len(items) : items'[i] = items[i]
      /\ items'[Len(items) + 1] = e
  BY <1>1, <1>2, AppendProperties DEF PlayerInv, ListOK
<1>4. \A i \in 1 .. Len(items') : i \in 1 .. Len(items) \/ i = Len(items) + 1
  BY <1>3 DEF PlayerInv, ListOK
<1>5. ASSUME NEW i \in 1 .. Len(items) PROVE items[i].id \in Nat /\ items[i].id <= added
  <2>1. items[i] \in ListItems BY DEF PlayerInv, ListOK
  <2> QED BY <2>1 DEF PlayerInv, ListOK, ListItems
<1>6. \A i \in 1 .. Len(items') : items'[i].id <= added'
  BY <1>1, <1>2, <1>3, <1>4, <1>5 DEF PlayerInv, ListOK
<1>7. \A i, j \in 1 .. Len(items') : items'[i].id = items'[j].id => i = j
  BY <1>1, <1>3, <1>4, <1>5 DEF PlayerInv, ListOK
<1>8. /\ added' \in Nat /\ cursor' \in 0 .. Len(items') /\ Len(items') <= Limit
  BY <1>2, <1>3, YoutubePlayerAssumption DEF PlayerInv, ListOK
<1>9. ListOK' BY <1>3, <1>6, <1>7, <1>8 DEF ListOK
<1> QED BY <1>9, EditKeepsRest DEF Add, PlayerInv

\* Of what is left, no two items have the same id.
LEMMA RemoveItemPreserves ==
    ASSUME PlayerInv, NEW i \in 1 .. Len(items), RemoveItem(i)
    PROVE  PlayerInv'
<1> DEFINE old(j) == IF j < i THEN j ELSE j + 1
<1>1. /\ items' \in Seq(ListItems) /\ Len(items') = Len(items) - 1
      /\ \A j \in 1 .. i - 1 : items'[j] = items[j]
      /\ \A j \in i .. Len(items') : items'[j] = items[j + 1]
  BY RemoveSays DEF PlayerInv, ListOK, RemoveItem
<1>2. ASSUME NEW j \in 1 .. Len(items')
      PROVE  old(j) \in 1 .. Len(items) /\ items'[j] = items[old(j)]
  <2>1. Len(items) \in Nat BY DEF PlayerInv, ListOK
  <2>2. CASE j < i
    <3>1. j \in 1 .. i - 1 /\ old(j) = j BY <2>2
    <3>2. j \in 1 .. Len(items) BY <2>1, <3>1
    <3> QED BY <1>1, <3>1, <3>2
  <2>3. CASE ~ (j < i)
    <3>1. j \in i .. Len(items') /\ old(j) = j + 1 BY <2>3
    <3>2. j + 1 \in 1 .. Len(items) BY <1>1, <2>1
    <3> QED BY <1>1, <3>1, <3>2
  <2> QED BY <2>2, <2>3
<1>3. \A j \in 1 .. Len(items') : items'[j].id <= added
  BY <1>2 DEF PlayerInv, ListOK
<1>4. ASSUME NEW j \in 1 .. Len(items'), NEW k \in 1 .. Len(items'),
             items'[j].id = items'[k].id
      PROVE  j = k
  <2>1. items[old(j)].id = items[old(k)].id BY <1>2, <1>4
  <2>2. old(j) \in 1 .. Len(items) /\ old(k) \in 1 .. Len(items) BY <1>2
  <2> HIDE DEF old
  <2>3. old(j) = old(k) BY <2>1, <2>2 DEF PlayerInv, ListOK
  <2> QED BY <2>3 DEF old
<1>5. cursor' \in 0 .. Len(items') BY <1>1 DEF PlayerInv, ListOK, RemoveItem
<1>6. Len(items') <= Limit BY <1>1, YoutubePlayerAssumption DEF PlayerInv, ListOK
<1>7. added' = added BY DEF RemoveItem
<1>8. ListOK' BY <1>1, <1>3, <1>4, <1>5, <1>6, <1>7 DEF ListOK, PlayerInv
<1> QED BY <1>8, EditKeepsRest DEF RemoveItem, PlayerInv

\* An empty list has no cursor.
LEMMA ClearPreserves == ASSUME PlayerInv, Clear PROVE PlayerInv'
<1>1. items' = <<>> /\ cursor' = 0 /\ added' = added BY DEF Clear
<1>2. /\ items' \in Seq(ListItems) /\ Len(items') = 0 BY <1>1
<1>3. ListOK' BY <1>1, <1>2, YoutubePlayerAssumption DEF ListOK, PlayerInv
<1> QED BY <1>3, EditKeepsRest DEF Clear, PlayerInv
-----------------------------------------------------------------------------
(* The action under way.                                                    *)

\* A step of the action, by what becomes of its record.
ActionOK == action \in ActionRecords /\ (Queueing => action.item.video \in Videos)

\* The action moves, the channel and the pages do not.
LEMMA ActionMoves ==
    ASSUME PlayerInv, ListOK', ActionOK', GoesOn,
           shownAs' \in VideoOrNone, actions' \in {actions, actions + 1},
           UNCHANGED channelVars, UNCHANGED pageVars
    PROVE  PlayerInv'
<1>1. ServiceOK' BY DEF PlayerInv, ServiceOK, ActionOK
<1> QED BY <1>1, ServiceStep DEF PlayerInv

\* What begins has no command yet.
LEMMA BeginsSays ==
    ASSUME NEW kind \in ActionKinds, NEW item \in [id: Nat, video: VideoOrNone],
           NEW at \in {"waiting", "queue", "send"}, Begins(kind, item, at),
           at # "send" /\ kind = "load" => item.video \in Videos,
           at = "queue" => kind = "load"
    PROVE  ActionOK' /\ GoesOn /\ actions' = actions + 1
<1>1. action' = [kind |-> kind, item |-> item, n |-> 0, at |-> at]
  BY DEF Begins, Idle
<1>2. ActionOK' BY <1>1 DEF ActionOK, ActionRecords, Queueing
<1>3. ~ Sent' BY <1>1 DEF Sent
<1> QED BY <1>2, <1>3 DEF GoesOn, Begins

\* An action that is over.
LEMMA EndsSays == ASSUME Ends PROVE ActionOK' /\ GoesOn
<1>1. NoItem \in [id: Nat, video: VideoOrNone] BY DEF NoItem, Item, VideoOrNone
<1>2. action' = [kind |-> "none", item |-> NoItem, n |-> 0, at |-> "idle"]
  BY DEF Ends, Idle
<1> QED BY <1>1, <1>2 DEF ActionOK, ActionRecords, ActionKinds, Queueing, GoesOn, Sent

\* Going on past the acknowledgement.
LEMMA GoesSays ==
    ASSUME PlayerInv, NEW at \in {"identity", "error", "state"}, Goes(at),
           Sent, action.n <= acknowledged
    PROVE  ActionOK' /\ GoesOn
<1>1. action' = [action EXCEPT !.at = at] BY DEF Goes
<1> QED BY <1>1 DEF PlayerInv, ServiceOK, ActionOK, ActionRecords, Queueing, GoesOn

\* A Play now, with a player.
LEMMA BeginPlayPreserves ==
    ASSUME PlayerInv, NEW v \in Videos, BeginPlay(v) PROVE PlayerInv'
<1>1. Item(0, v) \in [id: Nat, video: VideoOrNone] /\ Item(0, v).video \in Videos
  BY DEF Item, VideoOrNone
<1>2. ActionOK' /\ GoesOn /\ actions' = actions + 1
  BY <1>1, BeginsSays DEF BeginPlay, ActionKinds
<1> QED BY <1>2, ListStays, ActionMoves DEF BeginPlay, PlayerInv, ServiceOK

\* A play or a pause.
LEMMA BeginTransportPreserves ==
    ASSUME PlayerInv, NEW kind \in {"play", "pause"}, BeginTransport(kind) PROVE PlayerInv'
<1>1. NoItem \in [id: Nat, video: VideoOrNone] BY DEF NoItem, Item, VideoOrNone
<1>2. ActionOK' /\ GoesOn /\ actions' = actions + 1
  BY <1>1, BeginsSays DEF BeginTransport, ActionKinds
<1> QED BY <1>2, ListStays, ActionMoves DEF BeginTransport, PlayerInv, ServiceOK

\* A skip takes the item of the list the cursor comes to.
LEMMA BeginSkipPreserves ==
    ASSUME PlayerInv, NEW forward \in BOOLEAN, BeginSkip(forward) PROVE PlayerInv'
<1>1. cursor' \in 1 .. Len(items) /\ UNCHANGED <<items, added>>
  BY DEF BeginSkip, Advance, Retreat, PlayerInv, ListOK
<1>2. ListOK' BY <1>1 DEF PlayerInv, ListOK
<1>3. items[cursor'] \in ListItems BY <1>1 DEF PlayerInv, ListOK
<1>4. items[cursor'] \in [id: Nat, video: VideoOrNone]
  BY <1>3 DEF ListItems, VideoOrNone
<1>5. ActionOK' /\ GoesOn /\ actions' = actions + 1
  BY <1>4, BeginsSays DEF BeginSkip, ActionKinds
<1> QED BY <1>2, <1>5, ActionMoves DEF BeginSkip, PlayerInv, ServiceOK

\* A page that is opened says nothing yet.
LEMMA OpenedSays ==
    ASSUME PlayerInv, NEW p \in Pages, pages' = [pages EXCEPT ![p].at = "opened"]
    PROVE  pages' \in [Pages -> PageRecords] /\ \A q \in Pages : Keeps(q)
<1> DEFINE r == [pages[p] EXCEPT !.at = "opened"]
<1>1. pages[p] \in PageRecords BY DEF PlayerInv, PagesOK
<1>2. r \in PageRecords BY <1>1 DEF PageRecords
<1>3. /\ r.last = pages[p].last /\ r.named = pages[p].named
      /\ r.answer = pages[p].answer /\ r.acks = pages[p].acks
  BY <1>1 DEF PageRecords
<1>4. pages' = [pages EXCEPT ![p] = r] OBVIOUS
<1> HIDE DEF r
<1> QED BY <1>2, <1>3, <1>4, PageMoves

\* Without a player a page is opened first.
LEMMA BeginColdPreserves ==
    ASSUME PlayerInv, NEW kind \in {"load", "open"}, NEW v \in VideoOrNone,
           BeginCold(kind, v), kind = "load" => v \in Videos
    PROVE  PlayerInv'
<1>1. Item(0, v) \in [id: Nat, video: VideoOrNone] /\ Item(0, v).video = v BY DEF Item
<1>2. ActionOK' /\ GoesOn /\ actions' = actions + 1
  BY <1>1, BeginsSays DEF BeginCold, ActionKinds
<1>3. PICK p \in Pages : pages' = [pages EXCEPT ![p].at = "opened"] BY DEF BeginCold
<1>4. pages' \in [Pages -> PageRecords] /\ \A q \in Pages : Keeps(q) BY <1>3, OpenedSays
<1>5. ServiceOK' BY <1>2 DEF PlayerInv, ServiceOK, ActionOK, BeginCold
<1>6. PagesOK' BY <1>4 DEF PlayerInv, PagesOK, BeginCold
<1>7. ChannelOK' /\ AcksOK' /\ SentOK'
  <2>1. /\ current' \in Pages \cup {Nothing} /\ seen' \in BOOLEAN
        /\ (seen' => current' # Nothing) /\ report' \in PlayerReports \cup {Nothing}
        /\ pending' \subseteq pending /\ UNCHANGED <<sequence, acknowledged>>
    BY DEF PlayerInv, ChannelOK, channelVars, BeginCold
  <2> QED BY <1>2, <1>4, <2>1, NothingIsSaid
<1>8. ListOK' BY ListStays DEF PlayerInv, BeginCold
<1> QED BY <1>5, <1>6, <1>7, <1>8 DEF PlayerInv

\* The page is there, or it is waited for no longer.
LEMMA StopWaitingPreserves == ASSUME PlayerInv, StopWaiting PROVE PlayerInv'
<1>1. CASE Ends BY <1>1, EndsSays, ListStays, ActionMoves DEF StopWaiting, PlayerInv, ServiceOK
<1>2. CASE ~ Ends
  <2>1. action' = [action EXCEPT !.at = "queue"] /\ action.kind = "load"
    BY <1>2 DEF StopWaiting, Goes
  <2>2. ActionOK' /\ GoesOn
    BY <2>1 DEF StopWaiting, PlayerInv, ServiceOK, ActionOK, ActionRecords, Queueing,
                GoesOn, Sent
  <2> QED BY <2>2, ListStays, ActionMoves DEF StopWaiting, PlayerInv, ServiceOK
<1> QED BY <1>1, <1>2

\* The video goes to the list, or there is no room.
LEMMA EnqueuePreserves == ASSUME PlayerInv, Enqueue PROVE PlayerInv'
<1>1. ASSUME PlayNow(action.item.video),
             action' = [action EXCEPT !.item = items'[cursor'], !.at = "send"]
      PROVE  ListOK' /\ ActionOK' /\ GoesOn
  <2>1. action.item.video \in Videos
    BY DEF PlayerInv, ServiceOK, Queueing, Enqueue
  <2>2. ListOK' /\ items'[cursor'] \in ListItems BY <1>1, <2>1, PlayNowKeepsList DEF PlayerInv
  <2>3. items'[cursor'] \in [id: Nat, video: VideoOrNone]
    BY <2>2 DEF ListItems, VideoOrNone
  <2>4. action' \in ActionRecords /\ action'.at = "send"
    BY <1>1, <2>3 DEF PlayerInv, ServiceOK, ActionRecords
  <2> QED BY <2>2, <2>4 DEF ActionOK, Queueing, GoesOn, Sent
<1>2. ASSUME Ends, UNCHANGED queueVars
      PROVE  ListOK' /\ ActionOK' /\ GoesOn
  BY <1>2, EndsSays, ListStays DEF PlayerInv
<1>3. ListOK' /\ ActionOK' /\ GoesOn BY <1>1, <1>2 DEF Enqueue
<1> QED BY <1>3, ActionMoves DEF Enqueue, PlayerInv, ServiceOK

\* The rest of the action, once its command was sent.
LEMMA SentStepPreserves ==
    ASSUME PlayerInv, Acknowledged \/ NotAcknowledged \/ ConfirmVideo \/ RefuseError
                      \/ Answer \/ NotObserved
    PROVE  PlayerInv'
<1>1. \/ Ends
      \/ \E at \in {"identity", "error", "state"} :
             Goes(at) /\ Sent /\ action.n <= acknowledged
  <2>1. CASE Acknowledged
    BY <2>1 DEF Acknowledged, Sent, PlayerInv, ServiceOK, ActionRecords, AcksOK, ChannelOK
  <2>2. CASE ConfirmVideo
    BY <2>2 DEF ConfirmVideo, Sent, PlayerInv, SentOK
  <2>3. CASE RefuseError
    BY <2>3 DEF RefuseError, Sent, PlayerInv, SentOK
  <2>4. CASE NotAcknowledged \/ Answer \/ NotObserved
    BY <2>4 DEF NotAcknowledged, Answer, NotObserved
  <2> QED BY <2>1, <2>2, <2>3, <2>4
<1>2. ActionOK' /\ GoesOn BY <1>1, EndsSays, GoesSays DEF PlayerInv
<1>3. shownAs' \in VideoOrNone
  BY DEF PlayerInv, ServiceOK, ActionRecords, Acknowledged, NotAcknowledged, ConfirmVideo,
         RefuseError, Answer, NotObserved
<1>4. UNCHANGED <<queueVars, channelVars, actions, pageVars>>
  BY DEF Acknowledged, NotAcknowledged, ConfirmVideo, RefuseError, Answer, NotObserved
<1>5. ListOK' BY <1>4, ListStays DEF PlayerInv
<1> QED BY <1>2, <1>3, <1>4, <1>5, ActionMoves

\* A command takes a number nothing has had.
LEMMA SendPreserves == ASSUME PlayerInv, Send PROVE PlayerInv'
<1>1. CASE ~ Connected
  <2>1. Ends /\ UNCHANGED channelVars BY <1>1 DEF Send, channelVars
  <2> QED BY <2>1, EndsSays, ListStays, ActionMoves DEF Send, PlayerInv, ServiceOK
<1>2. CASE Connected
  <2> DEFINE c == Command(sequence + 1, action.kind, action.item.video)
  <2>1. /\ sequence' = sequence + 1 /\ pending' = Bounded(pending \cup {c})
        /\ action' = [action EXCEPT !.at = "sent", !.n = sequence + 1]
    BY <1>2 DEF Send
  <2>2. /\ c \in Commands /\ c.n = sequence + 1 /\ c.name = action.kind
        /\ c.video = action.item.video
    BY DEF PlayerInv, ServiceOK, ActionRecords, ChannelOK, Command, Commands
  <2>3. sequence \in Nat BY DEF PlayerInv, ChannelOK
  <2> HIDE DEF c
  <2>4. pending' \subseteq pending \cup {c} BY <2>1 DEF Bounded
  <2>5. /\ action' \in ActionRecords /\ action'.at = "sent" /\ action'.n = sequence + 1
        /\ action'.kind = action.kind /\ action'.item = action.item
    <3> DEFINE n == sequence + 1
    <3>1. n \in Nat BY <2>3
    <3>2. action' = [action EXCEPT !.at = "sent", !.n = n] BY <2>1
    <3> HIDE DEF n
    <3>3. /\ action' \in ActionRecords /\ action'.at = "sent" /\ action'.n = n
          /\ action'.kind = action.kind /\ action'.item = action.item
      BY <3>1, <3>2 DEF PlayerInv, ServiceOK, ActionRecords
    <3> QED BY <3>3 DEF n
  <2>6. UNCHANGED <<queueVars, current, seen, acknowledged, report, shownAs, actions, pageVars>>
    BY DEF Send
  <2>7. ListOK' BY <2>6, ListStays DEF PlayerInv
  <2>8. ServiceOK' BY <2>5, <2>6 DEF PlayerInv, ServiceOK, Queueing
  <2>9. PagesOK' BY <2>6 DEF PlayerInv, PagesOK, pageVars
  <2>10. ChannelOK'
    <3>1. \A d \in pending : d \in Commands /\ d.n \in Nat /\ d.n <= sequence
      BY DEF PlayerInv, ChannelOK, Commands
    <3>2. /\ pending' \subseteq Commands
          /\ \A d \in pending' : d.n <= sequence'
      <4>1. ASSUME NEW d \in pending' PROVE d \in Commands /\ d.n <= sequence'
        <5>1. CASE d \in pending BY <2>1, <2>3, <3>1, <5>1
        <5>2. CASE d = c BY <2>1, <2>2, <2>3, <5>2
        <5> QED BY <2>4, <5>1, <5>2
      <4> QED BY <4>1
    <3>3. \A d, e \in pending' : d.n = e.n => d = e
      BY <2>2, <2>3, <2>4, <3>1 DEF PlayerInv, ChannelOK
    <3>4. \A p \in Pages : \A d \in pages'[p].answer : d.n <= sequence'
      <4>1. \A p \in Pages : \A d \in pages[p].answer : d.n \in Nat /\ d.n <= sequence
        BY DEF PlayerInv, PagesOK, PageRecords, ChannelOK, Commands
      <4> QED BY <2>1, <2>3, <2>6, <4>1 DEF pageVars
    <3>5. /\ current' \in Pages \cup {Nothing} /\ seen' \in BOOLEAN
          /\ (seen' => current' # Nothing) /\ report' \in PlayerReports \cup {Nothing}
      BY <2>6 DEF PlayerInv, ChannelOK
    <3>6. sequence' \in Nat BY <2>1, <2>3
    <3> QED BY <3>2, <3>3, <3>4, <3>5, <3>6 DEF ChannelOK
  <2>11. \A p \in Pages : pages[p].last \in Nat /\ pages[p].last <= sequence
    BY DEF PlayerInv, PagesOK, PageRecords, AcksOK
  <2>12. AcksOK' BY <2>1, <2>3, <2>6, <2>11 DEF PlayerInv, AcksOK, pageVars
  <2>13. SentOK'
    <3>1. \A d \in pending' : IsOwn(d)'
      <4>1. \A d \in pending : d.n \in Nat /\ d.n <= sequence
        BY DEF PlayerInv, ChannelOK, Commands
      <4> QED BY <2>2, <2>3, <2>4, <2>5, <4>1 DEF IsOwn
    <3>2. ASSUME NEW p \in Pages
          PROVE  /\ \A d \in pages'[p].answer : IsOwn(d)'
                 /\ pages'[p].last # action'.n
      <4>1. \A d \in pages[p].answer : d.n \in Nat /\ d.n <= sequence
        BY DEF PlayerInv, PagesOK, PageRecords, ChannelOK, Commands
      <4>2. pages' = pages BY <2>6 DEF pageVars
      <4> QED BY <2>3, <2>5, <2>11, <4>1, <4>2 DEF IsOwn
    <3>3. action'.n = sequence' /\ 0 < sequence' BY <2>1, <2>3, <2>5
    <3> QED BY <2>5, <3>1, <3>2, <3>3 DEF SentOK
  <2> QED BY <2>7, <2>8, <2>9, <2>10, <2>12, <2>13 DEF PlayerInv
<1> QED BY <1>1, <1>2
-----------------------------------------------------------------------------
(* The channel and the pages.                                               *)

\* A step that says nothing new of the commands.
LEMMA QuietStep ==
    ASSUME PlayerInv, UNCHANGED <<queueVars, serviceVars>>,
           pages' \in [Pages -> PageRecords], \A q \in Pages : Keeps(q),
           touches' \in {touches, touches + 1},
           current' \in Pages \cup {Nothing}, seen' \in BOOLEAN, seen' => current' # Nothing,
           report' \in PlayerReports \cup {Nothing}, pending' \subseteq pending,
           UNCHANGED <<sequence, acknowledged>>
    PROVE  PlayerInv'
<1>1. ListOK' BY ListStays DEF PlayerInv
<1>2. ServiceOK' /\ GoesOn
  BY DEF PlayerInv, ServiceOK, Queueing, SentOK, GoesOn, Sent, serviceVars
<1>3. PagesOK' BY DEF PlayerInv, PagesOK
<1> QED BY <1>1, <1>2, <1>3, NothingIsSaid DEF PlayerInv

\* The same of one page alone, whose record moves.
LEMMA QuietPage ==
    ASSUME PlayerInv, UNCHANGED <<queueVars, serviceVars, channelVars>>,
           NEW p \in Pages, NEW r \in PageRecords, pages' = [pages EXCEPT ![p] = r],
           r.last = pages[p].last, r.named = pages[p].named,
           r.answer \subseteq pages[p].answer \cup pending, r.acks \subseteq pages[p].acks,
           touches' \in {touches, touches + 1}
    PROVE  PlayerInv'
<1>1. pages' \in [Pages -> PageRecords] /\ \A q \in Pages : Keeps(q) BY PageMoves
<1>2. /\ current' \in Pages \cup {Nothing} /\ seen' \in BOOLEAN
      /\ (seen' => current' # Nothing) /\ report' \in PlayerReports \cup {Nothing}
      /\ pending' \subseteq pending /\ UNCHANGED <<sequence, acknowledged>>
  BY DEF PlayerInv, ChannelOK, channelVars
<1> QED BY <1>1, <1>2, QuietStep

\* What a page has is typed.
LEMMA PageIsTyped ==
    ASSUME PlayerInv, NEW p \in Pages PROVE pages[p] \in PageRecords
BY DEF PlayerInv, PagesOK

\* What the channel has is typed.
LEMMA ChannelIsTyped ==
    ASSUME PlayerInv
    PROVE  /\ current \in Pages \cup {Nothing} /\ seen \in BOOLEAN
           /\ (seen => current # Nothing) /\ report \in PlayerReports \cup {Nothing}
BY DEF PlayerInv, ChannelOK

\* A page takes the channel over, and nothing is pending for it.
LEMMA RegisterPreserves ==
    ASSUME PlayerInv, NEW p \in Pages, Register(p) PROVE PlayerInv'
<1> DEFINE r == [pages[p] EXCEPT !.at = "live"]
<1>1. /\ r \in PageRecords /\ r.last = pages[p].last /\ r.named = pages[p].named
      /\ r.answer = pages[p].answer /\ r.acks = pages[p].acks
  BY PageIsTyped DEF PageRecords
<1>2. pages' = [pages EXCEPT ![p] = r] BY DEF Register
<1> HIDE DEF r
<1>3. pages' \in [Pages -> PageRecords] /\ \A q \in Pages : Keeps(q)
  BY <1>1, <1>2, PageMoves
<1>4. p # Nothing BY YoutubePlayerAssumption
<1>5. NoReport \in PlayerReports
  BY DEF NoReport, PlayerReport, PlayerReports, VideoOrNone, States
<1> QED BY <1>3, <1>4, <1>5, QuietStep DEF Register, PageStep

\* A report changes the report, or stops a page that is refused.
LEMMA ReportArrivesPreserves ==
    ASSUME PlayerInv, NEW p \in Pages, ReportArrives(p) PROVE PlayerInv'
<1>1. CASE Refused(p)
  <2> DEFINE r == [pages[p] EXCEPT !.beat = Nothing, !.at = "stopped"]
  <2>3. pages[p] \in PageRecords BY PageIsTyped
  <2>1. /\ r \in PageRecords /\ r.last = pages[p].last /\ r.named = pages[p].named
        /\ r.answer = pages[p].answer /\ r.acks = pages[p].acks
    BY <2>3 DEF PageRecords
  <2>2. pages' = [pages EXCEPT ![p] = r] BY <1>1, PageIsTyped DEF ReportArrives, PlayerInv, PagesOK
  <2> HIDE DEF r
  <2> QED BY <1>1, <2>1, <2>2, QuietPage DEF ReportArrives, PageStep, channelVars
<1>2. CASE ~ Refused(p)
  <2> DEFINE r == [pages[p] EXCEPT !.beat = Nothing]
  <2>1. /\ r \in PageRecords /\ r.last = pages[p].last /\ r.named = pages[p].named
        /\ r.answer = pages[p].answer /\ r.acks = pages[p].acks
    BY PageIsTyped DEF PageRecords
  <2>2. pages' = [pages EXCEPT ![p] = r] BY <1>2 DEF ReportArrives
  <2> HIDE DEF r
  <2>3. pages' \in [Pages -> PageRecords] /\ \A q \in Pages : Keeps(q)
    BY <2>1, <2>2, PageMoves
  <2>4. report' \in PlayerReports
    BY <1>2, PageIsTyped DEF ReportArrives, PageRecords
  <2>5. current = p /\ p # Nothing BY <1>2, YoutubePlayerAssumption DEF Refused
  <2> QED BY <1>2, <2>3, <2>4, <2>5, QuietStep DEF ReportArrives, PageStep
<1> QED BY <1>1, <1>2

\* A poll is answered with what is held.
LEMMA CollectPreserves ==
    ASSUME PlayerInv, NEW p \in Pages, Collect(p) PROVE PlayerInv'
<1>1. CASE Refused(p)
  <2> DEFINE r == [pages[p] EXCEPT !.at = "stopped"]
  <2>1. /\ r \in PageRecords /\ r.last = pages[p].last /\ r.named = pages[p].named
        /\ r.answer = pages[p].answer /\ r.acks = pages[p].acks
    BY PageIsTyped DEF PageRecords
  <2>2. pages' = [pages EXCEPT ![p] = r] BY <1>1 DEF Collect
  <2> HIDE DEF r
  <2> QED BY <2>1, <2>2, QuietPage DEF Collect, PageStep
<1>2. CASE ~ Refused(p)
  <2> DEFINE r == [pages[p] EXCEPT !.answer = Fresh(p)]
  <2>1. Fresh(p) \subseteq pending /\ pending \subseteq Commands
    BY DEF Fresh, PlayerInv, ChannelOK
  <2>2. /\ r \in PageRecords /\ r.last = pages[p].last /\ r.named = pages[p].named
        /\ r.answer = Fresh(p) /\ r.acks = pages[p].acks
    BY <2>1, PageIsTyped DEF PageRecords
  <2>3. pages' = [pages EXCEPT ![p] = r] BY <1>2 DEF Collect
  <2> HIDE DEF r
  <2> QED BY <2>1, <2>2, <2>3, QuietPage DEF Collect, PageStep
<1> QED BY <1>1, <1>2

\* The pages as they were.
LEMMA PagesStay ==
    ASSUME PlayerInv, pages' = pages
    PROVE  pages' \in [Pages -> PageRecords] /\ \A q \in Pages : Keeps(q)
BY DEF PlayerInv, PagesOK, Keeps

\* A command that got old is dropped.
LEMMA ExpirePreserves == ASSUME PlayerInv, Expire PROVE PlayerInv'
<1>1. pending' \subseteq pending BY DEF Expire
<1> QED BY <1>1, PagesStay, ChannelIsTyped, QuietStep DEF Expire, PageStep, pageVars

\* A page that is silent is no player.
LEMMA GoStalePreserves == ASSUME PlayerInv, GoStale PROVE PlayerInv'
BY PagesStay, ChannelIsTyped, QuietStep DEF GoStale, PageStep

\* A page no one has opened.
LEMMA UnbornIsTyped == Unborn \in PageRecords
<1>1. <<>> \in Seq(Commands) /\ {} \in SUBSET Commands /\ {} \in SUBSET Nat OBVIOUS
<1>2. Nothing \in VideoOrNone /\ Nothing \in PlayerReports \cup {Nothing} /\ "idle" \in States
  BY DEF VideoOrNone, States
<1> QED BY <1>1, <1>2 DEF Unborn, PageRecords

\* A page that is closed leaves what it ran and named.
LEMMA ClosePreserves ==
    ASSUME PlayerInv, NEW p \in Pages, NEW arrives \in BOOLEAN, Close(p, arrives)
    PROVE  PlayerInv'
<1> DEFINE r == [Unborn EXCEPT !.at = "closed", !.last = pages[p].last,
                               !.named = pages[p].named]
<1>1. /\ pages[p].last \in Nat /\ pages[p].named \in VideoOrNone
  BY PageIsTyped DEF PageRecords
<1>2. /\ r \in PageRecords /\ r.last = pages[p].last /\ r.named = pages[p].named
      /\ r.answer = {} /\ r.acks = {}
  <2> DEFINE u == Unborn
             n == pages[p].last
             v == pages[p].named
  <2>1. u \in PageRecords /\ u.answer = {} /\ u.acks = {} BY UnbornIsTyped DEF Unborn
  <2>2. r = [u EXCEPT !.at = "closed", !.last = n, !.named = v] OBVIOUS
  <2> HIDE DEF r, u
  <2>3. n \in Nat /\ v \in VideoOrNone BY <1>1
  <2> HIDE DEF n, v
  <2>4. /\ r \in PageRecords /\ r.last = n /\ r.named = v
        /\ r.answer = {} /\ r.acks = {}
    BY <2>1, <2>2, <2>3 DEF PageRecords
  <2> QED BY <2>4 DEF n, v
<1>3. pages' = [pages EXCEPT ![p] = r] BY DEF Close
<1> HIDE DEF r
<1>4. pages' \in [Pages -> PageRecords] /\ \A q \in Pages : Keeps(q)
  BY <1>2, <1>3, PageMoves
<1>5. /\ current' \in Pages \cup {Nothing} /\ seen' \in BOOLEAN
      /\ (seen' => current' # Nothing) /\ report' \in PlayerReports \cup {Nothing}
      /\ pending' \subseteq pending
  BY ChannelIsTyped DEF Close
<1> QED BY <1>4, <1>5, QuietStep DEF Close, PageStep

\* A page that a person opens.
LEMMA OpenAgainPreserves ==
    ASSUME PlayerInv, NEW p \in Pages, OpenAgain(p) PROVE PlayerInv'
<1>1. pages' \in [Pages -> PageRecords] /\ \A q \in Pages : Keeps(q)
  BY OpenedSays DEF OpenAgain
<1> QED BY <1>1, ChannelIsTyped, QuietStep DEF OpenAgain, PageOnly, channelVars

\* The script has loaded.
LEMMA ApiReadyPreserves ==
    ASSUME PlayerInv, NEW p \in Pages, ApiReady(p) PROVE PlayerInv'
<1> DEFINE wanted == pages[p].wanted
           c == Command(0, "load", wanted)
           r == [pages[p] EXCEPT !.api = TRUE, !.wanted = Nothing,
                    !.iframe = IF wanted # Nothing THEN "building" ELSE @,
                    !.asks = IF wanted # Nothing THEN <<c>> ELSE @]
<1>1. wanted \in VideoOrNone /\ c \in Commands
  BY PageIsTyped DEF PageRecords, Command, Commands, ActionKinds
<1>2. <<c>> \in Seq(Commands) BY <1>1
<1>3. pages' = [pages EXCEPT ![p] = r] BY DEF ApiReady, PlayerInv, PagesOK
<1> DEFINE one == <<c>>
           iframe == IF wanted # Nothing THEN "building" ELSE pages[p].iframe
           asks == IF wanted # Nothing THEN one ELSE pages[p].asks
<1>5. pages[p] \in PageRecords BY PageIsTyped
<1> HIDE DEF c
<1>6. one \in Seq(Commands) BY <1>2
<1> HIDE DEF one
<1>7. iframe \in {"none", "building", "ready"} /\ asks \in Seq(Commands)
  BY <1>5, <1>6 DEF PageRecords
<1>8. r = [pages[p] EXCEPT !.api = TRUE, !.wanted = Nothing, !.iframe = iframe,
                           !.asks = asks]
  BY <1>5 DEF PageRecords, one
<1>9. Nothing \in VideoOrNone BY DEF VideoOrNone
<1> HIDE DEF iframe, asks, r
<1>4. /\ r \in PageRecords /\ r.last = pages[p].last /\ r.named = pages[p].named
      /\ r.answer = pages[p].answer /\ r.acks = pages[p].acks
  BY <1>5, <1>7, <1>8, <1>9 DEF PageRecords
<1> HIDE DEF r
<1> QED BY <1>3, <1>4, QuietPage DEF ApiReady, PageOnly

\* YouTube does what a page asked of it.
LEMMA YoutubeFollowsPreserves ==
    ASSUME PlayerInv, NEW p \in Pages, YoutubeFollows(p) PROVE PlayerInv'
<1> DEFINE c == Head(pages[p].asks)
<1>1. pages[p].asks \in Seq(Commands) /\ pages[p].asks # <<>>
  BY PageIsTyped DEF PageRecords, YoutubeFollows
<1>2. c \in Commands /\ Tail(pages[p].asks) \in Seq(Commands)
  BY <1>1, HeadTailProperties
<1>3. PICK s \in States, e \in BOOLEAN :
         pages' = [pages EXCEPT
            ![p].asks = Tail(@), ![p].iframe = "ready",
            ![p].video = IF c.name = "load" THEN c.video ELSE @,
            ![p].state = s, ![p].error = @ \/ e]
  BY Zenon DEF YoutubeFollows
<1> HIDE DEF c
<1> DEFINE r == [pages[p] EXCEPT !.asks = Tail(@), !.iframe = "ready",
                    !.video = IF c.name = "load" THEN c.video ELSE @,
                    !.state = s, !.error = @ \/ e]
<1>4. pages' = [pages EXCEPT ![p] = r] BY <1>3 DEF PlayerInv, PagesOK
<1> DEFINE left == Tail(pages[p].asks)
           video == IF c.name = "load" THEN c.video ELSE pages[p].video
           error == pages[p].error \/ e
<1>6. pages[p] \in PageRecords BY PageIsTyped
<1>7. left \in Seq(Commands) /\ video \in VideoOrNone /\ error \in BOOLEAN
  BY <1>2, <1>6 DEF PageRecords, Commands
<1>8. r = [pages[p] EXCEPT !.asks = left, !.iframe = "ready", !.video = video,
                           !.state = s, !.error = error]
  BY <1>6 DEF PageRecords
<1> HIDE DEF left, video, error, r
<1>5. /\ r \in PageRecords /\ r.last = pages[p].last /\ r.named = pages[p].named
      /\ r.answer = pages[p].answer /\ r.acks = pages[p].acks
  BY <1>6, <1>7, <1>8 DEF PageRecords
<1> HIDE DEF r
<1> QED BY <1>4, <1>5, QuietPage DEF YoutubeFollows, PageOnly

\* A person in the player.
LEMMA ClickPreserves ==
    ASSUME PlayerInv, NEW p \in Pages, Click(p) PROVE PlayerInv'
<1>1. PICK s \in {"playing", "paused"} : pages' = [pages EXCEPT ![p].state = s] BY DEF Click
<1> DEFINE r == [pages[p] EXCEPT !.state = s]
<1>2. /\ r \in PageRecords /\ r.last = pages[p].last /\ r.named = pages[p].named
      /\ r.answer = pages[p].answer /\ r.acks = pages[p].acks
  BY PageIsTyped DEF PageRecords, States
<1>3. pages' = [pages EXCEPT ![p] = r] BY <1>1
<1> HIDE DEF r
<1> QED BY <1>2, <1>3, QuietPage DEF Click, PageOnly

\* A report on its way.
LEMMA BeatPreserves ==
    ASSUME PlayerInv, NEW p \in Pages, Beat(p) PROVE PlayerInv'
<1> DEFINE b == ReadState(pages[p])
           r == [pages[p] EXCEPT !.beat = b]
<1>1. b \in PlayerReports
  BY PageIsTyped DEF ReadState, PlayerReport, PlayerReports, PageRecords, VideoOrNone, States
<1> HIDE DEF b
<1>2. /\ r \in PageRecords /\ r.last = pages[p].last /\ r.named = pages[p].named
      /\ r.answer = pages[p].answer /\ r.acks = pages[p].acks
  BY <1>1, PageIsTyped DEF PageRecords
<1>3. pages' = [pages EXCEPT ![p] = r] BY DEF Beat, b
<1> HIDE DEF r
<1> QED BY <1>2, <1>3, QuietPage DEF Beat, PageOnly

\* An acknowledgement of a command that the page ran: the highest counts, and
\* what it acknowledges is held no longer.
LEMMA AckArrivesPreserves ==
    ASSUME PlayerInv, NEW p \in Pages, AckArrives(p) PROVE PlayerInv'
<1>1. PICK n \in pages[p].acks :
         /\ pages' = [pages EXCEPT ![p].acks = @ \ {n}]
         /\ IF Refused(p)
            THEN UNCHANGED <<acknowledged, pending, seen>>
            ELSE /\ acknowledged' = IF n > acknowledged THEN n ELSE acknowledged
                 /\ pending' = {c \in pending : c.n > n}
                 /\ seen' = TRUE
  BY DEF AckArrives
<1> DEFINE r == [pages[p] EXCEPT !.acks = @ \ {n}]
<1>2. /\ r \in PageRecords /\ r.last = pages[p].last /\ r.named = pages[p].named
      /\ r.answer = pages[p].answer /\ r.acks \subseteq pages[p].acks
  BY PageIsTyped DEF PageRecords
<1>3. pages' = [pages EXCEPT ![p] = r] BY <1>1
<1> HIDE DEF r
<1>4. UNCHANGED <<queueVars, serviceVars, current, sequence, report, touches>>
  BY DEF AckArrives, PageStep
<1>5. CASE Refused(p)
  <2>1. UNCHANGED channelVars BY <1>1, <1>4, <1>5 DEF channelVars
  <2> QED BY <1>2, <1>3, <1>4, <2>1, QuietPage
<1>6. CASE ~ Refused(p)
  <2>1. pages' \in [Pages -> PageRecords] /\ \A q \in Pages : Keeps(q)
    BY <1>2, <1>3, PageMoves
  <2>2. current = p /\ p # Nothing BY <1>6, YoutubePlayerAssumption DEF Refused
  <2>3. /\ acknowledged' \in {acknowledged, n} /\ acknowledged <= acknowledged'
        /\ pending' \subseteq pending /\ seen' = TRUE
    <3>1. n \in Nat /\ acknowledged \in Nat
      BY PageIsTyped DEF PageRecords, PlayerInv, AcksOK
    <3> QED BY <1>1, <1>6, <3>1
  <2>4. n \in 1 .. pages[p].last /\ pages[p].last \in Nat /\ pages[p].last <= sequence
    BY PageIsTyped DEF PageRecords, PlayerInv, AcksOK
  <2>5. ChannelOK' /\ ListOK' /\ ServiceOK' /\ PagesOK'
    <3>1. ListOK' BY <1>4, ListStays DEF PlayerInv
    <3>2. ServiceOK' BY <1>4 DEF PlayerInv, ServiceOK, Queueing, serviceVars
    <3>3. PagesOK' BY <1>4, <2>1 DEF PlayerInv, PagesOK
    <3>4. \A q \in Pages : \A c \in pages'[q].answer : c.n <= sequence'
      BY <1>4, <2>1 DEF PlayerInv, ChannelOK, Keeps
    <3>5. ChannelOK' BY <1>4, <2>2, <2>3, <3>4 DEF PlayerInv, ChannelOK
    <3> QED BY <3>1, <3>2, <3>3, <3>5
  <2>6. AcksOK'
    <3>1. \A q \in Pages : /\ pages'[q].last = pages[q].last
                           /\ pages'[q].acks \subseteq pages[q].acks
      BY <2>1 DEF Keeps
    <3>2. \A q \in Pages : /\ pages'[q].last <= sequence'
                           /\ pages'[q].acks \subseteq 1 .. pages'[q].last
      BY <1>4, <3>1 DEF PlayerInv, AcksOK
    <3>3. acknowledged' \in 0 .. sequence'
      BY <1>4, <2>3, <2>4 DEF PlayerInv, AcksOK, ChannelOK
    <3>4. acknowledged' > 0 => \E q \in Pages : acknowledged' <= pages'[q].last
      <4>1. CASE acknowledged' = acknowledged BY <3>1, <4>1 DEF PlayerInv, AcksOK
      <4>2. CASE acknowledged' = n BY <2>4, <3>1, <4>2
      <4> QED BY <2>3, <4>1, <4>2
    <3> QED BY <3>2, <3>3, <3>4 DEF AcksOK
  <2>7. SentOK'
    <3> SUFFICES ASSUME Sent' PROVE SentOK'
      BY DEF SentOK
    <3>1. Sent /\ \A c : IsOwn(c) <=> IsOwn(c)'
      BY <1>4 DEF Sent, IsOwn, serviceVars
    <3>2. \A c \in pending' : IsOwn(c)' BY <2>3, <3>1 DEF PlayerInv, SentOK
    <3>3. ASSUME NEW q \in Pages
          PROVE  /\ \A c \in pages'[q].answer : IsOwn(c)'
                 /\ pages'[q].last = action'.n /\ action'.kind = "load"
                      => pages'[q].named = action'.item.video
      <4>1. /\ pages'[q].last = pages[q].last /\ pages'[q].named = pages[q].named
            /\ pages'[q].answer \subseteq pages[q].answer \cup pending
        BY <2>1 DEF Keeps
      <4> QED BY <1>4, <3>1, <4>1 DEF PlayerInv, SentOK, serviceVars
    <3>4. action'.n = sequence' /\ 0 < sequence'
      BY <1>4, <3>1 DEF PlayerInv, SentOK, serviceVars
    <3>5. action'.at # "sent" => action'.n <= acknowledged'
      <4>1. action.n \in Nat /\ acknowledged \in Nat /\ acknowledged' \in Nat
        BY <2>3, <2>4 DEF PlayerInv, ServiceOK, ActionRecords, AcksOK
      <4> QED BY <1>4, <2>3, <3>1, <4>1 DEF PlayerInv, SentOK, serviceVars
    <3> QED BY <3>2, <3>3, <3>4, <3>5 DEF SentOK
  <2> QED BY <2>5, <2>6, <2>7 DEF PlayerInv
<1> QED BY <1>5, <1>6

\* A command changes what a page shows, never what it has run or answers.
LEMMA RunSays ==
    ASSUME NEW page \in PageRecords, NEW c \in Commands
    PROVE  /\ Run(page, c) \in PageRecords
           /\ Run(page, c).last = page.last /\ Run(page, c).acks = page.acks
           /\ c.name = "load" => Run(page, c).named = c.video
           /\ c.name # "load" => Run(page, c).named = page.named
<1>1. c.video \in VideoOrNone BY DEF Commands
<1>2. page.asks \in Seq(Commands) BY DEF PageRecords
<1>3. Append(page.asks, c) \in Seq(Commands) /\ <<c>> \in Seq(Commands) BY <1>2
<1> DEFINE named == [page EXCEPT !.named = c.video, !.error = FALSE]
<1>4. /\ named \in PageRecords /\ named.last = page.last /\ named.acks = page.acks
      /\ named.named = c.video /\ named.asks = page.asks
  BY <1>1 DEF PageRecords
<1>5. CASE c.name = "load"
  <2>1. Run(page, c) \in {named, [named EXCEPT !.asks = Append(@, c)],
                          [named EXCEPT !.iframe = "building", !.asks = <<c>>],
                          [named EXCEPT !.wanted = c.video]}
    BY <1>5 DEF Run, Load
  <2> HIDE DEF named
  <2> DEFINE asked == Append(page.asks, c)
             first == <<c>>
  <2>2. asked \in Seq(Commands) /\ first \in Seq(Commands) BY <1>3
  <2>3. Run(page, c) \in {named, [named EXCEPT !.asks = asked],
                          [named EXCEPT !.iframe = "building", !.asks = first],
                          [named EXCEPT !.wanted = c.video]}
    BY <1>4, <2>1
  <2> HIDE DEF asked, first
  <2>4. CASE Run(page, c) = named BY <1>4, <1>5, <2>4
  <2>5. CASE Run(page, c) = [named EXCEPT !.asks = asked]
    BY <1>5, <1>4, <2>2, <2>5 DEF PageRecords
  <2>6. CASE Run(page, c) = [named EXCEPT !.iframe = "building", !.asks = first]
    BY <1>5, <1>4, <2>2, <2>6 DEF PageRecords
  <2>7. CASE Run(page, c) = [named EXCEPT !.wanted = c.video]
    BY <1>5, <1>1, <1>4, <2>7 DEF PageRecords
  <2> QED BY <1>5, <2>3, <2>4, <2>5, <2>6, <2>7
<1>6. CASE c.name # "load"
  <2>1. Run(page, c) \in {page, [page EXCEPT !.asks = Append(@, c)]}
    BY <1>6 DEF Run
  <2> QED BY <1>3, <1>6, <2>1 DEF PageRecords
<1> QED BY <1>5, <1>6

\* A command that did not run before is the last one then, and is acknowledged.
LEMMA ObeyedSays ==
    ASSUME NEW page \in PageRecords, NEW c \in Commands
    PROVE  /\ Obeyed(page, c) \in PageRecords
           /\ \/ c.n <= page.last /\ Obeyed(page, c) = page
              \/ /\ page.last < c.n /\ Obeyed(page, c).last = c.n
                 /\ Obeyed(page, c).acks = page.acks \cup {c.n}
                 /\ c.name = "load" => Obeyed(page, c).named = c.video
<1>1. c.n \in Nat /\ page.last \in Nat BY DEF Commands, PageRecords
<1>2. CASE c.n <= page.last BY <1>2 DEF Obeyed
<1>3. CASE ~ (c.n <= page.last)
  <2> DEFINE went == Run(page, c)
             n == c.n
  <2>1. /\ went \in PageRecords /\ went.acks = page.acks
        /\ c.name = "load" => went.named = c.video
    BY RunSays
  <2>2. Obeyed(page, c) = [went EXCEPT !.last = n, !.acks = @ \cup {n}]
    BY <1>3 DEF Obeyed
  <2> HIDE DEF went
  <2>3. n \in Nat /\ page.last < n BY <1>1, <1>3
  <2> HIDE DEF n
  <2> DEFINE given == went.acks \cup {n}
  <2>5. given \in SUBSET Nat BY <2>1, <2>3 DEF PageRecords
  <2>6. Obeyed(page, c) = [went EXCEPT !.last = n, !.acks = given] BY <2>1, <2>2 DEF PageRecords
  <2>7. given = page.acks \cup {n} BY <2>1
  <2> HIDE DEF given
  <2>4. /\ Obeyed(page, c) \in PageRecords /\ Obeyed(page, c).last = n
        /\ Obeyed(page, c).acks = page.acks \cup {n}
        /\ Obeyed(page, c).named = went.named
    BY <2>1, <2>3, <2>5, <2>6, <2>7 DEF PageRecords
  <2> QED BY <2>1, <2>3, <2>4 DEF n
<1> QED BY <1>2, <1>3

\* One command of an answer is run, the one of the action under way or an older.
LEMMA RunCommandPreserves ==
    ASSUME PlayerInv, NEW p \in Pages, RunCommand(p) PROVE PlayerInv'
<1>1. PICK c \in pages[p].answer :
         LET left == pages[p].answer \ {c} IN
         pages' = [pages EXCEPT
            ![p] = [Obeyed(@, c) EXCEPT !.answer = left, !.busy = left # {}]]
  BY DEF RunCommand
<1>2. UNCHANGED <<queueVars, channelVars, serviceVars, touches>>
  BY DEF RunCommand, PageOnly
<1>3. c \in Commands /\ pages[p] \in PageRecords BY PageIsTyped DEF PageRecords
<1> DEFINE went == Obeyed(pages[p], c)
           left == pages[p].answer \ {c}
           r == [went EXCEPT !.answer = left, !.busy = left # {}]
<1>4. pages' = [pages EXCEPT ![p] = r] BY <1>1 DEF PlayerInv, PagesOK
<1>5. /\ went \in PageRecords
      /\ \/ c.n <= pages[p].last /\ went = pages[p]
         \/ /\ pages[p].last < c.n /\ went.last = c.n
            /\ went.acks = pages[p].acks \cup {c.n}
            /\ c.name = "load" => went.named = c.video
  BY <1>3, ObeyedSays
<1> HIDE DEF went
<1>6. left \in SUBSET Commands /\ (left # {}) \in BOOLEAN BY <1>3 DEF PageRecords
<1>7. left \subseteq pages[p].answer OBVIOUS
<1> HIDE DEF left
<1>8. /\ r \in PageRecords /\ r.answer = left /\ r.last = went.last /\ r.acks = went.acks
      /\ r.named = went.named
  BY <1>5, <1>6 DEF PageRecords
<1> HIDE DEF r
<1>9. /\ pages' \in [Pages -> PageRecords] /\ pages'[p] = r
      /\ \A q \in Pages \ {p} : pages'[q] = pages[q]
  BY <1>4, <1>8 DEF PlayerInv, PagesOK
<1>10. c.n \in Nat /\ pages[p].last \in Nat /\ c.n <= sequence /\ sequence \in Nat
  BY <1>3 DEF Commands, PageRecords, PlayerInv, ChannelOK
<1>11. ListOK' /\ ServiceOK' /\ PagesOK'
  <2>1. ListOK' BY <1>2, ListStays DEF PlayerInv
  <2>2. ServiceOK' BY <1>2 DEF PlayerInv, ServiceOK, Queueing, serviceVars
  <2>3. PagesOK' BY <1>2, <1>9 DEF PlayerInv, PagesOK
  <2> QED BY <2>1, <2>2, <2>3
<1>12. \A q \in Pages : pages'[q].answer \subseteq pages[q].answer
  BY <1>7, <1>8, <1>9
<1>13. ChannelOK'
  <2>1. UNCHANGED <<current, seen, sequence, pending, report>> BY <1>2 DEF channelVars
  <2>2. \A q \in Pages : \A d \in pages'[q].answer : d.n <= sequence'
    BY <1>12, <2>1 DEF PlayerInv, ChannelOK
  <2> QED BY <2>1, <2>2 DEF PlayerInv, ChannelOK
<1>14. AcksOK'
  <2>1. UNCHANGED <<sequence, acknowledged>> BY <1>2 DEF channelVars
  <2>2. /\ r.last \in Nat /\ r.last <= sequence /\ pages[p].last <= r.last
        /\ r.acks \subseteq 1 .. r.last
    <3>1. /\ pages[p].last <= sequence
          /\ pages[p].acks \subseteq 1 .. pages[p].last
      BY DEF PlayerInv, AcksOK
    <3> QED BY <1>5, <1>8, <1>10, <3>1
  <2>3. \A q \in Pages : /\ pages'[q].last <= sequence'
                         /\ pages'[q].acks \subseteq 1 .. pages'[q].last
    BY <1>9, <2>1, <2>2 DEF PlayerInv, AcksOK
  <2>4. ASSUME NEW q \in Pages
        PROVE  /\ pages[q].last \in Nat /\ pages'[q].last \in Nat
               /\ pages[q].last <= pages'[q].last
    <3>1. pages[q].last \in Nat BY PageIsTyped DEF PageRecords
    <3>2. CASE q = p BY <1>9, <1>10, <2>2, <3>2
    <3>3. CASE q # p BY <1>9, <3>1, <3>3
    <3> QED BY <3>2, <3>3
  <2>5. acknowledged' > 0 => \E q \in Pages : acknowledged' <= pages'[q].last
    <3>1. acknowledged \in Nat BY DEF PlayerInv, AcksOK
    <3> QED BY <2>1, <2>4, <3>1 DEF PlayerInv, AcksOK
  <2>6. acknowledged' \in 0 .. sequence' BY <2>1 DEF PlayerInv, AcksOK
  <2> QED BY <2>3, <2>5, <2>6 DEF AcksOK
<1>15. SentOK'
  <2> SUFFICES ASSUME Sent' PROVE SentOK'
    BY DEF SentOK
  <2>1. UNCHANGED <<action, sequence, acknowledged, pending>>
    BY <1>2 DEF channelVars, serviceVars
  <2>2. Sent /\ \A d : IsOwn(d) <=> IsOwn(d)' BY <2>1 DEF Sent, IsOwn
  <2>3. \A d \in pending' : IsOwn(d)' BY <2>1, <2>2 DEF PlayerInv, SentOK
  <2>4. \A q \in Pages : \A d \in pages'[q].answer : IsOwn(d)'
    BY <1>12, <2>2 DEF PlayerInv, SentOK
  <2>5. pages'[p].last = action.n /\ action.kind = "load"
          => pages'[p].named = action.item.video
    <3>1. IsOwn(c) BY <2>2 DEF PlayerInv, SentOK
    <3>2. CASE went = pages[p]
      BY <1>8, <1>9, <2>2, <3>2 DEF PlayerInv, SentOK
    <3>3. CASE went.last = c.n /\ (c.name = "load" => went.named = c.video)
      BY <1>8, <1>9, <3>1, <3>3 DEF IsOwn
    <3> QED BY <1>5, <3>2, <3>3
  <2>6. \A q \in Pages : pages'[q].last = action'.n /\ action'.kind = "load"
                           => pages'[q].named = action'.item.video
    BY <1>9, <2>1, <2>2, <2>5 DEF PlayerInv, SentOK
  <2>7. /\ action'.n = sequence' /\ 0 < sequence'
        /\ action'.at # "sent" => action'.n <= acknowledged'
    BY <2>1, <2>2 DEF PlayerInv, SentOK
  <2> QED BY <2>3, <2>4, <2>6, <2>7 DEF SentOK
<1> QED BY <1>11, <1>13, <1>14, <1>15 DEF PlayerInv
-----------------------------------------------------------------------------
(* The theorems.                                                            *)

LEMMA PlayerInitEstablishes == PlayerInit => PlayerInv
<1> SUFFICES ASSUME PlayerInit PROVE PlayerInv
  OBVIOUS
<1>1. ListOK
  <2> DEFINE video == CHOOSE v \in Videos : TRUE
             full == [i \in 1 .. Limit |-> Item(i, video)]
  <2>1. cursor \in 0 .. Len(items) /\ added = Len(items) /\ items \in {<<>>, full}
    BY DEF PlayerInit
  <2>2. CASE items = <<>>
    <3>1. items \in Seq(ListItems) /\ Len(items) = 0 BY <2>2
    <3> QED BY <2>1, <3>1, YoutubePlayerAssumption DEF ListOK
  <2>3. CASE items = full
    <3>1. video \in Videos BY YoutubePlayerAssumption
    <3> HIDE DEF video
    <3>2. Limit \in Nat BY YoutubePlayerAssumption
    <3>3. full \in [1 .. Limit -> ListItems] BY <3>1, <3>2 DEF Item, ListItems
    <3>4. /\ items \in Seq(ListItems) /\ DOMAIN items = 1 .. Limit
          /\ \A i \in 1 .. Limit : items[i].id = i
      <4>1. full \in Seq(ListItems) BY <3>2, <3>3, SeqDef
      <4>2. DOMAIN full = 1 .. Limit OBVIOUS
      <4>3. \A i \in 1 .. Limit : full[i].id = i BY DEF Item
      <4> QED BY <2>3, <4>1, <4>2, <4>3
    <3>5. Len(items) = Limit BY <3>2, <3>4, LenProperties
    <3> QED BY <2>1, <3>2, <3>4, <3>5 DEF ListOK
  <2> QED BY <2>1, <2>2, <2>3
<1>2. ServiceOK
  <2>1. ActionOK
    <3>1. NoItem \in [id: Nat, video: VideoOrNone] BY DEF NoItem, Item, VideoOrNone
    <3>2. action = [kind |-> "none", item |-> NoItem, n |-> 0, at |-> "idle"]
      BY DEF PlayerInit, Idle
    <3> QED BY <3>1, <3>2 DEF ActionOK, ActionRecords, ActionKinds, Queueing
  <2> QED BY <2>1 DEF PlayerInit, ServiceOK, ActionOK, VideoOrNone
<1>3. PagesOK BY UnbornIsTyped DEF PlayerInit, PagesOK
<1>4. \A p \in Pages : pages[p].answer = {} /\ pages[p].last = 0 /\ pages[p].acks = {}
  BY DEF PlayerInit, Unborn
<1>5. ChannelOK BY <1>4 DEF PlayerInit, ChannelOK
<1>6. AcksOK BY <1>4 DEF PlayerInit, AcksOK
<1>7. SentOK BY DEF PlayerInit, SentOK, Sent, Idle
<1> QED BY <1>1, <1>2, <1>3, <1>5, <1>6, <1>7 DEF PlayerInv

\* Every step, of the service, of the channel and of a page.
LEMMA PlayerStepPreserves == PlayerInv /\ [PlayerNext]_playerVars => PlayerInv'
<1> SUFFICES ASSUME PlayerInv, [PlayerNext]_playerVars PROVE PlayerInv'
  OBVIOUS
<1>1. CASE \E v \in Videos : Add(v) \/ BeginPlay(v) \/ BeginCold("load", v)
  <2> PICK v \in Videos : Add(v) \/ BeginPlay(v) \/ BeginCold("load", v) BY <1>1
  <2>1. v \in VideoOrNone BY DEF VideoOrNone
  <2> QED BY <2>1, AddPreserves, BeginPlayPreserves, BeginColdPreserves
<1>2. CASE BeginCold("open", Nothing)
  <2>1. Nothing \in VideoOrNone BY DEF VideoOrNone
  <2> QED BY <1>2, <2>1, BeginColdPreserves
<1>3. CASE \/ \E i \in 1 .. Len(items) : RemoveItem(i)
           \/ Clear
           \/ \E forward \in BOOLEAN : BeginSkip(forward)
           \/ \E kind \in {"play", "pause"} : BeginTransport(kind)
  BY <1>3, RemoveItemPreserves, ClearPreserves, BeginSkipPreserves, BeginTransportPreserves
<1>4. CASE StopWaiting \/ Enqueue \/ Send \/ Expire \/ GoStale
  BY <1>4, StopWaitingPreserves, EnqueuePreserves, SendPreserves, ExpirePreserves,
     GoStalePreserves
<1>5. CASE Acknowledged \/ NotAcknowledged \/ ConfirmVideo \/ RefuseError
           \/ Answer \/ NotObserved
  BY <1>5, SentStepPreserves
<1>6. CASE \E p \in Pages : PageActs(p)
  BY <1>6, RegisterPreserves, ReportArrivesPreserves, CollectPreserves, AckArrivesPreserves,
     RunCommandPreserves, ApiReadyPreserves, YoutubeFollowsPreserves, BeatPreserves DEF PageActs
<1>7. CASE \E p \in Pages : \/ Click(p) \/ OpenAgain(p)
                            \/ \E arrives \in BOOLEAN : Close(p, arrives)
  BY <1>7, ClickPreserves, OpenAgainPreserves, ClosePreserves
<1>8. CASE UNCHANGED playerVars
  <2>1. UNCHANGED <<queueVars, serviceVars, channelVars, pageVars>> BY <1>8 DEF playerVars
  <2> QED BY <2>1, PagesStay, ChannelIsTyped, QuietStep DEF channelVars, pageVars
<1> QED BY <1>1, <1>2, <1>3, <1>4, <1>5, <1>6, <1>7, <1>8 DEF PlayerNext

\* The list, the action, the channel and the pages agree on every command in every
\* reachable state, for any number of pages, videos, actions and interferences.
THEOREM PlayerInvariant == PlayerSpec => []PlayerInv
BY PlayerInitEstablishes, PlayerStepPreserves, PTL DEF PlayerSpec

\* An acknowledgement counts for the command it is waited for with, however many
\* pages were superseded, closed or late in between (channel.py, acknowledge).
THEOREM ChannelStaysSound == PlayerSpec => []ChannelIsSound
<1>1. PlayerInv => PlayerTypeOK
  <2> SUFFICES ASSUME PlayerInv PROVE PlayerTypeOK
    OBVIOUS
  <2>1. \A i, j \in DOMAIN items : items[i].id = items[j].id => i = j
    <3>1. DOMAIN items = 1 .. Len(items) BY LenProperties DEF PlayerInv, ListOK
    <3> QED BY <3>1 DEF PlayerInv, ListOK
  <2>2. \A p \in Pages : pages[p].last <= sequence /\ pages[p].state \in States
    BY PageIsTyped DEF PageRecords, PlayerInv, AcksOK
  <2>3. acknowledged <= sequence BY DEF PlayerInv, AcksOK, ChannelOK
  <2> QED BY <2>1, <2>2, <2>3 DEF PlayerTypeOK, PlayerInv, ListOK, ServiceOK, ChannelOK
<1>2. PlayerInv => AcknowledgedWasRun
  <2> SUFFICES ASSUME PlayerInv, action.at \in {"identity", "error", "state"}
               PROVE  \E p \in Pages :
                         /\ pages[p].last = action.n
                         /\ action.kind = "load" => pages[p].named = action.item.video
    BY DEF AcknowledgedWasRun
  <2>1. Sent /\ action.at # "sent" BY DEF Sent
  <2>2. action.n = sequence /\ 0 < sequence /\ action.n <= acknowledged
    BY <2>1 DEF PlayerInv, SentOK
  <2>3. sequence \in Nat /\ acknowledged \in Nat
    BY DEF PlayerInv, ChannelOK, AcksOK
  <2>4. PICK p \in Pages : acknowledged <= pages[p].last
    BY <2>2, <2>3 DEF PlayerInv, AcksOK
  <2>5. pages[p].last \in Nat /\ pages[p].last <= sequence
    BY PageIsTyped DEF PageRecords, PlayerInv, AcksOK
  <2>6. pages[p].last = action.n BY <2>2, <2>3, <2>4, <2>5
  <2>7. action.kind = "load" => pages[p].named = action.item.video
    BY <2>1, <2>6 DEF PlayerInv, SentOK
  <2> QED BY <2>6, <2>7
<1>3. PlayerInv => ChannelIsSound BY <1>1, <1>2 DEF ChannelIsSound
<1> QED BY <1>3, PlayerInvariant, PTL
-----------------------------------------------------------------------------
(* The list is kept.                                                        *)

\* What is coming, place by place.
LEMMA ComingSays ==
    ASSUME NEW S, NEW s \in Seq(S), NEW k \in 0 .. Len(s), NEW t,
           t = SubSeq(s, k + 1, Len(s))
    PROVE  /\ t \in Seq(S) /\ Len(t) = Len(s) - k
           /\ \A i \in 1 .. Len(s) - k : t[i] = s[k + i]
<1> DEFINE m == k + 1
<1>1. m \in Int /\ Len(s) \in Int /\ \A i \in m .. Len(s) : s[i] \in S OBVIOUS
<1>2. t = SubSeq(s, m, Len(s)) OBVIOUS
<1> HIDE DEF m
<1>3. /\ t \in Seq(S) /\ Len(t) = IF m <= Len(s) THEN Len(s) - m + 1 ELSE 0
      /\ \A i \in 1 .. Len(s) - m + 1 : t[i] = s[m + i - 1]
  BY <1>1, <1>2, SubSeqProperties
<1>4. Len(t) = Len(s) - k BY <1>3 DEF m
<1>5. ASSUME NEW i \in 1 .. Len(s) - k PROVE t[i] = s[k + i]
  <2>1. i \in 1 .. Len(s) - m + 1 /\ m + i - 1 = k + i BY DEF m
  <2> QED BY <1>3, <2>1
<1> QED BY <1>3, <1>4, <1>5

\* A list that goes on as another does is prefixed by it.
LEMMA PrefixSays ==
    ASSUME NEW S, NEW s \in Seq(S), NEW t \in Seq(S), Len(s) <= Len(t),
           \A i \in 1 .. Len(s) : s[i] = t[i]
    PROVE  IsPrefix(s, t)
<1> DEFINE a == SubSeq(s, 1, Len(s))
           b == SubSeq(t, 1, Len(s))
<1>1. a \in Seq(S) /\ Len(a) = Len(s) /\ \A i \in 1 .. Len(s) : a[i] = s[i]
  BY SubSeqProperties
<1>2. b \in Seq(S) /\ Len(b) = Len(s) /\ \A i \in 1 .. Len(s) : b[i] = t[i]
  BY SubSeqProperties
<1> HIDE DEF a, b
<1>3. a = b BY <1>1, <1>2, SeqEqual
<1> QED BY <1>3 DEF IsPrefix, a, b

\* What is coming, of the list before and after the step.
LEMMA BothComing ==
    ASSUME PlayerInv, PlayerInv'
    PROVE  /\ Upcoming \in Seq(ListItems) /\ Len(Upcoming) = Len(items) - cursor
           /\ \A i \in 1 .. Len(items) - cursor : Upcoming[i] = items[cursor + i]
           /\ Upcoming' \in Seq(ListItems) /\ Len(Upcoming') = Len(items') - cursor'
           /\ \A i \in 1 .. Len(items') - cursor' : Upcoming'[i] = items'[cursor' + i]
           /\ cursor \in 0 .. Len(items) /\ cursor' \in 0 .. Len(items')
           /\ items \in Seq(ListItems) /\ items' \in Seq(ListItems)
<1>1. /\ cursor \in 0 .. Len(items) /\ cursor' \in 0 .. Len(items')
      /\ items \in Seq(ListItems) /\ items' \in Seq(ListItems)
  BY DEF PlayerInv, ListOK
<1> DEFINE u == Upcoming
           w == Upcoming'
<1>2. /\ u = SubSeq(items, cursor + 1, Len(items))
      /\ w = SubSeq(items', cursor' + 1, Len(items'))
  BY DEF Upcoming
<1> HIDE DEF u, w
<1>3. /\ u \in Seq(ListItems) /\ Len(u) = Len(items) - cursor
      /\ \A i \in 1 .. Len(items) - cursor : u[i] = items[cursor + i]
  BY <1>1, <1>2, ComingSays
<1>4. /\ w \in Seq(ListItems) /\ Len(w) = Len(items') - cursor'
      /\ \A i \in 1 .. Len(items') - cursor' : w[i] = items'[cursor' + i]
  <2> DEFINE list == items'
             at == cursor'
  <2>1. /\ list \in Seq(ListItems) /\ at \in 0 .. Len(list)
        /\ w = SubSeq(list, at + 1, Len(list))
    BY <1>1, <1>2
  <2> HIDE DEF list, at
  <2>2. /\ w \in Seq(ListItems) /\ Len(w) = Len(list) - at
        /\ \A i \in 1 .. Len(list) - at : w[i] = list[at + i]
    BY <2>1, ComingSays
  <2> QED BY <2>2 DEF list, at
<1> QED BY <1>1, <1>3, <1>4 DEF u, w

\* A step after which what was coming is still coming.
LEMMA StillComing ==
    ASSUME PlayerInv, PlayerInv', Len(items) <= Len(items'),
           Len(items) - cursor <= Len(items') - cursor',
           \A i \in 1 .. Len(items) - cursor : items'[cursor' + i] = items[cursor + i]
    PROVE  KeepsUpcoming
<1> DEFINE u == Upcoming
           w == Upcoming'
<1>1. /\ u \in Seq(ListItems) /\ Len(u) = Len(items) - cursor
      /\ \A i \in 1 .. Len(items) - cursor : u[i] = items[cursor + i]
      /\ w \in Seq(ListItems) /\ Len(w) = Len(items') - cursor'
      /\ \A i \in 1 .. Len(items') - cursor' : w[i] = items'[cursor' + i]
      /\ items \in Seq(ListItems) /\ items' \in Seq(ListItems)
      /\ cursor \in 0 .. Len(items) /\ cursor' \in 0 .. Len(items')
  BY BothComing
<1> HIDE DEF u, w
<1>4. \A i \in 1 .. Len(items) - cursor : i \in 1 .. Len(items') - cursor' BY <1>1
<1>2. Len(u) <= Len(w) /\ \A i \in 1 .. Len(u) : u[i] = w[i] BY <1>1, <1>4
<1>3. IsPrefix(u, w) BY <1>1, <1>2, PrefixSays
<1> QED BY <1>3 DEF KeepsUpcoming, u, w

\* A step that leaves the list and the cursor alone.
LEMMA NothingMoves ==
    ASSUME PlayerInv, PlayerInv', UNCHANGED queueVars PROVE KeepsUpcoming
BY StillComing DEF queueVars, PlayerInv, ListOK

\* Play now keeps what is coming, on a full list too.
LEMMA PlayNowKeeps ==
    ASSUME PlayerInv, PlayerInv', NEW v \in Videos, PlayNow(v) PROVE KeepsUpcoming
<1> DEFINE e == Item(added + 1, v)
<1>1. PICK kept \in Seq(ListItems), k \in Nat : Puts(v, kept, k)
  BY PlayNowSays DEF PlayerInv
<1>2. e \in ListItems BY DEF PlayerInv, ListOK, ListItems, Item
<1>3. k \in 1 .. Len(kept) + 1 /\ items' = InsertAt(kept, k, e) /\ cursor' = k
  BY <1>1 DEF Puts
<1> HIDE DEF e
<1>4. /\ items' \in Seq(ListItems) /\ Len(items') = Len(kept) + 1
      /\ \A i \in 1 .. k - 1 : items'[i] = kept[i]
      /\ items'[k] = e
      /\ \A i \in k .. Len(kept) : items'[i + 1] = kept[i]
  <2> DEFINE list == items'
  <2>1. e \in ListItems /\ k \in 1 .. Len(kept) + 1 /\ list = InsertAt(kept, k, e)
    BY <1>2, <1>3
  <2> HIDE DEF list
  <2>2. /\ list \in Seq(ListItems) /\ Len(list) = Len(kept) + 1
        /\ \A i \in 1 .. k - 1 : list[i] = kept[i]
        /\ list[k] = e
        /\ \A i \in k .. Len(kept) : list[i + 1] = kept[i]
    BY <2>1, InsertSays
  <2> QED BY <2>2 DEF list
<1>5. CASE kept = items /\ k = cursor + 1
  <2>1. cursor \in 0 .. Len(items) BY DEF PlayerInv, ListOK
  <2>2. ASSUME NEW i \in 1 .. Len(items) - cursor
        PROVE  items'[cursor' + i] = items[cursor + i]
    <3>1. cursor + i \in k .. Len(kept) /\ (cursor + i) + 1 = cursor' + i
      BY <1>3, <1>5, <2>1
    <3> QED BY <1>4, <1>5, <3>1
  <2>3. Len(items) <= Len(items') /\ Len(items) - cursor <= Len(items') - cursor'
    BY <1>3, <1>4, <1>5, <2>1
  <2> QED BY <2>2, <2>3, StillComing
<1>6. CASE kept = Tail(items) /\ k = cursor /\ items # <<>>
  <2>1. /\ cursor \in 0 .. Len(items) /\ Len(kept) = Len(items) - 1
        /\ \A i \in 1 .. Len(kept) : kept[i] = items[i + 1]
    BY <1>6, HeadTailProperties DEF PlayerInv, ListOK
  <2>2. ASSUME NEW i \in 1 .. Len(items) - cursor
        PROVE  items'[cursor' + i] = items[cursor + i]
    <3> DEFINE j == cursor + i - 1
    <3>1. j \in k .. Len(kept) /\ j \in 1 .. Len(kept) /\ j + 1 = cursor + i
      BY <1>3, <1>6, <2>1
    <3> HIDE DEF j
    <3>2. items'[j + 1] = kept[j] /\ kept[j] = items[j + 1] BY <1>4, <2>1, <3>1
    <3>3. cursor' + i = j + 1 BY <1>3, <1>6, <3>1
    <3> QED BY <3>1, <3>2, <3>3
  <2>3. Len(items) <= Len(items') /\ Len(items) - cursor <= Len(items') - cursor'
    BY <1>3, <1>4, <1>6, <2>1
  <2> QED BY <2>2, <2>3, StillComing
<1> QED BY <1>1, <1>5, <1>6 DEF Puts

\* What is added comes last.
LEMMA AddKeeps ==
    ASSUME PlayerInv, PlayerInv', NEW v \in Videos, Add(v) PROVE KeepsUpcoming
<1> DEFINE e == Item(added + 1, v)
<1>1. e \in ListItems BY DEF PlayerInv, ListOK, ListItems, Item
<1>2. items' = Append(items, e) /\ cursor' = cursor BY DEF Add
<1> HIDE DEF e
<1>3. items \in Seq(ListItems) /\ cursor \in 0 .. Len(items) BY DEF PlayerInv, ListOK
<1>4. Len(items') = Len(items) + 1 /\ \A i \in 1 .. Len(items) : items'[i] = items[i]
  BY <1>1, <1>2, <1>3, AppendProperties
<1>5. \A i \in 1 .. Len(items) - cursor : cursor + i \in 1 .. Len(items) BY <1>3
<1> QED BY <1>2, <1>3, <1>4, <1>5, StillComing

\* The two moves of the cursor.
LEMMA SkipKeeps ==
    ASSUME PlayerInv, PlayerInv', Advance \/ Retreat PROVE KeepsUpcoming
<1> DEFINE u == Upcoming
           w == Upcoming'
<1>1. /\ u \in Seq(ListItems) /\ Len(u) = Len(items) - cursor
      /\ \A i \in 1 .. Len(items) - cursor : u[i] = items[cursor + i]
      /\ w \in Seq(ListItems) /\ Len(w) = Len(items') - cursor'
      /\ \A i \in 1 .. Len(items') - cursor' : w[i] = items'[cursor' + i]
      /\ cursor \in 0 .. Len(items) /\ items \in Seq(ListItems)
  BY BothComing
<1>2. items' = items BY DEF Advance, Retreat
<1> HIDE DEF u, w
<1>3. CASE Advance
  <2> DEFINE one == <<items[cursor + 1]>>
  <2>1. cursor' = cursor + 1 /\ cursor < Len(items) BY <1>3 DEF Advance
  <2>2. /\ one \in Seq(ListItems) /\ Len(one) = 1 /\ one[1] = items[cursor + 1]
    BY <1>1, <2>1
  <2>3. At(items', cursor') = one BY <1>1, <1>2, <2>1 DEF At
  <2> HIDE DEF one
  <2>4. /\ one \o w \in Seq(ListItems) /\ Len(one \o w) = Len(one) + Len(w)
        /\ \A i \in 1 .. Len(one) + Len(w) :
              (one \o w)[i] = IF i <= Len(one) THEN one[i] ELSE w[i - Len(one)]
    BY <1>1, <2>2, ConcatProperties
  <2>5. Len(one \o w) = Len(u) BY <1>1, <1>2, <2>1, <2>2, <2>4
  <2>6. ASSUME NEW i \in 1 .. Len(u) PROVE u[i] = (one \o w)[i]
    <3>1. CASE i = 1 BY <1>1, <2>2, <2>4, <2>5, <3>1
    <3>2. CASE i # 1
      <4>1. (one \o w)[i] = w[i - 1] BY <1>1, <2>2, <2>4, <2>5, <3>2
      <4>2. i - 1 \in 1 .. Len(items') - cursor' /\ cursor' + (i - 1) = cursor + i
        BY <1>1, <1>2, <2>1, <3>2
      <4>3. w[i - 1] = items[cursor + i] BY <1>1, <1>2, <4>2
      <4> QED BY <1>1, <4>1, <4>3
    <3> QED BY <3>1, <3>2
  <2>7. u = one \o w BY <1>1, <2>4, <2>5, <2>6, SeqEqual
  <2> QED BY <1>1, <1>2, <2>3, <2>7 DEF KeepsUpcoming, u, w
<1>4. CASE Retreat
  <2> DEFINE one == <<items[cursor]>>
  <2>1. cursor' = cursor - 1 /\ cursor > 1 BY <1>4 DEF Retreat
  <2>2. /\ one \in Seq(ListItems) /\ Len(one) = 1 /\ one[1] = items[cursor]
    BY <1>1, <2>1
  <2>3. At(items, cursor) = one BY <1>1, <2>1 DEF At
  <2> HIDE DEF one
  <2>4. /\ one \o u \in Seq(ListItems) /\ Len(one \o u) = Len(one) + Len(u)
        /\ \A i \in 1 .. Len(one) + Len(u) :
              (one \o u)[i] = IF i <= Len(one) THEN one[i] ELSE u[i - Len(one)]
    BY <1>1, <2>2, ConcatProperties
  <2>5. Len(one \o u) = Len(w) BY <1>1, <1>2, <2>1, <2>2, <2>4
  <2>6. ASSUME NEW i \in 1 .. Len(w) PROVE w[i] = (one \o u)[i]
    <3>0. w[i] = items[cursor - 1 + i] BY <1>1, <1>2, <2>1
    <3>1. CASE i = 1
      <4>1. cursor - 1 + i = cursor BY <1>1, <3>1
      <4> QED BY <2>2, <2>4, <2>5, <3>0, <3>1, <4>1
    <3>2. CASE i # 1
      <4>1. (one \o u)[i] = u[i - 1] BY <1>1, <2>2, <2>4, <2>5, <3>2
      <4>2. i - 1 \in 1 .. Len(items) - cursor /\ cursor + (i - 1) = cursor - 1 + i
        BY <1>1, <1>2, <2>1, <3>2
      <4> QED BY <1>1, <3>0, <4>1, <4>2
    <3> QED BY <3>1, <3>2
  <2>7. w = one \o u BY <1>1, <2>4, <2>5, <2>6, SeqEqual
  <2> QED BY <1>1, <1>2, <2>3, <2>7 DEF KeepsUpcoming, u, w
<1> QED BY <1>3, <1>4

\* A removal leaves the cursor on its item, or removes that one.
LEMMA RemoveItemKeeps ==
    ASSUME PlayerInv, PlayerInv', NEW i \in 1 .. Len(items), RemoveItem(i)
    PROVE  KeepsUpcoming
<1>1. /\ Len(items') = Len(items) - 1
      /\ \A j \in 1 .. i - 1 : items'[j] = items[j]
      /\ \A j \in i .. Len(items') : items'[j] = items[j + 1]
  BY RemoveSays DEF PlayerInv, ListOK, RemoveItem
<1>2. Len(items) \in Nat /\ cursor \in 0 .. Len(items) /\ ~ (Len(items') >= Len(items))
  BY <1>1 DEF PlayerInv, ListOK
<1>3. CASE i < cursor
  <2>1. cursor' = cursor - 1 BY <1>3 DEF RemoveItem
  <2>2. cursor - 1 \in i .. Len(items') /\ (cursor - 1) + 1 = cursor /\ cursor - 1 # 0 /\ cursor # 0
    BY <1>1, <1>2, <1>3
  <2>3. items'[cursor'] = items[cursor] BY <1>1, <2>1, <2>2
  <2>4. At(items', cursor') = At(items, cursor) BY <2>1, <2>2, <2>3 DEF At
  <2> QED BY <1>2, <2>4 DEF KeepsUpcoming
<1>4. CASE cursor < i
  <2>1. cursor' = cursor BY <1>2, <1>4 DEF RemoveItem
  <2>2. cursor # 0 => items'[cursor] = items[cursor] BY <1>1, <1>2, <1>4
  <2>3. At(items', cursor') = At(items, cursor) BY <2>1, <2>2 DEF At
  <2> QED BY <1>2, <2>3 DEF KeepsUpcoming
<1>5. CASE i = cursor
  <2>1. ASSUME NEW j \in 1 .. Len(items') PROVE items'[j] # items[cursor]
    <3> DEFINE old == IF j < i THEN j ELSE j + 1
    <3>1. old \in 1 .. Len(items) /\ old # cursor /\ items'[j] = items[old]
      BY <1>1, <1>2, <1>5
    <3> HIDE DEF old
    <3>2. items[old].id # items[cursor].id BY <1>2, <1>5, <3>1 DEF PlayerInv, ListOK
    <3> QED BY <3>1, <3>2
  <2>2. DOMAIN items' = 1 .. Len(items') BY LenProperties DEF PlayerInv, ListOK
  <2>3. items[cursor] \notin ToSet(items') BY <2>1, <2>2 DEF ToSet
  <2> QED BY <1>2, <2>3 DEF KeepsUpcoming
<1> QED BY <1>2, <1>3, <1>4, <1>5

\* A clearing leaves nothing.
LEMMA ClearKeeps == ASSUME PlayerInv, Clear PROVE KeepsUpcoming
<1>1. items' = <<>> /\ items # <<>> /\ items \in Seq(ListItems)
  BY DEF Clear, PlayerInv, ListOK
<1>2. Len(items) \in Nat /\ Len(items) # 0 /\ Len(items') = 0
  BY <1>1, EmptySeq
<1> QED BY <1>1, <1>2 DEF KeepsUpcoming

\* No step but a removal or a clearing drops or reorders what is coming, and a
\* removal leaves the cursor on the item it stood on, unless that is the one
\* removed, for every bound of the list (queue.py).
THEOREM UpcomingStaysKept == PlayerSpec => UpcomingIsKept
<1>1. PlayerInv /\ PlayerInv' /\ [PlayerNext]_playerVars => [KeepsUpcoming]_playerVars
  <2> SUFFICES ASSUME PlayerInv, PlayerInv', PlayerNext PROVE KeepsUpcoming
    OBVIOUS
  <2>1. CASE \E v \in Videos : Add(v) BY <2>1, AddKeeps
  <2>2. CASE \E i \in 1 .. Len(items) : RemoveItem(i) BY <2>2, RemoveItemKeeps
  <2>3. CASE Clear BY <2>3, ClearKeeps
  <2>4. CASE \E forward \in BOOLEAN : BeginSkip(forward)
    BY <2>4, SkipKeeps DEF BeginSkip
  <2>5. CASE Enqueue
    <3>1. action.item.video \in Videos
      BY <2>5 DEF Enqueue, PlayerInv, ServiceOK, Queueing
    <3> QED BY <2>5, <3>1, PlayNowKeeps, NothingMoves DEF Enqueue
  <2>6. CASE \/ \E v \in Videos : BeginPlay(v) \/ BeginCold("load", v)
             \/ BeginCold("open", Nothing)
             \/ \E kind \in {"play", "pause"} : BeginTransport(kind)
             \/ StopWaiting \/ Send \/ Acknowledged \/ NotAcknowledged
             \/ ConfirmVideo \/ RefuseError \/ Answer \/ NotObserved
    BY <2>6, NothingMoves
       DEF BeginPlay, BeginCold, BeginTransport, StopWaiting, Send, Acknowledged,
           NotAcknowledged, ConfirmVideo, RefuseError, Answer, NotObserved
  <2>7. CASE Expire \/ GoStale \/ \E p \in Pages : \/ Register(p) \/ ReportArrives(p)
                 \/ Collect(p) \/ AckArrives(p) \/ \E arrives \in BOOLEAN : Close(p, arrives)
    BY <2>7, NothingMoves
       DEF Expire, GoStale, Register, ReportArrives, Collect, AckArrives, Close, PageStep
  <2>8. CASE \E p \in Pages : \/ RunCommand(p) \/ ApiReady(p) \/ YoutubeFollows(p) \/ Beat(p)
                              \/ Click(p) \/ OpenAgain(p)
    BY <2>8, NothingMoves
       DEF RunCommand, ApiReady, YoutubeFollows, Beat, Click, OpenAgain, PageOnly
  <2> QED BY <2>1, <2>2, <2>3, <2>4, <2>5, <2>6, <2>7, <2>8 DEF PlayerNext, PageActs
<1>2. PlayerSpec => [][PlayerNext]_playerVars BY DEF PlayerSpec
<1> QED BY <1>1, <1>2, PlayerInvariant, PTL DEF UpcomingIsKept
=============================================================================
