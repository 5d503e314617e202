------------------------------ MODULE TrustLedger ------------------------------
(***************************************************************************)
(* Trust Core's approval ledger (.cofferdam/approvals.jsonl): one process   *)
(* per approve command and one per consume, an advisory lock, an append     *)
(* that may tear and a barrier that may fail, the death of a process at any *)
(* point, a loss of power, a clock that is set back, and a person who edits *)
(* the target while another reads what is to be approved.                   *)
(*                                                                          *)
(* One patch is proposed, so a binding is the content of its target         *)
(* (dryrun.py).  The id of an approval is the name of the process that      *)
(* mints it.  A barrier that succeeds covers what one before it did not.    *)
(***************************************************************************)
EXTENDS Naturals, Sequences, SequencesExt, FiniteSets

CONSTANTS Approvers, Consumers, Contents, None,
          Lifetime,      \* TTL_SECONDS, in ticks of the clock
          MaxEntries,    \* MAX_ENTRIES
          MaxTime,       \* bound: the last tick
          MaxRollbacks, MaxLosses, MaxEdits   \* bounds: of each, how many

VARIABLES
    target,              \* the content of the target
    now,                 \* the wall clock
    ledger, durable,     \* its lines, and how many of them survive a loss of power
    anchored,            \* so does the directory it is in: it is older than this run
    holder,              \* of the lock
    procs,
    rollbacks, losses, edits

disk == <<ledger, durable, anchored>>
faults == <<rollbacks, losses, edits>>
vars == <<target, now, disk, holder, procs, faults>>

Processes == Approvers \cup Consumers

\* What an approve that approved nothing may say.
Refusals == {"unreadable", "duplicate", "declined", "changed", "failed"}

ASSUME TrustLedgerAssumption ==
    /\ Approvers \cap Consumers = {}
    /\ None \notin Processes \cup Refusals \cup {"recorded", "consumed", "indeterminate"}
    /\ Lifetime \in Nat /\ MaxTime \in Nat

Approval(a) == [type |-> "approval", id |-> a, bound |-> procs[a].built,
                created |-> procs[a].time]
\* The fold has no use for the time of a consumption.
Consumption(c) == [type |-> "consumption", id |-> procs[c].id,
                   bound |-> procs[c].bound, created |-> 0]
Torn == [type |-> "torn", id |-> None, bound |-> None, created |-> 0]

Init == /\ target \in Contents /\ now = 0
        /\ ledger = <<>> /\ durable = 0 /\ anchored \in BOOLEAN
        /\ holder = None
        /\ procs = [p \in Processes |-> [at |-> "idle", bound |-> None, built |-> None,
                                         time |-> 0, id |-> None, told |-> None]]
        /\ rollbacks = 0 /\ losses = 0 /\ edits = 0
-----------------------------------------------------------------------------
(* What the lines say.                                                      *)

Lines(type) == {l \in ToSet(ledger) : l.type = type}
ConsumedIds == {l.id : l \in Lines("consumption")}

\* fold_active, for one binding.
Active(bound, time) ==
    {l \in Lines("approval") : /\ l.bound = bound
                               /\ l.id \notin ConsumedIds
                               /\ l.created <= time /\ time < l.created + Lifetime}

\* read_entries and the fold fail closed: on a torn line, too many lines, or two
\* active approvals of any binding.
Readable(time) ==
    /\ Lines("torn") = {}
    /\ Len(ledger) <= MaxEntries
    /\ \A b \in Contents : Cardinality(Active(b, time)) <= 1

Goto(p, at) == procs' = [procs EXCEPT ![p].at = at]
Tell(p, answer) ==
    procs' = [procs EXCEPT ![p].at = "done", ![p].told = answer, ![p].time = 0]
-----------------------------------------------------------------------------
(* approve: build and show the change, read one confirmation, mint.         *)

\* The early look at the ledger spares a person the reading; it decides nothing.
Show(a) ==
    /\ procs[a].at = "idle"
    /\ \/ /\ holder = None
          /\ CASE ~ Readable(now) -> Tell(a, "unreadable")
               [] Readable(now) /\ Active(target, now) # {} -> Tell(a, "duplicate")
               [] OTHER -> procs' = [procs EXCEPT ![a].at = "asked", ![a].bound = target]
       \/ holder # None /\ Tell(a, "unreadable")
    /\ UNCHANGED <<target, now, disk, holder, faults>>

Confirm(a) ==
    /\ procs[a].at = "asked"
    /\ \/ Goto(a, "confirmed")
       \/ Tell(a, "declined")
    /\ UNCHANGED <<target, now, disk, holder, faults>>

\* Definitions named ...Mutant are not part of the specification: each is the
\* definition after it with a slip a programmer could make, and some property
\* must notice it.

\* _mint, under the lock: the change is built again and must be the one that was
\* confirmed, and the fold must not know an active approval of it.
Mint(a) ==
    /\ procs[a].at = "confirmed" /\ holder = None
    /\ CASE target # procs[a].bound -> Tell(a, "changed") /\ UNCHANGED holder
         [] target = procs[a].bound /\ ~ Readable(now) ->
              Tell(a, "failed") /\ UNCHANGED holder
         [] target = procs[a].bound /\ Readable(now) /\ Active(target, now) # {} ->
              Tell(a, "duplicate") /\ UNCHANGED holder
         [] OTHER -> /\ holder' = a
                     /\ procs' = [procs EXCEPT ![a].at = "writing", ![a].time = now,
                                                ![a].built = target]
    /\ UNCHANGED <<target, now, disk, faults>>
-----------------------------------------------------------------------------
(* consume_approval: the clock is read before the lock is waited for.       *)

Begin(c) ==
    /\ procs[c].at = "idle"
    /\ \E b \in Contents :
          procs' = [procs EXCEPT ![c].at = "confirmed", ![c].bound = b, ![c].time = now]
    /\ UNCHANGED <<target, now, disk, holder, faults>>

\* Mutant: the ledger is folded before the lock is had.
ConsumeMutant(c) ==
    /\ procs[c].at = "confirmed"
    /\ LET found == Active(procs[c].bound, procs[c].time) IN
       IF Readable(procs[c].time) /\ found # {}
       THEN /\ holder' = c
            /\ \E l \in found :
                  procs' = [procs EXCEPT ![c].at = "writing", ![c].id = l.id]
       ELSE Tell(c, "failed") /\ UNCHANGED holder
    /\ UNCHANGED <<target, now, disk, faults>>

Consume(c) ==
    /\ procs[c].at = "confirmed" /\ holder = None
    /\ LET found == Active(procs[c].bound, procs[c].time) IN
       IF Readable(procs[c].time) /\ found # {}
       THEN /\ holder' = c
            /\ \E l \in found :
                  procs' = [procs EXCEPT ![c].at = "writing", ![c].id = l.id]
       ELSE Tell(c, "failed") /\ UNCHANGED holder
    /\ UNCHANGED <<target, now, disk, faults>>

\* Nobody waits for the lock longer than LOCK_TIMEOUT_SECONDS.
LockTimeout(p) ==
    /\ procs[p].at = "confirmed" /\ holder # None
    /\ Tell(p, "failed")
    /\ UNCHANGED <<target, now, disk, holder, faults>>
-----------------------------------------------------------------------------
(* _append: every byte, then the barrier, then the answer.                  *)

Line(p) == IF p \in Approvers THEN Approval(p) ELSE Consumption(p)
Success(p) == IF p \in Approvers THEN "recorded" ELSE "consumed"
Doubt(p) == IF p \in Approvers THEN "indeterminate" ELSE "failed"

Write(p) ==
    /\ procs[p].at = "writing"
    /\ ledger' = Append(ledger, Line(p))
    /\ Goto(p, "written")
    /\ UNCHANGED <<target, now, durable, anchored, holder, faults>>

\* Nothing, or a part of the line, reached the file.
WriteFails(p) ==
    /\ procs[p].at = "writing"
    /\ ledger' \in {ledger, Append(ledger, Torn)}
    /\ Tell(p, "failed")
    /\ holder' = None
    /\ UNCHANGED <<target, now, durable, anchored, faults>>

\* Mutant: the barrier is left to the system.
SyncMutant(p) ==
    /\ procs[p].at = "written"
    /\ Tell(p, Success(p))
    /\ holder' = None
    /\ UNCHANGED <<target, now, disk, faults>>

Sync(p) ==
    /\ procs[p].at = "written"
    /\ durable' = Len(ledger)
    /\ Tell(p, Success(p))
    /\ holder' = None
    /\ UNCHANGED <<target, now, ledger, anchored, faults>>

SyncFails(p) ==
    /\ procs[p].at = "written"
    /\ Tell(p, Doubt(p))
    /\ holder' = None
    /\ UNCHANGED <<target, now, disk, faults>>

\* After the barrier the file or the lock may still fail to close.
CloseFails(p) ==
    /\ procs[p].at = "written"
    /\ durable' = Len(ledger)
    /\ procs' = [procs EXCEPT ![p].at = "unclosed", ![p].told = "failed", ![p].time = 0]
    /\ holder' = None
    /\ UNCHANGED <<target, now, ledger, anchored, faults>>
-----------------------------------------------------------------------------
(* Faults.                                                                  *)

Over == {"done", "unclosed", "dead"}

\* The system releases the lock of a process that dies; its write may be torn.
\* One that dies without the lock might as well never go on.
Die(p) ==
    /\ holder = p
    /\ procs' = [procs EXCEPT ![p].at = "dead", ![p].time = 0]
    /\ holder' = None
    /\ ledger' \in {ledger} \cup (IF procs[p].at = "writing"
                                  THEN {Append(ledger, Torn)} ELSE {})
    /\ UNCHANGED <<target, now, durable, anchored, faults>>

\* What no barrier covered may be gone, or torn; the directory itself, whose
\* parent is never synced, may be gone when it was new.
LosePower ==
    /\ losses < MaxLosses /\ losses' = losses + 1
    /\ \/ \E n \in durable .. Len(ledger) :
             /\ ledger' \in {SubSeq(ledger, 1, n)} \cup
                   (IF n < Len(ledger) THEN {Append(SubSeq(ledger, 1, n), Torn)} ELSE {})
             /\ durable' = Len(ledger')
       \/ ~ anchored /\ ledger' = <<>> /\ durable' = 0
    /\ holder' = None
    /\ procs' = [p \in Processes |->
                    IF procs[p].at \in Over \cup {"idle"} THEN procs[p]
                    ELSE [procs[p] EXCEPT !.at = "dead", !.time = 0]]
    /\ UNCHANGED <<target, now, anchored, rollbacks, edits>>

Tick == /\ now < MaxTime
        /\ now' = now + 1
        /\ UNCHANGED <<target, disk, holder, procs, faults>>

SetBack == /\ rollbacks < MaxRollbacks /\ rollbacks' = rollbacks + 1
           /\ \E t \in 0 .. now - 1 : now' = t
           /\ UNCHANGED <<target, disk, holder, procs, losses, edits>>

Edit == /\ edits < MaxEdits /\ edits' = edits + 1
        /\ target' \in Contents \ {target}
        /\ UNCHANGED <<now, disk, holder, procs, rollbacks, losses>>

Next ==
    \/ \E a \in Approvers : Show(a) \/ Confirm(a) \/ Mint(a)
    \/ \E c \in Consumers : Begin(c) \/ Consume(c)
    \/ \E p \in Processes : \/ LockTimeout(p) \/ Write(p) \/ WriteFails(p)
                            \/ Sync(p) \/ SyncFails(p) \/ CloseFails(p) \/ Die(p)
    \/ LosePower \/ Tick \/ SetBack \/ Edit

Spec == Init /\ [][Next]_vars
-----------------------------------------------------------------------------
TypeOK ==
    /\ target \in Contents /\ now \in 0 .. MaxTime
    /\ durable \in 0 .. Len(ledger)
    /\ \A i \in DOMAIN ledger :
          /\ ledger[i].type = "torn" => i = Len(ledger)
          /\ ledger[i].type = "approval" => ledger[i].id \in Approvers
          /\ ledger[i].type = "consumption" => ledger[i].id \in Approvers
    /\ holder \in {None} \cup {p \in Processes : procs[p].at \in {"writing", "written"}}

\* An approval is used once: whatever dies, is torn, is lost with the power or
\* is repeated, no two callers are given the same approval (_consume_approval).
SingleUse ==
    \A c, d \in Consumers :
        /\ procs[c].told = "consumed" /\ procs[d].told = "consumed"
        /\ procs[c].id = procs[d].id
        => c = d

\* What a person or a caller was told stays true: a recorded approval and a
\* consumption that was granted are there after a loss of power, and an approve
\* that said nothing was approved left no approval (approve_command).  A close
\* that fails and a new directory that is lost are the exceptions: see
\* RefusedIsUnwritten and RecordedSurvives.
Stored(type, id) ==
    \E i \in 1 .. durable : ledger[i].type = type /\ ledger[i].id = id

AnswersAreTrue ==
    /\ anchored => \A p \in Processes :
          /\ procs[p].told = "recorded" => Stored("approval", p)
          /\ procs[p].told = "consumed" => Stored("consumption", procs[p].id)
    /\ \A a \in Approvers :
          procs[a].told \in Refusals /\ procs[a].at # "unclosed" =>
              \A l \in Lines("approval") : l.id # a

\* Whoever races, an approval binds what its approver read and confirmed, and
\* unless the clock was set back a binding has one active approval at a time, so
\* the fold is never ambiguous (_mint, fold_active).
ApprovalsAreSound ==
    /\ TypeOK
    /\ \A l \in Lines("approval") : l.bound = procs[l.id].bound
    /\ rollbacks = 0 =>
          \A b \in Contents : Cardinality(Active(b, now)) <= 1

\* What the ledger holds, what was answered and what was confirmed agree.
LedgerIsTrue == AnswersAreTrue /\ ApprovalsAreSound
-----------------------------------------------------------------------------
(* What comments and documents of the repository say, and the code does not *)
(* keep: TLC finds the exception to each when it is checked as an INVARIANT *)
(* or, of the last, a PROPERTY of the run's instance.                       *)

\* "nothing usable was persisted" (approve_command).
RefusedIsUnwritten ==
    \A a \in Approvers : procs[a].told = "failed" =>
        \A l \in Lines("approval") : l.id # a

\* "recorded and flushed": also when the state directory was just created.
RecordedSurvives ==
    \A a \in Approvers : procs[a].told = "recorded" => Stored("approval", a)

\* "append refuses to exceed" the caps.
CapIsKept == Len(ledger) <= MaxEntries

\* An approval expires after five minutes: what is taken under the lock is active.
ConsumedWhileActive ==
    [][\A c \in Consumers : procs[c].at = "confirmed" /\ procs'[c].at = "writing" =>
          \E l \in Lines("approval") : /\ l.id = procs'[c].id
                                       /\ now < l.created + Lifetime]_vars
=============================================================================
