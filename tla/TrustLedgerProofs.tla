-------------------------- MODULE TrustLedgerProofs --------------------------
(***************************************************************************)
(* The inductive invariant of the approval ledger and its theorems, for any *)
(* approvers, consumers, contents, lifetime and number of faults; and, in   *)
(* the second part, those of the replay protection of the bridge, for any   *)
(* request ids, digests, callers and bounds.  The two share no state.       *)
(***************************************************************************)
EXTENDS TrustLedger, RequestClaims, SequenceTheorems, FiniteSetTheorems, TLAPS

Steps == {"idle", "asked", "confirmed", "writing", "written"} \cup Over
Answers == Refusals \cup {"recorded", "consumed", "indeterminate"}

ProcRecords == [at: Steps, bound: Contents \cup {None}, built: Contents \cup {None},
                time: Nat, id: Approvers \cup {None}, told: Answers \cup {None}]
Entries == [type: {"approval", "consumption", "torn"}, id: Approvers \cup {None},
            bound: Contents \cup {None}, created: Nat]

Typed ==
    /\ target \in Contents /\ now \in 0 .. MaxTime
    /\ ledger \in Seq(Entries) /\ durable \in 0 .. Len(ledger) /\ anchored \in BOOLEAN
    /\ holder \in Processes \cup {None}
    /\ procs \in [Processes -> ProcRecords]
    /\ rollbacks \in Nat

Holding(p) == procs[p].at \in {"writing", "written"}

\* Who is between the lock and its release holds it.
HolderOK == \A p \in Processes : Holding(p) <=> holder = p

\* A torn line is the last one, and nobody writes after it.
WholeOK ==
    \A i \in 1 .. Len(ledger) :
        ledger[i].type = "torn" => i = Len(ledger) /\ holder = None

\* A consumption names an approver.  So does an approval; that approver is past
\* its append, read what the line binds, and was not told that nothing was
\* approved, unless the file failed to close.
LinesOK ==
    \A i \in 1 .. Len(ledger) :
        /\ ledger[i].type = "consumption" => ledger[i].id \in Approvers
        /\ ledger[i].type = "approval" =>
             /\ ledger[i].id \in Approvers
             /\ procs[ledger[i].id].at \in {"written"} \cup Over
             /\ procs[ledger[i].id].bound = ledger[i].bound
             /\ procs[ledger[i].id].told \in Refusals =>
                  procs[ledger[i].id].at = "unclosed"

\* The line a process has written is the last one until it lets go of the lock.
WrittenOK ==
    \A p \in Processes : procs[p].at = "written" =>
        /\ Len(ledger) > 0
        /\ p \in Approvers => ledger[Len(ledger)].type = "approval"
                              /\ ledger[Len(ledger)].id = p
        /\ p \in Consumers => ledger[Len(ledger)].type = "consumption"
                              /\ ledger[Len(ledger)].id = procs[p].id

ToldOK ==
    \A p \in Processes :
        /\ procs[p].told # None => procs[p].at \in {"done", "unclosed"}
        /\ procs[p].told = "recorded" =>
             p \in Approvers /\ (anchored => Stored("approval", p))
        /\ procs[p].told = "consumed" => p \in Consumers

\* What is written is what was confirmed.
MintOK ==
    \A a \in Approvers : procs[a].at = "writing" =>
        procs[a].built = procs[a].bound /\ procs[a].bound \in Contents

Consumed(id, n) ==
    \E k \in 1 .. n : ledger[k].type = "consumption" /\ ledger[k].id = id
Approved(id) ==
    \E i \in 1 .. Len(ledger) : ledger[i].type = "approval" /\ ledger[i].id = id

\* A consumer that has chosen an approval, or was given it.
Claiming(c) == Holding(c) \/ procs[c].told = "consumed"

\* What it chose was minted and not consumed.  Once it was given, the approval is
\* used up: its consumption survives, or with the directory the approval is gone.
ClaimsOK ==
    \A c \in Consumers : Claiming(c) =>
        /\ procs[c].id \in Approvers /\ procs[procs[c].id].at \in Over
        /\ procs[c].at = "writing" =>
             Approved(procs[c].id) /\ ~ Consumed(procs[c].id, Len(ledger))
        /\ procs[c].told = "consumed" =>
             \/ Stored("consumption", procs[c].id)
             \/ ~ anchored /\ ~ Approved(procs[c].id)
ExclusiveOK ==
    \A c, d \in Consumers :
        Claiming(c) /\ Claiming(d) /\ procs[c].id = procs[d].id => c = d

\* Unless the clock was set back, of two approvals of one content the first was
\* consumed or had expired when the second was minted.
Spent(i, n, time) ==
    Consumed(ledger[i].id, n) \/ ledger[i].created + Lifetime <= time
CreatedOK ==
    \A i \in 1 .. Len(ledger) : ledger[i].type = "approval" => ledger[i].created <= now
PairsOK ==
    \A i, j \in 1 .. Len(ledger) :
        /\ i < j /\ ledger[i].type = "approval" /\ ledger[j].type = "approval"
        /\ ledger[i].bound = ledger[j].bound
        => Spent(i, j - 1, ledger[j].created)
WritingOK ==
    \A a \in Approvers : procs[a].at = "writing" =>
        /\ procs[a].time <= now
        /\ \A i \in 1 .. Len(ledger) :
              ledger[i].type = "approval" /\ ledger[i].bound = procs[a].built =>
                  Spent(i, Len(ledger), procs[a].time)
ClockOK == rollbacks = 0 => CreatedOK /\ PairsOK /\ WritingOK

LedgerInv ==
    /\ Typed /\ HolderOK /\ WholeOK /\ LinesOK /\ WrittenOK /\ ToldOK /\ MintOK
    /\ ClaimsOK /\ ExclusiveOK /\ ClockOK
-----------------------------------------------------------------------------
\* Steps that write nothing and take no lock: a process that has not yet chosen
\* moves on, or ends with a refusal.
Moves(p, r) ==
    /\ procs' = [procs EXCEPT ![p] = r]
    /\ procs[p].at \in {"idle", "asked", "confirmed"}
    /\ r \in ProcRecords
    /\ r.at \in {"asked", "confirmed", "done"}
    /\ r.told \in Refusals \cup {None} /\ (r.told # None => r.at = "done")
    /\ UNCHANGED <<target, now, disk, holder, faults>>

\* A command that only moves on, without the ledger, keeps what the ledger
\* says.
LEMMA MovesPreserves ==
    ASSUME LedgerInv, NEW p \in Processes, NEW r, Moves(p, r)
    PROVE  LedgerInv'
<1> USE TrustLedgerAssumption DEF LedgerInv, Moves, disk, faults
<1>1. Typed' BY DEF Typed
<1>2. /\ procs'[p] = r /\ \A q \in Processes \ {p} : procs'[q] = procs[q]
      /\ procs[p].at \notin Over \cup {"writing", "written"}
      /\ r.at \notin {"writing", "written"} /\ r.told # "consumed" /\ r.told # "recorded"
  BY DEF Typed, Over, Refusals
<1>3. HolderOK' BY <1>2 DEF HolderOK, Holding
<1>4. WholeOK' BY DEF WholeOK
<1>5. LinesOK'
  <2> SUFFICES ASSUME NEW i \in 1 .. Len(ledger),
                      ledger[i].type = "approval"
               PROVE  procs'[ledger[i].id] = procs[ledger[i].id]
    BY DEF LinesOK
  <2>1. ledger[i].id \in Processes /\ ledger[i].id # p
    BY <1>2 DEF LinesOK, Processes
  <2> QED BY <1>2, <2>1
<1>6. WrittenOK' BY <1>2 DEF WrittenOK
<1>7. ToldOK' BY <1>2 DEF ToldOK, Stored
<1>8. MintOK' BY <1>2 DEF MintOK, Processes
<1>9. \A c \in Consumers : Claiming(c)' => Claiming(c) /\ procs'[c] = procs[c]
  BY <1>2 DEF Claiming, Holding, Processes
<1>10. ClaimsOK'
  <2> SUFFICES ASSUME NEW c \in Consumers, Claiming(c)
               PROVE  procs'[procs[c].id].at \in Over
    BY <1>9 DEF ClaimsOK, Approved, Consumed, Stored
  <2>1. procs[c].id \in Processes /\ procs[procs[c].id].at \in Over
    BY DEF ClaimsOK, Processes
  <2> QED BY <1>2, <2>1
<1>11. ExclusiveOK' BY <1>9 DEF ExclusiveOK
<1>12. ClockOK'
  <2>1. CreatedOK => CreatedOK' BY DEF CreatedOK
  <2>2. PairsOK => PairsOK' BY DEF PairsOK, Spent, Consumed
  <2>3. WritingOK => WritingOK' BY <1>2 DEF WritingOK, Spent, Consumed, Processes
  <2> QED BY <2>1, <2>2, <2>3 DEF ClockOK
<1> QED BY <1>1, <1>3, <1>4, <1>5, <1>6, <1>7, <1>8, <1>10, <1>11, <1>12

\* A process is still on its way only if it was told nothing.
LEMMA EarlyIsUntold ==
    ASSUME Typed, ToldOK, NEW p \in Processes,
           procs[p].at \in {"idle", "asked", "confirmed", "writing", "written", "dead"}
    PROVE  procs[p] \in ProcRecords /\ procs[p].told = None
BY DEF Typed, ToldOK

\* A refusal is such a move.
LEMMA TellMoves ==
    ASSUME LedgerInv, NEW p \in Processes, NEW answer \in Refusals, Tell(p, answer),
           procs[p].at \in {"idle", "asked", "confirmed"},
           UNCHANGED <<target, now, disk, holder, faults>>
    PROVE  LedgerInv'
<1> DEFINE r == [procs[p] EXCEPT !.at = "done", !.told = answer, !.time = 0]
<1>1. procs[p] \in ProcRecords BY DEF LedgerInv, Typed
<1>2. r \in ProcRecords /\ r.at = "done" /\ r.told = answer
  BY <1>1 DEF ProcRecords, Steps, Over, Answers
<1>3. procs' = [procs EXCEPT ![p] = r] BY DEF Tell
<1>4. Moves(p, r) BY <1>2, <1>3 DEF Moves
<1> QED BY <1>4, MovesPreserves

\* An early look at the ledger may refuse; else the change is shown.
LEMMA ShowPreserves ==
    ASSUME LedgerInv, NEW a \in Approvers, Show(a)
    PROVE  LedgerInv'
<1> DEFINE r == [procs[a] EXCEPT !.at = "asked", !.bound = target]
<1>1. a \in Processes /\ UNCHANGED <<target, now, disk, holder, faults>>
      /\ procs[a].at = "idle"
  BY DEF Show, Processes
<1>2. CASE \E answer \in Refusals : Tell(a, answer) BY <1>1, <1>2, TellMoves
<1>3. CASE procs' = [procs EXCEPT ![a].at = "asked", ![a].bound = target]
  <2>1. procs[a] \in ProcRecords /\ procs[a].told = None
    BY <1>1, EarlyIsUntold DEF LedgerInv
  <2>2. target \in Contents BY DEF LedgerInv, Typed
  <2>3. r \in ProcRecords /\ r.at = "asked" /\ r.told = None
    BY <2>1, <2>2 DEF ProcRecords, Steps
  <2>4. procs' = [procs EXCEPT ![a] = r] BY <1>3
  <2>5. Moves(a, r) BY <1>1, <2>3, <2>4 DEF Moves
  <2> QED BY <1>1, <2>5, MovesPreserves
<1> QED BY <1>2, <1>3 DEF Show, Refusals

\* The person confirms or declines it.
LEMMA ConfirmPreserves ==
    ASSUME LedgerInv, NEW a \in Approvers, Confirm(a)
    PROVE  LedgerInv'
<1> DEFINE r == [procs[a] EXCEPT !.at = "confirmed"]
<1>1. a \in Processes /\ UNCHANGED <<target, now, disk, holder, faults>>
      /\ procs[a].at = "asked"
  BY DEF Confirm, Processes
<1>2. CASE Tell(a, "declined") BY <1>1, <1>2, TellMoves DEF Refusals
<1>3. CASE Goto(a, "confirmed")
  <2>1. procs[a] \in ProcRecords /\ procs[a].told = None
    BY <1>1, EarlyIsUntold DEF LedgerInv
  <2>2. r \in ProcRecords /\ r.at = "confirmed" /\ r.told = None
    BY <2>1 DEF ProcRecords, Steps
  <2>3. procs' = [procs EXCEPT ![a] = r] BY <1>3 DEF Goto
  <2>4. Moves(a, r) BY <1>1, <2>2, <2>3 DEF Moves
  <2> QED BY <1>1, <2>4, MovesPreserves
<1> QED BY <1>2, <1>3 DEF Confirm

\* A consumer reads the clock before it waits for the lock.
LEMMA BeginPreserves ==
    ASSUME LedgerInv, NEW c \in Consumers, Begin(c)
    PROVE  LedgerInv'
<1>1. c \in Processes /\ UNCHANGED <<target, now, disk, holder, faults>>
      /\ procs[c].at = "idle"
  BY DEF Begin, Processes
<1>2. PICK b \in Contents :
          procs' = [procs EXCEPT ![c].at = "confirmed", ![c].bound = b, ![c].time = now]
  BY DEF Begin
<1> DEFINE r == [procs[c] EXCEPT !.at = "confirmed", !.bound = b, !.time = now]
<1>3. procs[c] \in ProcRecords /\ procs[c].told = None
  BY <1>1, EarlyIsUntold DEF LedgerInv
<1>4. now \in Nat BY TrustLedgerAssumption DEF LedgerInv, Typed
<1>5. r \in ProcRecords /\ r.at = "confirmed" /\ r.told = None
  BY <1>3, <1>4 DEF ProcRecords, Steps
<1>6. procs' = [procs EXCEPT ![c] = r] BY <1>2
<1>7. Moves(c, r) BY <1>1, <1>5, <1>6 DEF Moves
<1> QED BY <1>1, <1>7, MovesPreserves

\* A command that waits too long for the lock gives up.
LEMMA LockTimeoutPreserves ==
    ASSUME LedgerInv, NEW p \in Processes, LockTimeout(p)
    PROVE  LedgerInv'
BY TellMoves DEF LockTimeout, Refusals
-----------------------------------------------------------------------------
\* Steps that take the lock and choose what to write.

\* What the fold finds, in terms of the positions of the lines.
LEMMA ActiveLines ==
    ASSUME Typed, NEW b, NEW time \in Nat
    PROVE  /\ Lines("torn") = {} => \A i \in 1 .. Len(ledger) : ledger[i].type # "torn"
           /\ \A l \in Active(b, time) :
                 \E i \in 1 .. Len(ledger) :
                     /\ ledger[i] = l /\ l.type = "approval" /\ l.bound = b
                     /\ ~ Consumed(l.id, Len(ledger))
                     /\ l.created <= time /\ time < l.created + Lifetime
           /\ \A i \in 1 .. Len(ledger) :
                 /\ ledger[i].type = "approval" /\ ledger[i].bound = b
                 /\ ledger[i].created <= time
                 /\ ~ Spent(i, Len(ledger), time)
                 => ledger[i] \in Active(b, time)
<1>1. DOMAIN ledger = 1 .. Len(ledger) BY DEF Typed
<1>2. \A type : Lines(type) = {l \in {ledger[i] : i \in 1 .. Len(ledger)} : l.type = type}
  BY <1>1 DEF Lines, ToSet
<1>3. ASSUME NEW id PROVE id \in ConsumedIds <=> Consumed(id, Len(ledger))
  BY <1>2 DEF ConsumedIds, Consumed
<1>4. \A i \in 1 .. Len(ledger) : ledger[i].created \in Nat
  <2>1. \A i \in 1 .. Len(ledger) : ledger[i] \in Entries BY DEF Typed
  <2> QED BY <2>1 DEF Entries
<1>5. Lines("torn") = {} => \A i \in 1 .. Len(ledger) : ledger[i].type # "torn"
  BY <1>2
<1>6. ASSUME NEW l \in Active(b, time)
      PROVE  \E i \in 1 .. Len(ledger) :
                 /\ ledger[i] = l /\ l.type = "approval" /\ l.bound = b
                 /\ ~ Consumed(l.id, Len(ledger))
                 /\ l.created <= time /\ time < l.created + Lifetime
  BY <1>2, <1>3 DEF Active
<1>7. ASSUME NEW i \in 1 .. Len(ledger),
             ledger[i].type = "approval", ledger[i].bound = b,
             ledger[i].created <= time, ~ Spent(i, Len(ledger), time)
      PROVE  ledger[i] \in Active(b, time)
  BY <1>2, <1>3, <1>4, <1>7, TrustLedgerAssumption DEF Active, Spent
<1> QED BY <1>5, <1>6, <1>7

\* A process that takes the lock, writes nothing yet and says nothing.
Takes(p, r) ==
    /\ procs' = [procs EXCEPT ![p] = r]
    /\ holder = None /\ holder' = p
    /\ procs[p].at = "confirmed"
    /\ r \in ProcRecords /\ r.at = "writing" /\ r.told = None /\ r.bound = procs[p].bound
    /\ \A i \in 1 .. Len(ledger) : ledger[i].type # "torn"
    /\ UNCHANGED <<target, now, disk, faults>>

\* What does not depend on which of the two it is.
LEMMA TakesKeeps ==
    ASSUME LedgerInv, NEW p \in Processes, NEW r, Takes(p, r)
    PROVE  /\ procs'[p] = r /\ \A q \in Processes \ {p} : procs'[q] = procs[q]
           /\ \A q \in Processes : ~ Holding(q)
           /\ Typed' /\ HolderOK' /\ WholeOK' /\ LinesOK' /\ WrittenOK' /\ ToldOK'
           /\ CreatedOK => CreatedOK'
           /\ PairsOK => PairsOK'
<1> USE TrustLedgerAssumption DEF LedgerInv, Takes, disk, faults
<1>1. Typed' BY DEF Typed
<1>2. /\ procs'[p] = r /\ \A q \in Processes \ {p} : procs'[q] = procs[q]
      /\ procs[p].at \notin Over \cup {"writing", "written"}
  BY DEF Typed, Over
<1>3. \A q \in Processes : ~ Holding(q) BY DEF HolderOK
<1>4. HolderOK' BY <1>2, <1>3 DEF HolderOK, Holding
<1>5. WholeOK' BY DEF WholeOK
<1>6. LinesOK'
  <2> SUFFICES ASSUME NEW i \in 1 .. Len(ledger),
                      ledger[i].type = "approval"
               PROVE  procs'[ledger[i].id] = procs[ledger[i].id]
    BY DEF LinesOK
  <2>1. ledger[i].id \in Processes /\ ledger[i].id # p
    BY <1>2 DEF LinesOK, Processes
  <2> QED BY <1>2, <2>1
<1>7. WrittenOK' BY <1>2 DEF WrittenOK
<1>8. ToldOK' BY <1>2 DEF ToldOK, Stored
<1>9. CreatedOK => CreatedOK' BY DEF CreatedOK
<1>10. PairsOK => PairsOK' BY DEF PairsOK, Spent, Consumed
<1> QED BY <1>1, <1>2, <1>3, <1>4, <1>5, <1>6, <1>7, <1>8, <1>9, <1>10

\* Whoever the mint finds to be free of an active approval writes the only one.
LEMMA MintPreserves ==
    ASSUME LedgerInv, NEW a \in Approvers, Mint(a)
    PROVE  LedgerInv'
<1> USE TrustLedgerAssumption
<1>1. a \in Processes /\ procs[a].at = "confirmed" /\ holder = None
      /\ UNCHANGED <<target, now, disk, faults>>
  BY DEF Mint, Processes
<1>2. CASE (\E answer \in Refusals : Tell(a, answer)) /\ UNCHANGED holder
  BY <1>1, <1>2, TellMoves
<1>3. CASE /\ target = procs[a].bound /\ Readable(now) /\ Active(target, now) = {}
           /\ holder' = a
           /\ procs' = [procs EXCEPT ![a].at = "writing", ![a].time = now,
                                     ![a].built = target]
  <2> DEFINE r == [procs[a] EXCEPT !.at = "writing", !.time = now, !.built = target]
  <2>1. procs[a] \in ProcRecords /\ procs[a].told = None
    BY <1>1, EarlyIsUntold DEF LedgerInv
  <2>2. target \in Contents /\ now \in Nat BY DEF LedgerInv, Typed
  <2>3. /\ r \in ProcRecords /\ r.at = "writing" /\ r.told = None
        /\ r.bound = procs[a].bound /\ r.time = now /\ r.built = target
    BY <2>1, <2>2 DEF ProcRecords, Steps
  <2>4. procs' = [procs EXCEPT ![a] = r] BY <1>3
  <2>5. Typed BY DEF LedgerInv
  <2>6. Lines("torn") = {} BY <1>3 DEF Readable
  <2>7. Takes(a, r) BY <1>1, <1>3, <2>2, <2>3, <2>4, <2>5, <2>6, ActiveLines DEF Takes
  <2> HIDE DEF r
  <2>8. /\ procs'[a] = r /\ \A q \in Processes \ {a} : procs'[q] = procs[q]
        /\ \A q \in Processes : ~ Holding(q)
        /\ Typed' /\ HolderOK' /\ WholeOK' /\ LinesOK' /\ WrittenOK' /\ ToldOK'
        /\ CreatedOK => CreatedOK'
        /\ PairsOK => PairsOK'
    BY <1>1, <2>7, TakesKeeps
  <2>9. MintOK'
    BY <1>3, <2>2, <2>3, <2>8 DEF Holding, MintOK, Processes
  <2>10. \A c \in Consumers : Claiming(c)' => Claiming(c) /\ procs'[c] = procs[c]
    BY <2>8 DEF Claiming, Holding, Processes
  <2>11. ClaimsOK'
    <3> SUFFICES ASSUME NEW c \in Consumers, Claiming(c)
                 PROVE  procs'[procs[c].id].at \in Over
      BY <1>1, <2>10 DEF LedgerInv, ClaimsOK, Approved, Consumed, Stored, disk
    <3>1. procs[c].id \in Processes /\ procs[procs[c].id].at \in Over
      BY DEF LedgerInv, ClaimsOK, Processes
    <3> QED BY <1>1, <2>8, <3>1 DEF Over
  <2>12. ExclusiveOK' BY <2>10 DEF LedgerInv, ExclusiveOK
  <2>13. CreatedOK => WritingOK'
    <3> SUFFICES ASSUME CreatedOK, NEW b \in Approvers, procs'[b].at = "writing"
                 PROVE  /\ procs'[b].time <= now
                        /\ \A i \in 1 .. Len(ledger) :
                              /\ ledger[i].type = "approval"
                              /\ ledger[i].bound = procs'[b].built
                              => Spent(i, Len(ledger), procs'[b].time)
      BY <1>1 DEF WritingOK, Spent, Consumed, disk
    <3>1. b = a BY <2>8 DEF Holding, Processes
    <3>2. procs'[b].time = now /\ procs'[b].built = target BY <2>3, <2>8, <3>1
    <3>3. ASSUME NEW i \in 1 .. Len(ledger),
                 ledger[i].type = "approval", ledger[i].bound = target
          PROVE  Spent(i, Len(ledger), now)
      BY <1>3, <2>2, <2>5, <3>3, ActiveLines DEF CreatedOK
    <3> QED BY <2>2, <3>2, <3>3
  <2>14. ClockOK' BY <1>1, <2>8, <2>13 DEF LedgerInv, ClockOK, faults
  <2> QED BY <2>8, <2>9, <2>11, <2>12, <2>14 DEF LedgerInv
<1> QED BY <1>2, <1>3 DEF Mint, Refusals

\* Whoever consumes chooses an approval that nobody has chosen or was given.
LEMMA ConsumePreserves ==
    ASSUME LedgerInv, NEW c \in Consumers, Consume(c)
    PROVE  LedgerInv'
<1> USE TrustLedgerAssumption
<1>1. c \in Processes /\ procs[c].at = "confirmed" /\ holder = None
      /\ UNCHANGED <<target, now, disk, faults>>
  BY DEF Consume, Processes
<1>2. CASE Tell(c, "failed") /\ UNCHANGED holder
  BY <1>1, <1>2, TellMoves DEF Refusals
<1>3. CASE /\ Readable(procs[c].time)
           /\ holder' = c
           /\ \E l \in Active(procs[c].bound, procs[c].time) :
                 procs' = [procs EXCEPT ![c].at = "writing", ![c].id = l.id]
  <2>1. PICK l \in Active(procs[c].bound, procs[c].time) :
            procs' = [procs EXCEPT ![c].at = "writing", ![c].id = l.id]
    BY <1>3
  <2> DEFINE r == [procs[c] EXCEPT !.at = "writing", !.id = l.id]
  <2>2. procs[c] \in ProcRecords /\ procs[c].told = None
    BY <1>1, EarlyIsUntold DEF LedgerInv
  <2>3. Typed BY DEF LedgerInv
  <2>4. PICK i \in 1 .. Len(ledger) :
            ledger[i] = l /\ l.type = "approval" /\ ~ Consumed(l.id, Len(ledger))
    BY <2>2, <2>3, ActiveLines DEF ProcRecords
  <2>5. l.id \in Approvers /\ procs[l.id].at \in {"written"} \cup Over
    BY <2>4 DEF LedgerInv, LinesOK
  <2>6. r \in ProcRecords /\ r.at = "writing" /\ r.told = None
        /\ r.bound = procs[c].bound /\ r.id = l.id
    BY <2>2, <2>5 DEF ProcRecords, Steps
  <2>7. procs' = [procs EXCEPT ![c] = r] BY <2>1
  <2>8. Lines("torn") = {} BY <1>3 DEF Readable
  <2>9. Takes(c, r) BY <1>1, <1>3, <2>2, <2>3, <2>6, <2>7, <2>8, ActiveLines
    DEF Takes, ProcRecords
  <2> HIDE DEF r
  <2>10. /\ procs'[c] = r /\ \A q \in Processes \ {c} : procs'[q] = procs[q]
         /\ \A q \in Processes : ~ Holding(q)
         /\ Typed' /\ HolderOK' /\ WholeOK' /\ LinesOK' /\ WrittenOK' /\ ToldOK'
         /\ CreatedOK => CreatedOK'
         /\ PairsOK => PairsOK'
    BY <1>1, <2>9, TakesKeeps
  <2>11. l.id \in Processes /\ l.id # c /\ procs[l.id].at \in Over
    BY <2>5, <2>10 DEF Processes, Holding
  <2>12. MintOK' BY <2>10 DEF LedgerInv, MintOK, Processes
  <2>13. \A d \in Consumers \ {c} : Claiming(d)' => procs[d].told = "consumed"
                                                    /\ procs'[d] = procs[d]
    BY <2>10 DEF Claiming, Holding, Processes
  <2>14. Approved(l.id) BY <2>4 DEF Approved
  <2>15. durable \in 0 .. Len(ledger) BY DEF LedgerInv, Typed
  <2>16. ASSUME NEW d \in Consumers \ {c}, Claiming(d)'
         PROVE  procs[d].id # l.id
    <3>1. procs[d].told = "consumed" BY <2>13, <2>16
    <3>2. CASE Stored("consumption", procs[d].id)
      BY <2>4, <2>15, <3>2 DEF Stored, Consumed
    <3>3. CASE ~ Approved(procs[d].id) BY <2>14, <3>3
    <3> QED BY <3>1, <3>2, <3>3 DEF LedgerInv, ClaimsOK, Claiming
  <2>17. ExclusiveOK'
    <3> SUFFICES ASSUME NEW d \in Consumers, NEW e \in Consumers, Claiming(d)',
                        Claiming(e)', procs'[d].id = procs'[e].id
                 PROVE  d = e
      BY DEF ExclusiveOK
    <3>1. CASE d = c BY <2>6, <2>10, <2>13, <2>16, <3>1
    <3>2. CASE e = c BY <2>6, <2>10, <2>13, <2>16, <3>2
    <3>3. CASE d # c /\ e # c
      BY <2>13, <3>3 DEF LedgerInv, ExclusiveOK, Claiming
    <3> QED BY <3>1, <3>2, <3>3
  <2>18. ClaimsOK'
    <3> SUFFICES ASSUME NEW d \in Consumers, Claiming(d)'
                 PROVE  (/\ procs[d].id \in Approvers /\ procs[procs[d].id].at \in Over
                         /\ procs[d].at = "writing" =>
                             Approved(procs[d].id)
                             /\ ~ Consumed(procs[d].id, Len(ledger))
                         /\ procs[d].told = "consumed" =>
                             \/ Stored("consumption", procs[d].id)
                             \/ ~ anchored /\ ~ Approved(procs[d].id))'
      BY DEF ClaimsOK
    <3> USE <1>1 DEF disk
    <3>1. CASE d = c
      BY <2>4, <2>5, <2>6, <2>10, <2>11, <2>14, <3>1 DEF Approved, Consumed
    <3>2. CASE d # c
      <4>1. procs'[d] = procs[d] /\ procs[d].told = "consumed" BY <2>13, <3>2
      <4>2. /\ procs[d].id \in Approvers /\ procs[procs[d].id].at \in Over
            /\ \/ Stored("consumption", procs[d].id)
               \/ ~ anchored /\ ~ Approved(procs[d].id)
        BY <4>1 DEF LedgerInv, ClaimsOK, Claiming
      <4>3. procs[d].at # "writing" BY <2>10, <3>2 DEF Holding, Processes
      <4>4. procs[d].id \in Processes /\ procs[d].id # c
        BY <4>2 DEF Over, Processes
      <4> QED BY <2>10, <4>1, <4>2, <4>3, <4>4 DEF Approved, Stored
    <3> QED BY <3>1, <3>2
  <2>19. ClockOK'
    <3>1. WritingOK => WritingOK'
      BY <1>1, <2>10 DEF WritingOK, Spent, Consumed, Processes, disk
    <3> QED BY <1>1, <2>10, <3>1 DEF LedgerInv, ClockOK, faults
  <2> QED BY <2>10, <2>12, <2>17, <2>18, <2>19 DEF LedgerInv
<1> QED BY <1>2, <1>3 DEF Consume
-----------------------------------------------------------------------------
\* The append itself.
LEMMA WritePreserves ==
    ASSUME LedgerInv, NEW p \in Processes, Write(p)
    PROVE  LedgerInv'
<1> USE TrustLedgerAssumption DEF LedgerInv, faults
<1> DEFINE n == Len(ledger) + 1
<1>1. /\ procs[p].at = "writing" /\ procs[p] \in ProcRecords /\ procs[p].told = None
      /\ holder = p /\ p # None
      /\ UNCHANGED <<target, now, durable, anchored, holder, faults>>
  BY EarlyIsUntold DEF Write, HolderOK, Holding
<1>2. /\ procs'[p] = [procs[p] EXCEPT !.at = "written"]
      /\ \A q \in Processes \ {p} : procs'[q] = procs[q]
      /\ procs' \in [Processes -> ProcRecords]
  BY <1>1 DEF Write, Goto, Typed, ProcRecords, Steps
<1>3. /\ procs'[p].at = "written" /\ procs'[p].told = None
      /\ procs'[p].bound = procs[p].bound /\ procs'[p].id = procs[p].id
  BY <1>1, <1>2 DEF ProcRecords
<1>4. \A q \in Processes \ {p} : ~ Holding(q) BY <1>1 DEF HolderOK
<1>5. /\ Line(p) \in Entries
      /\ p \in Approvers => /\ Line(p).type = "approval" /\ Line(p).id = p
                            /\ Line(p).bound = procs[p].bound
                            /\ Line(p).bound = procs[p].built
                            /\ Line(p).created = procs[p].time
      /\ p \in Consumers => /\ Line(p).type = "consumption"
                            /\ Line(p).id = procs[p].id /\ procs[p].id \in Approvers
  <2>1. CASE p \in Approvers
    BY <1>1, <2>1 DEF Line, Approval, Entries, ProcRecords, MintOK
  <2>2. CASE p \in Consumers
    BY <1>1, <2>2 DEF Line, Consumption, Entries, ProcRecords, ClaimsOK, Claiming, Holding
  <2> QED BY <2>1, <2>2 DEF Processes
<1>6. /\ ledger' \in Seq(Entries) /\ Len(ledger') = n /\ Len(ledger) \in Nat
      /\ ledger'[n] = Line(p)
      /\ \A i \in 1 .. Len(ledger) : ledger'[i] = ledger[i]
  BY <1>5 DEF Write, Typed
<1> HIDE DEF n
<1>7. n = Len(ledger) + 1 BY DEF n
<1>8. Typed' BY <1>1, <1>2, <1>6, <1>7 DEF Typed
<1>9. HolderOK' BY <1>1, <1>2, <1>3 DEF HolderOK, Holding
<1>10. WholeOK' BY <1>1, <1>5, <1>6, <1>7 DEF WholeOK, Processes
<1>11. LinesOK'
  <2> SUFFICES ASSUME NEW i \in 1 .. n
               PROVE  (/\ ledger[i].type = "consumption" => ledger[i].id \in Approvers
                       /\ ledger[i].type = "approval" =>
                           /\ ledger[i].id \in Approvers
                           /\ procs[ledger[i].id].at \in {"written"} \cup Over
                           /\ procs[ledger[i].id].bound = ledger[i].bound
                           /\ procs[ledger[i].id].told \in Refusals =>
                                procs[ledger[i].id].at = "unclosed")'
    BY <1>6 DEF LinesOK
  <2>1. CASE i = n BY <1>3, <1>5, <1>6, <2>1 DEF Processes
  <2>2. CASE i # n
    <3>1. i \in 1 .. Len(ledger) /\ ledger'[i] = ledger[i] BY <1>6, <1>7, <2>2
    <3>2. ledger[i].type = "approval" =>
              ledger[i].id \in Processes /\ ledger[i].id # p
      BY <1>1, <3>1 DEF LinesOK, Processes, Over
    <3> QED BY <1>2, <3>1, <3>2 DEF LinesOK
  <2> QED BY <2>1, <2>2
<1>12. WrittenOK'
  <2> SUFFICES ASSUME NEW q \in Processes, procs'[q].at = "written"
               PROVE  /\ Len(ledger') > 0
                      /\ q \in Approvers => ledger'[Len(ledger')].type = "approval"
                                            /\ ledger'[Len(ledger')].id = q
                      /\ q \in Consumers => ledger'[Len(ledger')].type = "consumption"
                                            /\ ledger'[Len(ledger')].id = procs'[q].id
    BY DEF WrittenOK
  <2>1. q = p BY <1>2, <1>4 DEF Holding
  <2>2. Len(ledger') = n /\ n > 0 /\ ledger'[n] = Line(p) BY <1>6, <1>7
  <2> QED BY <1>3, <1>5, <2>1, <2>2
<1>14. ToldOK'
  <2>1. anchored' = anchored /\ durable' = durable BY <1>1
  <2>2. \A i \in 1 .. durable : ledger'[i] = ledger[i] BY <1>6 DEF Typed
  <2>3. p \notin {q \in Processes : procs'[q].told # None} BY <1>3
  <2> QED BY <1>2, <1>3, <2>1, <2>2, <2>3 DEF ToldOK, Stored
<1>15. MintOK' BY <1>2, <1>3 DEF MintOK, Processes
<1>16. \A c \in Consumers : /\ Claiming(c)' <=> Claiming(c)
                            /\ procs'[c].id = procs[c].id
                            /\ procs'[c].told = procs[c].told
  BY <1>1, <1>2, <1>3 DEF Claiming, Holding, Processes
<1>17. ClaimsOK'
  <2> SUFFICES ASSUME NEW c \in Consumers, Claiming(c)
               PROVE  /\ procs'[procs[c].id].at \in Over
                      /\ procs'[c].at # "writing"
                      /\ procs[c].told = "consumed" =>
                           \/ Stored("consumption", procs[c].id)'
                           \/ ~ anchored /\ ~ Approved(procs[c].id)'
    BY <1>1, <1>16 DEF ClaimsOK
  <2>0. procs'[c].id = procs[c].id BY <1>16
  <2>1. procs[c].id \in Processes /\ procs[procs[c].id].at \in Over /\ procs[c].id # p
    BY <1>1 DEF ClaimsOK, Processes, Over
  <2>2. procs'[c].at # "writing" BY <1>2, <1>3, <1>4 DEF Holding, Processes
  <2>3. ASSUME Approved(procs[c].id)' PROVE Approved(procs[c].id)
    <3>1. PICK i \in 1 .. n : ledger'[i].type = "approval" /\ ledger'[i].id = procs[c].id
      BY <1>6, <2>0, <2>3 DEF Approved
    <3>2. i # n BY <1>5, <1>6, <2>1, <3>1 DEF Processes
    <3> QED BY <1>6, <1>7, <3>1, <3>2 DEF Approved
  <2>4. procs[c].told = "consumed" =>
            \/ Stored("consumption", procs[c].id)
            \/ ~ anchored /\ ~ Approved(procs[c].id)
    BY DEF ClaimsOK
  <2>5. ASSUME Stored("consumption", procs[c].id) PROVE Stored("consumption", procs[c].id)'
    <3>1. durable' = durable BY <1>1
    <3>2. \A i \in 1 .. durable : ledger'[i] = ledger[i] BY <1>6 DEF Typed
    <3> QED BY <2>0, <2>5, <3>1, <3>2 DEF Stored
  <2> QED BY <1>2, <2>1, <2>2, <2>3, <2>4, <2>5
<1>18. ExclusiveOK' BY <1>16 DEF ExclusiveOK
<1>20. ASSUME rollbacks = 0 PROVE CreatedOK' /\ PairsOK' /\ WritingOK'
  <2>1. CreatedOK /\ PairsOK /\ WritingOK BY <1>20 DEF ClockOK
  <2>2. p \in Approvers =>
          /\ procs[p].time <= now
          /\ \A i \in 1 .. Len(ledger) :
                ledger[i].type = "approval" /\ ledger[i].bound = procs[p].built =>
                    Spent(i, Len(ledger), procs[p].time)
    BY <1>1, <2>1 DEF WritingOK
  <2>3. CreatedOK'
    BY <1>1, <1>5, <1>6, <1>7, <2>1, <2>2 DEF CreatedOK, Processes
  <2>4. PairsOK'
    <3> SUFFICES ASSUME NEW i \in 1 .. n, NEW j \in 1 .. n, i < j,
                        ledger'[i].type = "approval", ledger'[j].type = "approval",
                        ledger'[i].bound = ledger'[j].bound
                 PROVE  Spent(i, j - 1, ledger[j].created)'
      BY <1>6 DEF PairsOK
    <3>1. i \in 1 .. Len(ledger) /\ ledger'[i] = ledger[i] /\ j - 1 \in 0 .. Len(ledger)
      BY <1>6, <1>7
    <3>2. CASE j = n
      <4>1. Spent(i, Len(ledger), procs[p].time)
        BY <1>5, <1>6, <2>2, <3>1, <3>2 DEF Processes
      <4>2. ledger'[j].created = procs[p].time BY <1>5, <1>6, <3>2 DEF Processes
      <4>3. j - 1 = Len(ledger) BY <1>6, <1>7, <3>2
      <4>4. \A k \in 1 .. Len(ledger) : ledger'[k] = ledger[k] BY <1>6
      <4> QED BY <3>1, <4>1, <4>2, <4>3, <4>4 DEF Spent, Consumed
    <3>3. CASE j # n
      <4>1. j \in 1 .. Len(ledger) /\ ledger'[j] = ledger[j] BY <1>6, <1>7, <3>3
      <4>2. Spent(i, j - 1, ledger[j].created) BY <2>1, <3>1, <4>1 DEF PairsOK
      <4>3. \A k \in 1 .. j - 1 : ledger'[k] = ledger[k] BY <1>6, <4>1
      <4> QED BY <3>1, <4>1, <4>2, <4>3 DEF Spent, Consumed
    <3> QED BY <3>2, <3>3
  <2>5. WritingOK' BY <1>2, <1>3, <1>4 DEF WritingOK, Holding, Processes
  <2> QED BY <2>3, <2>4, <2>5
<1>21. ClockOK' BY <1>1, <1>20 DEF ClockOK
<1> QED BY <1>8, <1>9, <1>10, <1>11, <1>12, <1>14, <1>15, <1>17, <1>18, <1>21

-----------------------------------------------------------------------------
\* Steps after the append: the process lets go of the lock with an answer.
LetsGo(p, at, told) ==
    /\ procs' = [procs EXCEPT ![p].at = at, ![p].told = told, ![p].time = 0]
    /\ procs[p].at = "written"
    /\ holder' = None
    /\ durable' \in {durable, Len(ledger)}
    /\ told \in {"recorded", "consumed"} => durable' = Len(ledger)
    /\ at \in {"done", "unclosed"} /\ told \in Answers
    /\ told \in Refusals /\ p \in Approvers => at = "unclosed"
    /\ told = "recorded" => p \in Approvers
    /\ told = "consumed" => p \in Consumers
    /\ UNCHANGED <<target, now, ledger, anchored, faults>>

\* A command that tells its answer lets go of the lock.
LEMMA LetsGoPreserves ==
    ASSUME LedgerInv, NEW p \in Processes, NEW at, NEW told, LetsGo(p, at, told)
    PROVE  LedgerInv'
<1> USE TrustLedgerAssumption DEF LedgerInv, LetsGo, faults
<1>1. procs[p] \in ProcRecords /\ procs[p].told = None /\ holder = p /\ p # None
  BY EarlyIsUntold DEF HolderOK, Holding
<1>2. /\ procs'[p] = [procs[p] EXCEPT !.at = at, !.told = told, !.time = 0]
      /\ \A q \in Processes \ {p} : procs'[q] = procs[q]
      /\ procs' \in [Processes -> ProcRecords]
  <2>1. [procs[p] EXCEPT !.at = at, !.told = told, !.time = 0] \in ProcRecords
    BY <1>1 DEF ProcRecords, Steps, Over
  <2>2. procs' = [procs EXCEPT ![p] =
                     [procs[p] EXCEPT !.at = at, !.told = told, !.time = 0]]
    OBVIOUS
  <2> QED BY <2>1, <2>2 DEF Typed
<1>3. /\ procs'[p].at = at /\ procs'[p].told = told
      /\ procs'[p].bound = procs[p].bound /\ procs'[p].id = procs[p].id
      /\ at \in Over
  BY <1>1, <1>2 DEF ProcRecords, Over
<1>4. \A q \in Processes \ {p} : ~ Holding(q) BY <1>1 DEF HolderOK
<1>5. Len(ledger) \in Nat /\ durable \in 0 .. Len(ledger) /\ durable <= durable'
      /\ durable' \in 0 .. Len(ledger)
  BY DEF Typed
<1>6. Typed' BY <1>2, <1>5 DEF Typed
<1>7. HolderOK' BY <1>1, <1>2, <1>3, <1>4 DEF HolderOK, Holding
<1>8. WholeOK' BY DEF WholeOK
<1>9. LinesOK'
  <2> SUFFICES ASSUME NEW i \in 1 .. Len(ledger), ledger[i].type = "approval"
               PROVE  /\ procs'[ledger[i].id].at \in {"written"} \cup Over
                      /\ procs'[ledger[i].id].bound = ledger[i].bound
                      /\ procs'[ledger[i].id].told \in Refusals =>
                           procs'[ledger[i].id].at = "unclosed"
    <3>1. /\ ledger' = ledger
          /\ \A i \in 1 .. Len(ledger) :
               /\ ledger[i].type = "consumption" => ledger[i].id \in Approvers
               /\ ledger[i].type = "approval" => ledger[i].id \in Approvers
      BY DEF LinesOK
    <3> QED BY <3>1 DEF LinesOK
  <2>1. CASE ledger[i].id = p BY <1>3, <2>1 DEF LinesOK
  <2>2. CASE ledger[i].id # p
    <3>1. ledger[i].id \in Processes BY DEF LinesOK, Processes
    <3> QED BY <1>2, <2>2, <3>1 DEF LinesOK
  <2> QED BY <2>1, <2>2
<1>10. WrittenOK' BY <1>2, <1>3 DEF WrittenOK
<1>11. ASSUME NEW type, NEW id, Stored(type, id) PROVE Stored(type, id)'
  BY <1>5, <1>11 DEF Stored
<1>13. ToldOK'
  <2> SUFFICES ASSUME NEW q \in Processes
               PROVE  /\ procs'[q].told # None => procs'[q].at \in {"done", "unclosed"}
                      /\ procs'[q].told = "recorded" =>
                           q \in Approvers /\ (anchored => Stored("approval", q)')
                      /\ procs'[q].told = "consumed" => q \in Consumers
    BY DEF ToldOK
  <2>1. CASE q = p
    <3>1. told = "recorded" => Stored("approval", p)'
      <4>1. told = "recorded" => p \in Approvers /\ durable' = Len(ledger) OBVIOUS
      <4>2. p \in Approvers => /\ Len(ledger) > 0 /\ ledger[Len(ledger)].type = "approval"
                              /\ ledger[Len(ledger)].id = p
        BY DEF WrittenOK
      <4> QED BY <1>5, <4>1, <4>2 DEF Stored
    <3> QED BY <1>3, <2>1, <3>1
  <2>2. CASE q # p BY <1>2, <1>11, <2>2 DEF ToldOK
  <2> QED BY <2>1, <2>2
<1>14. MintOK' BY <1>2, <1>3 DEF MintOK, Processes
<1>15. \A c \in Consumers : /\ Claiming(c)' => Claiming(c)
                            /\ procs'[c].id = procs[c].id
  BY <1>2, <1>3 DEF Claiming, Holding, Processes
<1>16. ClaimsOK'
  <2> SUFFICES ASSUME NEW c \in Consumers, Claiming(c)
               PROVE  /\ procs'[procs[c].id].at \in Over
                      /\ procs'[c].at # "writing"
                      /\ procs'[c].told = "consumed" =>
                           \/ Stored("consumption", procs[c].id)'
                           \/ ~ anchored /\ ~ Approved(procs[c].id)'
    BY <1>15 DEF ClaimsOK
  <2>1. procs[c].id \in Processes /\ procs[procs[c].id].at \in Over /\ procs[c].id # p
    BY DEF ClaimsOK, Processes, Over
  <2>2. procs'[c].at # "writing" BY <1>2, <1>3, <1>4 DEF Holding, Processes
  <2>3. CASE c = p
    <3>1. told = "consumed" => Stored("consumption", procs[p].id)'
      <4>1. told = "consumed" => p \in Consumers /\ durable' = Len(ledger) OBVIOUS
      <4>2. p \in Consumers => /\ Len(ledger) > 0 /\ ledger[Len(ledger)].type = "consumption"
                              /\ ledger[Len(ledger)].id = procs[p].id
        BY DEF WrittenOK
      <4> QED BY <1>3, <1>5, <4>1, <4>2 DEF Stored
    <3> QED BY <1>2, <1>3, <2>1, <2>2, <2>3, <3>1
  <2>4. CASE c # p
    <3>1. procs'[c] = procs[c] BY <1>2, <2>4 DEF Processes
    <3>2. procs[c].told = "consumed" =>
              \/ Stored("consumption", procs[c].id)
              \/ ~ anchored /\ ~ Approved(procs[c].id)
      BY DEF ClaimsOK
    <3>3. procs'[procs[c].id].at \in Over BY <1>2, <2>1
    <3>4. Approved(procs[c].id)' = Approved(procs[c].id) BY <3>1 DEF Approved
    <3>5. Stored("consumption", procs[c].id) => Stored("consumption", procs[c].id)'
      BY <1>5, <3>1 DEF Stored
    <3> QED BY <2>2, <3>1, <3>2, <3>3, <3>4, <3>5
  <2> QED BY <2>3, <2>4
<1>17. ExclusiveOK' BY <1>15 DEF ExclusiveOK
<1>18. ClockOK'
  <2>1. CreatedOK => CreatedOK' BY DEF CreatedOK
  <2>2. PairsOK => PairsOK' BY DEF PairsOK, Spent, Consumed
  <2>3. WritingOK'
    BY <1>2, <1>3, <1>4 DEF WritingOK, Holding, Processes
  <2> QED BY <2>1, <2>2, <2>3 DEF ClockOK
<1> QED BY <1>6, <1>7, <1>8, <1>9, <1>10, <1>13, <1>14, <1>16, <1>17, <1>18

\* The line is made durable and the command succeeds.
LEMMA SyncPreserves ==
    ASSUME LedgerInv, NEW p \in Processes, Sync(p)
    PROVE  LedgerInv'
<1>1. LetsGo(p, "done", Success(p))
  BY DEF Sync, Tell, LetsGo, Success, Processes, Answers, Refusals
<1> QED BY <1>1, LetsGoPreserves

\* A failed barrier leaves a line of which nobody knows.
LEMMA SyncFailsPreserves ==
    ASSUME LedgerInv, NEW p \in Processes, SyncFails(p)
    PROVE  LedgerInv'
<1>1. LetsGo(p, "done", Doubt(p))
  BY DEF SyncFails, Tell, LetsGo, Doubt, Processes, Answers, Refusals, disk
<1> QED BY <1>1, LetsGoPreserves

\* What fails to close after the barrier is told as a failure.
LEMMA CloseFailsPreserves ==
    ASSUME LedgerInv, NEW p \in Processes, CloseFails(p)
    PROVE  LedgerInv'
<1>1. LetsGo(p, "unclosed", "failed")
  BY DEF CloseFails, LetsGo, Answers, Refusals
<1> QED BY <1>1, LetsGoPreserves
-----------------------------------------------------------------------------
\* Faults that cut the ledger: a write that fails or is torn, a death, a loss of
\* power.  The first m lines are kept, and a torn one may follow.
Cut(m) ==
    /\ m \in 0 .. Len(ledger) /\ ledger' \in Seq(Entries)
    /\ Len(ledger') \in {m, m + 1}
    /\ \A i \in 1 .. m : ledger'[i] = ledger[i]
    /\ Len(ledger') = m + 1 =>
         ledger'[m + 1].type = "torn" /\ (m < Len(ledger) \/ holder # None)
    /\ durable' \in 0 .. Len(ledger')
    /\ \/ durable <= m /\ durable <= durable'
       \/ ~ anchored /\ m = 0 /\ Len(ledger') = 0

\* A process that is stopped before it has its answer.
Stopped(q) ==
    /\ procs'[q].at \in {"done", "dead"}
    /\ procs'[q].bound = procs[q].bound /\ procs'[q].id = procs[q].id
    /\ procs'[q].told = "failed" => procs[q].at = "writing" /\ procs'[q].at = "done"
    /\ procs'[q].told \in {None, "failed"}
Stops ==
    /\ procs' \in [Processes -> ProcRecords]
    /\ \A q \in Processes : \/ procs'[q] = procs[q]
                            \/ procs[q].at \notin Over /\ Stopped(q)
    /\ \A q \in Processes : ~ Holding(q)'
    /\ holder' = None
    /\ UNCHANGED <<target, now, anchored, rollbacks>>

\* A ledger that loses its undurable end keeps what was told of it.
LEMMA CutPreserves ==
    ASSUME LedgerInv, NEW m, Cut(m), Stops
    PROVE  LedgerInv'
<1> USE TrustLedgerAssumption DEF LedgerInv
<1>1. /\ m \in 0 .. Len(ledger) /\ Len(ledger) \in Nat
      /\ Len(ledger') \in {m, m + 1} /\ Len(ledger') \in Nat
      /\ \A i \in 1 .. m : i \in 1 .. Len(ledger) /\ ledger'[i] = ledger[i]
      /\ \A i \in 1 .. Len(ledger') : ledger'[i].type # "torn" => i \in 1 .. m
  BY DEF Cut, Typed
<1>2. \A q \in Processes : /\ procs'[q].bound = procs[q].bound
                           /\ procs'[q].id = procs[q].id
                           /\ procs[q].at \in Over => procs'[q] = procs[q]
                           /\ procs'[q].at \notin {"writing", "written"}
  BY DEF Stops, Stopped, Holding
<1>3. UNCHANGED <<target, now, anchored, rollbacks>> /\ holder' = None BY DEF Stops
<1>4. Typed' BY <1>3 DEF Typed, Cut, Stops
<1>5. HolderOK' BY <1>3 DEF HolderOK, Stops
<1>6. WholeOK'
  <2> SUFFICES ASSUME NEW i \in 1 .. Len(ledger'), ledger'[i].type = "torn"
               PROVE  i = Len(ledger')
    BY <1>3 DEF WholeOK
  <2>1. CASE i = m + 1 BY <1>1, <2>1
  <2>2. CASE i # m + 1
    <3>1. i \in 1 .. m /\ ledger[i].type = "torn" BY <1>1, <2>2
    <3>2. i = Len(ledger) /\ holder = None BY <1>1, <3>1 DEF WholeOK
    <3>3. m = Len(ledger) BY <1>1, <3>1, <3>2
    <3>4. Len(ledger') = m BY <1>1, <3>2, <3>3 DEF Cut
    <3> QED BY <3>2, <3>3, <3>4
  <2> QED BY <2>1, <2>2
<1>7. LinesOK'
  <2> SUFFICES ASSUME NEW i \in 1 .. m
               PROVE  (/\ ledger[i].type = "consumption" => ledger[i].id \in Approvers
                       /\ ledger[i].type = "approval" =>
                           /\ ledger[i].id \in Approvers
                           /\ procs[ledger[i].id].at \in {"written"} \cup Over
                           /\ procs[ledger[i].id].bound = ledger[i].bound
                           /\ procs[ledger[i].id].told \in Refusals =>
                                procs[ledger[i].id].at = "unclosed")'
    <3>1. \A i \in 1 .. Len(ledger') :
              ledger'[i].type \in {"approval", "consumption"} => i \in 1 .. m
      BY <1>1
    <3> QED BY <3>1 DEF LinesOK
  <2>1. i \in 1 .. Len(ledger) /\ ledger'[i] = ledger[i] BY <1>1
  <2>2. CASE ledger[i].type = "approval"
    <3>1. /\ ledger[i].id \in Approvers /\ ledger[i].id \in Processes
          /\ procs[ledger[i].id].at \in {"written"} \cup Over
          /\ procs[ledger[i].id].bound = ledger[i].bound
          /\ procs[ledger[i].id].told \in Refusals => procs[ledger[i].id].at = "unclosed"
      BY <2>1, <2>2 DEF LinesOK, Processes
    <3>2. \/ procs'[ledger[i].id] = procs[ledger[i].id]
          \/ procs'[ledger[i].id].at \in Over /\ procs'[ledger[i].id].told = None
      BY <3>1 DEF Stops, Stopped, Over
    <3> QED BY <1>2, <2>1, <2>2, <3>1, <3>2
  <2>3. CASE ledger[i].type # "approval" BY <2>1, <2>3 DEF LinesOK
  <2> QED BY <2>2, <2>3
<1>8. WrittenOK' BY <1>2 DEF WrittenOK
<1>9. ASSUME NEW type \in {"approval", "consumption"}, NEW id, Stored(type, id)
      PROVE  \/ Stored(type, id)'
             \/ ~ anchored /\ m = 0
  BY <1>1, <1>9 DEF Stored, Cut, Typed
<1>10. ToldOK'
  <2> SUFFICES ASSUME NEW q \in Processes
               PROVE  (/\ procs[q].told # None => procs[q].at \in {"done", "unclosed"}
                       /\ procs[q].told = "recorded" =>
                            q \in Approvers /\ (anchored => Stored("approval", q))
                       /\ procs[q].told = "consumed" => q \in Consumers)'
    BY DEF ToldOK
  <2>1. CASE procs'[q] = procs[q] BY <1>3, <1>9, <2>1 DEF ToldOK
  <2>2. CASE Stopped(q) BY <2>2 DEF Stopped
  <2> QED BY <2>1, <2>2 DEF Stops
<1>11. MintOK' BY <1>2 DEF MintOK, Processes
<1>12. ASSUME NEW c \in Consumers, Claiming(c)'
       PROVE  procs[c].told = "consumed" /\ procs'[c].told = "consumed" /\ Claiming(c)
              /\ procs'[c].id = procs[c].id
  BY <1>2, <1>12 DEF Claiming, Holding, Processes, Stops, Stopped
<1>13. ClaimsOK'
  <2> SUFFICES ASSUME NEW c \in Consumers, Claiming(c)'
               PROVE  (/\ procs[c].id \in Approvers /\ procs[procs[c].id].at \in Over
                       /\ procs[c].at # "writing"
                       /\ \/ Stored("consumption", procs[c].id)
                          \/ ~ anchored /\ ~ Approved(procs[c].id))'
    BY DEF ClaimsOK
  <2>1. /\ procs[c].id \in Approvers /\ procs[c].id \in Processes
        /\ procs[procs[c].id].at \in Over
        /\ \/ Stored("consumption", procs[c].id)
           \/ ~ anchored /\ ~ Approved(procs[c].id)
    BY <1>12 DEF ClaimsOK, Processes
  <2>2. procs'[c].id = procs[c].id BY <1>12
  <2>3. procs'[c].at # "writing" BY <1>2 DEF Processes
  <2>4. CASE Stored("consumption", procs[c].id)
    <3>1. CASE durable <= m /\ durable <= durable'
      <4>1. PICK k \in 1 .. durable : ledger[k].type = "consumption"
                                      /\ ledger[k].id = procs[c].id
        BY <2>4 DEF Stored
      <4>2. k \in 1 .. durable' /\ ledger'[k] = ledger[k]
        BY <1>1, <3>1, <4>1 DEF Typed, Cut
      <4> QED BY <1>2, <2>1, <2>2, <2>3, <4>1, <4>2 DEF Stored
    <3>2. CASE ~ anchored /\ m = 0 /\ Len(ledger') = 0
      BY <1>2, <1>3, <2>1, <2>2, <2>3, <3>2 DEF Approved
    <3> QED BY <3>1, <3>2 DEF Cut
  <2>5. CASE ~ anchored /\ ~ Approved(procs[c].id)
    <3>1. ~ Approved(procs[c].id)'
      <4> SUFFICES ASSUME NEW i \in 1 .. Len(ledger'), ledger'[i].type = "approval",
                          ledger'[i].id = procs[c].id
                   PROVE  FALSE
        BY <2>2 DEF Approved
      <4>1. i \in 1 .. Len(ledger) /\ ledger'[i] = ledger[i] BY <1>1
      <4> QED BY <2>5, <4>1 DEF Approved
    <3> QED BY <1>2, <1>3, <2>1, <2>2, <2>3, <2>5, <3>1
  <2> QED BY <2>1, <2>4, <2>5
<1>14. ExclusiveOK' BY <1>12 DEF ExclusiveOK
<1>15. CreatedOK => CreatedOK'
  <2> SUFFICES ASSUME CreatedOK, NEW i \in 1 .. Len(ledger'), ledger'[i].type = "approval"
               PROVE  ledger'[i].created <= now
    BY <1>3 DEF CreatedOK
  <2> QED BY <1>1 DEF CreatedOK
<1>16. PairsOK => PairsOK'
  <2> SUFFICES ASSUME PairsOK, NEW i \in 1 .. Len(ledger'), NEW j \in 1 .. Len(ledger'),
                      i < j,
                      ledger'[i].type = "approval", ledger'[j].type = "approval",
                      ledger'[i].bound = ledger'[j].bound
               PROVE  Spent(i, j - 1, ledger[j].created)'
    BY DEF PairsOK
  <2>1. i \in 1 .. m /\ j \in 1 .. m BY <1>1
  <2>2. /\ i \in 1 .. Len(ledger) /\ ledger'[i] = ledger[i]
        /\ j \in 1 .. Len(ledger) /\ ledger'[j] = ledger[j]
        /\ \A k \in 1 .. j - 1 : ledger'[k] = ledger[k]
    BY <1>1, <2>1
  <2>3. Spent(i, j - 1, ledger[j].created) BY <2>2 DEF PairsOK
  <2> QED BY <2>2, <2>3 DEF Spent, Consumed
<1>17. WritingOK' BY <1>2 DEF WritingOK, Processes
<1>18. ClockOK' BY <1>3, <1>15, <1>16, <1>17 DEF ClockOK
<1> QED BY <1>4, <1>5, <1>6, <1>7, <1>8, <1>10, <1>11, <1>13, <1>14, <1>18
\* Nothing is cut, but a torn line may be added.
LEMMA TornIsACut ==
    ASSUME LedgerInv, holder # None, ledger' \in {ledger, Append(ledger, Torn)},
           UNCHANGED durable
    PROVE  Cut(Len(ledger))
<1>1. Torn \in Entries /\ Torn.type = "torn" BY DEF Torn, Entries
<1>2. ledger \in Seq(Entries) /\ durable \in 0 .. Len(ledger) /\ Len(ledger) \in Nat
  BY DEF LedgerInv, Typed
<1>3. CASE ledger' = ledger BY <1>2, <1>3 DEF Cut
<1>4. CASE ledger' = Append(ledger, Torn)
  <2>1. /\ ledger' \in Seq(Entries) /\ Len(ledger') = Len(ledger) + 1
        /\ ledger'[Len(ledger) + 1] = Torn
        /\ \A i \in 1 .. Len(ledger) : ledger'[i] = ledger[i]
    BY <1>1, <1>2, <1>4
  <2> QED BY <1>1, <1>2, <2>1 DEF Cut
<1> QED BY <1>3, <1>4

\* A write that fails leaves a torn line or none.
LEMMA WriteFailsPreserves ==
    ASSUME LedgerInv, NEW p \in Processes, WriteFails(p)
    PROVE  LedgerInv'
<1> USE TrustLedgerAssumption
<1>1. procs[p].at = "writing" /\ procs[p] \in ProcRecords /\ holder = p
  BY DEF LedgerInv, WriteFails, HolderOK, Holding, Typed
<1>2. Cut(Len(ledger)) BY <1>1, TornIsACut DEF WriteFails
<1>3. procs'[p] = [procs[p] EXCEPT !.at = "done", !.told = "failed", !.time = 0]
      /\ procs' \in [Processes -> ProcRecords]
  <2>1. [procs[p] EXCEPT !.at = "done", !.told = "failed", !.time = 0] \in ProcRecords
    BY <1>1 DEF ProcRecords, Steps, Over, Answers, Refusals
  <2>2. procs' = [procs EXCEPT ![p] =
                    [procs[p] EXCEPT !.at = "done", !.told = "failed", !.time = 0]]
    BY DEF WriteFails, Tell
  <2> QED BY <2>1, <2>2 DEF LedgerInv, Typed
<1>4. \A q \in Processes \ {p} : procs'[q] = procs[q] /\ ~ Holding(q)
  BY <1>1 DEF LedgerInv, WriteFails, Tell, HolderOK, Typed
<1>5. Stopped(p) BY <1>1, <1>3 DEF Stopped, ProcRecords
<1>6. Stops BY <1>1, <1>3, <1>4, <1>5 DEF Stops, WriteFails, Holding, Over, faults, ProcRecords
<1> QED BY <1>2, <1>6, CutPreserves

\* A command that dies under the lock may leave a torn line.
LEMMA DiePreserves ==
    ASSUME LedgerInv, NEW p \in Processes, Die(p)
    PROVE  LedgerInv'
<1> USE TrustLedgerAssumption
<1>1. /\ procs[p].at \in {"writing", "written"} /\ procs[p] \in ProcRecords
      /\ procs[p].told = None /\ holder = p
  <2>1. Holding(p) /\ holder = p BY DEF LedgerInv, Die, HolderOK
  <2> QED BY <2>1, EarlyIsUntold DEF LedgerInv, Holding
<1>2. Cut(Len(ledger)) BY <1>1, TornIsACut DEF Die
<1>3. procs'[p] = [procs[p] EXCEPT !.at = "dead", !.time = 0]
      /\ procs' \in [Processes -> ProcRecords]
  <2>1. [procs[p] EXCEPT !.at = "dead", !.time = 0] \in ProcRecords
    BY <1>1 DEF ProcRecords, Steps, Over
  <2>2. procs' = [procs EXCEPT ![p] = [procs[p] EXCEPT !.at = "dead", !.time = 0]]
    BY DEF Die
  <2> QED BY <2>1, <2>2 DEF LedgerInv, Typed
<1>4. \A q \in Processes \ {p} : procs'[q] = procs[q] /\ ~ Holding(q)
  BY <1>1 DEF LedgerInv, Die, HolderOK, Typed
<1>5. Stopped(p) BY <1>1, <1>3 DEF Stopped, ProcRecords, Refusals
<1>6. Stops BY <1>1, <1>3, <1>4, <1>5 DEF Stops, Die, Holding, Over, faults, ProcRecords
<1> QED BY <1>2, <1>6, CutPreserves

\* A loss of power cuts the ledger at what was durable.
LEMMA LosePowerPreserves ==
    ASSUME LedgerInv, LosePower
    PROVE  LedgerInv'
<1> USE TrustLedgerAssumption
<1>1. Typed BY DEF LedgerInv
<1>2. Stops
  <2>1. \A q \in Processes : procs[q] \in ProcRecords BY <1>1 DEF Typed
  <2>2. ASSUME NEW q \in Processes
        PROVE  /\ procs'[q] \in ProcRecords
               /\ procs'[q] = procs[q] \/ (procs[q].at \notin Over /\ Stopped(q))
               /\ procs'[q].at \notin {"writing", "written"}
    <3>1. CASE procs[q].at \in Over \cup {"idle"}
      BY <2>1, <3>1 DEF LosePower, Over
    <3>2. CASE procs[q].at \notin Over \cup {"idle"}
      <4>1. procs'[q] = [procs[q] EXCEPT !.at = "dead", !.time = 0]
        BY <3>2 DEF LosePower
      <4>2. procs[q] \in ProcRecords /\ procs[q].told = None
        BY <2>1, <3>2, EarlyIsUntold DEF LedgerInv, ProcRecords, Steps
      <4>3. /\ procs'[q].at = "dead" /\ procs'[q].told = None
            /\ procs'[q].bound = procs[q].bound /\ procs'[q].id = procs[q].id
        BY <4>1, <4>2 DEF ProcRecords
      <4>4. procs'[q] \in ProcRecords
        <5> DEFINE r == procs[q]
        <5>1. r \in ProcRecords BY <4>2
        <5>2. [r EXCEPT !.at = "dead", !.time = 0] \in ProcRecords
          BY <5>1 DEF ProcRecords, Steps, Over
        <5> QED BY <4>1, <5>2
      <4> QED BY <3>2, <4>3, <4>4 DEF Stopped, Refusals, Over
    <3> QED BY <3>1, <3>2
  <2>3. procs' \in [Processes -> ProcRecords]
    <3>1. procs' = [q \in Processes |-> procs'[q]] BY DEF LosePower
    <3> QED BY <2>2, <3>1
  <2> QED BY <2>2, <2>3 DEF Stops, LosePower, Holding
<1>3. CASE ~ anchored /\ ledger' = <<>> /\ durable' = 0
  <2>1. Cut(0) BY <1>1, <1>3 DEF Cut, Typed
  <2> QED BY <1>2, <2>1, CutPreserves
<1>4. CASE \E n \in durable .. Len(ledger) :
             /\ ledger' \in {SubSeq(ledger, 1, n)} \cup
                   (IF n < Len(ledger) THEN {Append(SubSeq(ledger, 1, n), Torn)} ELSE {})
             /\ durable' = Len(ledger')
  <2>1. PICK n \in durable .. Len(ledger) :
             /\ ledger' \in {SubSeq(ledger, 1, n)} \cup
                   (IF n < Len(ledger) THEN {Append(SubSeq(ledger, 1, n), Torn)} ELSE {})
             /\ durable' = Len(ledger')
    BY <1>4
  <2>2. n \in Nat /\ n <= Len(ledger) /\ durable <= n BY <1>1 DEF Typed
  <2>3. \A i \in 1 .. n : ledger[i] \in Entries BY <1>1, <2>2 DEF Typed
  <2> DEFINE s == SubSeq(ledger, 1, n)
  <2>4. /\ s \in Seq(Entries) /\ Len(s) = n
        /\ \A i \in 1 .. n : s[i] = ledger[i]
    <3>1. /\ s \in Seq(Entries)
          /\ Len(s) = IF 1 <= n THEN n - 1 + 1 ELSE 0
          /\ \A i \in 1 .. n - 1 + 1 : s[i] = ledger[1 + i - 1]
      BY <2>2, <2>3, SubSeqProperties
    <3> QED BY <2>2, <3>1
  <2> HIDE DEF s
  <2>5. ledger' = s \/ (n < Len(ledger) /\ ledger' = Append(s, Torn)) BY <2>1 DEF s
  <2>6. Torn \in Entries /\ Torn.type = "torn" BY DEF Torn, Entries
  <2>7. /\ ledger' \in Seq(Entries) /\ Len(ledger') \in {n, n + 1}
        /\ \A i \in 1 .. n : ledger'[i] = ledger[i]
        /\ Len(ledger') = n + 1 => ledger'[n + 1].type = "torn" /\ n < Len(ledger)
    <3>1. CASE ledger' = s BY <2>2, <2>4, <3>1
    <3>2. CASE n < Len(ledger) /\ ledger' = Append(s, Torn)
      <4>1. /\ ledger' \in Seq(Entries) /\ Len(ledger') = n + 1
            /\ ledger'[n + 1] = Torn /\ \A i \in 1 .. n : ledger'[i] = s[i]
        BY <2>4, <2>6, <3>2
      <4> QED BY <2>4, <2>6, <3>2, <4>1
    <3> QED BY <2>5, <3>1, <3>2
  <2>8. n \in 0 .. Len(ledger) /\ durable' = Len(ledger') /\ durable \in Nat
    BY <1>1, <2>1, <2>2 DEF Typed
  <2>9. Cut(n) BY <2>2, <2>7, <2>8 DEF Cut
  <2> QED BY <1>2, <2>9, CutPreserves
<1> QED BY <1>3, <1>4 DEF LosePower

\* The clock and the person at the target.
LEMMA OutsidePreserves ==
    ASSUME LedgerInv, Tick \/ SetBack \/ Edit
    PROVE  LedgerInv'
<1> USE TrustLedgerAssumption DEF LedgerInv, disk
<1>1. UNCHANGED <<ledger, durable, anchored, holder, procs>>
  BY DEF Tick, SetBack, Edit
<1>2. Typed' BY <1>1 DEF Typed, Tick, SetBack, Edit, faults
<1>3. HolderOK' BY <1>1 DEF HolderOK, Holding
<1>4. WholeOK' BY <1>1 DEF WholeOK
<1>5. LinesOK' BY <1>1 DEF LinesOK
<1>6. WrittenOK' /\ ToldOK' BY <1>1 DEF WrittenOK, ToldOK, Stored
<1>7. MintOK' BY <1>1 DEF MintOK
<1>8. ClaimsOK' /\ ExclusiveOK'
  BY <1>1 DEF ClaimsOK, ExclusiveOK, Claiming, Holding, Approved, Consumed, Stored
<1>9. ClockOK'
  <2> SUFFICES ASSUME rollbacks' = 0 PROVE CreatedOK' /\ PairsOK' /\ WritingOK'
    BY DEF ClockOK
  <2>1. rollbacks = 0 /\ now \in Nat /\ now' \in Nat /\ now <= now'
    BY DEF Tick, SetBack, Edit, Typed, faults
  <2>2. CreatedOK /\ PairsOK /\ WritingOK BY <2>1 DEF ClockOK
  <2>3. \A i \in 1 .. Len(ledger) : ledger[i].created \in Nat
    <3>1. \A i \in 1 .. Len(ledger) : ledger[i] \in Entries BY DEF Typed
    <3> QED BY <3>1 DEF Entries
  <2>4. CreatedOK' BY <1>1, <2>1, <2>2, <2>3 DEF CreatedOK
  <2>5. PairsOK' BY <1>1, <2>2 DEF PairsOK, Spent, Consumed
  <2>6. \A a \in Approvers : procs[a].time \in Nat
    BY DEF Typed, ProcRecords, Processes
  <2>7. WritingOK' BY <1>1, <2>1, <2>2, <2>6 DEF WritingOK, Spent, Consumed
  <2> QED BY <2>4, <2>5, <2>7
<1> QED BY <1>2, <1>3, <1>4, <1>5, <1>6, <1>7, <1>8, <1>9
-----------------------------------------------------------------------------
\* The ledger is empty at first.
LEMMA InitEstablishes == Init => LedgerInv
<1> SUFFICES ASSUME Init PROVE LedgerInv
  OBVIOUS
<1> USE TrustLedgerAssumption DEF Init
<1>1. ledger \in Seq(Entries) /\ Len(ledger) = 0 OBVIOUS
<1>2. \A p \in Processes : procs[p] = [at |-> "idle", bound |-> None, built |-> None,
                                       time |-> 0, id |-> None, told |-> None]
  OBVIOUS
<1>3. Typed BY <1>1 DEF Typed, ProcRecords, Steps, Answers
<1>4. HolderOK /\ WholeOK /\ LinesOK /\ WrittenOK /\ ToldOK
  BY <1>1, <1>2 DEF HolderOK, Holding, WholeOK, LinesOK, WrittenOK, ToldOK
<1>5. MintOK /\ ClaimsOK /\ ExclusiveOK
  BY <1>2 DEF MintOK, ClaimsOK, ExclusiveOK, Claiming, Holding, Processes
<1>6. ClockOK
  BY <1>1, <1>2 DEF ClockOK, CreatedOK, PairsOK, WritingOK, Processes
<1> QED BY <1>3, <1>4, <1>5, <1>6 DEF LedgerInv

\* Every step.
LEMMA StepPreserves == LedgerInv /\ [Next]_vars => LedgerInv'
<1> SUFFICES ASSUME LedgerInv, [Next]_vars PROVE LedgerInv'
  OBVIOUS
<1>1. CASE \E a \in Approvers : Show(a) \/ Confirm(a) \/ Mint(a)
  BY <1>1, ShowPreserves, ConfirmPreserves, MintPreserves
<1>2. CASE \E c \in Consumers : Begin(c) \/ Consume(c)
  BY <1>2, BeginPreserves, ConsumePreserves
<1>3. CASE \E p \in Processes : \/ LockTimeout(p) \/ Write(p) \/ WriteFails(p)
                                \/ Sync(p) \/ SyncFails(p) \/ CloseFails(p) \/ Die(p)
  BY <1>3, LockTimeoutPreserves, WritePreserves, WriteFailsPreserves, SyncPreserves,
     SyncFailsPreserves, CloseFailsPreserves, DiePreserves
<1>4. CASE LosePower BY <1>4, LosePowerPreserves
<1>5. CASE Tick \/ SetBack \/ Edit BY <1>5, OutsidePreserves
<1>6. CASE UNCHANGED vars
  <2>1. UNCHANGED <<target, now, ledger, durable, anchored, holder, procs, rollbacks>>
    BY <1>6 DEF vars, disk, faults
  <2> QED
    BY <2>1 DEF LedgerInv, Typed, HolderOK, WholeOK, LinesOK, WrittenOK, ToldOK,
                MintOK, ClaimsOK, ExclusiveOK, ClockOK, CreatedOK, PairsOK,
                WritingOK, Spent, Consumed, Approved, Stored, Claiming, Holding
<1> QED BY <1>1, <1>2, <1>3, <1>4, <1>5, <1>6 DEF Next

\* Locals, lines, answers and the lock agree in every reachable state, whichever
\* of the writes, barriers, deaths and power failures interrupt which command.
THEOREM LedgerInvariant == Spec => []LedgerInv
BY InitEstablishes, StepPreserves, PTL DEF Spec

\* An approval is used once (_consume_approval): for any number of consumers,
\* losses of power, torn lines and changes of the clock.
THEOREM ApprovalIsUsedOnce == Spec => []SingleUse
<1>1. LedgerInv => SingleUse
  BY DEF LedgerInv, ExclusiveOK, Claiming, SingleUse
<1> QED BY <1>1, LedgerInvariant, PTL

\* A set whose members are all equal has one of them at most.
LEMMA AtMostOne ==
    ASSUME NEW S, \A x, y \in S : x = y
    PROVE  Cardinality(S) <= 1
<1>1. CASE S = {} BY <1>1, FS_EmptySet
<1>2. CASE S # {}
  <2>1. PICK x \in S : TRUE BY <1>2
  <2>2. S = {x} BY <2>1
  <2> QED BY <2>2, FS_Singleton
<1> QED BY <1>1, <1>2

\* What was told is true and stays true across a loss of power, an approve that
\* refused left no approval, an approval binds what its approver read, and while
\* the clock was not set back no content has two active approvals (_mint,
\* _append, fold_active): what the run checks, for any number of commands.
THEOREM LedgerStaysTrue == Spec => []LedgerIsTrue
<1>1. ASSUME LedgerInv PROVE LedgerIsTrue
  <2> USE <1>1, TrustLedgerAssumption DEF LedgerInv
  <2>1. DOMAIN ledger = 1 .. Len(ledger) BY DEF Typed
  <2>2. \A type : Lines(type) = {l \in {ledger[i] : i \in 1 .. Len(ledger)} : l.type = type}
    BY <2>1 DEF Lines, ToSet
  <2>3. TypeOK
    <3>1. holder \in {None} \cup {p \in Processes : procs[p].at \in {"writing", "written"}}
      BY DEF Typed, HolderOK, Holding
    <3>2. \A i \in DOMAIN ledger : ledger[i].type = "torn" => i = Len(ledger)
      BY <2>1 DEF WholeOK
    <3>3. \A i \in DOMAIN ledger :
              /\ ledger[i].type = "approval" => ledger[i].id \in Approvers
              /\ ledger[i].type = "consumption" => ledger[i].id \in Approvers
      BY <2>1 DEF LinesOK
    <3> QED BY <3>1, <3>2, <3>3 DEF TypeOK, Typed
  <2>4. AnswersAreTrue
    <3>1. ASSUME anchored, NEW p \in Processes
          PROVE  /\ procs[p].told = "recorded" => Stored("approval", p)
                 /\ procs[p].told = "consumed" => Stored("consumption", procs[p].id)
      BY <3>1 DEF ToldOK, ClaimsOK, Claiming
    <3>2. ASSUME NEW a \in Approvers, procs[a].told \in Refusals, procs[a].at # "unclosed",
                 NEW l \in Lines("approval")
          PROVE  l.id # a
      BY <2>2, <3>2 DEF LinesOK
    <3> QED BY <3>1, <3>2 DEF AnswersAreTrue
  <2>5. \A l \in Lines("approval") : l.bound = procs[l.id].bound
    BY <2>2 DEF LinesOK
  <2>6. ASSUME rollbacks = 0, NEW b \in Contents PROVE Cardinality(Active(b, now)) <= 1
    <3> SUFFICES ASSUME NEW l1 \in Active(b, now), NEW l2 \in Active(b, now)
                 PROVE  l1 = l2
      BY AtMostOne
    <3>1. now \in Nat BY DEF Typed
    <3>2. ASSUME NEW i \in 1 .. Len(ledger), NEW j \in 1 .. Len(ledger), i < j,
                 ledger[i].type = "approval", ledger[j].type = "approval",
                 ledger[i].bound = ledger[j].bound,
                 ~ Consumed(ledger[i].id, Len(ledger)),
                 ledger[j].created <= now, now < ledger[i].created + Lifetime
          PROVE  FALSE
      <4>1. Spent(i, j - 1, ledger[j].created) BY <2>6, <3>2 DEF ClockOK, PairsOK
      <4>2. ledger[i] \in Entries /\ ledger[j] \in Entries BY DEF Typed
      <4>3. ~ Consumed(ledger[i].id, j - 1) BY <3>2 DEF Consumed, Typed
      <4> QED BY <3>1, <3>2, <4>1, <4>2, <4>3 DEF Spent, Entries
    <3>3. PICK i \in 1 .. Len(ledger) :
              /\ ledger[i] = l1 /\ l1.type = "approval" /\ l1.bound = b
              /\ ~ Consumed(l1.id, Len(ledger))
              /\ l1.created <= now /\ now < l1.created + Lifetime
      BY <3>1, ActiveLines
    <3>4. PICK j \in 1 .. Len(ledger) :
              /\ ledger[j] = l2 /\ l2.type = "approval" /\ l2.bound = b
              /\ ~ Consumed(l2.id, Len(ledger))
              /\ l2.created <= now /\ now < l2.created + Lifetime
      BY <3>1, ActiveLines
    <3>5. ~ (i < j) BY <3>2, <3>3, <3>4
    <3>6. ~ (j < i) BY <3>2, <3>3, <3>4
    <3> QED BY <3>3, <3>4, <3>5, <3>6 DEF Typed
  <2> QED BY <2>3, <2>4, <2>5, <2>6 DEF LedgerIsTrue, ApprovalsAreSound
<1> QED BY <1>1, LedgerInvariant, PTL
-----------------------------------------------------------------------------
(* RequestClaims.                                                           *)

\* A call that is being served names its request.
CallsNameTheirRequest ==
    \A c \in Calls : calls[c].at # "idle" =>
        calls[c].id \in Ids /\ calls[c].digest \in Digests

\* Nothing says of a request that it went through before Cofferdam did its work:
\* neither the call that carried it up, nor the row it leaves.  The work is that of
\* the very digest, except where claims of an id crossed.
CallsAreTrue ==
    /\ \A c \in Calls : calls[c].at = "ok" => calls[c].digest \in done[calls[c].id]
    /\ ReplayIsTrue
RowsAreTrue ==
    \A i \in Ids : rows[i] # Nothing /\ rows[i].settled =>
        /\ done[i] # {}
        /\ rows[i].digest \in done[i] \/ i \in crossed

\* All whose success would settle a row carry its digest, except where claims of
\* the id crossed: a row is taken over by the same digest only.
OwnersAgree ==
    \A c \in Calls, i \in Ids : AtWork(c, i) /\ rows[i] # Nothing /\ i \notin crossed =>
        calls[c].digest = rows[i].digest

ClaimsInv ==
    ClaimsTypeOK /\ CallsNameTheirRequest /\ CallsAreTrue /\ RowsAreTrue /\ OwnersAgree
-----------------------------------------------------------------------------
\* Moving a call on touches that call alone, and only where it is.
LEMMA GotoMoves ==
    ASSUME ClaimsTypeOK, NEW c \in Calls, NEW at, Becomes(c, at)
    PROVE  /\ calls' = [calls EXCEPT ![c] = [calls[c] EXCEPT !.at = at]]
           /\ calls'[c] = [calls[c] EXCEPT !.at = at]
           /\ \A b \in Calls \ {c} : calls'[b] = calls[b]
BY DEF ClaimsTypeOK, Becomes

\* Cofferdam forgets nothing it did, and what it says it did is done.
LEMMA WorkOnlyGrows ==
    ASSUME ClaimsTypeOK, NEW i \in Ids, NEW d \in Digests,
           NEW result \in {"ok", "refused"}, CarryOut(i, d, result)
    PROVE  /\ done' \in [Ids -> SUBSET Digests]
           /\ open' \in BOOLEAN
           /\ \A j \in Ids : done[j] \subseteq done'[j]
           /\ result = "ok" => d \in done'[i]
<1>1. open' \in BOOLEAN BY Zenon DEF ClaimsTypeOK, CarryOut
<1>2. CASE result = "ok"
  <2>1. done' = [done EXCEPT ![i] = @ \cup {d}] BY <1>2 DEF CarryOut
  <2> QED BY <1>1, <2>1 DEF ClaimsTypeOK
<1>3. CASE result = "refused" BY <1>1, <1>3 DEF CarryOut, ClaimsTypeOK
<1> QED BY <1>2, <1>3

\* What the upstream carries out is an answer.
LEMMA CarriedIsAnAnswer ==
    ASSUME NEW i \in Ids, NEW d \in Digests, NEW result \in Carried(i, d)
    PROVE  result \in {"ok", "refused"}
BY DEF Carried, ByKey, ByState

\* A call that is over is typed.
LEMMA IdleIsACall ==
    ASSUME ClaimsTypeOK, NEW c \in Calls
    PROVE  [calls EXCEPT ![c] = Idle] \in
             [Calls -> [at: {"idle", "sent", "ok", "refused", "lost", "replayed"},
                        id: Ids \cup {Nothing}, digest: Digests \cup {Nothing},
                        fresh: BOOLEAN]]
BY DEF ClaimsTypeOK, Idle
-----------------------------------------------------------------------------
\* The actions of a caller and of the table, one by one.

\* A claim is a row of its own, or finds the one that is there.
LEMMA ClaimPreserves ==
    ASSUME ClaimsInv, NEW c \in Calls, NEW i \in Ids, NEW d \in Digests,
           Claim(c, i, d)
    PROVE  ClaimsInv'
<1> USE DEF ClaimsInv, Claim
<1>1. ClaimsTypeOK'
  <2>1. rows' \in [Ids -> Rows \cup {Nothing}]
    <3>1. CASE rows' = [rows EXCEPT ![i].age = "fresh"] /\ rows[i] # Nothing
      <4>1. rows[i] \in Rows BY <3>1 DEF ClaimsTypeOK
      <4>2. [rows[i] EXCEPT !.age = "fresh"] \in Rows BY <4>1 DEF Rows
      <4>3. rows' = [rows EXCEPT ![i] = [rows[i] EXCEPT !.age = "fresh"]] BY <3>1
      <4> QED BY <4>2, <4>3 DEF ClaimsTypeOK
    <3>2. CASE rows' = [rows EXCEPT ![i] = [digest |-> d, age |-> "fresh", settled |-> FALSE]]
      BY <3>2 DEF ClaimsTypeOK, Rows
    <3> QED BY <3>1, <3>2
  <2>2. calls' \in [Calls -> [at: {"idle", "sent", "ok", "refused", "lost", "replayed"},
                              id: Ids \cup {Nothing}, digest: Digests \cup {Nothing},
                              fresh: BOOLEAN]]
    BY DEF ClaimsTypeOK
  <2> QED BY <2>1, <2>2 DEF ClaimsTypeOK
<1>2. CallsNameTheirRequest' BY DEF ClaimsTypeOK, CallsNameTheirRequest
<1>3. CallsAreTrue' BY DEF ClaimsTypeOK, CallsAreTrue, ReplayIsTrue
<1>4. RowsAreTrue' BY DEF ClaimsTypeOK, Rows, RowsAreTrue
<1>5. OwnersAgree'
  <2>1. rows'[i] # Nothing /\ rows'[i].digest = d /\ \A j \in Ids \ {i} : rows'[j] = rows[j]
    <3>1. rows'[i] \in Rows /\ rows'[i].digest = d
      <4>1. CASE rows[i] = Nothing
        <5>1. rows'[i] = [digest |-> d, age |-> "fresh", settled |-> FALSE]
          BY <4>1 DEF ClaimsTypeOK
        <5> HIDE DEF Claim
        <5> QED BY <5>1 DEF Rows
      <4>2. CASE rows[i] # Nothing
        <5>1. rows[i] \in Rows /\ rows[i].digest = d BY <4>2 DEF ClaimsTypeOK
        <5>2. rows'[i] = [rows[i] EXCEPT !.age = "fresh"] BY <4>2 DEF ClaimsTypeOK
        <5> QED BY <5>1, <5>2 DEF Rows
      <4> QED BY <4>1, <4>2
    <3>2. \A j \in Ids \ {i} : rows'[j] = rows[j] BY DEF ClaimsTypeOK
    <3> QED BY <3>1, <3>2, RequestClaimsAssumption
  <2> SUFFICES ASSUME NEW b \in Calls, NEW j \in Ids, AtWork(b, j)', rows'[j] # Nothing,
                      j \notin crossed'
               PROVE  calls'[b].digest = rows'[j].digest
    BY DEF OwnersAgree
  <2>2. CASE b = c BY <2>1, <2>2 DEF ClaimsTypeOK, AtWork
  <2>3. CASE b # c
    <3>1. calls'[b] = calls[b] /\ AtWork(b, j) /\ j \notin crossed
      BY <2>3 DEF ClaimsTypeOK, AtWork
    <3>2. CASE j = i BY <3>1, <3>2, <2>1
    <3>3. CASE j # i BY <3>1, <3>3, <2>1 DEF OwnersAgree
    <3> QED BY <3>2, <3>3
  <2> QED BY <2>2, <2>3
<1> QED BY <1>1, <1>2, <1>3, <1>4, <1>5

\* A replay tells what the settled row says.
LEMMA ReplayPreserves ==
    ASSUME ClaimsInv, NEW c \in Calls, NEW i \in Ids, NEW d \in Digests,
           Replay(c, i, d)
    PROVE  ClaimsInv'
<1> USE DEF ClaimsInv, Replay
<1>1. ClaimsTypeOK' BY DEF ClaimsTypeOK
<1>2. CallsNameTheirRequest' BY DEF ClaimsTypeOK, CallsNameTheirRequest
<1>3. CallsAreTrue' BY DEF ClaimsTypeOK, CallsAreTrue, ReplayIsTrue, RowsAreTrue
<1>4. RowsAreTrue' BY DEF RowsAreTrue
<1>5. OwnersAgree' BY DEF ClaimsTypeOK, OwnersAgree, AtWork
<1> QED BY <1>1, <1>2, <1>3, <1>4, <1>5

\* A plan that is settled is asked for again, without a claim.
LEMMA AskAgainPreserves ==
    ASSUME ClaimsInv, NEW c \in Calls, NEW i \in Ids, NEW d \in Digests,
           AskAgain(c, i, d)
    PROVE  ClaimsInv'
<1> USE DEF ClaimsInv, AskAgain
<1>1. ClaimsTypeOK' BY DEF ClaimsTypeOK
<1>2. CallsNameTheirRequest' BY DEF ClaimsTypeOK, CallsNameTheirRequest
<1>3. CallsAreTrue' BY DEF ClaimsTypeOK, CallsAreTrue, ReplayIsTrue
<1>4. RowsAreTrue' BY DEF RowsAreTrue
<1>5. OwnersAgree' BY DEF ClaimsTypeOK, OwnersAgree, AtWork
<1> QED BY <1>1, <1>2, <1>3, <1>4, <1>5

\* The upstream carries the request out, or refuses it.
LEMMA UpstreamPreserves ==
    ASSUME ClaimsInv, NEW c \in Calls, Upstream(c)
    PROVE  ClaimsInv'
<1> USE DEF ClaimsInv
<1>1. calls[c].id \in Ids /\ calls[c].digest \in Digests
  BY DEF Upstream, CallsNameTheirRequest
<1>2. PICK result \in Carried(calls[c].id, calls[c].digest) :
          CarryOut(calls[c].id, calls[c].digest, result) /\ Becomes(c, result)
  BY DEF Upstream
<1>3. result \in {"ok", "refused"} BY <1>1, CarriedIsAnAnswer
<1>4. /\ done' \in [Ids -> SUBSET Digests] /\ open' \in BOOLEAN
      /\ \A j \in Ids : done[j] \subseteq done'[j]
      /\ result = "ok" => calls[c].digest \in done'[calls[c].id]
  BY <1>1, <1>2, <1>3, WorkOnlyGrows
<1>5. calls[c].at = "sent" /\ UNCHANGED <<kind, rows, late, crossed, ticks>> BY DEF Upstream
<1>6. /\ calls' = [calls EXCEPT ![c] = [calls[c] EXCEPT !.at = result]]
      /\ calls'[c] = [calls[c] EXCEPT !.at = result]
      /\ \A b \in Calls \ {c} : calls'[b] = calls[b]
  BY <1>2, GotoMoves
<1>7. ClaimsTypeOK' BY <1>3, <1>4, <1>5, <1>6 DEF ClaimsTypeOK
<1>8. CallsNameTheirRequest' BY <1>1, <1>6 DEF ClaimsTypeOK, CallsNameTheirRequest
<1>9. CallsAreTrue'
  <2>1. ASSUME NEW b \in Calls, calls'[b].at \in {"ok", "replayed"}, b # c
        PROVE  calls'[b] = calls[b] /\ done[calls[b].id] \subseteq done'[calls[b].id]
    BY <2>1, <1>4, <1>6 DEF CallsNameTheirRequest
  <2>2. ASSUME NEW b \in Calls, calls'[b].at = "ok" PROVE calls'[b].digest \in done'[calls'[b].id]
    BY <2>1, <2>2, <1>4, <1>6 DEF CallsAreTrue, ClaimsTypeOK
  <2>3. ReplayIsTrue' BY <2>1, <1>3, <1>5, <1>6 DEF CallsAreTrue, ReplayIsTrue, ClaimsTypeOK
  <2> QED BY <2>2, <2>3 DEF CallsAreTrue
<1>10. RowsAreTrue' BY <1>4, <1>5 DEF RowsAreTrue
<1>11. OwnersAgree' BY <1>5, <1>6 DEF OwnersAgree, AtWork, ClaimsTypeOK
<1> QED BY <1>7, <1>8, <1>9, <1>10, <1>11

\* An answer is lost after the upstream did, or did not, carry it out.
LEMMA LoseAnswerPreserves ==
    ASSUME ClaimsInv, NEW c \in Calls, LoseAnswer(c)
    PROVE  ClaimsInv'
<1> USE DEF ClaimsInv
<1>1. calls[c].id \in Ids /\ calls[c].digest \in Digests
  BY DEF LoseAnswer, CallsNameTheirRequest
<1>2. Becomes(c, "lost") /\ UNCHANGED <<kind, rows, done, open, crossed, ticks>> BY DEF LoseAnswer
<1>3. /\ calls' = [calls EXCEPT ![c] = [calls[c] EXCEPT !.at = "lost"]]
      /\ calls'[c] = [calls[c] EXCEPT !.at = "lost"]
      /\ \A b \in Calls \ {c} : calls'[b] = calls[b]
  BY <1>2, GotoMoves
<1>4. late' \subseteq Ids \X Digests BY <1>1 DEF LoseAnswer, ClaimsTypeOK
<1>5. ClaimsTypeOK' BY <1>2, <1>3, <1>4 DEF ClaimsTypeOK
<1>6. CallsNameTheirRequest' BY <1>1, <1>3 DEF ClaimsTypeOK, CallsNameTheirRequest
<1>7. CallsAreTrue' BY <1>2, <1>3 DEF ClaimsTypeOK, CallsAreTrue, ReplayIsTrue
<1>8. RowsAreTrue' BY <1>2 DEF RowsAreTrue
<1>9. OwnersAgree' BY <1>2, <1>3 DEF OwnersAgree, AtWork, ClaimsTypeOK
<1> QED BY <1>5, <1>6, <1>7, <1>8, <1>9

\* The holder of a claim settles the row with the answer it got.
LEMMA SettlePreserves ==
    ASSUME ClaimsInv, NEW c \in Calls, Settle(c)
    PROVE  ClaimsInv'
<1> USE DEF ClaimsInv
<1>1. calls[c].id \in Ids /\ calls[c].digest \in done[calls[c].id] /\ AtWork(c, calls[c].id)
  BY DEF AtWork, Settle, CallsNameTheirRequest, CallsAreTrue
<1>2. Becomes(c, "replayed") /\ UNCHANGED <<kind, late, done, open, crossed, ticks>> BY DEF Settle
<1>3. /\ calls' = [calls EXCEPT ![c] = [calls[c] EXCEPT !.at = "replayed"]]
      /\ calls'[c] = [calls[c] EXCEPT !.at = "replayed"]
      /\ \A b \in Calls \ {c} : calls'[b] = calls[b]
  BY <1>2, GotoMoves
<1>4. /\ rows' \in [Ids -> Rows \cup {Nothing}]
      /\ \A j \in Ids \ {calls[c].id} : rows'[j] \in {rows[j], Nothing}
      /\ \A j \in Ids : rows'[j] # Nothing => rows[j] # Nothing /\ rows'[j].digest = rows[j].digest
  <2> DEFINE i == calls[c].id
             settled == IF rows[i] = Nothing THEN rows ELSE [rows EXCEPT ![i].settled = TRUE]
  <2>1. rows' = [j \in Ids |-> IF settled[j] # Nothing /\ settled[j].age = "old"
                               THEN Nothing ELSE settled[j]]
    BY DEF Settle
  <2>2. rows[i] # Nothing => [rows[i] EXCEPT !.settled = TRUE] \in Rows
    BY <1>1 DEF ClaimsTypeOK, Rows
  <2>3. /\ settled \in [Ids -> Rows \cup {Nothing}]
        /\ \A j \in Ids \ {i} : settled[j] = rows[j]
        /\ \A j \in Ids : settled[j] # Nothing =>
               rows[j] # Nothing /\ settled[j].digest = rows[j].digest
    BY <1>1, <2>2 DEF ClaimsTypeOK, Rows
  <2> HIDE DEF i, settled
  <2>4. /\ rows' \in [Ids -> Rows \cup {Nothing}]
        /\ \A j \in Ids \ {i} : rows'[j] \in {rows[j], Nothing}
        /\ \A j \in Ids : rows'[j] # Nothing =>
               rows[j] # Nothing /\ rows'[j].digest = rows[j].digest
    BY <2>1, <2>3
  <2> QED BY <2>4 DEF i
<1>5. ClaimsTypeOK' BY <1>2, <1>3, <1>4 DEF ClaimsTypeOK
<1>6. CallsNameTheirRequest' BY <1>3 DEF Settle, ClaimsTypeOK, CallsNameTheirRequest
<1>7. CallsAreTrue' BY <1>1, <1>2, <1>3 DEF ClaimsTypeOK, CallsAreTrue, ReplayIsTrue
<1>8. RowsAreTrue'
  <2> SUFFICES ASSUME NEW j \in Ids, rows'[j] # Nothing, rows'[j].settled
               PROVE  done[j] # {} /\ (rows'[j].digest \in done[j] \/ j \in crossed)
    BY <1>2 DEF RowsAreTrue
  <2>1. CASE j = calls[c].id BY <1>1, <1>4, <2>1 DEF OwnersAgree
  <2>2. CASE j # calls[c].id BY <1>4, <2>2 DEF RowsAreTrue
  <2> QED BY <2>1, <2>2
<1>9. OwnersAgree' BY <1>2, <1>3, <1>4 DEF OwnersAgree, AtWork, ClaimsTypeOK
<1> QED BY <1>5, <1>6, <1>7, <1>8, <1>9

\* After a refusal or a lost answer the claim goes, unless it is settled.
LEMMA ReleasePreserves ==
    ASSUME ClaimsInv, NEW c \in Calls, Release(c)
    PROVE  ClaimsInv'
<1> USE DEF ClaimsInv
<1>1. /\ rows' \in [Ids -> Rows \cup {Nothing}]
      /\ \A j \in Ids : rows'[j] \in {rows[j], Nothing}
  BY DEF Release, CallsNameTheirRequest, ClaimsTypeOK
<1>2. /\ calls' = [calls EXCEPT ![c] = Idle]
      /\ UNCHANGED <<kind, late, done, open, crossed, ticks>>
  BY DEF Release
<1>3. ClaimsTypeOK' BY <1>1, <1>2, IdleIsACall DEF ClaimsTypeOK
<1>4. \A b \in Calls : calls'[b] \in {calls[b], Idle} BY <1>2 DEF ClaimsTypeOK
<1>5. CallsNameTheirRequest' BY <1>4 DEF CallsNameTheirRequest, Idle
<1>6. CallsAreTrue' BY <1>2, <1>4 DEF CallsAreTrue, ReplayIsTrue, Idle
<1>7. RowsAreTrue' BY <1>1, <1>2 DEF RowsAreTrue
<1>8. OwnersAgree' BY <1>1, <1>2, <1>4 DEF OwnersAgree, AtWork, Idle
<1> QED BY <1>3, <1>5, <1>6, <1>7, <1>8

\* A call that told its answer is over.
LEMMA FinishPreserves ==
    ASSUME ClaimsInv, NEW c \in Calls, Finish(c)
    PROVE  ClaimsInv'
<1> USE DEF ClaimsInv, Finish
<1>1. ClaimsTypeOK' BY IdleIsACall DEF ClaimsTypeOK
<1>2. CallsNameTheirRequest' BY DEF ClaimsTypeOK, CallsNameTheirRequest, Idle
<1>3. CallsAreTrue' BY DEF ClaimsTypeOK, CallsAreTrue, ReplayIsTrue, Idle
<1>4. RowsAreTrue' BY DEF RowsAreTrue
<1>5. OwnersAgree' BY DEF OwnersAgree, AtWork, ClaimsTypeOK, Idle
<1> QED BY <1>1, <1>2, <1>3, <1>4, <1>5
-----------------------------------------------------------------------------
\* What goes on without a caller.

\* A request whose answer was lost is carried out after all.
LEMMA CarryOutLatePreserves ==
    ASSUME ClaimsInv, NEW work \in late, CarryOutLate(work)
    PROVE  ClaimsInv'
<1> USE DEF ClaimsInv
<1>1. work[1] \in Ids /\ work[2] \in Digests BY DEF ClaimsTypeOK
<1>2. PICK result \in Carried(work[1], work[2]) : CarryOut(work[1], work[2], result)
  BY DEF CarryOutLate
<1>3. result \in {"ok", "refused"} BY <1>1, CarriedIsAnAnswer
<1>4. /\ done' \in [Ids -> SUBSET Digests] /\ open' \in BOOLEAN
      /\ \A j \in Ids : done[j] \subseteq done'[j]
  BY <1>1, <1>2, <1>3, WorkOnlyGrows
<1>5. late' = late \ {work} /\ UNCHANGED <<kind, rows, calls, crossed, ticks>> BY DEF CarryOutLate
<1>6. ClaimsTypeOK' BY <1>4, <1>5 DEF ClaimsTypeOK
<1>7. CallsNameTheirRequest' BY <1>5 DEF CallsNameTheirRequest
<1>8. CallsAreTrue' BY <1>4, <1>5 DEF CallsNameTheirRequest, CallsAreTrue, ReplayIsTrue
<1>9. RowsAreTrue' BY <1>4, <1>5 DEF RowsAreTrue
<1>10. OwnersAgree' BY <1>5 DEF OwnersAgree, AtWork
<1> QED BY <1>6, <1>7, <1>8, <1>9, <1>10

\* Time passes, and a row may expire.
LEMMA TickPreserves ==
    ASSUME ClaimsInv, NEW i \in Ids, Age(i)
    PROVE  ClaimsInv'
<1> USE RequestClaimsAssumption DEF ClaimsInv, Age
<1>1. ClaimsTypeOK' BY DEF ClaimsTypeOK, Rows
<1>2. CallsNameTheirRequest' BY DEF CallsNameTheirRequest
<1>3. CallsAreTrue' BY DEF CallsAreTrue, ReplayIsTrue
<1>4. RowsAreTrue' BY DEF ClaimsTypeOK, Rows, RowsAreTrue
<1>5. OwnersAgree' BY DEF ClaimsTypeOK, Rows, OwnersAgree, AtWork
<1> QED BY <1>1, <1>2, <1>3, <1>4, <1>5

\* A crash leaves the rows and loses the calls.
LEMMA CrashPreserves ==
    ASSUME ClaimsInv, Crash
    PROVE  ClaimsInv'
<1> USE DEF ClaimsInv, Crash
<1>1. late' \subseteq Ids \X Digests BY DEF ClaimsTypeOK, CallsNameTheirRequest
<1>2. ClaimsTypeOK' BY <1>1 DEF ClaimsTypeOK, Idle
<1>3. CallsNameTheirRequest' BY DEF CallsNameTheirRequest, Idle
<1>4. CallsAreTrue' BY DEF CallsAreTrue, ReplayIsTrue, Idle
<1>5. RowsAreTrue' BY DEF RowsAreTrue
<1>6. OwnersAgree' BY DEF OwnersAgree, AtWork, Idle
<1> QED BY <1>2, <1>3, <1>4, <1>5, <1>6

\* Somebody else closes what a guarded request acts on.
LEMMA CloseElsewherePreserves ==
    ASSUME ClaimsInv, CloseElsewhere
    PROVE  ClaimsInv'
BY DEF ClaimsInv, CloseElsewhere, ClaimsTypeOK, CallsNameTheirRequest, CallsAreTrue,
       ReplayIsTrue, RowsAreTrue, OwnersAgree, AtWork
-----------------------------------------------------------------------------
\* Every step.
LEMMA ClaimsStepPreserves == ClaimsInv /\ [ClaimsNext]_claimsVars => ClaimsInv'
<1> SUFFICES ASSUME ClaimsInv, [ClaimsNext]_claimsVars PROVE ClaimsInv'
  OBVIOUS
<1>1. CASE \E c \in Calls, i \in Ids, d \in Digests :
              Claim(c, i, d) \/ Replay(c, i, d) \/ AskAgain(c, i, d)
  BY <1>1, ClaimPreserves, ReplayPreserves, AskAgainPreserves
<1>2. CASE \E c \in Calls : CallStep(c)
  BY <1>2, UpstreamPreserves, LoseAnswerPreserves, SettlePreserves,
     ReleasePreserves, FinishPreserves DEF CallStep
<1>3. CASE \E work \in late : CarryOutLate(work) BY <1>3, CarryOutLatePreserves
<1>4. CASE \E i \in Ids : Age(i) BY <1>4, TickPreserves
<1>5. CASE CloseElsewhere BY <1>5, CloseElsewherePreserves
<1>6. CASE Crash BY <1>6, CrashPreserves
<1>7. CASE UNCHANGED claimsVars
  BY <1>7 DEF claimsVars, ClaimsInv, ClaimsTypeOK, CallsNameTheirRequest, CallsAreTrue,
              ReplayIsTrue, RowsAreTrue, OwnersAgree, AtWork
<1> QED BY <1>1, <1>2, <1>3, <1>4, <1>5, <1>6, <1>7 DEF ClaimsNext

\* Calls, rows and what Cofferdam did agree in every reachable state: a call is
\* "ok" or answered, and a row settled, only for work that was done, of the very
\* digest unless claims of the id crossed, and all who could settle a row agree with
\* it (claim, settle, release and the replay branches of the bridge).
THEOREM ClaimsInvariant == ClaimsSpec => []ClaimsInv
<1>1. ClaimsInit => ClaimsInv
  BY RequestClaimsAssumption DEF ClaimsInit, ClaimsInv, ClaimsTypeOK, Idle,
     CallsNameTheirRequest, CallsAreTrue, ReplayIsTrue, RowsAreTrue, OwnersAgree, AtWork
<1> QED BY <1>1, ClaimsStepPreserves, PTL DEF ClaimsSpec

\* A caller that is told its request went through is told the truth of its own
\* digest, however many callers share an id and however often its claim changes
\* hands, until the id is claimed for something else while a call of it is at work;
\* after that it is only told that something was done under the id.
THEOREM RepliesAreTrue == ClaimsSpec => []ReplayIsTrue
<1>1. ClaimsInv => ReplayIsTrue BY DEF ClaimsInv, CallsAreTrue
<1> QED BY <1>1, ClaimsInvariant, PTL

\* No attempt that fails later, and no other step, takes away the record of a
\* request that went through before its retention has passed (release, settle).
THEOREM SettledRowsStand == ClaimsSpec => SettledStands
<1>1. ASSUME ClaimsInv, [ClaimsNext]_claimsVars, NEW i \in Ids,
             rows[i] # Nothing, rows[i].settled, rows[i].age # "old"
      PROVE  rows'[i] # Nothing /\ rows'[i].settled
  <2> USE <1>1, RequestClaimsAssumption DEF ClaimsInv
  <2>1. CASE \E c \in Calls, j \in Ids, d \in Digests : Claim(c, j, d)
    BY <2>1 DEF Claim, ClaimsTypeOK
  <2>2. CASE \E c \in Calls, j \in Ids, d \in Digests :
                Replay(c, j, d) \/ AskAgain(c, j, d)
    BY <2>2 DEF Replay, AskAgain
  <2>3. CASE \E c \in Calls : Upstream(c) \/ LoseAnswer(c) \/ Finish(c)
    BY <2>3 DEF Upstream, LoseAnswer, Finish
  <2>4. ASSUME NEW c \in Calls, Settle(c) PROVE rows'[i] # Nothing /\ rows'[i].settled
    <3>1. calls[c].id \in Ids BY <2>4 DEF Settle, CallsNameTheirRequest
    <3>2. rows[i] \in Rows BY DEF ClaimsTypeOK
    <3>3. rows'[i] \in {rows[i], [rows[i] EXCEPT !.settled = TRUE]}
      BY <2>4, <3>1, <3>2 DEF Settle, ClaimsTypeOK, Rows
    <3> QED BY <3>2, <3>3 DEF Rows
  <2>5. ASSUME NEW c \in Calls, Release(c) PROVE rows'[i] # Nothing /\ rows'[i].settled
    BY <2>5 DEF Release, ClaimsTypeOK
  <2>6. CASE \E j \in Ids : Age(j)
    <3>1. PICK j \in Ids : Age(j) BY <2>6
    <3>2. rows[i] \in Rows BY DEF ClaimsTypeOK
    <3>3. i = j => rows'[i] = [rows[i] EXCEPT !.age = rows'[i].age]
      BY <3>1 DEF Age, ClaimsTypeOK, Rows
    <3>4. i # j => rows'[i] = rows[i] BY <3>1 DEF Age, ClaimsTypeOK
    <3>5. rows'[i] \in Rows BY <3>1, <3>2 DEF Age, ClaimsTypeOK, Rows
    <3> QED BY <3>2, <3>3, <3>4, <3>5 DEF Rows
  <2>7. CASE CloseElsewhere \/ Crash \/ (\E work \in late : CarryOutLate(work))
    BY <2>7 DEF CloseElsewhere, Crash, CarryOutLate
  <2>8. CASE UNCHANGED claimsVars BY <2>8 DEF claimsVars
  <2> QED BY <2>1, <2>2, <2>3, <2>4, <2>5, <2>6, <2>7, <2>8 DEF ClaimsNext, CallStep
<1>2. ClaimsInv /\ [ClaimsNext]_claimsVars =>
          [\A i \in Ids : /\ rows[i] # Nothing
                          /\ rows[i].settled
                          /\ rows[i].age # "old"
                          => rows'[i] # Nothing /\ rows'[i].settled]_claimsVars
  BY <1>1
<1> QED BY <1>2, ClaimsInvariant, PTL DEF ClaimsSpec, SettledStands
=============================================================================
