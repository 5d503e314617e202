-------------------------- MODULE TurnEvidenceProofs --------------------------
(***************************************************************************)
(* What is known of a turn.  In two parts, each with its inductive          *)
(* invariant and its theorems: the evidence that is gathered of it, for any *)
(* paths and contents, turns of any length and reports of any size; and     *)
(* what the session that drives it says (AgentSession), for any number of   *)
(* follow-ups, questions and deaths of the helper.                          *)
(***************************************************************************)
EXTENDS TurnEvidence, AgentSession, FiniteSetTheorems, SequenceTheorems, WellFoundedInduction, TLAPS

Records == {Record(p) : p \in Paths} \ {None}
RangeRecords == {Committed(p) : p \in Paths} \ {None}

\* A baseline is called clean only of a tree that was given as HEAD has it.
CleanIsGivenAsBase == boundary = "clean" => given = base

\* Every content a path has had since is remembered, in the index and at HEAD
\* too, as long as HEAD stays on its history.
WentThrough(p) ==
    /\ IsFiniteSet(ever[p])
    /\ {given[p], work[p]} \subseteq ever[p]
    /\ ancestry # "diverged" => {head[p], index[p]} \subseteq ever[p] \cup {base[p]}

HistoryOK == /\ ever \in [Paths -> SUBSET (Contents \cup {Absent})]
             /\ \A p \in Paths : WentThrough(p)
             /\ ancestry = "identical" => head = base

\* Nothing is reported before its phase, and then what Git has to say: all of it
\* when the report says so.
NotBefore == /\ phase = "working" => worktree = NoReport
             /\ phase # "ranged" => range = NoRange

StatusOK == /\ worktree.seen \subseteq Records
            /\ WorktreeWasObserved /\ ~ worktree.partial => worktree.seen = Records

RangeOK == /\ range.seen \subseteq RangeRecords
           /\ range.coverage = "complete" =>
                /\ range.ancestry = ancestry
                /\ ancestry = "linear" => range.seen = RangeRecords

EvidenceInv == /\ TypeOK /\ CleanIsGivenAsBase /\ HistoryOK
               /\ NotBefore /\ StatusOK /\ RangeOK
-----------------------------------------------------------------------------
(* What Git says of two trees.                                              *)

\* The source of a rename is a path that was there, is gone, and whose content
\* is now where nothing was.
LEMMA SourceLeft ==
    ASSUME NEW old, NEW new, NEW q \in Paths, RenameSource(old, new, q) # None
    PROVE  LET p == RenameSource(old, new, q) IN
           /\ p \in Paths
           /\ old[p] # Absent /\ new[p] = Absent /\ new[q] = old[p]
           /\ old[q] = Absent /\ new[q] # Absent
<1> DEFINE sources == {p \in Paths : /\ old[p] # Absent /\ new[p] = Absent
                                     /\ new[q] = old[p]}
<1>1. /\ old[q] = Absent /\ new[q] # Absent /\ sources # {}
      /\ RenameSource(old, new, q) = CHOOSE p \in sources : TRUE
  BY DEF RenameSource
<1>2. RenameSource(old, new, q) \in sources BY <1>1
<1> QED BY <1>1, <1>2

\* A path that was renamed away was there and is gone.
LEMMA AwayIsGone ==
    ASSUME NEW old, NEW new, NEW p \in Paths, RenamedAway(old, new, p)
    PROVE  old[p] # Absent /\ new[p] = Absent
<1>1. PICK q \in Paths : RenameSource(old, new, q) = p BY DEF RenamedAway
<1>2. p # None BY NoneIsNothingElse
<1> QED BY <1>1, <1>2, SourceLeft

\* What the word for a difference says of the path.
LEMMA DifferenceSays ==
    ASSUME NEW old, NEW new, NEW p \in Paths
    PROVE  /\ Difference(old, new, p) \in (Kinds \ {"unknown"}) \cup {None}
           /\ Difference(old, new, p) \in {"renamed", "created"} =>
                  old[p] = Absent /\ new[p] # Absent
           /\ Difference(old, new, p) = "deleted" => old[p] # Absent /\ new[p] = Absent
           /\ Difference(old, new, p) = "modified" =>
                  old[p] # Absent /\ new[p] # Absent /\ old[p] # new[p]
           /\ Difference(old, new, p) = None =>
                  old[p] = new[p] \/ RenamedAway(old, new, p)
           /\ Difference(old, new, p) # None => old[p] # new[p]
           /\ RenameSource(old, new, p) # None => Difference(old, new, p) = "renamed"
<1>1. CASE RenameSource(old, new, p) # None
  <2>1. Difference(old, new, p) = "renamed" BY <1>1 DEF Difference
  <2>2. old[p] = Absent /\ new[p] # Absent BY <1>1, SourceLeft
  <2> QED BY <2>1, <2>2, NoneIsNothingElse DEF Kinds
<1>2. CASE RenameSource(old, new, p) = None
  BY <1>2, NoneIsNothingElse DEF Difference, Kinds
<1> QED BY <1>1, <1>2

\* The word of the status report for the tree against the index.
LEMMA UnstagedSays ==
    ASSUME NEW p \in Paths
    PROVE  /\ Unstaged(p) \in {"deleted", "modified", None}
           /\ Unstaged(p) = "deleted" <=> index[p] # Absent /\ work[p] = Absent
           /\ Unstaged(p) = "modified" =>
                  index[p] # Absent /\ work[p] # Absent /\ index[p] # work[p]
           /\ Unstaged(p) = None => index[p] = Absent \/ index[p] = work[p]
BY NoneIsNothingElse DEF Unstaged, Kinds
-----------------------------------------------------------------------------
(* What a record says.                                                      *)

\* A path that Git has something to say of.
Told(p) == \/ Staged(p) # None \/ Unstaged(p) # None
           \/ index[p] = Absent /\ work[p] # Absent

\* Its record is an observation of it; any other path has none.
LEMMA RecordIsTyped ==
    ASSUME NEW p \in Paths
    PROVE  /\ Told(p) => Record(p) \in Observations /\ Record(p).path = p
           /\ Record(p) # None <=> Told(p)
<1>1. CASE Staged(p) # None \/ Unstaged(p) # None
  <2>1. Staged(p) \in Kinds \cup {None} BY DifferenceSays DEF Staged
  <2>2. Unstaged(p) \in {"deleted", "modified", None} BY UnstagedSays
  <2>3. StatusKind(Staged(p), Unstaged(p)) \in Kinds
    BY <1>1, <2>1, <2>2 DEF StatusKind, Kinds
  <2>4. RenameSource(head, index, p) \in Paths \cup {None} BY SourceLeft
  <2>5. {Staged(p), Unstaged(p)} \ {None} \subseteq Kinds BY <2>1, <2>2 DEF Kinds
  <2>6. Record(p) = [path |-> p, kind |-> StatusKind(Staged(p), Unstaged(p)),
                     from |-> RenameSource(head, index, p),
                     facts |-> {Staged(p), Unstaged(p)} \ {None}]
    BY <1>1 DEF Record
  <2>7. Record(p) \in Observations BY <2>3, <2>4, <2>5, <2>6 DEF Observations
  <2> QED BY <1>1, <2>6, <2>7, NoneIsNothingElse DEF Told
<1>2. CASE Staged(p) = None /\ Unstaged(p) = None /\ index[p] = Absent /\ work[p] # Absent
  <2>1. Record(p) = [path |-> p, kind |-> "created", from |-> None, facts |-> {"created"}]
    BY <1>2 DEF Record
  <2>2. Record(p) \in Observations BY <2>1 DEF Observations, Kinds
  <2> QED BY <1>2, <2>1, <2>2, NoneIsNothingElse DEF Told
<1>3. CASE ~ Told(p) BY <1>3 DEF Told, Record
<1> QED BY <1>1, <1>2, <1>3 DEF Told

\* What the one word, the source and the facts of a record say of HEAD, of the
\* index and of the tree.
LEMMA RecordSays ==
    ASSUME NEW p \in Paths, Record(p) # None
    PROVE  /\ head[p] # index[p] \/ index[p] # work[p]
           /\ Record(p).kind = "created" =>
                  \/ head[p] = Absent /\ index[p] # Absent
                  \/ index[p] = Absent /\ work[p] # Absent
           /\ Record(p).kind = "deleted" =>
                  \/ head[p] # Absent /\ index[p] = Absent
                  \/ index[p] # Absent /\ work[p] = Absent
           /\ Record(p).kind = "modified" =>
                  \/ head[p] # Absent /\ index[p] # Absent /\ head[p] # index[p]
                  \/ index[p] # Absent /\ work[p] # Absent /\ index[p] # work[p]
           /\ Record(p).from # None => Record(p).from = RenameSource(head, index, p)
<1>1. CASE Staged(p) # None \/ Unstaged(p) # None
  <2> DEFINE x == Staged(p)
             y == Unstaged(p)
  <2>1. Record(p) = [path |-> p, kind |-> StatusKind(x, y),
                     from |-> RenameSource(head, index, p), facts |-> {x, y} \ {None}]
    BY <1>1 DEF Record
  <2>2. /\ x \in (Kinds \ {"unknown"}) \cup {None}
        /\ x \in {"renamed", "created"} => head[p] = Absent /\ index[p] # Absent
        /\ x = "deleted" => head[p] # Absent /\ index[p] = Absent
        /\ x = "modified" => head[p] # Absent /\ index[p] # Absent /\ head[p] # index[p]
        /\ x # None => head[p] # index[p]
    BY DifferenceSays DEF Staged
  <2>3. /\ y \in {"deleted", "modified", None}
        /\ y = "deleted" <=> index[p] # Absent /\ work[p] = Absent
        /\ y = "modified" =>
               index[p] # Absent /\ work[p] # Absent /\ index[p] # work[p]
    BY UnstagedSays
  <2>4. /\ StatusKind(x, y) = "created" => x = "created"
        /\ StatusKind(x, y) = "deleted" => x = "deleted" \/ y = "deleted"
        /\ StatusKind(x, y) = "modified" => x = "modified" \/ y = "modified"
    BY <2>2, <2>3, NoneIsNothingElse DEF StatusKind, Kinds
  <2> HIDE DEF x, y
  <2>5. head[p] # index[p] \/ index[p] # work[p] BY <1>1, <2>2, <2>3 DEF x, y
  <2> QED BY <2>1, <2>2, <2>3, <2>4, <2>5
<1>2. CASE Staged(p) = None /\ Unstaged(p) = None
  BY <1>2 DEF Record
<1> QED BY <1>1, <1>2

\* The facts of a record: a file that is there is not only called deleted, unless
\* Git was told to forget it, and of one that is gone "deleted" is among them.
LEMMA FactsSay ==
    ASSUME NEW p \in Paths, Record(p) # None
    PROVE  /\ work[p] # Absent /\ ~ (index[p] = Absent /\ head[p] # Absent) =>
                  Record(p).facts \ {"deleted", "unknown"} # {}
           /\ work[p] = Absent => "deleted" \in Record(p).facts
<1>1. CASE Staged(p) # None \/ Unstaged(p) # None
  <2> DEFINE x == Staged(p)
             y == Unstaged(p)
  <2>1. Record(p).facts = {x, y} \ {None} BY <1>1 DEF Record
  <2>2. /\ x \in (Kinds \ {"unknown"}) \cup {None}
        /\ x = "deleted" => head[p] # Absent /\ index[p] = Absent
        /\ x = None => head[p] = index[p] \/ (head[p] # Absent /\ index[p] = Absent)
        /\ x # None => head[p] # index[p]
        /\ x \in {"renamed", "created", "modified"} => index[p] # Absent
    BY DifferenceSays, AwayIsGone DEF Staged
  <2>3. /\ y \in {"deleted", "modified", None}
        /\ y = "deleted" <=> index[p] # Absent /\ work[p] = Absent
        /\ y = "modified" => work[p] # Absent
    BY UnstagedSays
  <2>4. x # None \/ y # None BY <1>1
  <2> HIDE DEF x, y
  <2> QED BY <2>1, <2>2, <2>3, <2>4, NoneIsNothingElse DEF Kinds
<1>2. CASE Staged(p) = None /\ Unstaged(p) = None
  BY <1>2 DEF Record
<1> QED BY <1>1, <1>2

\* Without a record, HEAD, the index and the tree are one, unless the path was
\* renamed away in the index.
LEMMA NoRecordSays ==
    ASSUME NEW p \in Paths, Record(p) = None
    PROVE  /\ index[p] = work[p]
           /\ head[p] = index[p] \/ RenamedAway(head, index, p)
<1>1. Staged(p) = None /\ Unstaged(p) = None /\ ~ (index[p] = Absent /\ work[p] # Absent)
  BY RecordIsTyped DEF Told
<1>2. head[p] = index[p] \/ RenamedAway(head, index, p) BY <1>1, DifferenceSays DEF Staged
<1>3. index[p] = Absent \/ index[p] = work[p] BY <1>1, UnstagedSays
<1> QED BY <1>1, <1>2, <1>3

\* A record of the range is an observation of its path.
LEMMA CommittedIsTyped ==
    ASSUME NEW p \in Paths
    PROVE  /\ Difference(base, head, p) # None =>
                  Committed(p) \in Observations /\ Committed(p).path = p
           /\ Committed(p) # None <=> Difference(base, head, p) # None
<1>1. CASE Difference(base, head, p) = None BY <1>1 DEF Committed
<1>2. CASE Difference(base, head, p) # None
  <2>1. Committed(p) = [path |-> p, kind |-> Difference(base, head, p),
                        from |-> RenameSource(base, head, p),
                        facts |-> {Difference(base, head, p)}]
    BY <1>2 DEF Committed
  <2>2. Difference(base, head, p) \in Kinds BY <1>2, DifferenceSays
  <2>3. RenameSource(base, head, p) \in Paths \cup {None} BY SourceLeft
  <2>4. Committed(p) \in Observations BY <2>1, <2>2, <2>3 DEF Observations
  <2> QED BY <1>2, <2>1, <2>4, NoneIsNothingElse
<1> QED BY <1>1, <1>2
-----------------------------------------------------------------------------
(* Every step keeps the invariant.                                          *)

\* What there is room for is part of what there is.
LEMMA KeptIsPart ==
    ASSUME NEW S, NEW room, NEW kept \in Kept(S, room)
    PROVE  kept \subseteq S
BY DEF Kept

\* Before it was told anything, the evidence agrees with any repository.
LEMMA NothingIsTrue ==
    ASSUME worktree = NoReport, range = NoRange
    PROVE  StatusOK /\ RangeOK
BY DEF StatusOK, RangeOK, NoReport, NoRange, WorktreeWasObserved

LEMMA InitEstablishes == Init => EvidenceInv
<1> SUFFICES ASSUME Init PROVE EvidenceInv
  OBVIOUS
<1> USE DEF Init
<1>1. TypeOK
  <2>1. boundary \in {"clean", "dirty", "unknown"} OBVIOUS
  <2>2. worktree \in [seen: SUBSET Observations, clean: BOOLEAN, partial: BOOLEAN]
    BY DEF NoReport
  <2>3. range \in [recorded: BOOLEAN,
                    ancestry: {"unknown", "identical", "linear", "diverged"},
                    coverage: {"complete", "incomplete", "unavailable"},
                    seen: SUBSET Observations]
    BY DEF NoRange
  <2> QED BY <2>1, <2>2, <2>3 DEF TypeOK
<1>2. CleanIsGivenAsBase BY DEF CleanIsGivenAsBase
<1>3. HistoryOK
  <2>1. \A p \in Paths : WentThrough(p) BY FS_Singleton DEF WentThrough
  <2> QED BY <2>1 DEF HistoryOK, Trees
<1>4. NotBefore BY DEF NotBefore
<1>5. StatusOK /\ RangeOK BY NothingIsTrue
<1> QED BY <1>1, <1>2, <1>3, <1>4, <1>5 DEF EvidenceInv

\* A step of the worker comes before any report: only its effect on the
\* repository, and on what is remembered of it, has to be looked at.
LEMMA WorkerPreserves ==
    ASSUME EvidenceInv, WorkerStep, TypeOK', HistoryOK'
    PROVE  EvidenceInv'
<1> USE DEF EvidenceInv
<1>1. worktree' = NoReport /\ range' = NoRange BY DEF WorkerStep, NotBefore
<1>2. (StatusOK /\ RangeOK)'
  BY <1>1 DEF StatusOK, RangeOK, NoReport, NoRange, WorktreeWasObserved
<1>3. CleanIsGivenAsBase' BY DEF CleanIsGivenAsBase, WorkerStep, world
<1>4. NotBefore' BY DEF WorkerStep, NotBefore
<1> QED BY <1>2, <1>3, <1>4

\* A content more is remembered of one path.
LEMMA GoesThroughAdds ==
    ASSUME HistoryOK, NEW p \in Paths, NEW content \in Contents \cup {Absent},
           GoesThrough(p, content)
    PROVE  /\ ever' \in [Paths -> SUBSET (Contents \cup {Absent})]
           /\ \A q \in Paths : IsFiniteSet(ever'[q]) /\ ever[q] \subseteq ever'[q]
           /\ content \in ever'[p]
<1>1. ever' = [ever EXCEPT ![p] = ever[p] \cup {content}] BY DEF GoesThrough
<1>2. ever' \in [Paths -> SUBSET (Contents \cup {Absent})] BY <1>1 DEF HistoryOK
<1>3. IsFiniteSet(ever[p] \cup {content}) BY FS_AddElement DEF HistoryOK, WentThrough
<1>4. \A q \in Paths : ever'[q] = IF q = p THEN ever[p] \cup {content} ELSE ever[q]
  BY <1>1 DEF HistoryOK
<1>5. \A q \in Paths : IsFiniteSet(ever'[q])
  BY <1>3, <1>4 DEF HistoryOK, WentThrough
<1> QED BY <1>2, <1>4, <1>5

LEMMA WritePreserves ==
    ASSUME EvidenceInv, NEW p \in Paths, NEW content \in Contents \cup {Absent},
           Write(p, content)
    PROVE  EvidenceInv'
<1> USE DEF EvidenceInv
<1>1. /\ WorkerStep /\ GoesThrough(p, content) /\ work' = [work EXCEPT ![p] = content]
      /\ UNCHANGED <<head, index, ancestry>>
  BY DEF Write
<1>2. UNCHANGED <<base, given, boundary, worktree, range, phase>>
  BY <1>1 DEF WorkerStep, world
<1>3. work' \in Trees BY <1>1 DEF TypeOK, Trees
<1>4. TypeOK' BY <1>1, <1>2, <1>3 DEF TypeOK
<1>5. /\ ever' \in [Paths -> SUBSET (Contents \cup {Absent})]
      /\ \A q \in Paths : IsFiniteSet(ever'[q]) /\ ever[q] \subseteq ever'[q]
      /\ content \in ever'[p]
  BY <1>1, GoesThroughAdds
<1>6. \A q \in Paths : work'[q] = IF q = p THEN content ELSE work[q]
  BY <1>1 DEF TypeOK, Trees
<1>7. HistoryOK' BY <1>1, <1>2, <1>5, <1>6 DEF HistoryOK, WentThrough
<1> QED BY <1>1, <1>4, <1>7, WorkerPreserves

LEMMA StagePreserves ==
    ASSUME EvidenceInv, NEW p \in Paths, NEW content \in Contents \cup {Absent},
           Stage(p, content)
    PROVE  EvidenceInv'
<1> USE DEF EvidenceInv
<1>1. /\ WorkerStep /\ GoesThrough(p, content) /\ index' = [index EXCEPT ![p] = content]
      /\ UNCHANGED <<head, work, ancestry>>
  BY DEF Stage
<1>2. UNCHANGED <<base, given, boundary, worktree, range, phase>>
  BY <1>1 DEF WorkerStep, world
<1>3. index' \in Trees BY <1>1 DEF TypeOK, Trees
<1>4. TypeOK' BY <1>1, <1>2, <1>3 DEF TypeOK
<1>5. /\ ever' \in [Paths -> SUBSET (Contents \cup {Absent})]
      /\ \A q \in Paths : IsFiniteSet(ever'[q]) /\ ever[q] \subseteq ever'[q]
      /\ content \in ever'[p]
  BY <1>1, GoesThroughAdds
<1>6. \A q \in Paths : index'[q] = IF q = p THEN content ELSE index[q]
  BY <1>1 DEF TypeOK, Trees
<1>7. HistoryOK' BY <1>1, <1>2, <1>5, <1>6 DEF HistoryOK, WentThrough
<1> QED BY <1>1, <1>4, <1>7, WorkerPreserves

LEMMA CommitPreserves ==
    ASSUME EvidenceInv, Commit
    PROVE  EvidenceInv'
<1> USE DEF EvidenceInv
<1>1. /\ WorkerStep /\ head' = index /\ UNCHANGED <<index, work, ever>>
      /\ ancestry' = IF ancestry = "diverged" THEN "diverged" ELSE "linear"
  BY DEF Commit
<1>2. UNCHANGED <<base, given, boundary, worktree, range, phase>>
  BY <1>1 DEF WorkerStep, world
<1>3. TypeOK' BY <1>1, <1>2 DEF TypeOK
<1>4. HistoryOK' BY <1>1, <1>2 DEF HistoryOK, WentThrough
<1> QED BY <1>1, <1>3, <1>4, WorkerPreserves

LEMMA ResetPreserves ==
    ASSUME EvidenceInv, NEW tree \in Trees, Reset(tree)
    PROVE  EvidenceInv'
<1> USE DEF EvidenceInv
<1>1. /\ WorkerStep /\ head' = tree /\ index' = tree /\ ancestry' = "diverged"
      /\ UNCHANGED <<work, ever>>
  BY DEF Reset
<1>2. UNCHANGED <<base, given, boundary, worktree, range, phase>>
  BY <1>1 DEF WorkerStep, world
<1>3. TypeOK' BY <1>1, <1>2 DEF TypeOK
<1>4. HistoryOK' BY <1>1, <1>2 DEF HistoryOK, WentThrough
<1> QED BY <1>1, <1>3, <1>4, WorkerPreserves

\* The status report is of the repository as it is from then on.
LEMMA ReportPreserves ==
    ASSUME EvidenceInv, Report
    PROVE  EvidenceInv'
<1> USE DEF EvidenceInv
<1> DEFINE usable == {r \in Records : Usable(r)}
<1>1. /\ phase = "working" /\ phase' = "reported"
      /\ UNCHANGED <<base, given, boundary, head, index, work, ancestry, ever, range>>
  BY DEF Report, world, repository
<1>2. \/ UNCHANGED worktree
      \/ \E kept \in Kept(usable, Room) :
            worktree' = [seen |-> kept, clean |-> Records = {}, partial |-> kept # Records]
  BY DEF Report, Records
<1>3. Records \subseteq Observations BY RecordIsTyped DEF Records
<1>4. Records' = Records
  BY <1>1 DEF Records, Record, Staged, Unstaged
<1> DEFINE Sound(report) ==
             /\ report \in [seen: SUBSET Observations, clean: BOOLEAN, partial: BOOLEAN]
             /\ report.seen \subseteq Records
             /\ (report.clean \/ report.seen # {}) /\ ~ report.partial =>
                    report.seen = Records
<1>5. Sound(worktree')
  <2>1. CASE UNCHANGED worktree BY <2>1, <1>1 DEF TypeOK, NotBefore, NoReport
  <2>2. ASSUME NEW kept \in Kept(usable, Room),
               worktree' = [seen |-> kept, clean |-> Records = {}, partial |-> kept # Records]
        PROVE  Sound(worktree')
    <3>1. kept \subseteq Records BY KeptIsPart
    <3> QED BY <1>3, <2>2, <3>1
  <2> QED BY <1>2, <2>1, <2>2
<1>6. TypeOK' BY <1>1, <1>5 DEF TypeOK
<1>7. CleanIsGivenAsBase' BY <1>1 DEF CleanIsGivenAsBase
<1>8. HistoryOK' BY <1>1 DEF HistoryOK, WentThrough
<1>9. NotBefore' BY <1>1 DEF NotBefore
<1>10. StatusOK' BY <1>4, <1>5 DEF StatusOK, WorktreeWasObserved
<1>11. RangeOK' BY <1>1, <1>9 DEF RangeOK, NotBefore, NoRange
<1> QED BY <1>6, <1>7, <1>8, <1>9, <1>10, <1>11

\* The range is of that repository too.
LEMMA CaptureRangePreserves ==
    ASSUME EvidenceInv, CaptureRange
    PROVE  EvidenceInv'
<1> USE DEF EvidenceInv
<1> DEFINE records == IF ancestry = "linear" THEN RangeRecords ELSE {}
           usable == {r \in records : Usable(r)}
<1>1. /\ phase = "reported" /\ phase' = "ranged"
      /\ UNCHANGED <<base, given, boundary, head, index, work, ancestry, ever, worktree>>
  BY DEF CaptureRange, world, repository
<1>2. \/ UNCHANGED range
      \/ \E known \in {"unknown", ancestry} :
            range' = [NoRange EXCEPT !.recorded = TRUE, !.ancestry = known]
      \/ \E kept \in Kept(usable, RangeRoom) :
            range' = [recorded |-> TRUE, ancestry |-> ancestry, seen |-> kept,
                      coverage |-> IF kept = records THEN "complete" ELSE "incomplete"]
  BY DEF CaptureRange, RangeRecords
<1>3. RangeRecords \subseteq Observations BY CommittedIsTyped DEF RangeRecords
<1>4. RangeRecords' = RangeRecords BY <1>1 DEF RangeRecords, Committed
<1> DEFINE Sound(report) ==
             /\ report \in [recorded: BOOLEAN,
                             ancestry: {"unknown", "identical", "linear", "diverged"},
                             coverage: {"complete", "incomplete", "unavailable"},
                             seen: SUBSET Observations]
             /\ report.seen \subseteq RangeRecords
             /\ report.coverage = "complete" =>
                    /\ report.ancestry = ancestry
                    /\ ancestry = "linear" => report.seen = RangeRecords
<1>5. Sound(range')
  <2>1. CASE UNCHANGED range BY <2>1, <1>1 DEF TypeOK, NotBefore, NoRange
  <2>2. CASE \E known \in {"unknown", ancestry} :
                range' = [NoRange EXCEPT !.recorded = TRUE, !.ancestry = known]
    BY <2>2 DEF TypeOK, NoRange
  <2>3. ASSUME NEW kept \in Kept(usable, RangeRoom),
               range' = [recorded |-> TRUE, ancestry |-> ancestry, seen |-> kept,
                         coverage |-> IF kept = records THEN "complete" ELSE "incomplete"]
        PROVE  Sound(range')
    <3>1. kept \subseteq records /\ records \subseteq RangeRecords BY KeptIsPart
    <3>2. ancestry \in {"identical", "linear", "diverged"} BY DEF TypeOK
    <3> QED BY <1>3, <2>3, <3>1, <3>2
  <2> QED BY <1>2, <2>1, <2>2, <2>3
<1>6. TypeOK' BY <1>1, <1>5 DEF TypeOK
<1>7. CleanIsGivenAsBase' BY <1>1 DEF CleanIsGivenAsBase
<1>8. HistoryOK' BY <1>1 DEF HistoryOK, WentThrough
<1>9. NotBefore' BY <1>1 DEF NotBefore
<1>10. StatusOK'
  <2>1. Records' = Records BY <1>1 DEF Records, Record, Staged, Unstaged
  <2> QED BY <1>1, <2>1 DEF StatusOK, WorktreeWasObserved
<1>11. RangeOK' BY <1>1, <1>4, <1>5 DEF RangeOK
<1> QED BY <1>6, <1>7, <1>8, <1>9, <1>10, <1>11

LEMMA StutterPreserves ==
    ASSUME EvidenceInv, UNCHANGED vars
    PROVE  EvidenceInv'
<1> USE DEF EvidenceInv, vars, world, repository
<1>1. TypeOK' BY DEF TypeOK
<1>2. CleanIsGivenAsBase' BY DEF CleanIsGivenAsBase
<1>3. HistoryOK' BY DEF HistoryOK, WentThrough
<1>4. NotBefore' BY DEF NotBefore
<1>5. Records' = Records BY DEF Records, Record, Staged, Unstaged
<1>6. RangeRecords' = RangeRecords BY DEF RangeRecords, Committed
<1>7. StatusOK' BY <1>5 DEF StatusOK, WorktreeWasObserved
<1>8. RangeOK' BY <1>6 DEF RangeOK
<1> QED BY <1>1, <1>2, <1>3, <1>4, <1>7, <1>8

\* Every step.
LEMMA StepPreserves == EvidenceInv /\ [Next]_vars => EvidenceInv'
<1> SUFFICES ASSUME EvidenceInv, [Next]_vars PROVE EvidenceInv'
  OBVIOUS
<1>1. CASE \E p \in Paths, content \in Contents \cup {Absent} :
              Write(p, content) \/ Stage(p, content)
  BY <1>1, WritePreserves, StagePreserves
<1>2. CASE Commit BY <1>2, CommitPreserves
<1>3. CASE \E tree \in Trees : Reset(tree) BY <1>3, ResetPreserves
<1>4. CASE Report BY <1>4, ReportPreserves
<1>5. CASE CaptureRange BY <1>5, CaptureRangePreserves
<1>6. CASE UNCHANGED vars BY <1>6, StutterPreserves
<1> QED BY <1>1, <1>2, <1>3, <1>4, <1>5, <1>6 DEF Next

\* The reports say of the repository what Git can say of it, all of it when they
\* call themselves whole, for any turn (observe_git, capture_committed_range).
THEOREM EvidenceInvariant == Spec => []EvidenceInv
<1> QED BY InitEstablishes, StepPreserves, PTL DEF Spec
-----------------------------------------------------------------------------
(* The verdicts.                                                            *)

\* On a tree that was given clean, with HEAD on its history, whatever a path is
\* now, at HEAD, in the index or in the tree, it went through.
LEMMA AllWentThrough ==
    ASSUME EvidenceInv, boundary = "clean", ancestry # "diverged", NEW p \in Paths
    PROVE  /\ {base[p], head[p], index[p], work[p]} \subseteq ever[p]
           /\ IsFiniteSet(ever[p]) /\ given = base
BY DEF EvidenceInv, CleanIsGivenAsBase, HistoryOK, WentThrough

\* An observation is the record of its path.
LEMMA SeenIsRecorded ==
    ASSUME EvidenceInv, NEW o \in worktree.seen
    PROVE  o.path \in Paths /\ o = Record(o.path) /\ o # None
<1>1. PICK p \in Paths : o = Record(p) /\ o # None
  BY DEF EvidenceInv, StatusOK, Records
<1> QED BY <1>1, RecordIsTyped

LEMMA RangeIsRecorded ==
    ASSUME EvidenceInv, NEW o \in range.seen
    PROVE  /\ o.path \in Paths /\ o # None
           /\ o = [path |-> o.path, kind |-> Difference(base, head, o.path),
                   from |-> RenameSource(base, head, o.path),
                   facts |-> {Difference(base, head, o.path)}]
           /\ Difference(base, head, o.path) # None
<1>1. PICK p \in Paths : o = Committed(p) /\ o # None
  BY DEF EvidenceInv, RangeOK, RangeRecords
<1>2. o.path = p /\ Difference(base, head, p) # None BY <1>1, CommittedIsTyped
<1> QED BY <1>1, <1>2 DEF Committed

\* What a path must have gone through for an observation of the turn to be of
\* its kind, and to name its source.
DoneAs(o) ==
    /\ \E x, y \in ever[o.path] : x # y
    /\ o.kind \in {"created", "deleted"} =>
           Absent \in ever[o.path] /\ \E x \in ever[o.path] : x # Absent
    /\ o.kind = "modified" => \E x, y \in ever[o.path] \ {Absent} : x # y
    /\ o.from # None =>
           /\ o.from \in Paths /\ Absent \in ever[o.from]
           /\ \E x \in ever[o.from] \cap ever[o.path] : x # Absent

\* An observation the turn is credited with is of something it did.
LEMMA CreditedWasDone ==
    ASSUME EvidenceInv, ancestry # "diverged", NEW p \in Paths, NEW o \in Attributable(p)
    PROVE  o.path = p /\ DoneAs(o)
<1>1. boundary = "clean" /\ o.path = p
  BY DEF Attributable, PreWorkStateKnown, ComparisonGrade
<1>2. {base[p], head[p], index[p], work[p]} \subseteq ever[p] BY <1>1, AllWentThrough
<1>3. CASE o \in worktree.seen
  <2>1. o = Record(p) /\ o # None BY <1>1, <1>3, SeenIsRecorded
  <2>2. /\ head[p] # index[p] \/ index[p] # work[p]
        /\ o.kind = "created" =>
               \/ head[p] = Absent /\ index[p] # Absent
               \/ index[p] = Absent /\ work[p] # Absent
        /\ o.kind = "deleted" =>
               \/ head[p] # Absent /\ index[p] = Absent
               \/ index[p] # Absent /\ work[p] = Absent
        /\ o.kind = "modified" =>
               \/ head[p] # Absent /\ index[p] # Absent /\ head[p] # index[p]
               \/ index[p] # Absent /\ work[p] # Absent /\ index[p] # work[p]
        /\ o.from # None => o.from = RenameSource(head, index, p)
    BY <2>1, RecordSays
  <2>3. ASSUME o.from # None
        PROVE  /\ o.from \in Paths /\ Absent \in ever[o.from]
               /\ \E x \in ever[o.from] \cap ever[p] : x # Absent
    <3>1. /\ o.from \in Paths /\ head[o.from] # Absent /\ index[o.from] = Absent
          /\ index[p] = head[o.from]
      BY <2>2, <2>3, SourceLeft
    <3>2. {head[o.from], index[o.from]} \subseteq ever[o.from]
      BY <1>1, <3>1, AllWentThrough
    <3> QED BY <1>2, <3>1, <3>2
  <2> QED BY <1>1, <1>2, <2>2, <2>3 DEF DoneAs
<1>4. CASE o \in range.seen
  <2>1. /\ o.kind = Difference(base, head, p) /\ o.kind # None
        /\ o.from = RenameSource(base, head, p)
    BY <1>1, <1>4, RangeIsRecorded
  <2>2. /\ base[p] # head[p]
        /\ o.kind = "created" => base[p] = Absent /\ head[p] # Absent
        /\ o.kind = "deleted" => base[p] # Absent /\ head[p] = Absent
        /\ o.kind = "modified" => base[p] # Absent /\ head[p] # Absent
    BY <2>1, DifferenceSays
  <2>3. ASSUME o.from # None
        PROVE  /\ o.from \in Paths /\ Absent \in ever[o.from]
               /\ \E x \in ever[o.from] \cap ever[p] : x # Absent
    <3>1. /\ o.from \in Paths /\ base[o.from] # Absent /\ head[o.from] = Absent
          /\ head[p] = base[o.from]
      BY <2>1, <2>3, SourceLeft
    <3>2. {base[o.from], head[o.from]} \subseteq ever[o.from]
      BY <1>1, <3>1, AllWentThrough
    <3> QED BY <1>2, <3>1, <3>2
  <2> QED BY <1>1, <1>2, <2>2, <2>3 DEF DoneAs
<1> QED BY <1>1, <1>3, <1>4 DEF Attributable

\* Two different elements are more than one.
LEMMA TwoAreMany ==
    ASSUME NEW S, IsFiniteSet(S), NEW x \in S, NEW y \in S, x # y
    PROVE  Cardinality(S) > 1
<1>1. Cardinality(S) \in Nat BY FS_CardinalityType
<1>2. Cardinality(S) # 0 BY FS_EmptySet
<1>3. Cardinality(S) # 1 BY FS_Singleton
<1> QED BY <1>1, <1>2, <1>3

LEMMA MetFollows == EvidenceInv => MetWasDone
<1> SUFFICES ASSUME EvidenceInv, ancestry # "diverged", NEW p \in Known
             PROVE  /\ PathChanged(p) = "met" => ever[p] # {given[p]}
                    /\ \A op \in {"created", "deleted"} :
                          PathOperation(p, op) = "met" =>
                              Absent \in ever[p] /\ ever[p] # {Absent}
                    /\ PathOperation(p, "modified") = "met" =>
                          Cardinality(ever[p] \ {Absent}) > 1
                    /\ \A q \in Known \ {p} : Rename(p, q) = "met" =>
                          Absent \in ever[p] /\ (ever[p] \cap ever[q]) \ {Absent} # {}
  BY DEF MetWasDone
<1>1. p \in Paths BY DEF Known
<1>2. PathChanged(p) = "met" => ever[p] # {given[p]}
  <2> SUFFICES ASSUME PathChanged(p) = "met" PROVE ever[p] # {given[p]}
    OBVIOUS
  <2>1. PICK o \in Attributable(p) : TRUE BY DEF PathChanged
  <2>2. o.path = p /\ DoneAs(o) BY <1>1, CreditedWasDone
  <2> QED BY <2>2 DEF DoneAs
<1>3. ASSUME NEW op \in {"created", "deleted", "modified"}, PathOperation(p, op) = "met"
      PROVE  \E o \in Attributable(p) : o.kind = op /\ o.path = p /\ DoneAs(o)
  <2>1. PICK o \in Attributable(p) : o.kind = op BY <1>3 DEF PathOperation
  <2> QED BY <1>1, <2>1, CreditedWasDone
<1>4. \A op \in {"created", "deleted"} : PathOperation(p, op) = "met" =>
          Absent \in ever[p] /\ ever[p] # {Absent}
  BY <1>3 DEF DoneAs
<1>5. PathOperation(p, "modified") = "met" => Cardinality(ever[p] \ {Absent}) > 1
  <2> SUFFICES ASSUME PathOperation(p, "modified") = "met"
               PROVE  Cardinality(ever[p] \ {Absent}) > 1
    OBVIOUS
  <2>1. \E x, y \in ever[p] \ {Absent} : x # y BY <1>3 DEF DoneAs
  <2>2. IsFiniteSet(ever[p] \ {Absent})
    BY <1>1, FS_Subset DEF EvidenceInv, HistoryOK, WentThrough
  <2> QED BY <2>1, <2>2, TwoAreMany
<1>6. ASSUME NEW q \in Known, Rename(p, q) = "met"
      PROVE  Absent \in ever[p] /\ (ever[p] \cap ever[q]) \ {Absent} # {}
  <2>1. PICK o \in Attributable(q) : o.from = p BY <1>6 DEF Rename
  <2>2. q \in Paths /\ p # None BY <1>1, NoneIsNothingElse DEF Known
  <2>3. o.path = q /\ DoneAs(o) BY <2>2, CreditedWasDone
  <2> QED BY <2>1, <2>2, <2>3 DEF DoneAs
<1> QED BY <1>2, <1>4, <1>5, <1>6

\* Where everything was looked at and a path was not seen, HEAD still has it as
\* it was, and so have the index and the tree, unless it was renamed away.
LEMMA UnseenIsUnchanged ==
    ASSUME EvidenceInv, Closed, NEW p \in Paths, ObservedAt(p) = {}
    PROVE  \/ work[p] = given[p]
           \/ RenamedAway(head, index, p) \/ RenamedAway(base, head, p)
<1>1. given = base BY DEF EvidenceInv, Closed, PreWorkStateKnown, CleanIsGivenAsBase
<1>2. worktree.seen = Records BY DEF EvidenceInv, Closed, StatusOK
<1>3. Record(p) = None
  <2> SUFFICES ASSUME Record(p) # None PROVE FALSE
    OBVIOUS
  <2>1. Record(p) \in worktree.seen BY <1>2 DEF Records
  <2>2. Record(p).path = p BY RecordIsTyped
  <2> QED BY <2>1, <2>2 DEF ObservedAt
<1>4. index[p] = work[p] /\ (head[p] = index[p] \/ RenamedAway(head, index, p))
  BY <1>3, NoRecordSays
<1>5. base[p] = head[p] \/ RenamedAway(base, head, p)
  <2>1. range.ancestry = ancestry /\ ancestry \in {"identical", "linear"}
    BY DEF EvidenceInv, Closed, HistoryValid, RangeOK
  <2>2. CASE ancestry = "identical" BY <2>2 DEF EvidenceInv, HistoryOK
  <2>3. CASE ancestry = "linear"
    <3>1. range.seen = RangeRecords BY <2>3 DEF EvidenceInv, Closed, RangeOK
    <3>2. Difference(base, head, p) = None
      <4> SUFFICES ASSUME Difference(base, head, p) # None PROVE FALSE
        OBVIOUS
      <4>1. Committed(p) \in range.seen /\ Committed(p).path = p
        BY <3>1, CommittedIsTyped DEF RangeRecords
      <4> QED BY <4>1 DEF ObservedAt
    <3> QED BY <3>2, DifferenceSays
  <2> QED BY <2>1, <2>2, <2>3
<1> QED BY <1>1, <1>4, <1>5

LEMMA NotMetFollows == EvidenceInv => NotMetIsUnchanged
<1> SUFFICES ASSUME EvidenceInv, NEW p \in Known, PathChanged(p) = "not_met"
             PROVE  \/ work[p] = given[p]
                    \/ RenamedAway(head, index, p) \/ RenamedAway(base, head, p)
  BY DEF NotMetIsUnchanged
<1>1. p \in Paths BY DEF Known
<1>2. ObservedAt(p) = {} /\ Closed BY DEF PathChanged
<1> QED BY <1>1, <1>2, UnseenIsUnchanged

\* A criterion is judged met only on what the turn did, and not met only on a
\* path it left as it was, or renamed away: for any paths, contents and room in
\* the reports, and turns of any length (evaluation.py over the bundle).
THEOREM VerdictsStayTrue == Spec => []VerdictsAreTrue
<1>1. EvidenceInv => VerdictsAreTrue BY MetFollows, NotMetFollows DEF VerdictsAreTrue
<1> QED BY <1>1, EvidenceInvariant, PTL
-----------------------------------------------------------------------------
(* The comparison with what was claimed.                                    *)

\* What a domain holds against a claim, one of its observations does.
LEMMA DomainDiffers ==
    ASSUME NEW op, NEW seen
    PROVE  DomainAgreement(op, seen) = "differs" <=>
               \E o \in seen : Agreement(op, o) = "differs"
BY DEF DomainAgreement

\* An observation speaks against a claim only when it says nothing but what is
\* incompatible with it.
LEMMA AgreementDiffers ==
    ASSUME NEW op \in {"created", "modified", "deleted"}, NEW o,
           Agreement(op, o) = "differs"
    PROVE  /\ o.facts \ {"unknown"} # {}
           /\ op # "deleted" => o.facts \subseteq {"deleted", "unknown"}
           /\ op = "deleted" => o.facts \subseteq {"created", "modified", "unknown"}
<1> DEFINE facts == o.facts \ {"unknown"}
<1>1. facts # {} /\ \A fact \in facts : <<op, fact>> \in Incompatible
  BY DEF Agreement
<1>2. \A fact \in facts : IF op = "deleted" THEN fact \in {"created", "modified"}
                          ELSE fact = "deleted"
  BY <1>1 DEF Incompatible
<1> QED BY <1>1, <1>2

LEMMA NetEffectSays ==
    ASSUME NEW p \in Paths, NetEffect(p) # None
    PROVE  /\ NetEffect(p) \in {"created", "modified", "deleted"}
           /\ work[p] # given[p]
           /\ NetEffect(p) = "deleted" => work[p] = Absent
           /\ NetEffect(p) # "deleted" => work[p] # Absent
           /\ NetEffect(p) = "created" <=> given[p] = Absent
BY NoneIsNothingElse DEF NetEffect, Kinds

\* The record of a path does not speak against what the turn did to it.
LEMMA RecordIsNoConflict ==
    ASSUME NEW p \in Paths, Record(p) # None, NetEffect(p) # None, ~ Forgotten(p)
    PROVE  Agreement(NetEffect(p), Record(p)) # "differs"
<1> SUFFICES ASSUME Agreement(NetEffect(p), Record(p)) = "differs" PROVE FALSE
  OBVIOUS
<1>1. CASE NetEffect(p) = "deleted"
  <2>1. "deleted" \in Record(p).facts BY <1>1, NetEffectSays, FactsSay
  <2> QED BY <1>1, <2>1, AgreementDiffers
<1>2. CASE NetEffect(p) # "deleted"
  <2>1. work[p] # Absent BY <1>2, NetEffectSays
  <2>2. ~ (index[p] = Absent /\ head[p] # Absent) BY <2>1 DEF Forgotten
  <2>3. Record(p).facts \ {"deleted", "unknown"} # {} BY <2>1, <2>2, FactsSay
  <2> QED BY <1>2, <2>3, NetEffectSays, AgreementDiffers
<1> QED BY <1>1, <1>2

\* Nor does the range, where HEAD has what the tree has.
LEMMA RangeIsNoConflict ==
    ASSUME EvidenceInv, boundary = "clean", NEW o \in range.seen,
           head[o.path] = work[o.path], NetEffect(o.path) # None
    PROVE  Agreement(NetEffect(o.path), o) # "differs"
<1> DEFINE p == o.path
           op == NetEffect(p)
<1>1. /\ p \in Paths /\ o.facts = {Difference(base, head, p)}
      /\ Difference(base, head, p) # None
  BY RangeIsRecorded
<1>2. given = base BY DEF EvidenceInv, CleanIsGivenAsBase
<1>3. CASE Difference(base, head, p) = op
  <2>1. op # "renamed" /\ op \in o.facts \ {"unknown"}
    BY <1>1, <1>3, NetEffectSays
  <2> QED BY <2>1 DEF Agreement
<1>4. CASE Difference(base, head, p) = "renamed"
  <2>1. o.facts \ {"unknown"} = {"renamed"} BY <1>1, <1>4
  <2>2. <<op, "renamed">> \notin Incompatible BY DEF Incompatible
  <2> QED BY <2>1, <2>2 DEF Agreement
<1>5. Difference(base, head, p) \in {op, "renamed"}
  BY <1>1, <1>2, DifferenceSays, NetEffectSays DEF NetEffect, Difference, Kinds
<1> QED BY <1>3, <1>4, <1>5

\* With a whole status report the two domains together do not speak against what
\* the turn did to a path, but for the two exceptions.
LEMMA TruthFollows == EvidenceInv => TruthIsNoConflict
<1> SUFFICES ASSUME EvidenceInv, boundary = "clean", WorktreeWasObserved,
                    ~ worktree.partial, NEW p \in Known, NetEffect(p) # None,
                    ~ Forgotten(p), ~ RenamedAway(head, index, p),
                    GroupAgreement(NetEffect(p), p) = "differs"
             PROVE  FALSE
  BY DEF TruthIsNoConflict, WholeReport, ClaimConflict
<1> DEFINE op == NetEffect(p)
           inTree == {o \in worktree.seen : o.path = p}
           inRange == {o \in range.seen : o.path = p}
           domains == {inTree} \cup (IF ComparisonGrade THEN {inRange} ELSE {})
           verdicts == {DomainAgreement(op, seen) : seen \in domains \ {{}}}
<1>1. p \in Paths BY DEF Known
<1>2. verdicts = {"differs"} BY DEF GroupAgreement
<1>3. worktree.seen = Records BY DEF EvidenceInv, StatusOK
<1>4. \A o \in inTree : Agreement(op, o) # "differs"
  BY <1>1, SeenIsRecorded, RecordIsNoConflict
<1>5. inTree = {}
  <2> SUFFICES ASSUME inTree # {} PROVE FALSE
    OBVIOUS
  <2>1. DomainAgreement(op, inTree) \in verdicts OBVIOUS
  <2> QED BY <1>2, <1>4, <2>1, DomainDiffers
<1>6. Record(p) = None
  <2> SUFFICES ASSUME Record(p) # None PROVE FALSE
    OBVIOUS
  <2>1. Record(p) \in inTree BY <1>1, <1>3, RecordIsTyped DEF Records
  <2> QED BY <1>5, <2>1
<1>7. head[p] = work[p] BY <1>1, <1>6, NoRecordSays
<1>8. \A o \in inRange : Agreement(op, o) # "differs"
  BY <1>7, RangeIsNoConflict
<1>9. PICK seen \in domains \ {{}} : DomainAgreement(op, seen) = "differs"
  BY <1>2
<1>10. seen = inRange BY <1>5, <1>9
<1> QED BY <1>8, <1>9, <1>10, DomainDiffers

\* The reports are what Git can report, and a truthful claim is not contradicted
\* by the machine's own record of it (_domain_agreement, _group_agreement).
THEOREM ReportsStaySound == Spec => []ReportsAreSound
<1>1. EvidenceInv => ReportsAreSound BY TruthFollows DEF EvidenceInv, ReportsAreSound
<1> QED BY <1>1, EvidenceInvariant, PTL
-----------------------------------------------------------------------------
(* The second part: the session.  The streams, and the invariant.            *)

\* The lines that are written to the daemon, and to the helper.
Events == Terminal \cup {"activity", "question"}
UpLines == Lines(Events \cup {"error", "turn_complete", "finished"})
DownLines == Lines({"followup", "answer", "cancel", "close"})

\* The event the caller acts on; what was read of the session, it included; and
\* what is on its way.
Taken == IF caller.op \in Terminal THEN {Event(caller.op, caller.n)} ELSE {}
Read == Taken \cup ToSet(buffer)
Coming == ToSet(up) \cup ToSet(out)

\* Any two of a sequence are in a relation, and any two of what was read, of what
\* is in the pipe and of what is still to be flushed: one stream in four parts.
Sorted(s, R) == \A i, j \in 1 .. Len(s) : i < j => <<s[i], s[j]>> \in R
Chain(taken, kept, sending, saying, R) ==
    /\ Sorted(kept, R) /\ Sorted(sending, R) /\ Sorted(saying, R)
    /\ taken \X (ToSet(kept) \cup ToSet(sending) \cup ToSet(saying)) \subseteq R
    /\ ToSet(kept) \X (ToSet(sending) \cup ToSet(saying)) \subseteq R
    /\ ToSet(sending) \X ToSet(saying) \subseteq R
InOrder(R) == Chain(Taken, buffer, up, out, R)

\* What it is in: the results of later turns and the later questions have larger
\* numbers, nothing of a turn follows its end, and follow-ups are sent in a row.
Rising == {p \in UpLines \X UpLines :
              /\ p[1].kind \in Terminal /\ p[2].kind = "succeeded" => p[1].n < p[2].n
              /\ p[1].kind = "question" /\ p[2].kind = "question" => p[1].n < p[2].n}
Ending == {p \in UpLines \X UpLines :
              /\ p[1].kind \in Terminal => p[2].kind \notin Events
              /\ ~ (p[1].kind = "turn_complete" /\ p[2].kind = "turn_complete")}
Later == {p \in DownLines \X DownLines :
              p[1].kind = "followup" /\ p[2].kind = "followup" => p[1].n < p[2].n}

\* What is written to the daemon, and what the caller works on.
StreamsOK ==
    /\ sent \in 0 .. MaxFollowups /\ asked \in 0 .. MaxQuestions
    /\ up \in Seq(UpLines)
    /\ caller \in [op : Terminal \cup {"none", "looking", "asking", "sending", "closing"}, n : Nat]
    /\ {token, waitingFor, said, reported, unrecorded, hostTurn} \subseteq Nat

\* The helper takes one message at a time, asks one question at a time, and stops
\* because it was told to or has come to its end.
LoopOK ==
    /\ complete => message = Nothing /\ (drive = "parked" \/ cancelled)
    /\ drive = "querying" => message # Nothing
    /\ message # Nothing => drive \in {"parked", "querying"}
    /\ drive = "asking" <=> question.token # Nothing
    /\ question.token \in 0 .. asked
    /\ cancelled \/ (\E e \in ToSet(down) : e.kind \in {"cancel", "close"}) => cancelRequested
    /\ (\E e \in ToSet(up) : e.kind = "finished") \/ stopped => main = "gone"
    /\ main = "leaving" => drive = "stopped" \/ cancelRequested

\* A follow-up on its way is for a turn that has not begun.
MessagesOK ==
    /\ Sorted(down, Later)
    /\ \A e \in ToSet(down) : e.kind = "followup" => message < e.n /\ turn <= e.n /\ e.n <= sent
    /\ message <= sent /\ turn <= sent + 1
    /\ message # Nothing /\ drive # "querying" => turn <= message
    /\ drive = "querying" => turn <= message + 1
    /\ caller.op = "sending" => 0 < sent

\* What the session says is of the turns it has had, each said once: what was
\* reported, or asked, is behind everything that is still to be read.
Running == drive \in {"working", "asking", "querying"}
OrderOK ==
    /\ InOrder(Rising)
    /\ \A e \in Read \cup Coming :
          /\ e.kind \in Terminal => e.n <= turn /\ (Running => e.n < turn)
          /\ e.kind = "succeeded" => reported < e.n
          /\ e.kind = "question" => waitingFor < e.n /\ e.n <= asked
                                    /\ (caller.op = "asking" => caller.n < e.n)
          /\ e.kind = "turn_complete" => e.n <= turn
    /\ reported <= turn /\ (Running => reported < turn)
    /\ hostTurn <= turn /\ said <= turn
    /\ waitingFor <= asked /\ (caller.op = "asking" => caller.n <= asked)

\* The task waits with a question the session has asked, ends when its helper is
\* gone, and a cancel is under way until then.
TaskOK ==
    /\ ~ cancelRequested =>
          /\ \A e \in ToSet(buffer) : e.kind = "question" => e.n <= token
          /\ caller.op = "asking" => 0 < caller.n /\ caller.n <= token
          /\ task = "waiting_for_user" => 0 < waitingFor /\ waitingFor <= token
    /\ cancelRequested /\ main # "gone" => task = "cancelling" /\ caller.op = "closing"
    /\ task \in Final => ~ held
    /\ ~ held => main = "gone" /\ stopped /\ caller = Idle
    /\ caller.op = "sending" => task = "ready_for_followup" /\ ~ cancelRequested

\* As long as no follow-up was given up on, all that ends a turn ends this one.
PresentOK ==
    ~ givenUp =>
        /\ \A e \in Read \cup Coming : e.kind \in Terminal => e.n = turn
        /\ ~ cancelRequested => InOrder(Ending)
        /\ accepted \subseteq queried

\* A result that was said and neither reported nor read in vain is on its way.
Owed == reported < said /\ unrecorded < said
SaidOK ==
    ~ givenUp /\ task \notin {"completed", "failed"} /\ Owed =>
        Event("succeeded", said) \in Read \cup ToSet(up)

\* The session rests between two turns.  When it says so it does, and a task that
\* is ready has nothing more to come from it.
Rest == drive = "parked" /\ complete /\ announced
Only(kinds) == \A e \in ToSet(buffer) \cup Coming : e.kind \in kinds
NoFollowup == \A e \in ToSet(down) : e.kind # "followup"

CompleteOK ==
    ~ givenUp =>
        /\ Only(Events \cup {"turn_complete", "finished"}) /\ ~ refusal
        /\ caller.op # "sending" /\ main # "gone" => message = Nothing /\ NoFollowup
        /\ ~ cancelRequested =>
              /\ \A e \in ToSet(up) : e.kind = "turn_complete" => e.n = turn /\ Rest
              /\ hostComplete /\ ~ stopped /\ ~ (caller.op = "sending" /\ hostTurn = caller.n)
                    => Rest /\ hostTurn = turn /\ \A e \in ToSet(up) : e.kind # "turn_complete"
        /\ task = "ready_for_followup" /\ caller.op # "sending" /\ ~ cancelRequested /\ ~ stopped
              => Only({"finished"}) /\ hostComplete

\* The follow-up that is being sent was given to Claude, or is still on its way,
\* or the session ended before it took it.
Delivered == /\ sent \in queried /\ turn = caller.n + 1 /\ message = Nothing /\ NoFollowup
Undelivered ==
    /\ hostComplete /\ hostTurn = caller.n /\ Only({"failed", "finished"})
    /\ \/ /\ Rest /\ turn = caller.n /\ Only({"finished"})
          /\ \A e \in ToSet(down) : e.kind = "followup" => e.n = sent
       \/ /\ drive = "parked" /\ ~ complete /\ message = sent /\ turn = caller.n
          /\ Only({"finished"}) /\ NoFollowup
       \/ /\ drive = "querying" /\ ~ complete /\ message = sent /\ turn = caller.n + 1
          /\ Only({"finished"}) /\ NoFollowup
       \/ drive \in {"ending", "stopped"} /\ ~ complete /\ message = Nothing /\ NoFollowup
SendOK == ~ givenUp /\ caller.op = "sending" => Delivered \/ Undelivered

\* The inductive invariant.
SessionInv == /\ SessionTypeOK /\ StreamsOK /\ LoopOK /\ MessagesOK /\ OrderOK /\ TaskOK /\ PresentOK
              /\ SaidOK /\ CancelKeepsResult /\ CompleteOK /\ SendOK

-----------------------------------------------------------------------------
(* Sequences, and streams of them in a row.                                 *)

\* What a sequence contains.
LEMMA InSeq ==
    ASSUME NEW S, NEW s \in Seq(S)
    PROVE  /\ ToSet(s) \subseteq S
           /\ \A i \in 1 .. Len(s) : s[i] \in ToSet(s)
           /\ \A x \in ToSet(s) : \E i \in 1 .. Len(s) : s[i] = x
           /\ ToSet(s) = {} <=> s = <<>>
  BY DEF ToSet

\* Nothing is in the empty one.
LEMMA InNothing == ToSet(<<>>) = {} BY DEF ToSet

\* One more at the end.
LEMMA InAppend ==
    ASSUME NEW S, NEW s \in Seq(S), NEW e \in S
    PROVE  Append(s, e) \in Seq(S) /\ ToSet(Append(s, e)) = ToSet(s) \cup {e}
<1>1. /\ Append(s, e) \in Seq(S) /\ Len(Append(s, e)) = Len(s) + 1
      /\ Append(s, e)[Len(s) + 1] = e
      /\ \A i \in 1 .. Len(s) : Append(s, e)[i] = s[i]
  OBVIOUS
<1>2. ToSet(Append(s, e)) \subseteq ToSet(s) \cup {e} BY <1>1 DEF ToSet
<1>3. ToSet(s) \subseteq ToSet(Append(s, e)) BY <1>1 DEF ToSet
<1>4. e \in ToSet(Append(s, e)) BY <1>1 DEF ToSet
<1> QED BY <1>1, <1>2, <1>3, <1>4

\* One after the other.
LEMMA InBoth ==
    ASSUME NEW S, NEW s \in Seq(S), NEW t \in Seq(S)
    PROVE  s \o t \in Seq(S) /\ ToSet(s \o t) = ToSet(s) \cup ToSet(t)
<1>1. /\ s \o t \in Seq(S) /\ Len(s \o t) = Len(s) + Len(t)
      /\ \A i \in 1 .. Len(s) : (s \o t)[i] = s[i]
      /\ \A i \in 1 .. Len(t) : (s \o t)[Len(s) + i] = t[i]
  OBVIOUS
<1>2. ASSUME NEW i \in 1 .. Len(s) + Len(t)
      PROVE  i \in 1 .. Len(s) \/ (i - Len(s) \in 1 .. Len(t) /\ i = Len(s) + (i - Len(s)))
  OBVIOUS
<1>3. ToSet(s \o t) \subseteq ToSet(s) \cup ToSet(t) BY <1>1, <1>2 DEF ToSet
<1>4. ToSet(s) \subseteq ToSet(s \o t) BY <1>1 DEF ToSet
<1>5. ToSet(t) \subseteq ToSet(s \o t)
  <2>1. \A i \in 1 .. Len(t) : Len(s) + i \in 1 .. Len(s \o t) /\ (s \o t)[Len(s) + i] = t[i]
    BY <1>1
  <2>2. \A j \in 1 .. Len(s \o t) : (s \o t)[j] \in ToSet(s \o t) BY <1>1, InSeq
  <2>3. ASSUME NEW i \in 1 .. Len(t) PROVE t[i] \in ToSet(s \o t)
    <3>1. (s \o t)[Len(s) + i] \in ToSet(s \o t) BY <2>1, <2>2
    <3> QED BY <2>1, <3>1
  <2> QED BY <2>3, InSeq
<1> QED BY <1>1, <1>3, <1>4, <1>5

\* The first, and the rest.
LEMMA InHead ==
    ASSUME NEW S, NEW s \in Seq(S), s # <<>>
    PROVE  /\ Tail(s) \in Seq(S) /\ Head(s) \in S
           /\ ToSet(s) = {Head(s)} \cup ToSet(Tail(s))
<1>1. /\ Tail(s) \in Seq(S) /\ Len(Tail(s)) = Len(s) - 1 /\ 0 < Len(s) /\ Head(s) = s[1]
      /\ Head(s) \in S /\ \A i \in 1 .. Len(Tail(s)) : Tail(s)[i] = s[i + 1]
  OBVIOUS
<1>2. Head(s) \in ToSet(s) BY <1>1 DEF ToSet
<1>3. ToSet(Tail(s)) \subseteq ToSet(s) BY <1>1 DEF ToSet
<1>4. ASSUME NEW i \in 1 .. Len(s) PROVE s[i] \in {Head(s)} \cup ToSet(Tail(s))
  <2>1. CASE i = 1 BY <1>1, <2>1
  <2>2. CASE i # 1
    <3>1. i - 1 \in 1 .. Len(Tail(s)) /\ s[i] = Tail(s)[i - 1] BY <1>1, <2>2
    <3>2. \A j \in 1 .. Len(Tail(s)) : Tail(s)[j] \in ToSet(Tail(s)) BY <1>1, InSeq
    <3>3. Tail(s)[i - 1] \in ToSet(Tail(s)) BY <3>1, <3>2
    <3> QED BY <3>1, <3>3
  <2> QED BY <2>1, <2>2
<1> QED BY <1>1, <1>2, <1>3, <1>4 DEF ToSet

\* Sorted sequences: the empty one, one more, one after the other, the rest.
LEMMA SortedNothing == ASSUME NEW R PROVE Sorted(<<>>, R)
  BY DEF Sorted

\* One more at the end.
LEMMA SortedAppend ==
    ASSUME NEW S, NEW s \in Seq(S), NEW e \in S, NEW R, Sorted(s, R), ToSet(s) \X {e} \subseteq R
    PROVE  Sorted(Append(s, e), R)
<1>1. /\ Len(Append(s, e)) = Len(s) + 1
      /\ Append(s, e)[Len(s) + 1] = e
      /\ \A i \in 1 .. Len(s) : Append(s, e)[i] = s[i]
  OBVIOUS
<1>2. \A i \in 1 .. Len(s) : <<s[i], e>> \in R BY InSeq
<1> QED BY <1>1, <1>2 DEF Sorted

\* One after the other.
LEMMA SortedBoth ==
    ASSUME NEW S, NEW s \in Seq(S), NEW t \in Seq(S), NEW R, Sorted(s, R), Sorted(t, R),
           ToSet(s) \X ToSet(t) \subseteq R
    PROVE  Sorted(s \o t, R)
<1>1. /\ Len(s \o t) = Len(s) + Len(t)
      /\ \A i \in 1 .. Len(s) : (s \o t)[i] = s[i]
      /\ \A i \in 1 .. Len(s) + Len(t) : i > Len(s) => (s \o t)[i] = t[i - Len(s)]
  OBVIOUS
<1>2. \A i \in 1 .. Len(s) : \A j \in 1 .. Len(t) : <<s[i], t[j]>> \in R BY InSeq
<1>3. SUFFICES ASSUME NEW i \in 1 .. Len(s) + Len(t), NEW j \in 1 .. Len(s) + Len(t), i < j
               PROVE  <<(s \o t)[i], (s \o t)[j]>> \in R
  BY <1>1 DEF Sorted
<1>4. CASE j <= Len(s) BY <1>1, <1>3, <1>4 DEF Sorted
<1>5. CASE i <= Len(s) /\ j > Len(s)
  <2>1. j - Len(s) \in 1 .. Len(t) /\ i \in 1 .. Len(s) BY <1>5
  <2> QED BY <1>1, <1>2, <1>5, <2>1
<1>6. CASE i > Len(s)
  <2>1. /\ j - Len(s) \in 1 .. Len(t) /\ i - Len(s) \in 1 .. Len(t) /\ i - Len(s) < j - Len(s)
        /\ j > Len(s)
    BY <1>3, <1>6
  <2>2. <<t[i - Len(s)], t[j - Len(s)]>> \in R BY <2>1 DEF Sorted
  <2> QED BY <1>1, <1>6, <2>1, <2>2
<1>7. j <= Len(s) \/ (i <= Len(s) /\ j > Len(s)) \/ i > Len(s) BY <1>3
<1> QED BY <1>4, <1>5, <1>6, <1>7

\* The rest, and the first before it.
LEMMA SortedHead ==
    ASSUME NEW S, NEW s \in Seq(S), s # <<>>, NEW R, Sorted(s, R)
    PROVE  Sorted(Tail(s), R) /\ {Head(s)} \X ToSet(Tail(s)) \subseteq R
<1>1. /\ Tail(s) \in Seq(S) /\ Len(Tail(s)) = Len(s) - 1 /\ 0 < Len(s) /\ Head(s) = s[1]
      /\ \A i \in 1 .. Len(Tail(s)) : Tail(s)[i] = s[i + 1] /\ i + 1 \in 1 .. Len(s)
  OBVIOUS
<1>2. Sorted(Tail(s), R) BY <1>1 DEF Sorted
<1>3. \A i \in 1 .. Len(Tail(s)) : <<Head(s), Tail(s)[i]>> \in R BY <1>1 DEF Sorted
<1>4. \A x \in ToSet(Tail(s)) : <<Head(s), x>> \in R
  <2>1. \A x \in ToSet(Tail(s)) : \E i \in 1 .. Len(Tail(s)) : x = Tail(s)[i] BY DEF ToSet
  <2> QED BY <1>3, <2>1
<1> QED BY <1>2, <1>4

\* Something is said: it comes last.
LEMMA ChainSaid ==
    ASSUME NEW S, NEW b \in Seq(S), NEW u \in Seq(S), NEW o \in Seq(S), NEW T, NEW R, NEW e \in S,
           Chain(T, b, u, o, R), (T \cup ToSet(b) \cup ToSet(u) \cup ToSet(o)) \X {e} \subseteq R
    PROVE  Chain(T, b, u, Append(o, e), R)
<1>1. ToSet(Append(o, e)) = ToSet(o) \cup {e} BY InAppend
<1>2. Sorted(Append(o, e), R) BY SortedAppend DEF Chain
<1> QED BY <1>1, <1>2 DEF Chain

\* What was said is sent.
LEMMA ChainFlushed ==
    ASSUME NEW S, NEW b \in Seq(S), NEW u \in Seq(S), NEW o \in Seq(S), NEW T, NEW R,
           Chain(T, b, u, o, R)
    PROVE  Chain(T, b, u \o o, <<>>, R)
<1>1. ToSet(u \o o) = ToSet(u) \cup ToSet(o) BY InBoth
<1>2. Sorted(u \o o, R) /\ Sorted(<<>>, R) BY SortedBoth, SortedNothing DEF Chain
<1> QED BY <1>1, <1>2, InNothing DEF Chain

\* A line of the main thread is sent before what is still to be flushed.
LEMMA ChainSent ==
    ASSUME NEW S, NEW b \in Seq(S), NEW u \in Seq(S), NEW o \in Seq(S), NEW T, NEW R, NEW e \in S,
           Chain(T, b, u, o, R), (T \cup ToSet(b) \cup ToSet(u)) \X {e} \subseteq R,
           {e} \X ToSet(o) \subseteq R
    PROVE  Chain(T, b, Append(u, e), o, R)
<1>1. ToSet(Append(u, e)) = ToSet(u) \cup {e} BY InAppend
<1>2. Sorted(Append(u, e), R) BY SortedAppend DEF Chain
<1> QED BY <1>1, <1>2 DEF Chain

\* A line is absorbed, and kept or not.
LEMMA ChainAbsorbed ==
    ASSUME NEW S, NEW b \in Seq(S), NEW u \in Seq(S), NEW o \in Seq(S), NEW T, NEW R,
           Chain(T, b, u, o, R), u # <<>>
    PROVE  Chain(T, b, Tail(u), o, R) /\ Chain(T, Append(b, Head(u)), Tail(u), o, R)
<1>1. ToSet(u) = {Head(u)} \cup ToSet(Tail(u)) /\ Head(u) \in S BY InHead
<1>2. Sorted(Tail(u), R) /\ {Head(u)} \X ToSet(Tail(u)) \subseteq R BY SortedHead DEF Chain
<1>3. ToSet(Append(b, Head(u))) = ToSet(b) \cup {Head(u)} BY <1>1, InAppend
<1>4. ToSet(b) \X {Head(u)} \subseteq R BY <1>1 DEF Chain
<1>5. Sorted(Append(b, Head(u)), R) BY <1>1, <1>4, SortedAppend DEF Chain
<1>6. Chain(T, b, Tail(u), o, R) BY <1>1, <1>2 DEF Chain
<1>7. Chain(T, Append(b, Head(u)), Tail(u), o, R) BY <1>1, <1>2, <1>3, <1>5 DEF Chain
<1> QED BY <1>6, <1>7

\* What was kept is taken: some of it may be remembered.
LEMMA ChainTaken ==
    ASSUME NEW S, NEW b \in Seq(S), NEW u \in Seq(S), NEW o \in Seq(S), NEW T, NEW R, NEW U,
           Chain(T, b, u, o, R), U \subseteq T \cup ToSet(b)
    PROVE  Chain(U, <<>>, u, o, R)
BY InNothing, SortedNothing DEF Chain

\* What was remembered is forgotten.
LEMMA ChainForgotten ==
    ASSUME NEW b, NEW u, NEW o, NEW T, NEW R, Chain(T, b, u, o, R)
    PROVE  Chain({}, b, u, o, R)
BY DEF Chain
-----------------------------------------------------------------------------
(* Searches.                                                                *)

\* A set of numbers that is not empty has its least one.
LEMMA HasLeast ==
    ASSUME NEW I, I \subseteq Nat, I # {}
    PROVE  Min(I) \in I /\ \A i \in I : Min(I) <= i
<1> DEFINE Less == OpToRel(<, Nat)
<1>1. IsWellFoundedOn(Less, Nat) BY NatLessThanWellFounded
<1>2. ASSUME NEW i \in Nat, NEW m \in Nat, i < m PROVE <<i, m>> \in Less
  BY <1>2 DEF OpToRel
<1> HIDE DEF Less
<1>3. PICK m \in I : \A i \in I : ~ (<<i, m>> \in Less) BY <1>1, WFMin
<1>4. ASSUME NEW i \in I PROVE m <= i
  <2>1. i \in Nat /\ m \in Nat OBVIOUS
  <2>2. ~ (i < m) BY <1>2, <1>3, <2>1
  <2> QED BY <2>1, <2>2
<1> QED BY <1>4 DEF Min

\* A bounded one has its greatest.
LEMMA HasGreatest ==
    ASSUME NEW n \in Nat, NEW I, I \subseteq 0 .. n, I # {}
    PROVE  Max(I) \in I /\ \A i \in I : i <= Max(I)
<1> DEFINE J == {n - i : i \in I}
<1>1. ASSUME NEW i \in I PROVE i \in Nat /\ i <= n /\ n - i \in Nat
  <2>1. i \in 0 .. n OBVIOUS
  <2> QED BY <2>1
<1>2. J \subseteq Nat BY <1>1
<1>0. J # {} OBVIOUS
<1>3. Min(J) \in J /\ \A j \in J : Min(J) <= j BY <1>0, <1>2, HasLeast
<1>4. PICK m \in I : Min(J) = n - m BY <1>3
<1>5. \A i \in I : n - m <= n - i BY <1>3, <1>4
<1>6. \A i \in I : i <= m BY <1>1, <1>5
<1> QED BY <1>1, <1>6 DEF Max

\* Where the first terminal event is.
LEMMA FirstFound ==
    ASSUME NEW S, NEW s \in Seq(S)
    PROVE  LET i == FirstTerminal(s) IN
           /\ i = 0 => \A e \in ToSet(s) : e.kind \notin Terminal
           /\ i # 0 => /\ i \in 1 .. Len(s) /\ s[i] \in ToSet(s) /\ s[i].kind \in Terminal
                       /\ \A j \in 1 .. Len(s) : s[j].kind \in Terminal => i <= j
<1> DEFINE I == {i \in 1 .. Len(s) : s[i].kind \in Terminal}
<1>1. FirstTerminal(s) = IF I # {} THEN Min(I) ELSE 0 BY DEF FirstTerminal, SelectInSeq
<1>2. I \subseteq Nat /\ 0 \notin I OBVIOUS
<1>3. CASE I = {} BY <1>1, <1>3, InSeq
<1>4. CASE I # {}
  <2>1. Min(I) \in I /\ \A i \in I : Min(I) <= i BY <1>2, <1>4, HasLeast
  <2> QED BY <1>1, <1>4, <2>1, InSeq
<1> QED BY <1>3, <1>4

\* Where the last question is.
LEMMA LastFound ==
    ASSUME NEW S, NEW s \in Seq(S), LastQuestion(s) # 0
    PROVE  s[LastQuestion(s)] \in ToSet(s) /\ s[LastQuestion(s)].kind = "question"
<1> DEFINE I == {i \in 1 .. Len(s) : s[i].kind = "question"}
<1>1. LastQuestion(s) = IF I # {} THEN Max(I) ELSE 0 BY DEF LastQuestion, SelectLastInSeq
<1>2. I \subseteq 0 .. Len(s) /\ Len(s) \in Nat OBVIOUS
<1>3. Max(I) \in I BY <1>1, <1>2, HasGreatest
<1> QED BY <1>1, <1>3, InSeq

\* The last result of a flush.
LEMMA ResultFound ==
    ASSUME NEW S, NEW s \in Seq(S)
    PROVE  LastResult(s) = said
              \/ \E e \in ToSet(s) : e.kind = "succeeded" /\ LastResult(s) = e.n
<1> DEFINE I == {i \in 1 .. Len(s) : s[i].kind = "succeeded"}
           at == IF I # {} THEN Max(I) ELSE 0
<1>1. LastResult(s) = IF at = 0 THEN said ELSE s[at].n BY DEF LastResult, SelectLastInSeq
<1>2. I \subseteq 0 .. Len(s) /\ Len(s) \in Nat OBVIOUS
<1>3. I # {} => Max(I) \in I BY <1>2, HasGreatest
<1>4. at # 0 => s[at] \in ToSet(s) /\ s[at].kind = "succeeded" BY <1>3, InSeq
<1> QED BY <1>1, <1>4

-----------------------------------------------------------------------------
(* States of the session.                                                   *)

\* What the variables are, one by one.
LEMMA Values ==
    ASSUME SessionTypeOK, StreamsOK
    PROVE  /\ {MaxFollowups, MaxQuestions} \subseteq Nat
           /\ turn \in Nat /\ message \in Nat /\ sent \in Nat /\ asked \in Nat
           /\ token \in Nat /\ waitingFor \in Nat /\ said \in Nat /\ reported \in Nat
           /\ unrecorded \in Nat /\ hostTurn \in Nat /\ question.token \in Nat
           /\ caller.n \in Nat
           /\ complete \in BOOLEAN /\ cancelled \in BOOLEAN /\ announced \in BOOLEAN
           /\ hostComplete \in BOOLEAN /\ inFlight \in BOOLEAN /\ refusal \in BOOLEAN
           /\ cancelRequested \in BOOLEAN /\ stopped \in BOOLEAN /\ held \in BOOLEAN
           /\ givenUp \in BOOLEAN
           /\ caller \in [op : Terminal \cup {"none", "looking", "asking", "sending", "closing"}, n : Nat]
<1>1. {MaxFollowups, MaxQuestions} \subseteq Nat BY AgentSessionAssumption
<1>2. turn \in Nat /\ message \in Nat BY <1>1 DEF SessionTypeOK
<1>3. sent \in Nat /\ asked \in Nat BY <1>1 DEF StreamsOK
<1>4. /\ token \in Nat /\ waitingFor \in Nat /\ said \in Nat /\ reported \in Nat
      /\ unrecorded \in Nat /\ hostTurn \in Nat /\ caller.n \in Nat
      /\ caller \in [op : Terminal \cup {"none", "looking", "asking", "sending", "closing"}, n : Nat]
  BY DEF StreamsOK
<1>5. question.token \in Nat BY <1>1 DEF SessionTypeOK
<1>6. /\ complete \in BOOLEAN /\ cancelled \in BOOLEAN /\ announced \in BOOLEAN
      /\ hostComplete \in BOOLEAN /\ inFlight \in BOOLEAN /\ refusal \in BOOLEAN
      /\ cancelRequested \in BOOLEAN /\ stopped \in BOOLEAN /\ held \in BOOLEAN
      /\ givenUp \in BOOLEAN
  BY DEF SessionTypeOK
<1> QED BY <1>1, <1>2, <1>3, <1>4, <1>5, <1>6

\* What the streams hold.
LEMMA Streams ==
    ASSUME SessionTypeOK, StreamsOK
    PROVE  /\ out \in Seq(UpLines) /\ buffer \in Seq(UpLines) /\ up \in Seq(UpLines)
           /\ out \in Seq(Lines(Events)) /\ buffer \in Seq(Lines(Events))
           /\ down \in Seq(DownLines)
           /\ ToSet(out) \subseteq Lines(Events) /\ ToSet(buffer) \subseteq Lines(Events)
           /\ ToSet(up) \subseteq UpLines /\ ToSet(down) \subseteq DownLines
           /\ Taken \subseteq Lines(Terminal)
           /\ Lines(Events) \subseteq UpLines /\ Lines(Terminal) \subseteq Lines(Events)
           /\ Read \cup Coming \subseteq UpLines
<1>1. Lines(Events) \subseteq UpLines /\ Lines(Terminal) \subseteq Lines(Events)
  BY DEF Lines, UpLines, Events, Terminal
<1>2. /\ out \in Seq(Lines(Events)) /\ buffer \in Seq(Lines(Events))
      /\ down \in Seq(DownLines)
  BY DEF SessionTypeOK, Events, DownLines
<1>3. out \in Seq(UpLines) /\ buffer \in Seq(UpLines) BY <1>1, <1>2, SeqMonotonic
<1>4. up \in Seq(UpLines) BY DEF StreamsOK
<1>5. /\ ToSet(out) \subseteq Lines(Events) /\ ToSet(buffer) \subseteq Lines(Events)
      /\ ToSet(up) \subseteq UpLines /\ ToSet(down) \subseteq DownLines
  BY <1>2, <1>4, InSeq
<1>6. Taken \subseteq Lines(Terminal)
  BY Values DEF Taken, Event, Lines
<1>7. Read \cup Coming \subseteq UpLines BY <1>1, <1>5, <1>6 DEF Read, Coming
<1> QED BY <1>1, <1>2, <1>3, <1>4, <1>5, <1>6, <1>7

\* What it means that two lines are in order.
LEMMA Pairs ==
    ASSUME NEW a \in UpLines, NEW b \in UpLines
    PROVE  /\ <<a, b>> \in Rising <=>
                 /\ a.kind \in Terminal /\ b.kind = "succeeded" => a.n < b.n
                 /\ a.kind = "question" /\ b.kind = "question" => a.n < b.n
           /\ <<a, b>> \in Ending <=>
                 /\ a.kind \in Terminal => b.kind \notin Events
                 /\ ~ (a.kind = "turn_complete" /\ b.kind = "turn_complete")
  BY DEF Rising, Ending

\* A session that has something to say is not at rest.
LEMMA NotAtRest ==
    ASSUME SessionInv, ~ givenUp, ~ cancelRequested, drive # "parked"
    PROVE  /\ \A e \in ToSet(up) : e.kind # "turn_complete"
           /\ hostComplete /\ ~ stopped => caller.op = "sending" /\ hostTurn = caller.n
           /\ ~ (task = "ready_for_followup" /\ caller.op # "sending" /\ ~ stopped)
  BY DEF SessionInv, CompleteOK, Rest

\* The loop thread says something, in a turn that is open or as its end.
LEMMA LoopSays ==
    ASSUME SessionInv, main # "gone", NEW e \in Lines(Events),
           UNCHANGED <<turn, complete, cancelled, mainVars, pipes, hostVars, adapterVars, deaths, said>>,
           out' \in {out, Append(out, e)}, drive # "parked", drive' # "parked",
           message' \in {message, Nothing}, asked' \in Nat, asked <= asked',
           queried \subseteq queried',
           Running' => Running,
           e.kind \in Terminal => e.n = turn /\ ~ Running',
           e.kind = "succeeded" => Running,
           e.kind = "question" => e.n = asked' /\ asked < e.n,
           out' # out => Running \/ cancelled
    PROVE  OrderOK' /\ TaskOK' /\ PresentOK' /\ SaidOK' /\ CancelKeepsResult' /\ CompleteOK'
<1> USE DEF mainVars, pipes, hostVars, adapterVars
<1>1. /\ SessionTypeOK /\ StreamsOK /\ LoopOK /\ MessagesOK /\ OrderOK /\ TaskOK /\ PresentOK
      /\ SaidOK /\ CancelKeepsResult /\ CompleteOK /\ SendOK
  BY DEF SessionInv
<1>2. e \in UpLines /\ Read \cup Coming \subseteq UpLines BY <1>1, Streams
<1>3. /\ Read' = Read /\ Taken' = Taken
      /\ ToSet(out') \in {ToSet(out), ToSet(out) \cup {e}}
      /\ Coming' \in {Coming, Coming \cup {e}}
      /\ out' = out => Coming' = Coming
  <2>1. Read' = Read /\ Taken' = Taken BY DEF Read, Taken
  <2>2. ToSet(Append(out, e)) = ToSet(out) \cup {e} BY <1>1, <1>2, Streams, InAppend
  <2>3. ToSet(out') \in {ToSet(out), ToSet(out) \cup {e}} BY <2>2
  <2>4. Coming' \in {Coming, Coming \cup {e}} BY <2>3 DEF Coming
  <2> QED BY <2>1, <2>3, <2>4 DEF Coming
<1>4. ASSUME NEW R, InOrder(R), out' # out => (Read \cup Coming) \X {e} \subseteq R
      PROVE  InOrder(R)'
  <2>1. CASE out' = out BY <1>3, <1>4, <2>1 DEF InOrder
  <2>2. CASE out' # out
    <3>1. Chain(Taken, buffer, up, out, R) BY <1>4 DEF InOrder
    <3>2. (Taken \cup ToSet(buffer) \cup ToSet(up) \cup ToSet(out)) \X {e} \subseteq R
      BY <1>4, <2>2 DEF Read, Coming
    <3>3. Chain(Taken, buffer, up, Append(out, e), R)
      BY <1>1, <1>2, <3>1, <3>2, Streams, ChainSaid
    <3> QED BY <1>3, <2>2, <3>3 DEF InOrder
  <2> QED BY <2>1, <2>2
<1>5. OrderOK'
  <2>1. InOrder(Rising)'
    <3>1. ASSUME NEW a \in Read \cup Coming PROVE <<a, e>> \in Rising
      <4>1. a.kind \in Terminal /\ e.kind = "succeeded" => a.n < e.n
        BY <1>1 DEF OrderOK, Terminal
      <4>2. a.kind = "question" /\ e.kind = "question" => a.n < e.n
        <5>1. a.n \in Nat /\ asked \in Nat /\ e.n \in Nat BY <1>1, <1>2, Values DEF UpLines, Lines
        <5> QED BY <1>1, <5>1 DEF OrderOK
      <4> QED BY <1>2, <4>1, <4>2, Pairs
    <3>2. (Read \cup Coming) \X {e} \subseteq Rising BY <3>1
    <3> QED BY <1>1, <1>4, <3>2 DEF OrderOK
  <2>2. ASSUME NEW a \in Read \cup Coming
        PROVE  /\ a.kind \in Terminal => a.n <= turn' /\ (Running' => a.n < turn')
               /\ a.kind = "succeeded" => reported' < a.n
               /\ a.kind = "question" => waitingFor' < a.n /\ a.n <= asked'
                                         /\ ((caller.op)' = "asking" => (caller.n)' < a.n)
               /\ a.kind = "turn_complete" => a.n <= turn'
    <3>1. a.n \in Nat /\ asked \in Nat BY <1>1, <1>2, Values DEF UpLines, Lines
    <3> QED BY <1>1, <3>1 DEF OrderOK
  <2>3. /\ e.kind \in Terminal => e.n <= turn' /\ (Running' => e.n < turn')
        /\ e.kind = "succeeded" => reported' < e.n
        /\ e.kind = "question" => waitingFor' < e.n /\ e.n <= asked'
                                  /\ ((caller.op)' = "asking" => (caller.n)' < e.n)
        /\ e.kind = "turn_complete" => e.n <= turn'
    <3>1. e.n \in Nat /\ asked \in Nat /\ turn \in Nat /\ waitingFor \in Nat /\ caller.n \in Nat
          /\ e.kind # "turn_complete"
      BY <1>1, <1>2, Values DEF Lines, Events, Terminal
    <3>2. e.kind = "succeeded" => reported' < e.n BY <1>1 DEF OrderOK, Terminal
    <3>3. e.kind = "question" => waitingFor' < e.n /\ e.n <= asked'
                                 /\ ((caller.op)' = "asking" => (caller.n)' < e.n)
      BY <1>1, <3>1 DEF OrderOK
    <3> QED BY <3>1, <3>2, <3>3
  <2>4. /\ reported' <= turn' /\ (Running' => reported' < turn')
        /\ hostTurn' <= turn' /\ said' <= turn'
        /\ waitingFor' <= asked' /\ ((caller.op)' = "asking" => (caller.n)' <= asked')
    <3>1. asked \in Nat /\ waitingFor \in Nat /\ caller.n \in Nat BY <1>1, Values
    <3> QED BY <1>1, <3>1 DEF OrderOK
  <2>5. Read' \cup Coming' \subseteq (Read \cup Coming) \cup {e} BY <1>3
  <2> QED BY <2>1, <2>2, <2>3, <2>4, <2>5 DEF OrderOK
<1>6. TaskOK' BY <1>1 DEF TaskOK
<1>7. PresentOK'
  <2> SUFFICES ASSUME ~ givenUp PROVE PresentOK' BY DEF PresentOK
  <2>1. \A a \in (Read \cup Coming)' : a.kind \in Terminal => a.n = turn'
    BY <1>1, <1>3 DEF PresentOK
  <2>2. ASSUME ~ cancelRequested PROVE InOrder(Ending)'
    <3>1. ASSUME NEW a \in Read \cup Coming, out' # out PROVE <<a, e>> \in Ending
      <4>1. Running BY <1>1, <2>2, <3>1 DEF LoopOK
      <4>2. a.kind \notin Terminal
        <5>1. a.kind \in Terminal => a.n = turn /\ a.n < turn /\ turn \in Nat
          BY <1>1, <4>1, Values DEF OrderOK, PresentOK
        <5> QED BY <5>1
      <4>3. e.kind # "turn_complete" BY DEF Lines, Events, Terminal
      <4> QED BY <1>2, <4>2, <4>3, Pairs
    <3>2. out' # out => (Read \cup Coming) \X {e} \subseteq Ending BY <3>1
    <3> QED BY <1>1, <1>4, <2>2, <3>2 DEF PresentOK
  <2> QED BY <1>1, <2>1, <2>2 DEF PresentOK
<1>8. SaidOK' BY <1>1, <1>3 DEF SaidOK, Owed
<1>9. CancelKeepsResult' BY <1>1 DEF CancelKeepsResult
<1>10. CompleteOK'
  <2> SUFFICES ASSUME ~ givenUp PROVE CompleteOK' BY DEF CompleteOK
  <2>1. ToSet(buffer') \cup Coming' \subseteq ToSet(buffer) \cup Coming \cup {e} BY <1>3
  <2>2. Only(Events \cup {"turn_complete", "finished"})'
    <3>1. e.kind \in Events BY DEF Lines
    <3> QED BY <1>1, <2>1, <3>1 DEF CompleteOK, Only
  <2>3. caller.op # "sending" /\ main # "gone" => message' = Nothing /\ NoFollowup'
    BY <1>1 DEF CompleteOK, NoFollowup
  <2>4. ~ cancelRequested =>
          /\ \A a \in ToSet(up) : a.kind # "turn_complete"
          /\ hostComplete /\ ~ stopped => caller.op = "sending" /\ hostTurn = caller.n
          /\ ~ (task = "ready_for_followup" /\ caller.op # "sending" /\ ~ stopped)
    BY NotAtRest
  <2> QED BY <1>1, <2>2, <2>3, <2>4 DEF CompleteOK
<1> QED BY <1>5, <1>6, <1>7, <1>8, <1>9, <1>10

\* Ask preserves the invariant.
LEMMA AskPreserves ==
    ASSUME SessionInv, Ask PROVE SessionInv'
<1> USE DEF mainVars, pipes, hostVars, adapterVars
<1>1. /\ SessionTypeOK /\ StreamsOK /\ LoopOK /\ MessagesOK /\ SendOK
  BY DEF SessionInv
<1> DEFINE e == Event("question", asked')
<1>2. /\ main # "gone" /\ drive = "working" /\ drive' = "asking" /\ out' = Append(out, e)
      /\ asked' = asked + 1 /\ asked < MaxQuestions
      /\ question' = [NoQuestion EXCEPT !.token = asked']
      /\ UNCHANGED <<turn, complete, message, cancelled, queried, heard, said, mainVars,
                     pipes, hostVars, adapterVars, deaths>>
  BY DEF Ask, LoopStep
<1>3. asked' \in Nat /\ asked \in Nat /\ asked' \in 0 .. MaxQuestions
  <2>1. asked \in 0 .. MaxQuestions /\ MaxQuestions \in Nat
    BY <1>1, AgentSessionAssumption DEF StreamsOK
  <2> QED BY <1>2, <2>1
<1>4. e \in Lines(Events) /\ e.kind = "question" /\ e.n = asked'
  BY <1>3 DEF Event, Lines, Events
<1> HIDE DEF e
<1>5. OrderOK' /\ TaskOK' /\ PresentOK' /\ SaidOK' /\ CancelKeepsResult' /\ CompleteOK'
  BY <1>2, <1>3, <1>4, LoopSays DEF Running, Terminal
<1>6. /\ (question').token = asked' /\ question' \in [token: 0 .. MaxQuestions, answer: BOOLEAN, cancelled: BOOLEAN]
  BY <1>2, <1>3 DEF NoQuestion
<1>7. SessionTypeOK' /\ StreamsOK'
  <2>1. out' \in Seq(Lines(Events)) BY <1>1, <1>2, <1>4, Streams, InAppend
  <2>2. heard' \subseteq 1 .. asked' BY <1>1, <1>2, <1>3 DEF SessionTypeOK
  <2> QED BY <1>1, <1>2, <1>3, <1>6, <2>1, <2>2 DEF SessionTypeOK, StreamsOK, Events
<1>8. LoopOK' BY <1>1, <1>2, <1>3, <1>6 DEF LoopOK
<1>9. MessagesOK' BY <1>1, <1>2 DEF MessagesOK
<1>10. SendOK'
  <2>1. ~ Undelivered BY <1>2 DEF Undelivered, Rest
  <2>2. Delivered => Delivered' BY <1>2 DEF Delivered, NoFollowup
  <2> QED BY <1>1, <1>2, <2>1, <2>2 DEF SendOK
<1> QED BY <1>5, <1>7, <1>8, <1>9, <1>10 DEF SessionInv

\* StopAsking preserves the invariant.
LEMMA StopAskingPreserves ==
    ASSUME SessionInv, NEW timeout \in BOOLEAN, StopAsking(timeout) PROVE SessionInv'
<1> USE DEF mainVars, pipes, hostVars, adapterVars
<1>1. /\ SessionTypeOK /\ StreamsOK /\ LoopOK /\ MessagesOK /\ SendOK
  BY DEF SessionInv
<1> DEFINE e == Event("activity", turn)
<1>2. /\ main # "gone" /\ drive = "asking" /\ drive' = "working" /\ out' = Append(out, e)
      /\ heard' \in {heard, heard \cup {question.token}} /\ question' = NoQuestion
      /\ UNCHANGED <<turn, complete, message, cancelled, asked, queried, said, mainVars,
                     pipes, hostVars, adapterVars, deaths>>
  BY DEF StopAsking, LoopStep
<1>3. asked \in Nat /\ turn \in Nat BY <1>1, Values
<1>4. e \in Lines(Events) /\ e.kind = "activity"
  BY <1>3 DEF Event, Lines, Events
<1> HIDE DEF e
<1>5. OrderOK' /\ TaskOK' /\ PresentOK' /\ SaidOK' /\ CancelKeepsResult' /\ CompleteOK'
  BY <1>2, <1>3, <1>4, LoopSays DEF Running, Terminal
<1>6. /\ (question').token = Nothing
      /\ question' \in [token: 0 .. MaxQuestions, answer: BOOLEAN, cancelled: BOOLEAN]
  BY <1>1, <1>2, Values DEF NoQuestion, Nothing
<1>7. SessionTypeOK' /\ StreamsOK'
  <2>1. out' \in Seq(Lines(Events)) BY <1>1, <1>2, <1>4, Streams, InAppend
  <2>2. question.token \in 1 .. asked BY <1>1, <1>2, <1>3, Values DEF LoopOK, Nothing
  <2>3. heard' \subseteq 1 .. asked' BY <1>1, <1>2, <2>2 DEF SessionTypeOK
  <2> QED BY <1>1, <1>2, <1>6, <2>1, <2>3 DEF SessionTypeOK, StreamsOK, Events
<1>8. LoopOK' BY <1>1, <1>2, <1>3, <1>6 DEF LoopOK, Nothing
<1>9. MessagesOK' BY <1>1, <1>2 DEF MessagesOK
<1>10. SendOK'
  <2>1. ~ Undelivered BY <1>2 DEF Undelivered, Rest
  <2>2. Delivered => Delivered' BY <1>2 DEF Delivered, NoFollowup
  <2> QED BY <1>1, <1>2, <2>1, <2>2 DEF SendOK
<1> QED BY <1>5, <1>7, <1>8, <1>9, <1>10 DEF SessionInv

\* The end of a turn, good or bad, preserves the invariant.
LEMMA TurnEndPreserves ==
    ASSUME SessionInv, main # "gone", drive = "working", drive' \in {"told", "ending"},
           NEW kind \in {"succeeded", "failed"},
           out' \in {out, Append(out, Event(kind, turn))},
           UNCHANGED <<turn, complete, message, cancelled, question, asked, queried, heard,
                       said, mainVars, pipes, hostVars, adapterVars, deaths>>
    PROVE  SessionInv'
<1> USE DEF mainVars, pipes, hostVars, adapterVars
<1>1. /\ SessionTypeOK /\ StreamsOK /\ LoopOK /\ MessagesOK /\ SendOK
  BY DEF SessionInv
<1> DEFINE e == Event(kind, turn)
<1>2. out' \in {out, Append(out, e)} OBVIOUS
<1>3. asked \in Nat /\ turn \in Nat BY <1>1, Values
<1>4. e \in Lines(Events) /\ e.kind = kind /\ e.n = turn
  BY <1>3 DEF Event, Lines, Events, Terminal
<1> HIDE DEF e
<1>5. OrderOK' /\ TaskOK' /\ PresentOK' /\ SaidOK' /\ CancelKeepsResult' /\ CompleteOK'
  BY <1>2, <1>3, <1>4, LoopSays DEF Running, Terminal
<1>7. SessionTypeOK' /\ StreamsOK'
  <2>0. Append(out, e) \in Seq(Lines(Events)) BY <1>1, <1>4, Streams, InAppend
  <2>1. out' \in Seq(Lines(Events)) BY <1>1, <1>2, <2>0, Streams
  <2>8. SessionTypeOK' BY <1>1, <2>1 DEF SessionTypeOK, Events
  <2>9. StreamsOK' BY <1>1, <2>1 DEF StreamsOK
  <2> QED BY <2>8, <2>9
<1>8. LoopOK' BY <1>1 DEF LoopOK
<1>9. MessagesOK' BY <1>1 DEF MessagesOK, Nothing, LoopOK
<1>10. SendOK'
  <2>1. ~ Undelivered BY DEF Undelivered, Rest
  <2>2. Delivered => Delivered' BY DEF Delivered, NoFollowup
  <2> QED BY <1>1, <2>1, <2>2 DEF SendOK
<1> QED BY <1>5, <1>7, <1>8, <1>9, <1>10 DEF SessionInv

\* Query preserves the invariant: what is queried is what was sent last.
LEMMA QueryPreserves ==
    ASSUME SessionInv, NEW works \in BOOLEAN, Query(works) PROVE SessionInv'
<1> USE DEF mainVars, pipes, hostVars, adapterVars
<1>1. /\ SessionTypeOK /\ StreamsOK /\ LoopOK /\ MessagesOK /\ SendOK
  BY DEF SessionInv
<1> DEFINE e == Event(IF works THEN "activity" ELSE "failed", turn)
<1>2. /\ main # "gone" /\ drive = "querying" /\ drive' = (IF works THEN "working" ELSE "ending")
      /\ out' = Append(out, e) /\ message' = Nothing
      /\ queried' = IF works THEN queried \cup {message} ELSE queried
      /\ UNCHANGED <<turn, complete, cancelled, question, asked, heard, said, mainVars,
                     pipes, hostVars, adapterVars, deaths>>
  BY DEF Query, LoopStep
<1>3. asked \in Nat /\ turn \in Nat BY <1>1, Values
<1>4. e \in Lines(Events) /\ e.kind = (IF works THEN "activity" ELSE "failed") /\ e.n = turn
  BY <1>3 DEF Event, Lines, Events, Terminal
<1> HIDE DEF e
<1>5. OrderOK' /\ TaskOK' /\ PresentOK' /\ SaidOK' /\ CancelKeepsResult' /\ CompleteOK'
  BY <1>2, <1>3, <1>4, LoopSays DEF Running, Terminal
<1>6. message \in 1 .. sent BY <1>1, <1>2, Values DEF LoopOK, MessagesOK, Nothing
<1>7. SessionTypeOK' /\ StreamsOK'
  <2>1. out' \in Seq(Lines(Events)) BY <1>1, <1>2, <1>4, Streams, InAppend
  <2>2. accepted' \cup queried' \subseteq 1 .. sent' BY <1>1, <1>2, <1>6 DEF SessionTypeOK
  <2>3. message' \in 0 .. MaxFollowups BY <1>1, <1>2, Values DEF Nothing
  <2>8. SessionTypeOK' BY <1>1, <1>2, <2>1, <2>2, <2>3 DEF SessionTypeOK, Events
  <2>9. StreamsOK' BY <1>1, <1>2, <2>1, <2>2, <2>3 DEF StreamsOK
  <2> QED BY <2>8, <2>9
<1>8. LoopOK' BY <1>1, <1>2 DEF LoopOK, Nothing
<1>9. MessagesOK'
  <2>1. sent \in Nat /\ turn \in Nat BY <1>1, Values
  <2>2. \A a \in ToSet(down) : a.kind = "followup" => Nothing < a.n
    <3>1. ASSUME NEW a \in ToSet(down) PROVE a.n \in Nat
      BY <1>1, Streams DEF DownLines, Lines
    <3> QED BY <1>1, <1>6, <3>1 DEF MessagesOK, Nothing
  <2> QED BY <1>1, <1>2, <2>1, <2>2 DEF MessagesOK, Nothing
<1>10. SendOK'
  <2>1. Delivered => Delivered' BY <1>2 DEF Delivered, NoFollowup
  <2>2. ASSUME Undelivered, works PROVE Delivered'
    BY <1>2, <2>2 DEF Undelivered, Rest, Delivered, NoFollowup
  <2>3. ASSUME Undelivered, ~ works PROVE Undelivered'
    <3>1. Only({"finished"}) /\ hostComplete /\ hostTurn = caller.n /\ ~ complete /\ NoFollowup
      BY <1>2, <2>3 DEF Undelivered, Rest
    <3>2. ToSet(buffer') \cup Coming' \subseteq ToSet(buffer) \cup Coming \cup {e}
      <4>1. ToSet(out') = ToSet(out) \cup {e} BY <1>1, <1>2, <1>4, Streams, InAppend
      <4> QED BY <1>2, <4>1 DEF Coming
    <3>3. Only({"failed", "finished"})' BY <1>4, <2>3, <3>1, <3>2 DEF Only
    <3> QED BY <1>2, <2>3, <3>1, <3>3 DEF Undelivered, NoFollowup
  <2> QED BY <1>1, <1>2, <2>1, <2>2, <2>3 DEF SendOK
<1> QED BY <1>5, <1>7, <1>8, <1>9, <1>10 DEF SessionInv

\* EndDrive preserves the invariant.
LEMMA EndDrivePreserves ==
    ASSUME SessionInv, EndDrive PROVE SessionInv'
<1> USE DEF mainVars, pipes, hostVars, adapterVars
<1>1. /\ SessionTypeOK /\ StreamsOK /\ LoopOK /\ MessagesOK /\ SendOK /\ TaskOK
  BY DEF SessionInv
<1> DEFINE e == Event("cancelled", turn)
<1>2. /\ main # "gone" /\ drive = "ending" /\ drive' = "stopped"
      /\ out' = IF cancelled THEN Append(out, e) ELSE out
      /\ UNCHANGED <<turn, complete, message, cancelled, question, asked, queried, heard, said,
                     mainVars, pipes, hostVars, adapterVars, deaths>>
  BY DEF EndDrive, LoopStep
<1>3. asked \in Nat /\ turn \in Nat BY <1>1, Values
<1>4. e \in Lines(Events) /\ e.kind = "cancelled" /\ e.n = turn
  BY <1>3 DEF Event, Lines, Events, Terminal
<1> HIDE DEF e
<1>5. OrderOK' /\ TaskOK' /\ PresentOK' /\ SaidOK' /\ CancelKeepsResult' /\ CompleteOK'
  BY <1>2, <1>3, <1>4, LoopSays DEF Running, Terminal
<1>7. SessionTypeOK' /\ StreamsOK'
  <2>0. Append(out, e) \in Seq(Lines(Events)) BY <1>1, <1>4, Streams, InAppend
  <2>1. out' \in Seq(Lines(Events)) BY <1>1, <1>2, <2>0, Streams
  <2>8. SessionTypeOK' BY <1>1, <1>2, <2>1 DEF SessionTypeOK, Events
  <2>9. StreamsOK' BY <1>1, <1>2, <2>1 DEF StreamsOK
  <2> QED BY <2>8, <2>9
<1>8. LoopOK' BY <1>1, <1>2 DEF LoopOK
<1>9. MessagesOK' BY <1>1, <1>2 DEF MessagesOK
<1>10. SendOK'
  <2>1. Delivered => Delivered' BY <1>2 DEF Delivered, NoFollowup
  <2>2. caller.op = "sending" => out' = out BY <1>1, <1>2 DEF TaskOK, LoopOK
  <2>3. Undelivered /\ out' = out => Undelivered'
    BY <1>2 DEF Undelivered, Rest, NoFollowup, Only, Coming
  <2> QED BY <1>1, <1>2, <2>1, <2>2, <2>3 DEF SendOK
<1> QED BY <1>5, <1>7, <1>8, <1>9, <1>10 DEF SessionInv

\* Park preserves the invariant.
LEMMA ParkPreserves ==
    ASSUME SessionInv, Park PROVE SessionInv'
<1> USE DEF mainVars, pipes, hostVars, adapterVars
<1>1. /\ SessionTypeOK /\ StreamsOK /\ LoopOK /\ MessagesOK /\ OrderOK /\ TaskOK /\ PresentOK
      /\ SaidOK /\ CancelKeepsResult /\ CompleteOK /\ SendOK
  BY DEF SessionInv
<1>2. /\ main # "gone" /\ drive = "told" /\ drive' = (IF cancelled THEN "ending" ELSE "parked")
      /\ complete' = ~ cancelled
      /\ UNCHANGED <<turn, message, cancelled, question, asked, out, queried, heard, said,
                     mainVars, pipes, hostVars, adapterVars, deaths>>
  BY DEF Park, LoopStep
<1>3. message = Nothing BY <1>1, <1>2 DEF LoopOK
<1>4. SessionTypeOK' /\ StreamsOK'
  <2>1. complete' \in BOOLEAN BY <1>2
  <2>2. drive' \in {"ending", "parked"} BY <1>2
  <2>3. {complete', cancelled, announced, hostComplete, inFlight, refusal, cancelRequested, stopped,
         givenUp} \subseteq BOOLEAN
    BY <1>1, <2>1, Values
  <2>4. SessionTypeOK' BY <1>1, <1>2, <2>2, <2>3 DEF SessionTypeOK
  <2>5. StreamsOK' BY <1>1, <1>2 DEF StreamsOK
  <2> QED BY <2>4, <2>5
<1>5. LoopOK' BY <1>1, <1>2, <1>3, Values DEF LoopOK
<1>6. MessagesOK' BY <1>1, <1>2, <1>3 DEF MessagesOK
<1>7. OrderOK' BY <1>1, <1>2 DEF OrderOK, InOrder, Read, Taken, Coming, Running
<1>8. TaskOK' BY <1>1, <1>2 DEF TaskOK
<1>9. PresentOK' BY <1>1, <1>2 DEF PresentOK, InOrder, Read, Taken, Coming
<1>10. SaidOK' /\ CancelKeepsResult' BY <1>1, <1>2 DEF SaidOK, Owed, CancelKeepsResult, Read, Taken
<1>11. CompleteOK'
  <2>1. ~ givenUp /\ ~ cancelRequested =>
          /\ \A a \in ToSet(up) : a.kind # "turn_complete"
          /\ hostComplete /\ ~ stopped => caller.op = "sending" /\ hostTurn = caller.n
          /\ ~ (task = "ready_for_followup" /\ caller.op # "sending" /\ ~ stopped)
    BY <1>2, NotAtRest
  <2> QED BY <1>1, <1>2, <2>1 DEF CompleteOK, Only, Coming, NoFollowup
<1>12. SendOK'
  <2>1. ~ Undelivered BY <1>2 DEF Undelivered, Rest
  <2>2. Delivered => Delivered' BY <1>2 DEF Delivered, NoFollowup
  <2> QED BY <1>1, <1>2, <2>1, <2>2 DEF SendOK
<1> QED BY <1>4, <1>5, <1>6, <1>7, <1>8, <1>9, <1>10, <1>11, <1>12 DEF SessionInv

\* WakeUp preserves the invariant: a turn begins with the message that was sent, when
\* everything of the turn before it was read.
LEMMA WakeUpPreserves ==
    ASSUME SessionInv, WakeUp PROVE SessionInv'
<1> USE DEF mainVars, pipes, hostVars, adapterVars
<1>1. /\ SessionTypeOK /\ StreamsOK /\ LoopOK /\ MessagesOK /\ OrderOK /\ TaskOK /\ PresentOK
      /\ SaidOK /\ CancelKeepsResult /\ CompleteOK /\ SendOK
  BY DEF SessionInv
<1>2. /\ main # "gone" /\ drive = "parked" /\ (message # Nothing \/ cancelled)
      /\ IF cancelled
         THEN drive' = "ending" /\ complete' = TRUE /\ message' = Nothing /\ turn' = turn
         ELSE drive' = "querying" /\ turn' = turn + 1 /\ complete' = complete /\ message' = message
      /\ UNCHANGED <<cancelled, question, asked, out, queried, heard, said,
                     mainVars, pipes, hostVars, adapterVars, deaths>>
  BY DEF WakeUp, LoopStep
<1>3. /\ turn \in Nat /\ message \in Nat /\ sent \in Nat /\ MaxFollowups \in Nat
      /\ reported \in Nat /\ hostTurn \in Nat /\ said \in Nat /\ caller.n \in Nat
  BY <1>1, Values
<1>4. /\ turn' \in Nat /\ turn <= turn' /\ (~ cancelled => complete = FALSE /\ turn <= message)
      /\ message <= sent /\ sent <= MaxFollowups
  BY <1>1, <1>2, <1>3, Values DEF LoopOK, MessagesOK, StreamsOK
<1>5. \A a \in Read \cup Coming : a.n \in Nat BY <1>1, Streams DEF UpLines, Lines
<1>6. \A a \in ToSet(down) : a.n \in Nat BY <1>1, Streams DEF DownLines, Lines
<1>7. Read' = Read /\ Coming' = Coming /\ \A R : InOrder(R) => InOrder(R)'
  BY <1>2 DEF Read, Taken, Coming, InOrder
<1>8. ~ givenUp /\ ~ cancelled =>
         /\ caller.op = "sending" /\ message = sent /\ turn = caller.n
         /\ Only({"finished"}) /\ NoFollowup /\ hostComplete /\ hostTurn = caller.n
  <2> SUFFICES ASSUME ~ givenUp, ~ cancelled
               PROVE  /\ caller.op = "sending" /\ message = sent /\ turn = caller.n
                      /\ Only({"finished"}) /\ NoFollowup /\ hostComplete /\ hostTurn = caller.n
    OBVIOUS
  <2>1. message # Nothing BY <1>2
  <2>2. caller.op = "sending" BY <1>1, <1>2, <2>1 DEF CompleteOK
  <2>3. Undelivered BY <1>1, <2>1, <2>2 DEF SendOK, Delivered
  <2>4. ~ complete BY <1>4
  <2> QED BY <1>2, <2>1, <2>2, <2>3, <2>4 DEF Undelivered, Rest
<1>9. SessionTypeOK' /\ StreamsOK'
  <2>1. turn' \in 1 .. MaxFollowups + 1 BY <1>1, <1>2, <1>3, <1>4 DEF SessionTypeOK
  <2>2. message' \in 0 .. MaxFollowups BY <1>2, <1>3, <1>4 DEF Nothing
  <2>3. complete' \in BOOLEAN BY <1>1, <1>2, Values
  <2>8. SessionTypeOK' BY <1>1, <1>2, <2>1, <2>2, <2>3 DEF SessionTypeOK
  <2>9. StreamsOK' BY <1>1, <1>2, <2>1, <2>2, <2>3 DEF StreamsOK
  <2> QED BY <2>8, <2>9
<1>10. LoopOK' BY <1>1, <1>2, <1>4, Values DEF LoopOK
<1>11. MessagesOK'
  <2>1. \A a \in ToSet(down) : a.kind = "followup" => message' < a.n /\ turn' <= a.n
    BY <1>1, <1>2, <1>3, <1>4, <1>6 DEF MessagesOK, Nothing
  <2> QED BY <1>1, <1>2, <1>3, <1>4, <2>1 DEF MessagesOK, Nothing
<1>12. OrderOK'
  <2>1. \A a \in Read \cup Coming :
          /\ a.kind \in Terminal => a.n <= turn' /\ (Running' => a.n < turn')
          /\ a.kind = "turn_complete" => a.n <= turn'
    BY <1>1, <1>2, <1>3, <1>5 DEF OrderOK, Running
  <2>2. /\ reported <= turn' /\ (Running' => reported < turn')
        /\ hostTurn <= turn' /\ said <= turn'
    BY <1>1, <1>2, <1>3 DEF OrderOK, Running
  <2> QED BY <1>1, <1>2, <1>7, <2>1, <2>2 DEF OrderOK
<1>13. TaskOK' BY <1>1, <1>2 DEF TaskOK
<1>14. PresentOK'
  <2> SUFFICES ASSUME ~ givenUp PROVE PresentOK' BY <1>2 DEF PresentOK
  <2>1. ASSUME NEW a \in Read \cup Coming, a.kind \in Terminal PROVE a.n = turn'
    <3>1. cancelled => a.n = turn' BY <1>1, <1>2, <2>1 DEF PresentOK
    <3>2. CASE ~ cancelled
      <4>1. Taken = {} /\ a \in ToSet(buffer) \cup Coming
        BY <1>8, <2>1, <3>2 DEF Taken, Terminal, Read
      <4> QED BY <1>8, <2>1, <3>2, <4>1 DEF Only, Terminal
    <3> QED BY <3>1, <3>2
  <2> QED BY <1>1, <1>2, <1>7, <2>1 DEF PresentOK
<1>15. SaidOK' /\ CancelKeepsResult'
  BY <1>1, <1>2, <1>7 DEF SaidOK, Owed, CancelKeepsResult
<1>16. CompleteOK'
  <2> SUFFICES ASSUME ~ givenUp PROVE CompleteOK' BY <1>2 DEF CompleteOK
  <2>1. Only(Events \cup {"turn_complete", "finished"})' /\ ~ refusal'
    BY <1>1, <1>2, <1>7 DEF CompleteOK, Only
  <2>2. CASE cancelled
    <3>1. cancelRequested BY <1>1, <2>2 DEF LoopOK
    <3> QED BY <1>1, <1>2, <2>1, <2>2, <3>1 DEF CompleteOK, NoFollowup
  <2>3. CASE ~ cancelled
    <3>1. \A a \in ToSet(up) : a.kind # "turn_complete" BY <1>8, <2>3 DEF Only, Coming
    <3> QED BY <1>2, <1>8, <2>1, <2>3, <3>1 DEF CompleteOK
  <2> QED BY <2>2, <2>3
<1>17. SendOK'
  <2> SUFFICES ASSUME ~ givenUp, caller.op = "sending" PROVE Delivered' \/ Undelivered'
    BY <1>2 DEF SendOK
  <2>1. ~ cancelled BY <1>1 DEF TaskOK, LoopOK
  <2>2. Only({"finished"})' /\ Only({"failed", "finished"})' /\ NoFollowup'
    BY <1>2, <1>7, <1>8, <2>1 DEF Only, NoFollowup
  <2>3. Undelivered' BY <1>2, <1>4, <1>8, <2>1, <2>2 DEF Undelivered
  <2> QED BY <2>3
<1> QED BY <1>9, <1>10, <1>11, <1>12, <1>13, <1>14, <1>15, <1>16, <1>17 DEF SessionInv

\* A step of the main thread that says nothing, or the end of the helper, preserves the
\* invariant.
LEMMA QuietPreserves ==
    ASSUME SessionInv, main # "gone",
           UNCHANGED <<drive, turn, complete, message, cancelled, asked, out, queried, heard,
                       said, announced, up, hostVars, adapterVars>>,
           question' \in [token: {question.token}, answer: BOOLEAN, cancelled: BOOLEAN],
           main' \in {"get", "flush", "announce", "leaving", "gone"},
           main' = "leaving" => drive = "stopped" \/ cancelRequested,
           down' \in Seq(DownLines), ToSet(down') \subseteq ToSet(down), Sorted(down', Later)
    PROVE  SessionInv'
<1> USE DEF hostVars, adapterVars
<1>1. /\ SessionTypeOK /\ StreamsOK /\ LoopOK /\ MessagesOK /\ OrderOK /\ TaskOK /\ PresentOK
      /\ SaidOK /\ CancelKeepsResult /\ CompleteOK /\ SendOK
  BY DEF SessionInv
<1>2. Read' = Read /\ Coming' = Coming /\ \A R : InOrder(R) => InOrder(R)'
  BY DEF Read, Taken, Coming, InOrder
<1>3. (question').token = question.token OBVIOUS
<1>4. SessionTypeOK' /\ StreamsOK'
  <2>1. question' \in [token: 0 .. MaxQuestions, answer: BOOLEAN, cancelled: BOOLEAN]
    BY <1>1 DEF SessionTypeOK
  <2> QED BY <1>1, <2>1 DEF SessionTypeOK, StreamsOK, DownLines
<1>5. LoopOK' BY <1>1, <1>3 DEF LoopOK
<1>6. MessagesOK' BY <1>1 DEF MessagesOK
<1>7. OrderOK' BY <1>1, <1>2 DEF OrderOK, Running
<1>8. TaskOK' BY <1>1 DEF TaskOK
<1>9. PresentOK' BY <1>1, <1>2 DEF PresentOK
<1>10. SaidOK' /\ CancelKeepsResult' BY <1>1, <1>2 DEF SaidOK, Owed, CancelKeepsResult
<1>11. CompleteOK' BY <1>1, <1>2 DEF CompleteOK, Only, NoFollowup, Rest
<1>12. SendOK'
  <2>1. Delivered => Delivered' BY DEF Delivered, NoFollowup
  <2>2. Undelivered => Undelivered' BY <1>2 DEF Undelivered, NoFollowup, Rest, Only
  <2> QED BY <1>1, <2>1, <2>2 DEF SendOK
<1> QED BY <1>4, <1>5, <1>6, <1>7, <1>8, <1>9, <1>10, <1>11, <1>12 DEF SessionInv

\* What is left of the commands when one is taken.
LEMMA CommandTaken ==
    ASSUME SessionInv, NEW kind, Take(kind)
    PROVE  /\ down' \in Seq(DownLines) /\ ToSet(down') \subseteq ToSet(down)
           /\ Sorted(down', Later) /\ {Head(down)} \X ToSet(down') \subseteq Later
           /\ Head(down) \in ToSet(down) /\ Head(down) \in DownLines /\ Head(down).kind = kind
           /\ main = "get" /\ main' \in {"flush", "leaving"} /\ (main' = "leaving" <=> kind = "close")
<1>1. down # <<>> /\ down' = Tail(down) BY DEF Take
<1>2. down \in Seq(DownLines) /\ Sorted(down, Later) BY Streams DEF SessionInv, MessagesOK
<1>3. /\ down' \in Seq(DownLines) /\ ToSet(down) = {Head(down)} \cup ToSet(down')
      /\ Head(down) \in DownLines
  BY <1>1, <1>2, InHead
<1>4. Sorted(down', Later) /\ {Head(down)} \X ToSet(down') \subseteq Later
  BY <1>1, <1>2, SortedHead
<1>5. /\ Head(down).kind = kind /\ main = "get" /\ main' \in {"flush", "leaving"}
      /\ (main' = "leaving" <=> kind = "close")
  BY DEF Take
<1> QED BY <1>3, <1>4, <1>5

\* TakeClose preserves the invariant.
LEMMA TakeClosePreserves ==
    ASSUME SessionInv, TakeClose PROVE SessionInv'
<1>1. Take("close") /\ UNCHANGED <<question, cancelled, message, complete, up, out>>
  BY DEF TakeClose
<1>2. UNCHANGED <<drive, turn, asked, queried, heard, said, announced, hostVars, adapterVars>>
  BY <1>1 DEF Take, MainStep
<1>3. cancelRequested BY <1>1, CommandTaken DEF SessionInv, LoopOK
<1>4. question' \in [token: {question.token}, answer: BOOLEAN, cancelled: BOOLEAN]
  BY <1>1 DEF SessionInv, SessionTypeOK
<1> QED BY <1>1, <1>2, <1>3, <1>4, CommandTaken, QuietPreserves

\* TakeAnswer preserves the invariant.
LEMMA TakeAnswerPreserves ==
    ASSUME SessionInv, TakeAnswer PROVE SessionInv'
<1>1. /\ Take("answer") /\ UNCHANGED <<cancelled, message, complete, up, out>>
      /\ question' = [question EXCEPT
            !.answer = @ \/ (question.token = Head(down).n /\ ~ question.cancelled)]
  BY DEF TakeAnswer
<1>2. UNCHANGED <<drive, turn, asked, queried, heard, said, announced, hostVars, adapterVars>>
  BY <1>1 DEF Take, MainStep
<1>3. question' \in [token: {question.token}, answer: BOOLEAN, cancelled: BOOLEAN]
  <2>1. question \in [token: 0 .. MaxQuestions, answer: BOOLEAN, cancelled: BOOLEAN]
    BY DEF SessionInv, SessionTypeOK
  <2> QED BY <1>1, <2>1
<1> QED BY <1>1, <1>2, <1>3, CommandTaken, QuietPreserves

\* NoCommand preserves the invariant.
LEMMA NoCommandPreserves ==
    ASSUME SessionInv, NoCommand PROVE SessionInv'
<1>1. /\ main = "get" /\ main' = "flush"
      /\ UNCHANGED <<drive, turn, complete, message, cancelled, question, asked, out, queried,
                     heard, said, announced, up, down, hostVars, adapterVars>>
  BY DEF NoCommand, MainStep, loopVars, pipes
<1>2. down' \in Seq(DownLines) /\ Sorted(down', Later)
  BY <1>1, Streams DEF SessionInv, MessagesOK
<1>3. question' \in [token: {question.token}, answer: BOOLEAN, cancelled: BOOLEAN]
  BY <1>1 DEF SessionInv, SessionTypeOK
<1> QED BY <1>1, <1>2, <1>3, QuietPreserves

\* The end of the helper, by itself or by the daemon, preserves the invariant.
LEMMA GonePreserves ==
    ASSUME SessionInv, Die \/ Kill PROVE SessionInv'
<1>1. /\ main # "gone" /\ main' = "gone"
      /\ UNCHANGED <<drive, turn, complete, message, cancelled, question, asked, out, queried,
                     heard, said, announced, up, down, hostVars, adapterVars>>
  BY DEF Die, Kill, loopVars, pipes
<1>2. down' \in Seq(DownLines) /\ Sorted(down', Later)
  BY <1>1, Streams DEF SessionInv, MessagesOK
<1>3. question' \in [token: {question.token}, answer: BOOLEAN, cancelled: BOOLEAN]
  BY <1>1 DEF SessionInv, SessionTypeOK
<1> QED BY <1>1, <1>2, <1>3, QuietPreserves

\* TakeCancel preserves the invariant.
LEMMA TakeCancelPreserves ==
    ASSUME SessionInv, TakeCancel PROVE SessionInv'
<1> USE DEF hostVars, adapterVars
<1>1. /\ SessionTypeOK /\ StreamsOK /\ LoopOK /\ MessagesOK /\ OrderOK /\ TaskOK /\ PresentOK
      /\ SaidOK /\ CancelKeepsResult /\ CompleteOK /\ SendOK
  BY DEF SessionInv
<1> DEFINE e == Event("activity", turn)
<1>2. /\ Take("cancel")
      /\ question' = [question EXCEPT !.cancelled = @ \/ question.token # Nothing]
      /\ cancelled' = TRUE /\ out' = (IF cancelled THEN out ELSE Append(out, e))
      /\ UNCHANGED <<drive, turn, complete, message, asked, queried, heard, said, announced, up,
                     hostVars, adapterVars>>
  BY DEF TakeCancel, Take, MainStep
<1>3. /\ down' \in Seq(DownLines) /\ ToSet(down') \subseteq ToSet(down) /\ Sorted(down', Later)
      /\ main = "get" /\ main' = "flush"
  BY <1>2, CommandTaken
<1>4. cancelRequested BY <1>1, <1>2, CommandTaken DEF LoopOK
<1>5. e \in UpLines /\ e \in Lines(Events) /\ e.kind = "activity"
  <2>1. turn \in Nat BY <1>1, Values
  <2>2. e \in Lines(Events) /\ e.kind = "activity" BY <2>1 DEF Event, Lines, Events
  <2> QED BY <1>1, <2>2, Streams
<1> HIDE DEF e
<1>6. Append(out, e) \in Seq(Lines(Events)) /\ ToSet(Append(out, e)) = ToSet(out) \cup {e}
  BY <1>1, <1>5, Streams, InAppend
<1>7. /\ Read' = Read /\ Taken' = Taken /\ Coming' \subseteq Coming \cup {e}
      /\ out' \in Seq(Lines(Events))
  BY <1>1, <1>2, <1>6, Streams DEF Read, Taken, Coming
<1>8. (question').token = question.token
      /\ question' \in [token: 0 .. MaxQuestions, answer: BOOLEAN, cancelled: BOOLEAN]
  <2>1. question \in [token: 0 .. MaxQuestions, answer: BOOLEAN, cancelled: BOOLEAN]
    BY <1>1 DEF SessionTypeOK
  <2> QED BY <1>2, <2>1
<1>9. SessionTypeOK' /\ StreamsOK'
  BY <1>1, <1>2, <1>3, <1>7, <1>8 DEF SessionTypeOK, StreamsOK, Events, DownLines
<1>10. LoopOK' BY <1>1, <1>2, <1>3, <1>4, <1>8 DEF LoopOK
<1>11. MessagesOK' BY <1>1, <1>2, <1>3 DEF MessagesOK
<1>12. OrderOK'
  <2>1. (Read \cup Coming) \X {e} \subseteq Rising
    <3>1. ASSUME NEW a \in Read \cup Coming PROVE <<a, e>> \in Rising
      BY <1>1, <1>5, Streams, Pairs
    <3> QED BY <3>1
  <2>2. InOrder(Rising)'
    <3>1. Chain(Taken, buffer, up, out, Rising) BY <1>1 DEF OrderOK, InOrder
    <3>2. (Taken \cup ToSet(buffer) \cup ToSet(up) \cup ToSet(out)) \X {e} \subseteq Rising
      BY <2>1 DEF Read, Coming
    <3>3. Chain(Taken, buffer, up, Append(out, e), Rising)
      BY <1>1, <1>5, <3>1, <3>2, Streams, ChainSaid
    <3> QED BY <1>2, <1>7, <3>1, <3>3 DEF InOrder
  <2>3. Read' \cup Coming' \subseteq Read \cup Coming \cup {e} BY <1>7
  <2> QED BY <1>1, <1>2, <1>5, <2>2, <2>3 DEF OrderOK, Running, Terminal
<1>13. TaskOK' BY <1>1, <1>2, <1>3 DEF TaskOK
<1>14. PresentOK' BY <1>1, <1>2, <1>4, <1>5, <1>7 DEF PresentOK, Terminal
<1>15. SaidOK' /\ CancelKeepsResult' BY <1>1, <1>2, <1>7 DEF SaidOK, Owed, CancelKeepsResult
<1>16. CompleteOK'
  <2> SUFFICES ASSUME ~ givenUp PROVE CompleteOK' BY <1>2 DEF CompleteOK
  <2>1. Only(Events \cup {"turn_complete", "finished"})'
    <3>1. e.kind \in Events BY <1>5 DEF Events
    <3> QED BY <1>1, <1>2, <1>7, <3>1 DEF CompleteOK, Only
  <2> QED BY <1>1, <1>2, <1>3, <1>4, <2>1 DEF CompleteOK, NoFollowup
<1>17. SendOK' BY <1>1, <1>2, <1>4 DEF SendOK, TaskOK
<1> QED BY <1>9, <1>10, <1>11, <1>12, <1>13, <1>14, <1>15, <1>16, <1>17 DEF SessionInv

\* TakeFollowup preserves the invariant: while no follow-up was given up on it is taken, for
\* the turn is at rest.
LEMMA TakeFollowupPreserves ==
    ASSUME SessionInv, TakeFollowup PROVE SessionInv'
<1> USE DEF hostVars, adapterVars
<1>1. /\ SessionTypeOK /\ StreamsOK /\ LoopOK /\ MessagesOK /\ OrderOK /\ TaskOK /\ PresentOK
      /\ SaidOK /\ CancelKeepsResult /\ CompleteOK /\ SendOK
  BY DEF SessionInv
<1> DEFINE m == Head(down)
           e == Event("error", m.n)
<1>2. /\ Take("followup")
      /\ IF TakesFollowup
         THEN message' = m.n /\ complete' = FALSE /\ up' = up
         ELSE up' = Append(up, e) /\ message' = message /\ complete' = complete
      /\ UNCHANGED <<drive, turn, question, cancelled, asked, out, queried, heard, said,
                     announced, hostVars, adapterVars>>
  BY DEF TakeFollowup, Take, MainStep
<1>3. /\ down' \in Seq(DownLines) /\ ToSet(down') \subseteq ToSet(down) /\ Sorted(down', Later)
      /\ m \in ToSet(down) /\ m \in DownLines /\ m.kind = "followup" /\ m.n \in Nat
      /\ main = "get" /\ main' = "flush" /\ {m} \X ToSet(down') \subseteq Later
  <2>1. main' \in {"flush", "leaving"} /\ (main' = "leaving" <=> "followup" = "close")
    BY <1>2, CommandTaken
  <2>2. main' = "flush" BY <2>1
  <2>3. m \in DownLines => m.n \in Nat BY DEF DownLines, Lines
  <2> QED BY <1>2, <2>2, <2>3, CommandTaken
<1>4. /\ sent \in Nat /\ turn \in Nat /\ message \in Nat /\ sent <= MaxFollowups
      /\ MaxFollowups \in Nat /\ asked \in Nat
  BY <1>1, Values DEF StreamsOK
<1>5. message < m.n /\ turn <= m.n /\ m.n <= sent BY <1>1, <1>3 DEF MessagesOK
<1>6. TakesFollowup => drive = "parked" /\ message = Nothing /\ ~ cancelled
  BY <1>1 DEF TakesFollowup, LoopOK
<1>7. e \in UpLines /\ e.kind = "error" BY <1>3 DEF Event, UpLines, Lines
<1> HIDE DEF e, m
<1>8. ~ givenUp =>
        /\ caller.op = "sending" /\ ~ cancelRequested /\ Rest /\ turn = caller.n /\ m.n = sent
        /\ hostComplete /\ hostTurn = caller.n /\ Only({"finished"}) /\ TakesFollowup
        /\ \A a \in ToSet(down) : a.kind = "followup" => a.n = sent
  <2> SUFFICES ASSUME ~ givenUp
               PROVE  /\ caller.op = "sending" /\ ~ cancelRequested /\ Rest /\ turn = caller.n
                      /\ hostComplete /\ hostTurn = caller.n /\ Only({"finished"})
                      /\ TakesFollowup
                      /\ \A a \in ToSet(down) : a.kind = "followup" => a.n = sent
    BY <1>3
  <2>1. ~ NoFollowup BY <1>3 DEF NoFollowup
  <2>2. caller.op = "sending" BY <1>1, <1>3, <2>1 DEF CompleteOK
  <2>3. Undelivered BY <1>1, <2>1, <2>2 DEF SendOK, Delivered
  <2>4. /\ Rest /\ turn = caller.n /\ hostComplete /\ hostTurn = caller.n /\ Only({"finished"})
        /\ \A a \in ToSet(down) : a.kind = "followup" => a.n = sent
    BY <2>1, <2>3 DEF Undelivered
  <2>5. ~ cancelRequested /\ ~ cancelled BY <1>1, <2>2 DEF TaskOK, LoopOK
  <2>6. TakesFollowup BY <1>1, <2>4, <2>5 DEF TakesFollowup, Rest, LoopOK
  <2> QED BY <2>2, <2>4, <2>5, <2>6
<1>9. /\ Read' = Read /\ Taken' = Taken
      /\ up' \in Seq(UpLines) /\ ToSet(up') \subseteq ToSet(up) \cup {e}
      /\ Coming' \subseteq Coming \cup {e}
      /\ ToSet(up) \subseteq ToSet(up')
      /\ TakesFollowup => up' = up /\ Coming' = Coming
  <2>1. Append(up, e) \in Seq(UpLines) /\ ToSet(Append(up, e)) = ToSet(up) \cup {e}
    BY <1>1, <1>7, Streams, InAppend
  <2>2. up' \in {up, Append(up, e)} BY <1>2
  <2>3. /\ up' \in Seq(UpLines) /\ ToSet(up') \subseteq ToSet(up) \cup {e}
        /\ ToSet(up) \subseteq ToSet(up')
    BY <1>1, <2>1, <2>2, Streams
  <2>4. Coming' \subseteq Coming \cup {e} BY <1>2, <2>3 DEF Coming
  <2> QED BY <1>2, <2>3, <2>4 DEF Read, Taken, Coming
<1>10. SessionTypeOK' /\ StreamsOK'
  <2>1. message' \in 0 .. MaxFollowups BY <1>1, <1>2, <1>3, <1>4, <1>5 DEF SessionTypeOK
  <2>2. complete' \in BOOLEAN BY <1>1, <1>2, Values
  <2>8. SessionTypeOK' BY <1>1, <1>2, <1>3, <1>9, <2>1, <2>2 DEF SessionTypeOK, DownLines
  <2>9. StreamsOK' BY <1>1, <1>2, <1>3, <1>9, <2>1, <2>2 DEF StreamsOK
  <2> QED BY <2>8, <2>9
<1>11. LoopOK'
  <2>1. \A a \in ToSet(up') : a.kind = "finished" => a \in ToSet(up) BY <1>7, <1>9
  <2>2. main' = "leaving" => drive' = "stopped" \/ cancelRequested' BY <1>3
  <2>3. /\ complete' => message' = Nothing /\ (drive' = "parked" \/ cancelled')
        /\ drive' = "querying" => message' # Nothing
        /\ message' # Nothing => drive' \in {"parked", "querying"}
    BY <1>1, <1>2, <1>6 DEF LoopOK
  <2>4. cancelled' \/ (\E a \in ToSet(down') : a.kind \in {"cancel", "close"}) => cancelRequested'
    BY <1>1, <1>2, <1>3 DEF LoopOK
  <2>5. (\E a \in ToSet(up') : a.kind = "finished") \/ stopped' => main' = "gone"
    BY <1>1, <1>2, <1>3, <2>1 DEF LoopOK
  <2> QED BY <1>1, <1>2, <2>2, <2>3, <2>4, <2>5 DEF LoopOK
<1>12. MessagesOK'
  <2>1. ASSUME NEW a \in ToSet(down'), a.kind = "followup" PROVE m.n < a.n
    <3>1. <<m, a>> \in Later BY <1>3, <2>1
    <3> QED BY <1>3, <2>1, <3>1 DEF Later
  <2>2. CASE TakesFollowup
    BY <1>1, <1>2, <1>3, <1>4, <1>5, <1>6, <2>1, <2>2 DEF MessagesOK
  <2>3. CASE ~ TakesFollowup BY <1>1, <1>2, <1>3, <2>3 DEF MessagesOK
  <2> QED BY <2>2, <2>3
<1>13. OrderOK'
  <2>1. InOrder(Rising)'
    <3>1. Chain(Taken, buffer, up, out, Rising) BY <1>1 DEF OrderOK, InOrder
    <3>2. ASSUME NEW a \in UpLines PROVE <<a, e>> \in Rising /\ <<e, a>> \in Rising
      BY <1>7, Pairs DEF Terminal
    <3>3. /\ (Taken \cup ToSet(buffer) \cup ToSet(up)) \X {e} \subseteq Rising
          /\ {e} \X ToSet(out) \subseteq Rising
      <4>1. Taken \cup ToSet(buffer) \cup ToSet(up) \subseteq UpLines /\ ToSet(out) \subseteq UpLines
        BY <1>1, Streams
      <4>2. \A a \in Taken \cup ToSet(buffer) \cup ToSet(up) : <<a, e>> \in Rising
        BY <3>2, <4>1
      <4>3. \A a \in ToSet(out) : <<e, a>> \in Rising BY <3>2, <4>1
      <4> QED BY <4>2, <4>3
    <3>4. Chain(Taken, buffer, Append(up, e), out, Rising)
      BY <1>1, <1>7, <3>1, <3>3, Streams, ChainSent
    <3> QED BY <1>2, <1>9, <3>1, <3>4 DEF InOrder
  <2>2. Read' \cup Coming' \subseteq Read \cup Coming \cup {e} BY <1>9
  <2> QED BY <1>1, <1>2, <1>7, <2>1, <2>2 DEF OrderOK, Running, Terminal
<1>14. TaskOK' BY <1>1, <1>2, <1>3 DEF TaskOK
<1>15. PresentOK'
  <2> SUFFICES ASSUME ~ givenUp PROVE PresentOK' BY <1>2 DEF PresentOK
  <2>1. InOrder(Ending) => InOrder(Ending)' BY <1>2, <1>8, <1>9 DEF InOrder
  <2> QED BY <1>1, <1>2, <1>8, <1>9, <2>1 DEF PresentOK
<1>16. SaidOK' /\ CancelKeepsResult' BY <1>1, <1>2, <1>9 DEF SaidOK, Owed, CancelKeepsResult
<1>17. CompleteOK'
  <2> SUFFICES ASSUME ~ givenUp PROVE CompleteOK' BY <1>2 DEF CompleteOK
  <2>1. Only({"finished"})' BY <1>2, <1>8, <1>9 DEF Only
  <2>2. Only(Events \cup {"turn_complete", "finished"})' BY <2>1 DEF Only
  <2>3. \A a \in ToSet(up') : a.kind # "turn_complete" BY <2>1 DEF Only, Coming
  <2> QED BY <1>1, <1>2, <1>8, <2>2, <2>3 DEF CompleteOK
<1>18. SendOK'
  <2> SUFFICES ASSUME ~ givenUp PROVE Undelivered' BY <1>2 DEF SendOK
  <2>1. Only({"finished"})' /\ Only({"failed", "finished"})' BY <1>2, <1>8, <1>9 DEF Only
  <2>2. NoFollowup'
    <3>1. ASSUME NEW a \in ToSet(down'), a.kind = "followup" PROVE FALSE
      <4>1. a.n = sent /\ m.n = sent BY <1>3, <1>8, <3>1
      <4>2. <<m, a>> \in Later BY <1>3, <3>1
      <4>3. m.n < a.n BY <1>3, <3>1, <4>2 DEF Later
      <4> QED BY <1>4, <4>1, <4>3
    <3> QED BY <3>1 DEF NoFollowup
  <2> QED BY <1>2, <1>6, <1>8, <2>1, <2>2 DEF Undelivered
<1> QED BY <1>10, <1>11, <1>12, <1>13, <1>14, <1>15, <1>16, <1>17, <1>18 DEF SessionInv

\* A flush, the last one too, preserves the invariant.
LEMMA FlushedPreserves ==
    ASSUME SessionInv, main \in {"flush", "leaving"}, main' \in {"announce", "gone"},
           NEW e \in UpLines, e.kind = "finished",
           up' = up \o out \/ (main' = "gone" /\ up' = Append(up \o out, e)),
           said' = LastResult(out), out' = <<>>,
           UNCHANGED <<drive, turn, complete, message, cancelled, question, asked, queried, heard,
                       announced, down, hostVars, adapterVars>>
    PROVE  SessionInv'
<1> USE DEF hostVars, adapterVars
<1>1. /\ SessionTypeOK /\ StreamsOK /\ LoopOK /\ MessagesOK /\ OrderOK /\ TaskOK /\ PresentOK
      /\ SaidOK /\ CancelKeepsResult /\ CompleteOK /\ SendOK
  BY DEF SessionInv
<1> DEFINE u == up \o out
<1>2. u \in Seq(UpLines) /\ ToSet(u) = ToSet(up) \cup ToSet(out) BY <1>1, Streams, InBoth
<1>3. up' = u \/ (main' = "gone" /\ up' = Append(u, e)) OBVIOUS
<1>4. ASSUME NEW R, InOrder(R), UpLines \X {e} \subseteq R PROVE InOrder(R)'
  <2>1. Chain(Taken, buffer, up, out, R) BY <1>4 DEF InOrder
  <2>2. Chain(Taken, buffer, u, <<>>, R) BY <1>1, <2>1, Streams, ChainFlushed
  <2>3. (Taken \cup ToSet(buffer) \cup ToSet(u)) \X {e} \subseteq R
    BY <1>1, <1>2, <1>4, Streams
  <2>4. Chain(Taken, buffer, Append(u, e), <<>>, R)
    <3>1. <<>> \in Seq(UpLines) /\ {e} \X ToSet(<<>>) \subseteq R BY InNothing
    <3> HIDE DEF u
    <3> QED BY <1>1, <1>2, <2>2, <2>3, <3>1, Streams, ChainSent
  <2>5. Taken' = Taken BY DEF Taken
  <2> QED BY <1>3, <2>2, <2>4, <2>5 DEF InOrder
<1> HIDE DEF u
<1>5. /\ Read' = Read /\ Taken' = Taken /\ up' \in Seq(UpLines)
      /\ ToSet(up') \in {Coming, Coming \cup {e}} /\ Coming' = ToSet(up')
      /\ main' # "gone" => ToSet(up') = Coming
  <2>1. Append(u, e) \in Seq(UpLines) /\ ToSet(Append(u, e)) = ToSet(u) \cup {e}
    BY <1>2, InAppend
  <2>2. ToSet(u) = Coming BY <1>2 DEF Coming
  <2>3. ToSet(out') = {} BY InNothing
  <2>4. Coming' = ToSet(up') BY <2>3 DEF Coming
  <2>5. up' \in Seq(UpLines) /\ ToSet(up') \in {Coming, Coming \cup {e}}
    BY <1>2, <1>3, <2>1, <2>2
  <2> QED BY <1>3, <2>2, <2>4, <2>5 DEF Read, Taken
<1>6. said' = said \/ \E a \in ToSet(out) : a.kind = "succeeded" /\ said' = a.n
  BY <1>1, Streams, ResultFound
<1>7. said' \in Nat
  <2>1. \A a \in ToSet(out) : a.n \in Nat BY <1>1, Streams DEF Lines
  <2> QED BY <1>1, <1>6, <2>1, Values
<1>8. SessionTypeOK' /\ StreamsOK'
  <2>1. <<>> \in Seq(Lines(Terminal \cup {"activity", "question"})) OBVIOUS
  <2>2. SessionTypeOK' BY <1>1, <2>1 DEF SessionTypeOK
  <2>3. StreamsOK' BY <1>1, <1>5, <1>7 DEF StreamsOK
  <2> QED BY <2>2, <2>3
<1>9. LoopOK'
  <2>1. \A a \in ToSet(out) : a.kind # "finished" BY <1>1, Streams DEF Lines, Events, Terminal
  <2>2. (\E a \in ToSet(up') : a.kind = "finished") \/ stopped' => main' = "gone"
    BY <1>1, <1>5, <2>1 DEF LoopOK, Coming
  <2> QED BY <1>1, <2>2 DEF LoopOK
<1>10. MessagesOK' BY <1>1 DEF MessagesOK
<1>11. OrderOK'
  <2>1. ASSUME NEW a \in UpLines PROVE <<a, e>> \in Rising BY Pairs
  <2>2. InOrder(Rising)' BY <1>1, <1>4, <2>1 DEF OrderOK
  <2>3. Read' \cup Coming' \subseteq Read \cup Coming \cup {e} BY <1>5
  <2>4. said' <= turn
    <3>1. \A a \in ToSet(out) : a.kind = "succeeded" => a.n <= turn
      BY <1>1 DEF OrderOK, Coming, Terminal
    <3> QED BY <1>1, <1>6, <3>1 DEF OrderOK
  <2> QED BY <1>1, <2>2, <2>3, <2>4 DEF OrderOK, Running, Terminal
<1>12. TaskOK' BY <1>1 DEF TaskOK
<1>13. PresentOK'
  <2>1. ASSUME NEW a \in UpLines PROVE <<a, e>> \in Ending BY Pairs DEF Events, Terminal
  <2>2. InOrder(Ending) => InOrder(Ending)' BY <1>4, <2>1
  <2>3. Read' \cup Coming' \subseteq Read \cup Coming \cup {e} BY <1>5
  <2> QED BY <1>1, <2>2, <2>3 DEF PresentOK, Terminal
<1>14. SaidOK'
  <2> SUFFICES ASSUME ~ givenUp, task \notin {"completed", "failed"}, reported < said',
                      unrecorded < said'
               PROVE  Event("succeeded", said') \in Read \cup ToSet(up')
    BY <1>5 DEF SaidOK, Owed
  <2>1. CASE said' = said BY <1>1, <1>5, <2>1 DEF SaidOK, Owed, Coming
  <2>2. CASE said' # said
    <3>1. PICK a \in ToSet(out) : a.kind = "succeeded" /\ said' = a.n BY <1>6, <2>2
    <3>2. a = Event("succeeded", said') BY <1>1, <3>1, Streams DEF Lines, Event
    <3> QED BY <1>5, <3>2 DEF Coming
  <2> QED BY <2>1, <2>2
<1>15. CancelKeepsResult'
  <2>1. task # "cancelled" BY <1>1 DEF TaskOK, Final
  <2> QED BY <2>1 DEF CancelKeepsResult
<1>16. CompleteOK'
  <2> SUFFICES ASSUME ~ givenUp PROVE CompleteOK' BY DEF CompleteOK
  <2>1. Coming' \subseteq Coming \cup {e} BY <1>5
  <2>2. \A a \in ToSet(up') : a.kind = "turn_complete" => a \in ToSet(up)
    <3>1. \A a \in ToSet(out) : a.kind # "turn_complete"
      BY <1>1, Streams DEF Lines, Events, Terminal
    <3> QED BY <1>5, <3>1 DEF Coming
  <2>3. \A kinds : "finished" \in kinds /\ Only(kinds) => Only(kinds)' BY <2>1 DEF Only
  <2> QED BY <1>1, <2>2, <2>3 DEF CompleteOK, NoFollowup, Rest
<1>17. SendOK'
  <2>1. Coming' \subseteq Coming \cup {e} BY <1>5
  <2>2. Only({"finished"}) => Only({"finished"})' BY <2>1 DEF Only
  <2>3. Only({"failed", "finished"}) => Only({"failed", "finished"})' BY <2>1 DEF Only
  <2>4. Undelivered => Undelivered' BY <2>2, <2>3 DEF Undelivered, Rest, NoFollowup
  <2>5. Delivered => Delivered' BY DEF Delivered, NoFollowup
  <2> QED BY <1>1, <2>4, <2>5 DEF SendOK
<1> QED BY <1>8, <1>9, <1>10, <1>11, <1>12, <1>13, <1>14, <1>15, <1>16, <1>17 DEF SessionInv

\* Flush preserves the invariant.
LEMMA FlushPreserves ==
    ASSUME SessionInv, Flush PROVE SessionInv'
<1> DEFINE e == Event("finished", Nothing)
<1>1. e \in UpLines /\ e.kind = "finished" BY DEF Event, UpLines, Lines, Nothing
<1>2. /\ main = "flush" /\ main' = "announce" /\ up' = up \o out /\ said' = LastResult(out)
      /\ out' = <<>>
      /\ UNCHANGED <<drive, turn, complete, message, cancelled, question, asked, queried, heard,
                     announced, down, hostVars, adapterVars>>
  BY DEF Flush, MainStep
<1> HIDE DEF e
<1> QED BY <1>1, <1>2, FlushedPreserves

\* Leave preserves the invariant.
LEMMA LeavePreserves ==
    ASSUME SessionInv, Leave PROVE SessionInv'
<1> DEFINE e == Event("finished", Nothing)
<1>1. e \in UpLines /\ e.kind = "finished" BY DEF Event, UpLines, Lines, Nothing
<1>2. /\ main = "leaving" /\ main' = "gone" /\ up' = up \o out \o <<e>> /\ said' = LastResult(out)
      /\ out' = <<>>
      /\ UNCHANGED <<drive, turn, complete, message, cancelled, question, asked, queried, heard,
                     announced, down, hostVars, adapterVars>>
  BY DEF Leave, MainStep
<1> HIDE DEF e
<1>3. up \o out \in Seq(UpLines) BY Streams, InBoth DEF SessionInv
<1>4. up' = Append(up \o out, e) BY <1>1, <1>2, <1>3, AppendIsConcat
<1> QED BY <1>1, <1>2, <1>4, FlushedPreserves

\* Announce preserves the invariant: a turn at rest is announced once.
LEMMA AnnouncePreserves ==
    ASSUME SessionInv, Announce PROVE SessionInv'
<1> USE DEF hostVars, adapterVars
<1>1. /\ SessionTypeOK /\ StreamsOK /\ LoopOK /\ MessagesOK /\ OrderOK /\ TaskOK /\ PresentOK
      /\ SaidOK /\ CancelKeepsResult /\ CompleteOK /\ SendOK
  BY DEF SessionInv
<1> DEFINE e == Event("turn_complete", turn)
           ended == complete /\ drive # "stopped"
<1>2. /\ main = "announce" /\ main' = (IF drive = "stopped" THEN "leaving" ELSE "get")
      /\ up' = (IF ended /\ ~ announced THEN Append(up, e) ELSE up)
      /\ announced' = ended
      /\ UNCHANGED <<drive, turn, complete, message, cancelled, question, asked, out, queried,
                     heard, said, down, hostVars, adapterVars>>
  BY DEF Announce, MainStep, loopVars
<1>3. turn \in Nat /\ complete \in BOOLEAN /\ announced \in BOOLEAN BY <1>1, Values
<1>4. e \in UpLines /\ e.kind = "turn_complete" /\ e.n = turn
  BY <1>3 DEF Event, UpLines, Lines
<1>5. ended => drive = "parked" \/ cancelled BY <1>1 DEF LoopOK
<1>6. Rest => ended /\ announced /\ up' = up BY <1>2 DEF Rest
<1> HIDE DEF e
<1>7. /\ Read' = Read /\ Taken' = Taken /\ up' \in Seq(UpLines)
      /\ ToSet(up) \subseteq ToSet(up')
      /\ ToSet(up') \subseteq ToSet(up) \cup {e} /\ Coming' \subseteq Coming \cup {e}
      /\ up' = up => Coming' = Coming
  <2>1. Append(up, e) \in Seq(UpLines) /\ ToSet(Append(up, e)) = ToSet(up) \cup {e}
    BY <1>1, <1>4, Streams, InAppend
  <2>2. up' \in {up, Append(up, e)} BY <1>2
  <2>3. /\ up' \in Seq(UpLines) /\ ToSet(up') \subseteq ToSet(up) \cup {e}
        /\ ToSet(up) \subseteq ToSet(up')
    BY <1>1, <2>1, <2>2, Streams
  <2>4. Coming' \subseteq Coming \cup {e} BY <1>2, <2>3 DEF Coming
  <2> QED BY <1>2, <2>3, <2>4 DEF Read, Taken, Coming
<1>8. ASSUME NEW R, InOrder(R),
             up' # up => /\ \A a \in Taken \cup ToSet(buffer) \cup ToSet(up) : <<a, e>> \in R
                         /\ \A a \in ToSet(out) : <<e, a>> \in R
      PROVE  InOrder(R)'
  <2>1. Chain(Taken, buffer, up, out, R) BY <1>8 DEF InOrder
  <2>2. CASE up' = up BY <1>2, <1>7, <2>1, <2>2 DEF InOrder
  <2>3. CASE up' # up
    <3>1. /\ (Taken \cup ToSet(buffer) \cup ToSet(up)) \X {e} \subseteq R
          /\ {e} \X ToSet(out) \subseteq R
      BY <1>8, <2>3
    <3>2. Chain(Taken, buffer, Append(up, e), out, R)
      BY <1>1, <1>4, <2>1, <3>1, Streams, ChainSent
    <3>3. up' = Append(up, e) BY <1>2, <2>3
    <3> QED BY <1>2, <1>7, <3>2, <3>3 DEF InOrder
  <2> QED BY <2>2, <2>3
<1> HIDE DEF ended
<1>9. /\ Taken \cup ToSet(buffer) \cup ToSet(up) \subseteq UpLines /\ ToSet(out) \subseteq UpLines
      /\ \A a \in Taken \cup ToSet(buffer) \cup ToSet(out) : a.kind \in Events
  <2>1. \A a \in Lines(Events) : a.kind \in Events BY DEF Lines
  <2> QED BY <1>1, <2>1, Streams
<1>10. "turn_complete" \notin Events BY DEF Events, Terminal
<1>11. SessionTypeOK' /\ StreamsOK'
  <2>1. announced' \in BOOLEAN BY <1>2, <1>3 DEF ended
  <2>8. SessionTypeOK' BY <1>1, <1>2, <1>7, <2>1 DEF SessionTypeOK
  <2>9. StreamsOK' BY <1>1, <1>2, <1>7, <2>1 DEF StreamsOK
  <2> QED BY <2>8, <2>9
<1>12. LoopOK'
  <2>1. (\E a \in ToSet(up') : a.kind = "finished") \/ stopped' => main' = "gone"
    BY <1>1, <1>2, <1>4, <1>7 DEF LoopOK
  <2> QED BY <1>1, <1>2, <2>1 DEF LoopOK
<1>13. MessagesOK' BY <1>1, <1>2 DEF MessagesOK
<1>14. OrderOK'
  <2>1. InOrder(Rising)'
    <3>1. ASSUME NEW a \in UpLines PROVE <<a, e>> \in Rising /\ <<e, a>> \in Rising
      BY <1>4, Pairs DEF Terminal
    <3> QED BY <1>1, <1>8, <1>9, <3>1 DEF OrderOK
  <2>2. Read' \cup Coming' \subseteq Read \cup Coming \cup {e} BY <1>7
  <2> QED BY <1>1, <1>2, <1>3, <1>4, <2>1, <2>2 DEF OrderOK, Running, Terminal
<1>15. TaskOK' BY <1>1, <1>2 DEF TaskOK
<1>16. PresentOK'
  <2> SUFFICES ASSUME ~ givenUp PROVE PresentOK' BY <1>2 DEF PresentOK
  <2>1. ASSUME ~ cancelRequested PROVE InOrder(Ending)'
    <3>1. ASSUME NEW a \in Taken \cup ToSet(buffer) \cup ToSet(up), up' # up
          PROVE <<a, e>> \in Ending
      <4>1. ~ Rest BY <1>6, <3>1
      <4>2. a.kind # "turn_complete" BY <1>1, <1>9, <1>10, <2>1, <4>1 DEF CompleteOK
      <4> QED BY <1>4, <1>9, <1>10, <4>2, Pairs
    <3>2. ASSUME NEW a \in ToSet(out) PROVE <<e, a>> \in Ending
      BY <1>4, <1>9, <1>10, Pairs DEF Terminal
    <3> QED BY <1>1, <1>8, <2>1, <3>1, <3>2 DEF PresentOK
  <2>2. Read' \cup Coming' \subseteq Read \cup Coming \cup {e} BY <1>7
  <2> QED BY <1>1, <1>2, <1>4, <2>1, <2>2 DEF PresentOK, Terminal
<1>17. SaidOK' /\ CancelKeepsResult' BY <1>1, <1>2, <1>7 DEF SaidOK, Owed, CancelKeepsResult
<1>18. CompleteOK'
  <2> SUFFICES ASSUME ~ givenUp PROVE CompleteOK' BY <1>2 DEF CompleteOK
  <2>1. Only(Events \cup {"turn_complete", "finished"})'
    BY <1>1, <1>2, <1>4, <1>7 DEF CompleteOK, Only
  <2>2. Rest => Rest' BY <1>2, <1>6 DEF Rest
  <2>3. ~ cancelRequested /\ up' # up => Rest'
    <3>1. ~ cancelRequested => ~ cancelled BY <1>1 DEF LoopOK
    <3> QED BY <1>2, <1>5, <3>1 DEF Rest, ended
  <2>4. ~ cancelRequested =>
          \A a \in ToSet(up') : a.kind = "turn_complete" => a.n = turn' /\ Rest'
    BY <1>1, <1>2, <1>4, <1>7, <2>2, <2>3 DEF CompleteOK
  <2>5. ~ cancelRequested => (hostComplete /\ ~ stopped /\ ~ (caller.op = "sending" /\ hostTurn = caller.n)
           => Rest' /\ hostTurn = turn' /\ \A a \in ToSet(up') : a.kind # "turn_complete")
    BY <1>1, <1>2, <1>6, <2>2 DEF CompleteOK
  <2>6. task = "ready_for_followup" /\ caller.op # "sending" /\ ~ cancelRequested /\ ~ stopped
           => Only({"finished"})' /\ hostComplete
    BY <1>1, <1>2, <1>6, <1>7 DEF CompleteOK, Only
  <2>7. /\ ~ refusal
        /\ caller.op # "sending" /\ main' # "gone" => message = Nothing /\ NoFollowup
    BY <1>1, <1>2 DEF CompleteOK
  <2> QED BY <1>2, <2>1, <2>4, <2>5, <2>6, <2>7 DEF CompleteOK, NoFollowup
<1>19. SendOK'
  <2>1. Delivered => Delivered' BY <1>2 DEF Delivered, NoFollowup
  <2>2. Undelivered => Rest \/ ~ complete BY DEF Undelivered
  <2>3. Undelivered => up' = up /\ Coming' = Coming BY <1>2, <1>6, <1>7, <2>2 DEF ended
  <2>4. Rest => Rest' BY <1>2, <1>6 DEF Rest
  <2>5. Undelivered => Undelivered' BY <1>2, <2>3, <2>4 DEF Undelivered, NoFollowup, Only
  <2> QED BY <1>1, <1>2, <2>1, <2>5 DEF SendOK
<1> QED BY <1>11, <1>12, <1>13, <1>14, <1>15, <1>16, <1>17, <1>18, <1>19 DEF SessionInv

\* Absorb preserves the invariant.
LEMMA AbsorbPreserves ==
    ASSUME SessionInv, Absorb PROVE SessionInv'
<1> USE DEF mainVars, adapterVars
<1>1. /\ SessionTypeOK /\ StreamsOK /\ LoopOK /\ MessagesOK /\ OrderOK /\ TaskOK /\ PresentOK
      /\ SaidOK /\ CancelKeepsResult /\ CompleteOK /\ SendOK
  BY DEF SessionInv
<1> DEFINE line == Head(up)
           event == line.kind \in Events
           ended == line.kind = "turn_complete"
<1>2. /\ up # <<>> /\ up' = Tail(up)
      /\ buffer' = (IF event THEN Append(buffer, line) ELSE buffer)
      /\ hostTurn' = (IF ended /\ line.n > hostTurn THEN line.n ELSE hostTurn)
      /\ hostComplete' = (CASE ended -> TRUE
                            [] event /\ line.kind \notin Terminal -> FALSE
                            [] OTHER -> hostComplete)
      /\ inFlight' = (inFlight /\ ~ ended)
      /\ refusal' = (refusal \/ (line.kind = "error" /\ inFlight))
      /\ token' = (IF line.kind = "question" THEN line.n ELSE token)
      /\ stopped' = (stopped \/ line.kind = "finished")
      /\ UNCHANGED <<drive, turn, complete, message, cancelled, question, asked, out, queried,
                     heard, said, mainVars, down, adapterVars, cancelRequested>>
  BY DEF Absorb, ReaderStep, loopVars, Events
<1>3. /\ line \in UpLines /\ up' \in Seq(UpLines) /\ ToSet(up) = {line} \cup ToSet(up')
      /\ line.n \in Nat
  <2>1. \A a \in UpLines : a.n \in Nat BY DEF UpLines, Lines
  <2>2. /\ Tail(up) \in Seq(UpLines) /\ Head(up) \in UpLines
        /\ ToSet(up) = {Head(up)} \cup ToSet(Tail(up))
    BY <1>1, <1>2, Streams, InHead
  <2> QED BY <1>2, <2>1, <2>2
<1>4. ASSUME NEW R, InOrder(R) PROVE InOrder(R)'
  <2>1. Chain(Taken, buffer, up, out, R) BY <1>4 DEF InOrder
  <2>2. /\ Chain(Taken, buffer, Tail(up), out, R)
        /\ Chain(Taken, Append(buffer, line), Tail(up), out, R)
    BY <1>1, <1>2, <2>1, Streams, ChainAbsorbed
  <2>3. Taken' = Taken BY <1>2 DEF Taken
  <2> QED BY <1>2, <2>2, <2>3 DEF InOrder
<1>5. "turn_complete" \notin Events /\ "finished" \notin Events /\ "error" \notin Events
      /\ "question" \in Events /\ "question" \notin Terminal /\ Terminal \subseteq Events
  BY DEF Events, Terminal
<1>6. event => line \in Lines(Events) BY <1>3 DEF UpLines, Lines
<1> HIDE DEF line
<1>7. /\ Taken' = Taken /\ buffer' \in Seq(Lines(Events))
      /\ ToSet(buffer') = ToSet(buffer) \cup (IF event THEN {line} ELSE {})
      /\ Read' \cup Coming' \subseteq Read \cup Coming
      /\ ToSet(buffer') \cup Coming' \subseteq ToSet(buffer) \cup Coming
      /\ line \in Coming
  <2>1. Taken' = Taken BY <1>2 DEF Taken
  <2>2. event => /\ Append(buffer, line) \in Seq(Lines(Events))
                 /\ ToSet(Append(buffer, line)) = ToSet(buffer) \cup {line}
    BY <1>1, <1>6, Streams, InAppend
  <2>3. /\ buffer' \in Seq(Lines(Events))
        /\ ToSet(buffer') = ToSet(buffer) \cup (IF event THEN {line} ELSE {})
    BY <1>1, <1>2, <2>2, Streams
  <2>4. ToSet(buffer') \cup Coming' \subseteq ToSet(buffer) \cup Coming /\ line \in Coming
    BY <1>2, <1>3, <2>3 DEF Coming
  <2> QED BY <2>1, <2>3, <2>4 DEF Read
<1>8. /\ hostTurn' \in Nat /\ hostComplete' \in BOOLEAN /\ inFlight' \in BOOLEAN
      /\ refusal' \in BOOLEAN /\ token' \in Nat /\ stopped' \in BOOLEAN
  BY <1>1, <1>2, <1>3, Values
<1>9. SessionTypeOK' /\ StreamsOK'
  <2>1. {complete, cancelled, announced, hostComplete', inFlight', refusal',
         cancelRequested, stopped', givenUp} \subseteq BOOLEAN
    BY <1>1, <1>8, Values
  <2>2. {out, buffer'} \subseteq Seq(Lines(Terminal \cup {"activity", "question"}))
    BY <1>1, <1>7, Streams DEF Events
  <2>3. SessionTypeOK' BY <1>1, <1>2, <2>1, <2>2 DEF SessionTypeOK
  <2>4. StreamsOK' BY <1>1, <1>2, <1>3, <1>8 DEF StreamsOK
  <2> QED BY <2>3, <2>4
<1>10. LoopOK'
  <2>1. line.kind = "finished" => main = "gone" BY <1>1, <1>3 DEF LoopOK
  <2>2. (\E a \in ToSet(up') : a.kind = "finished") \/ stopped' => main' = "gone"
    BY <1>1, <1>2, <1>3, <2>1 DEF LoopOK
  <2> QED BY <1>1, <1>2, <2>2 DEF LoopOK
<1>11. MessagesOK' BY <1>1, <1>2 DEF MessagesOK
<1>12. OrderOK'
  <2>1. InOrder(Rising)' BY <1>1, <1>4 DEF OrderOK
  <2>2. hostTurn' <= turn BY <1>1, <1>2, <1>7 DEF OrderOK
  <2> QED BY <1>1, <1>2, <1>7, <2>1, <2>2 DEF OrderOK, Running
<1>13. TaskOK'
  <2>1. token \in Nat /\ line.n \in Nat /\ caller.n \in Nat /\ waitingFor \in Nat
        /\ \A a \in ToSet(buffer) : a.n \in Nat
    <3>1. \A a \in Lines(Events) : a.n \in Nat BY DEF Lines
    <3> QED BY <1>1, <1>3, <3>1, Values, Streams
  <2>2. CASE line.kind = "question" /\ ~ cancelRequested
    <3>1. token' = line.n /\ event BY <1>2, <1>5, <2>2
    <3>2. waitingFor < line.n /\ (caller.op = "asking" => caller.n < line.n)
      BY <1>1, <1>7, <2>2 DEF OrderOK
    <3>3. \A a \in ToSet(buffer) : a.kind = "question" => a.n < line.n
      <4>1. ASSUME NEW a \in ToSet(buffer) PROVE <<a, line>> \in Rising
        BY <1>1, <1>3 DEF OrderOK, InOrder, Chain
      <4>2. ToSet(buffer) \subseteq UpLines BY <1>1, Streams
      <4> QED BY <1>3, <2>2, <4>1, <4>2, Pairs
    <3>4. \A a \in ToSet(buffer') : a.kind = "question" => a.n <= token'
      BY <1>7, <2>1, <3>1, <3>3
    <3>5. caller.op = "asking" => 0 < caller.n /\ caller.n <= token'
      BY <1>1, <2>1, <2>2, <3>1, <3>2 DEF TaskOK
    <3>6. task = "waiting_for_user" => 0 < waitingFor /\ waitingFor <= token'
      BY <1>1, <2>1, <2>2, <3>1, <3>2 DEF TaskOK
    <3> QED BY <1>1, <1>2, <2>2, <3>4, <3>5, <3>6 DEF TaskOK
  <2>3. CASE line.kind # "question" \/ cancelRequested
    BY <1>1, <1>2, <1>7, <2>3 DEF TaskOK
  <2> QED BY <2>2, <2>3
<1>14. PresentOK' BY <1>1, <1>2, <1>4, <1>7 DEF PresentOK
<1>15. SaidOK' /\ CancelKeepsResult'
  <2>1. \A a \in ToSet(up) : a.kind \in Events => a \in Read' \cup ToSet(up')
    BY <1>3, <1>7 DEF Read
  <2>2. Event("succeeded", said).kind \in Events BY DEF Event, Events, Terminal
  <2>3. Read \subseteq Read' BY <1>7 DEF Read
  <2> QED BY <1>1, <1>2, <2>1, <2>2, <2>3 DEF SaidOK, Owed, CancelKeepsResult
<1>16. CompleteOK'
  <2> SUFFICES ASSUME ~ givenUp PROVE CompleteOK' BY <1>2 DEF CompleteOK
  <2>1. \A kinds : Only(kinds) => Only(kinds)' BY <1>7 DEF Only
  <2>2. line.kind # "error"
    BY <1>1, <1>5, <1>7 DEF CompleteOK, Only
  <2>3. ~ refusal' BY <1>1, <1>2, <2>2 DEF CompleteOK
  <2>4. ASSUME ~ cancelRequested
        PROVE  /\ \A a \in ToSet(up') : a.kind = "turn_complete" => a.n = turn' /\ Rest'
               /\ hostComplete' /\ ~ stopped' /\ ~ (caller.op = "sending" /\ hostTurn' = caller.n)
                    => Rest' /\ hostTurn' = turn' /\ \A a \in ToSet(up') : a.kind # "turn_complete"
    <3>1. Rest' = Rest BY <1>2 DEF Rest
    <3>2. \A a \in ToSet(up) : a.kind = "turn_complete" => a.n = turn /\ Rest
      BY <1>1, <2>4 DEF CompleteOK
    <3>3. CASE ended
      <4>1. line.n = turn /\ Rest BY <1>3, <3>2, <3>3
      <4>2. hostTurn' = turn
        <5>1. hostTurn <= turn /\ hostTurn \in Nat /\ turn \in Nat
          BY <1>1, Values DEF OrderOK
        <5> QED BY <1>2, <3>3, <4>1, <5>1
      <4>3. \A a \in ToSet(up') : a.kind # "turn_complete"
        <5>1. {line} \X ToSet(up') \subseteq Ending
          <6>1. Sorted(up, Ending) BY <1>1, <2>4 DEF PresentOK, InOrder, Chain
          <6> QED BY <1>1, <1>2, <6>1, Streams, SortedHead DEF line
        <5>2. ToSet(up') \subseteq UpLines BY <1>3, InSeq
        <5>3. ASSUME NEW a \in ToSet(up') PROVE a.kind # "turn_complete"
          <6>1. <<line, a>> \in Ending /\ a \in UpLines BY <5>1, <5>2
          <6> QED BY <1>3, <3>3, <6>1, Pairs
        <5> QED BY <5>3
      <4> QED BY <1>2, <3>1, <4>1, <4>2, <4>3
    <3>4. CASE ~ ended
      <4>1. hostTurn' = hostTurn /\ (hostComplete' => hostComplete) /\ (~ stopped' => ~ stopped)
        BY <1>2, <1>8, <3>4
      <4> QED BY <1>1, <1>2, <1>3, <2>4, <3>1, <3>2, <4>1 DEF CompleteOK
    <3> QED BY <3>3, <3>4
  <2>5. ASSUME task = "ready_for_followup", caller.op # "sending", ~ cancelRequested, ~ stopped'
        PROVE  Only({"finished"})' /\ hostComplete'
    <3>1. Only({"finished"}) /\ hostComplete BY <1>1, <1>2, <2>5 DEF CompleteOK
    <3>2. line.kind = "finished" BY <1>7, <3>1 DEF Only
    <3> QED BY <1>2, <2>5, <3>2
  <2> QED BY <1>1, <1>2, <2>1, <2>3, <2>4, <2>5 DEF CompleteOK, NoFollowup
<1>17. SendOK'
  <2>1. Delivered => Delivered' BY <1>2 DEF Delivered, NoFollowup
  <2>2. ASSUME Undelivered PROVE Undelivered'
    <3>1. \A kinds : Only(kinds) => Only(kinds)' BY <1>7 DEF Only
    <3>2. line.kind \in {"failed", "finished"} BY <1>7, <2>2 DEF Undelivered, Only
    <3>3. ~ ended /\ ~ (event /\ line.kind \notin Terminal) BY <1>5, <3>2 DEF Terminal
    <3>4. hostComplete' = hostComplete /\ hostTurn' = hostTurn BY <1>2, <3>3
    <3> QED BY <1>2, <2>2, <3>1, <3>4 DEF Undelivered, Rest, NoFollowup
  <2> QED BY <1>1, <1>2, <2>1, <2>2 DEF SendOK
<1> QED BY <1>9, <1>10, <1>11, <1>12, <1>13, <1>14, <1>15, <1>16, <1>17 DEF SessionInv

\* EndOfFile preserves the invariant.
LEMMA EndOfFilePreserves ==
    ASSUME SessionInv, EndOfFile PROVE SessionInv'
<1> USE DEF mainVars, adapterVars
<1>1. /\ SessionTypeOK /\ StreamsOK /\ LoopOK /\ MessagesOK /\ OrderOK /\ TaskOK /\ PresentOK
      /\ SaidOK /\ CancelKeepsResult /\ CompleteOK /\ SendOK
  BY DEF SessionInv
<1>2. /\ main = "gone" /\ stopped' = TRUE
      /\ UNCHANGED <<drive, turn, complete, message, cancelled, question, asked, out, queried,
                     heard, said, mainVars, up, down, adapterVars, hostTurn, hostComplete,
                     inFlight, refusal, token, cancelRequested, buffer>>
  BY DEF EndOfFile, ReaderStep, loopVars
<1>3. Read' = Read /\ Coming' = Coming /\ \A R : InOrder(R) => InOrder(R)'
  BY <1>2 DEF Read, Taken, Coming, InOrder
<1>4. SessionTypeOK' /\ StreamsOK' BY <1>1, <1>2 DEF SessionTypeOK, StreamsOK
<1>5. LoopOK' BY <1>1, <1>2 DEF LoopOK
<1>6. MessagesOK' BY <1>1, <1>2 DEF MessagesOK
<1>7. OrderOK' BY <1>1, <1>2, <1>3 DEF OrderOK, Running
<1>8. TaskOK' BY <1>1, <1>2 DEF TaskOK
<1>9. PresentOK' BY <1>1, <1>2, <1>3 DEF PresentOK
<1>10. SaidOK' /\ CancelKeepsResult' BY <1>1, <1>2, <1>3 DEF SaidOK, Owed, CancelKeepsResult
<1>11. CompleteOK' BY <1>1, <1>2, <1>3 DEF CompleteOK, Only, NoFollowup, Rest
<1>12. SendOK'
  <2>1. Delivered => Delivered' BY <1>2 DEF Delivered, NoFollowup
  <2>2. Undelivered => Undelivered' BY <1>2, <1>3 DEF Undelivered, NoFollowup, Rest, Only
  <2> QED BY <1>1, <1>2, <2>1, <2>2 DEF SendOK
<1> QED BY <1>4, <1>5, <1>6, <1>7, <1>8, <1>9, <1>10, <1>11, <1>12 DEF SessionInv
-----------------------------------------------------------------------------
(* What the caller reads.                                                   *)

\* A result that was said and kept is the first end of a turn that was kept.
LEMMA FirstResult ==
    ASSUME SessionInv, ~ givenUp, Event("succeeded", said) \in ToSet(buffer)
    PROVE  /\ FirstTerminal(buffer) # 0
           /\ buffer[FirstTerminal(buffer)] = Event("succeeded", said)
<1> DEFINE s == Event("succeeded", said)
           i == FirstTerminal(buffer)
<1>1. buffer \in Seq(UpLines) /\ turn \in Nat BY Streams, Values DEF SessionInv
<1>2. PICK j \in 1 .. Len(buffer) : buffer[j] = s BY <1>1, InSeq
<1>3. s.kind \in Terminal /\ s.kind = "succeeded" /\ s \in UpLines
  <2>1. s \in UpLines BY <1>1, InSeq
  <2> QED BY <2>1 DEF Event, Terminal
<1>4. i # 0 /\ i \in 1 .. Len(buffer) /\ buffer[i] \in ToSet(buffer) /\ buffer[i].kind \in Terminal
      /\ i <= j
  BY <1>1, <1>2, <1>3, FirstFound
<1> HIDE DEF i, s
<1>5. CASE i < j
  <2>1. <<buffer[i], s>> \in Rising
    BY <1>2, <1>4, <1>5 DEF SessionInv, OrderOK, InOrder, Chain, Sorted
  <2>2. buffer[i] \in UpLines BY <1>1, <1>4
  <2>3. buffer[i].n < s.n BY <1>3, <1>4, <2>1, <2>2, Pairs
  <2>4. buffer[i].n = turn /\ s.n = turn
    <3>1. s \in ToSet(buffer) BY DEF s
    <3> QED BY <1>3, <1>4, <3>1 DEF SessionInv, PresentOK, Read
  <2> QED BY <1>1, <2>3, <2>4
<1>6. CASE i = j BY <1>2, <1>4, <1>6 DEF i, s
<1> QED BY <1>2, <1>4, <1>5, <1>6

\* Two ends of one turn: the second is not its result.
LEMMA OneResult ==
    ASSUME SessionInv, ~ givenUp, NEW a \in Read \cup Coming, a.kind \in Terminal,
           NEW b \in Read \cup Coming, b.kind = "succeeded", <<a, b>> \in Rising
    PROVE  FALSE
<1>1. turn \in Nat /\ Read \cup Coming \subseteq UpLines BY Streams, Values DEF SessionInv
<1>2. a.n < b.n BY <1>1, Pairs
<1>3. a.n = turn /\ b.n = turn BY DEF SessionInv, PresentOK, Terminal
<1> QED BY <1>1, <1>2, <1>3

\* What was kept is taken, and what was read with it, or only the latter.
LEMMA LessRead ==
    ASSUME SessionTypeOK, StreamsOK, UNCHANGED <<up, out>>,
           \/ buffer' = buffer /\ Taken' \subseteq Taken
           \/ buffer' = <<>> /\ Taken' \subseteq Read
    PROVE  /\ Read' \subseteq Read /\ Coming' = Coming /\ ToSet(buffer') \subseteq ToSet(buffer)
           /\ \A R : InOrder(R) => InOrder(R)'
<1>1. Coming' = Coming BY DEF Coming
<1>2. CASE buffer' = buffer /\ Taken' \subseteq Taken
  BY <1>1, <1>2 DEF Read, InOrder, Chain
<1>3. CASE buffer' = <<>> /\ Taken' \subseteq Read
  <2>1. ToSet(buffer') = {} BY <1>3, InNothing
  <2>2. ASSUME NEW R, InOrder(R) PROVE InOrder(R)'
    <3>1. Chain(Taken, buffer, up, out, R) BY <2>2 DEF InOrder
    <3>2. Chain(Taken', <<>>, up, out, R) BY <1>3, <3>1, Streams, ChainTaken DEF Read
    <3> QED BY <1>3, <3>2 DEF InOrder
  <2> QED BY <1>1, <1>3, <2>1, <2>2 DEF Read
<1> QED BY <1>2, <1>3

\* An open task can always fail.
LEMMA FailedIsTaken ==
    ASSUME SessionTypeOK, task \notin Final
    PROVE  Graph!CanTransition(task, "failed")
<1>1. task \in {"running", "waiting_for_user", "ready_for_followup", "cancelling"}
  BY DEF SessionTypeOK
<1> QED BY <1>1 DEF Graph!CanTransition, Graph!AllowedTransitions, Graph!States, Graph!Terminal

\* The end of a turn is settled: whatever it is, what was said stays in order, the
\* session is kept only when it is at rest, and a cancellation is recorded only when no
\* result is owed.
LEMMA SettlePreserves ==
    ASSUME SessionInv, NEW f \in Lines(Terminal), Settle(f), caller.op \notin {"none", "sending"},
           UNCHANGED <<loopVars, announced, up, down, hostTurn, hostComplete, inFlight, refusal,
                       token, cancelRequested, sent, accepted, answered, givenUp>>,
           \/ buffer' = <<>> /\ (stopped \/ caller.op = "closing") /\ Taken = {}
              /\ (f.kind = "succeeded" => f \in ToSet(buffer))
           \/ buffer' = buffer /\ Taken = {f},
           ~ givenUp /\ Owed => f.kind # "cancelled"
    PROVE  SessionInv' /\ (reported' # reported => reported < reported')
<1>1. /\ SessionTypeOK /\ StreamsOK /\ LoopOK /\ MessagesOK /\ OrderOK /\ TaskOK /\ PresentOK
      /\ SaidOK /\ CancelKeepsResult /\ CompleteOK /\ SendOK
  BY DEF SessionInv
<1> DEFINE kept == f.kind = "succeeded" /\ hostComplete /\ ~ stopped /\ caller.op # "closing"
           wanted == IF f.kind # "succeeded" THEN f.kind
                     ELSE IF kept THEN "ready_for_followup" ELSE "completed"
           taken == Graph!CanTransition(task, wanted)
<1>2. /\ caller' = Idle
      /\ kept => UNCHANGED <<main, stopped, held>>
      /\ ~ kept => main' = "gone" /\ stopped' = TRUE /\ held' = FALSE
      /\ taken => /\ task' = wanted /\ waitingFor' = Nothing /\ unrecorded' = unrecorded
                  /\ reported' = (IF f.kind = "succeeded" THEN f.n ELSE reported)
      /\ ~ taken => /\ UNCHANGED <<task, waitingFor, reported>>
                    /\ unrecorded' = (IF f.kind = "succeeded" THEN f.n ELSE unrecorded)
  <2>1. Requested(f) = wanted /\ (kept <=> wanted = "ready_for_followup")
    BY DEF Requested, Lines, Terminal
  <2> HIDE DEF wanted, kept
  <2> QED BY <2>1 DEF Settle, Retire
<1>0. /\ task \notin Final /\ held
      /\ kept => wanted = "ready_for_followup"
      /\ ~ kept => wanted = (IF f.kind = "succeeded" THEN "completed" ELSE f.kind)
      /\ wanted \in {"ready_for_followup"} \cup Final
  <2>1. task \notin Final /\ held BY <1>1, Values DEF TaskOK, Idle
  <2> QED BY <2>1 DEF Lines, Terminal, Final
<1> HIDE DEF taken, wanted
<1>3. /\ caller' = Idle /\ (caller').op = "none" /\ (caller').n = 0 /\ Taken' = {}
  BY <1>2 DEF Idle, Taken, Terminal, Nothing
<1>4. f.kind \in Terminal /\ f.n \in Nat /\ f \in UpLines
  BY DEF Lines, UpLines, Events
<1> USE DEF loopVars
<1> HIDE DEF kept
<1>5. /\ Read' \subseteq Read /\ Coming' = Coming /\ ToSet(buffer') \subseteq ToSet(buffer)
      /\ \A R : InOrder(R) => InOrder(R)'
  <2>1. UNCHANGED <<up, out>> OBVIOUS
  <2> QED BY <1>1, <1>3, <2>1, LessRead
<1>6. f.kind = "succeeded" => f \in Read /\ reported < f.n /\ f.n <= turn /\ (Running => f.n < turn)
  <2>1. f.kind = "succeeded" => f \in Read BY DEF Read
  <2> QED BY <1>1, <1>4, <2>1 DEF OrderOK
<1>7. kept => Taken = {f} /\ buffer' = buffer BY DEF kept
<1>8. f.kind = "succeeded" => \A a \in Read' \cup Coming' : a.kind = "succeeded" => f.n < a.n
  <2>1. ASSUME NEW a \in Read' \cup Coming', f.kind = "succeeded", a.kind = "succeeded"
        PROVE  <<f, a>> \in Rising
    <3>1. InOrder(Rising) BY <1>1 DEF OrderOK
    <3>2. CASE buffer' = <<>> /\ f \in ToSet(buffer)
      <4>1. a \in Coming BY <1>3, <1>5, <2>1, <3>2, InNothing DEF Read
      <4> QED BY <3>1, <3>2, <4>1 DEF InOrder, Chain, Coming
    <3>3. CASE buffer' = buffer /\ Taken = {f}
      <4>1. a \in ToSet(buffer) \cup Coming BY <1>3, <1>5, <2>1, <3>3 DEF Read
      <4> QED BY <3>1, <3>3, <4>1 DEF InOrder, Chain, Coming
    <3> QED BY <2>1, <3>2, <3>3
  <2>2. Read' \cup Coming' \subseteq UpLines BY <1>1, <1>5, Streams
  <2> QED BY <1>4, <2>1, <2>2, Pairs
<1>9. /\ reported' \in Nat /\ unrecorded' \in Nat /\ waitingFor' \in Nat
      /\ waitingFor' \in {Nothing, waitingFor} /\ stopped' \in BOOLEAN /\ held' \in BOOLEAN
      /\ reported' \in {reported, f.n} /\ (reported' # reported => f.kind = "succeeded")
  <2>1. reported \in Nat /\ unrecorded \in Nat /\ waitingFor \in Nat
        /\ stopped \in BOOLEAN /\ held \in BOOLEAN
    BY <1>1, Values
  <2>2. stopped' \in {stopped, TRUE} /\ held' \in {held, FALSE} BY <1>2
  <2>3. /\ waitingFor' \in {Nothing, waitingFor}
        /\ reported' \in {reported, f.n} /\ (reported' # reported => f.kind = "succeeded")
        /\ unrecorded' \in {unrecorded, f.n}
    BY <1>2
  <2>4. reported' \in Nat /\ unrecorded' \in Nat BY <1>4, <2>1, <2>3
  <2>5. stopped' \in BOOLEAN /\ held' \in BOOLEAN BY <2>1, <2>2
  <2>6. waitingFor' \in Nat BY <2>1, <2>3 DEF Nothing
  <2> QED BY <2>3, <2>4, <2>5, <2>6
<1>10. buffer' \in Seq(Lines(Events))
  <2>1. <<>> \in Seq(Lines(Events)) OBVIOUS
  <2> QED BY <1>1, <2>1, Streams
<1>11. SessionTypeOK' /\ StreamsOK'
  <2>1. task' \in {"running", "waiting_for_user", "ready_for_followup", "cancelling"} \cup Final
    BY <1>0, <1>1, <1>2 DEF SessionTypeOK
  <2>2. main' \in {"get", "flush", "announce", "leaving", "gone"}
    BY <1>1, <1>2 DEF SessionTypeOK
  <2>3. SessionTypeOK' BY <1>1, <1>9, <1>10, <2>1, <2>2 DEF SessionTypeOK, Events
  <2>4. Idle \in [op : Terminal \cup {"none", "looking", "asking", "sending", "closing"}, n : Nat]
    BY DEF Idle, Nothing
  <2>5. StreamsOK' BY <1>1, <1>2, <1>9, <2>4 DEF StreamsOK
  <2> QED BY <2>3, <2>5
<1>12. LoopOK' BY <1>1, <1>2 DEF LoopOK
<1>13. MessagesOK' BY <1>1, <1>3 DEF MessagesOK
<1>14. OrderOK'
  <2>1. InOrder(Rising)' BY <1>1, <1>5 DEF OrderOK
  <2>2. Read' \cup Coming' \subseteq Read \cup Coming BY <1>5
  <2>3. \A a \in Read' \cup Coming' : a.kind = "succeeded" => reported' < a.n
    BY <1>1, <1>8, <1>9, <2>2 DEF OrderOK
  <2>4. \A a \in Read' \cup Coming' : a.kind = "question" => waitingFor' < a.n
    <3>1. waitingFor \in Nat /\ \A a \in Read \cup Coming : a.n \in Nat
      BY <1>1, Values, Streams DEF UpLines, Lines
    <3> QED BY <1>1, <1>9, <2>2, <3>1 DEF OrderOK, Nothing
  <2>5. reported' <= turn /\ (Running => reported' < turn) BY <1>1, <1>6, <1>9 DEF OrderOK
  <2>6. asked \in Nat /\ waitingFor' <= asked BY <1>1, <1>9, Values DEF OrderOK, Nothing
  <2>7. Running' = Running BY DEF Running
  <2> QED BY <1>1, <1>3, <2>1, <2>2, <2>3, <2>4, <2>5, <2>6, <2>7 DEF OrderOK
<1>15. TaskOK'
  <2>1. task' = "waiting_for_user" => task = task' /\ waitingFor' = waitingFor
    BY <1>0, <1>2 DEF Final
  <2>2. cancelRequested /\ main' # "gone" => FALSE BY <1>1, <1>2 DEF TaskOK, kept
  <2>3. task' \in Final => ~ held' BY <1>0, <1>2 DEF Final
  <2>4. ~ held' => main' = "gone" /\ stopped' BY <1>0, <1>2
  <2> QED BY <1>1, <1>3, <1>5, <2>1, <2>2, <2>3, <2>4 DEF TaskOK
<1>16. PresentOK' BY <1>1, <1>5 DEF PresentOK
<1>17. SaidOK'
  <2> SUFFICES ASSUME ~ givenUp, task' \notin {"completed", "failed"}, reported' < said,
                      unrecorded' < said
               PROVE  FALSE
    BY DEF SaidOK, Owed
  <2>1. f.kind # "failed"
    <3>1. f.kind = "failed" => wanted = "failed" /\ taken
      BY <1>0, <1>1, FailedIsTaken DEF kept, taken
    <3> QED BY <1>2, <3>1
  <2>2. f.kind # "succeeded"
    <3>1. f.kind = "succeeded" => f.n = turn BY <1>1, <1>6 DEF PresentOK, Terminal
    <3>2. f.kind = "succeeded" => f.n < said BY <1>2
    <3> QED BY <1>1, <3>1, <3>2, Values DEF OrderOK
  <2>3. Owed BY <1>2, <2>2 DEF Owed
  <2> QED BY <1>4, <2>1, <2>2, <2>3 DEF Terminal
<1>18. CancelKeepsResult'
  <2> SUFFICES ASSUME task' = "cancelled", ~ givenUp
               PROVE  said <= reported' \/ said <= unrecorded'
    BY DEF CancelKeepsResult
  <2>1. taken /\ wanted = "cancelled" BY <1>0, <1>2 DEF Final
  <2>2. f.kind = "cancelled" BY <1>0, <2>1
  <2> QED BY <1>1, <1>2, <2>1, <2>2, Values DEF Owed
<1>19. CompleteOK'
  <2> SUFFICES ASSUME ~ givenUp PROVE CompleteOK' BY DEF CompleteOK
  <2>1. \A kinds : Only(kinds) => Only(kinds)' BY <1>5 DEF Only
  <2>2. Rest' = Rest BY DEF Rest
  <2>3. main' # "gone" => message = Nothing /\ NoFollowup BY <1>1, <1>2 DEF CompleteOK
  <2>4. ~ cancelRequested /\ hostComplete /\ ~ stopped' =>
           Rest /\ hostTurn = turn /\ \A a \in ToSet(up) : a.kind # "turn_complete"
    BY <1>1, <1>2 DEF CompleteOK
  <2>5. ASSUME task' = "ready_for_followup", ~ cancelRequested, ~ stopped'
        PROVE  Only({"finished"})' /\ hostComplete
    <3>1. kept BY <1>2, <2>5
    <3>2. hostComplete /\ Taken = {f} /\ buffer' = buffer BY <1>7, <3>1 DEF kept
    <3>3. \A a \in ToSet(up) : a.kind # "turn_complete" BY <2>4, <2>5, <3>2
    <3>4. ASSUME NEW a \in ToSet(buffer) \cup Coming PROVE a.kind = "finished"
      <4>1. <<f, a>> \in Ending
        BY <1>1, <2>5, <3>2 DEF PresentOK, InOrder, Chain, Coming
      <4>2. a \in UpLines BY <1>1, Streams DEF Read
      <4>3. a.kind \notin Events BY <1>4, <4>1, <4>2, Pairs
      <4>4. a.kind \in Events \cup {"turn_complete", "finished"} BY <1>1 DEF CompleteOK, Only
      <4>5. a \in ToSet(up) \/ a.kind \in Events
        <5>1. \A b \in Lines(Events) : b.kind \in Events BY DEF Lines
        <5> QED BY <1>1, <5>1, Streams DEF Coming
      <4> QED BY <3>3, <4>3, <4>4, <4>5
    <3> QED BY <1>5, <3>2, <3>4 DEF Only
  <2>6. ~ refusal /\ Only(Events \cup {"turn_complete", "finished"}) BY <1>1 DEF CompleteOK
  <2>7. ~ cancelRequested => \A a \in ToSet(up) : a.kind = "turn_complete" => a.n = turn /\ Rest
    BY <1>1 DEF CompleteOK
  <2>8. (caller.op)' = "none" BY <1>3
  <2> QED BY <2>1, <2>2, <2>3, <2>4, <2>5, <2>6, <2>7, <2>8 DEF CompleteOK, NoFollowup
<1>20. SendOK' BY <1>3 DEF SendOK
<1>21. reported' # reported => reported < reported' BY <1>6, <1>9
<1> QED BY <1>11, <1>12, <1>13, <1>14, <1>15, <1>16, <1>17, <1>18, <1>19, <1>20, <1>21 DEF SessionInv

\* SettleTurn preserves the invariant.
LEMMA SettleTurnPreserves ==
    ASSUME SessionInv, SettleTurn
    PROVE  SessionInv' /\ (reported' # reported => reported < reported')
<1>1. /\ SessionTypeOK /\ StreamsOK /\ OrderOK /\ PresentOK /\ SaidOK /\ TaskOK
  BY DEF SessionInv
<1> DEFINE f == Event(caller.op, caller.n)
           s == Event("succeeded", said)
<1>2. /\ caller.op \in Terminal /\ Settle(f) /\ buffer' = buffer
      /\ UNCHANGED <<loopVars, announced, up, down, hostTurn, hostComplete, inFlight, refusal,
                     token, cancelRequested, sent, accepted, answered, givenUp>>
  BY DEF SettleTurn, Others
<1>3. Taken = {f} BY <1>2 DEF Taken
<1>4. f \in Lines(Terminal) /\ f.kind = caller.op
  BY <1>1, <1>2, Values DEF Event, Lines
<1>5. s.kind = "succeeded" BY DEF Event
<1> HIDE DEF f, s
<1>6. caller.op \notin {"none", "sending"} BY <1>2 DEF Terminal
<1>7. task \notin Final BY <1>1, <1>6 DEF TaskOK, Idle
<1>8. ~ givenUp /\ Owed => f = s \/ s \in ToSet(buffer) \cup ToSet(up)
  BY <1>1, <1>3, <1>7 DEF SaidOK, Read, Final, s
<1>9. ASSUME ~ givenUp, Owed, f.kind = "cancelled" PROVE FALSE
  <2>1. f # s BY <1>5, <1>9
  <2>2. s \in ToSet(buffer) \cup ToSet(up) BY <1>8, <1>9, <2>1
  <2>3. <<f, s>> \in Rising BY <1>1, <1>3, <2>2 DEF OrderOK, InOrder, Chain
  <2>4. f \in Read /\ s \in Read \cup Coming BY <1>3, <2>2 DEF Read, Coming
  <2> QED BY <1>4, <1>5, <1>9, <2>3, <2>4, OneResult DEF Lines
<1> QED BY <1>2, <1>3, <1>4, <1>6, <1>9, SettlePreserves

\* What the caller ends a turn with, when it has nothing in hand: the first end that was kept,
\* or the one it comes with.
LEMMA EndedWith ==
    ASSUME SessionInv, NEW o \in Lines({"failed", "cancelled"}), NEW b, b \in {<<>>, buffer},
           Taken = {}, task \notin Final,
           ~ givenUp /\ o.kind = "cancelled" => b = buffer /\ up = <<>>,
           b # buffer => o.kind = "failed"
    PROVE  LET f == Ended(b, o) IN
           /\ f \in Lines(Terminal) /\ (f.kind = "succeeded" => f \in ToSet(buffer))
           /\ ~ givenUp /\ Owed => f.kind # "cancelled"
<1> DEFINE f == Ended(b, o)
           s == Event("succeeded", said)
           i == FirstTerminal(b)
<1>1. /\ SessionTypeOK /\ StreamsOK /\ OrderOK /\ PresentOK /\ SaidOK /\ TaskOK
  BY DEF SessionInv
<1>2. f = (IF i = 0 THEN o ELSE b[i]) BY DEF Ended
<1>3. b \in Seq(Lines(Events)) /\ ToSet(b) \subseteq ToSet(buffer)
  <2>1. <<>> \in Seq(Lines(Events)) OBVIOUS
  <2> QED BY <1>1, <2>1, Streams, InNothing
<1>4. /\ i = 0 => \A a \in ToSet(b) : a.kind \notin Terminal
      /\ i # 0 => b[i] \in ToSet(b) /\ b[i].kind \in Terminal
  BY <1>3, FirstFound
<1>5. s.kind = "succeeded" /\ s.kind \in Terminal BY DEF Event, Terminal
<1>6. i # 0 => b = buffer
  <2>1. CASE b = <<>> BY <1>4, <2>1, InNothing
  <2> QED BY <2>1
<1>7. b = buffer /\ ~ givenUp /\ s \in ToSet(buffer) => i # 0 /\ b[i] = s
  BY FirstResult
<1> HIDE DEF f, i, s
<1>8. /\ f \in Lines(Terminal) /\ (f.kind = "succeeded" => f \in ToSet(buffer))
      /\ (i # 0 => f \in ToSet(buffer) /\ f.kind \in Terminal)
  <2>1. i = 0 => f = o /\ f.kind \in {"failed", "cancelled"} /\ f \in Lines(Terminal)
    BY <1>2 DEF Lines, Terminal
  <2>2. i # 0 => f \in ToSet(buffer) /\ f.kind \in Terminal BY <1>2, <1>3, <1>4
  <2>3. \A a \in Lines(Events) : a.kind \in Terminal => a \in Lines(Terminal) BY DEF Lines
  <2> QED BY <1>1, <2>1, <2>2, <2>3, Streams
<1>9. ASSUME ~ givenUp, Owed, f.kind = "cancelled" PROVE FALSE
  <2>1. f # s /\ b = buffer
    <3>1. CASE i # 0 BY <1>5, <1>6, <1>9, <3>1
    <3>2. CASE i = 0 BY <1>2, <1>5, <1>9, <3>2
    <3> QED BY <3>1, <3>2
  <2>2. s \in ToSet(up)
    <3>1. s \in ToSet(buffer) \cup ToSet(up) BY <1>1, <1>9 DEF SaidOK, Read, Final, s
    <3> QED BY <1>2, <1>7, <1>9, <2>1, <3>1
  <2>3. CASE i # 0
    <3>1. f \in ToSet(buffer) BY <1>8, <2>3
    <3>2. <<f, s>> \in Rising BY <1>1, <2>2, <3>1 DEF OrderOK, InOrder, Chain
    <3>3. f \in Read \cup Coming /\ s \in Read \cup Coming BY <2>2, <3>1 DEF Read, Coming
    <3> QED BY <1>5, <1>8, <1>9, <2>3, <3>2, <3>3, OneResult
  <2>4. CASE i = 0
    <3>1. up = <<>> BY <1>2, <1>9, <2>4
    <3> QED BY <2>2, <3>1, InNothing
  <2> QED BY <2>3, <2>4
<1> QED BY <1>8, <1>9 DEF f

\* LookAround preserves the invariant when the session is gone.
LEMMA LookLostPreserves ==
    ASSUME SessionInv, LookAround, stopped
    PROVE  SessionInv' /\ (reported' # reported => reported < reported')
<1> DEFINE b == IF cancelRequested THEN <<>> ELSE buffer
           o == Event("failed", Nothing)
<1>1. /\ caller.op = "looking" /\ Settle(Ended(b, o)) /\ buffer' = <<>>
      /\ UNCHANGED <<loopVars, announced, up, down, hostTurn, hostComplete, inFlight, refusal,
                     token, cancelRequested, sent, accepted, answered, givenUp>>
  BY DEF LookAround, Others
<1>2. Taken = {} /\ task \notin Final
  BY <1>1 DEF Taken, Terminal, SessionInv, TaskOK, Idle
<1>3. o \in Lines({"failed", "cancelled"}) /\ o.kind = "failed" BY DEF Lines, Event, Nothing
<1>4. b \in {<<>>, buffer} OBVIOUS
<1> DEFINE f == Ended(b, o)
<1> HIDE DEF b, o
<1>5. /\ f \in Lines(Terminal) /\ (f.kind = "succeeded" => f \in ToSet(buffer))
      /\ ~ givenUp /\ Owed => f.kind # "cancelled"
  BY <1>2, <1>3, <1>4, EndedWith
<1> HIDE DEF f
<1>6. Settle(f) BY <1>1 DEF f
<1> QED BY <1>1, <1>2, <1>5, <1>6, SettlePreserves

\* EndCancel preserves the invariant.
LEMMA EndCancelPreserves ==
    ASSUME SessionInv, EndCancel
    PROVE  SessionInv' /\ (reported' # reported => reported < reported')
<1> DEFINE o == Event("cancelled", Nothing)
<1>1. /\ caller.op = "closing" /\ up = <<>> /\ Settle(Ended(buffer, o)) /\ buffer' = <<>>
      /\ UNCHANGED <<loopVars, announced, up, down, hostTurn, hostComplete, inFlight, refusal,
                     token, cancelRequested, sent, accepted, answered, givenUp>>
  BY DEF EndCancel, Others
<1>2. Taken = {} /\ task \notin Final
  BY <1>1 DEF Taken, Terminal, SessionInv, TaskOK, Idle
<1>3. o \in Lines({"failed", "cancelled"}) /\ o.kind = "cancelled" BY DEF Lines, Event, Nothing
<1> DEFINE f == Ended(buffer, o)
<1> HIDE DEF o
<1>5. /\ f \in Lines(Terminal) /\ (f.kind = "succeeded" => f \in ToSet(buffer))
      /\ ~ givenUp /\ Owed => f.kind # "cancelled"
  BY <1>1, <1>2, <1>3, EndedWith
<1> HIDE DEF f
<1>6. Settle(f) BY <1>1 DEF f
<1> QED BY <1>1, <1>2, <1>5, <1>6, SettlePreserves

\* A look that does not end the turn preserves the invariant: what was kept is taken as the
\* end of the turn, as a question, or as nothing.
LEMMA LookPreserves ==
    ASSUME SessionInv, caller.op \in {"none", "looking"}, task \notin Final,
           UNCHANGED <<loopVars, mainVars, pipes, hostTurn, hostComplete, inFlight, refusal, token,
                       cancelRequested, stopped, waitingFor, sent, accepted, answered, reported,
                       unrecorded, givenUp>>,
           task' \in {task, "cancelling"},
           caller' \in [op : Terminal \cup {"none", "looking", "asking"}, n : Nat],
           \/ buffer' = buffer /\ (caller').op \in {"none", "looking"}
           \/ /\ buffer' = <<>>
              /\ \/ /\ FirstTerminal(buffer) # 0
                    /\ caller' = [op |-> buffer[FirstTerminal(buffer)].kind,
                                  n |-> buffer[FirstTerminal(buffer)].n]
                 \/ /\ FirstTerminal(buffer) = 0 /\ (caller').op = "asking"
                    /\ Event("question", (caller').n) \in ToSet(buffer)
                 \/ FirstTerminal(buffer) = 0 /\ (caller').op = "looking",
           cancelRequested /\ main # "gone" => FALSE,
           held' \in BOOLEAN, ~ held' => stopped /\ caller' = Idle
    PROVE  SessionInv'
<1> USE DEF loopVars, mainVars, pipes
<1>1. /\ SessionTypeOK /\ StreamsOK /\ LoopOK /\ MessagesOK /\ OrderOK /\ TaskOK /\ PresentOK
      /\ SaidOK /\ CancelKeepsResult /\ CompleteOK /\ SendOK
  BY DEF SessionInv
<1> DEFINE i == FirstTerminal(buffer)
<1>2. /\ i = 0 => \A a \in ToSet(buffer) : a.kind \notin Terminal
      /\ i # 0 => buffer[i] \in ToSet(buffer) /\ buffer[i].kind \in Terminal
      /\ ToSet(buffer) \subseteq Lines(Events)
  BY <1>1, Streams, FirstFound
<1>3. ToSet(<<>>) = {} BY InNothing
<1> HIDE DEF i
<1>4. ASSUME buffer' = <<>>, i # 0,
             caller' = [op |-> buffer[i].kind, n |-> buffer[i].n]
      PROVE  Taken' = {buffer[i]}
  <2>1. (caller').op = buffer[i].kind /\ (caller').n = buffer[i].n BY <1>4
  <2>2. buffer[i] = Event(buffer[i].kind, buffer[i].n) BY <1>2, <1>4 DEF Lines, Event
  <2> QED BY <1>2, <1>4, <2>1, <2>2 DEF Taken
<1>5. (caller').op \notin Terminal => Taken' = {} BY DEF Taken
<1>6. {"none", "looking", "asking"} \cap Terminal = {} BY DEF Terminal
<1>7. \/ buffer' = buffer /\ Taken' = {} /\ (caller').op \in {"none", "looking"}
      \/ buffer' = <<>> /\ i # 0 /\ Taken' = {buffer[i]} /\ (caller').op \in Terminal
      \/ /\ buffer' = <<>> /\ i = 0 /\ Taken' = {} /\ (caller').op = "asking"
         /\ Event("question", (caller').n) \in ToSet(buffer)
      \/ buffer' = <<>> /\ i = 0 /\ Taken' = {} /\ (caller').op = "looking"
  <2>1. CASE buffer' = buffer /\ (caller').op \in {"none", "looking"} BY <1>5, <1>6, <2>1
  <2>2. CASE /\ buffer' = <<>> /\ i # 0
             /\ caller' = [op |-> buffer[i].kind, n |-> buffer[i].n]
    <3>1. (caller').op = buffer[i].kind BY <2>2
    <3> QED BY <1>2, <1>4, <2>2, <3>1
  <2>3. CASE /\ buffer' = <<>> /\ i = 0 /\ (caller').op = "asking"
             /\ Event("question", (caller').n) \in ToSet(buffer)
    BY <1>5, <1>6, <2>3
  <2>4. CASE buffer' = <<>> /\ i = 0 /\ (caller').op = "looking" BY <1>5, <1>6, <2>4
  <2> QED BY <2>1, <2>2, <2>3, <2>4 DEF i
<1>8. Taken = {} BY <1>6 DEF Taken
<1>9. /\ Read' \subseteq Read /\ Coming' = Coming /\ ToSet(buffer') \subseteq ToSet(buffer)
      /\ \A R : InOrder(R) => InOrder(R)'
  <2>1. UNCHANGED <<up, out>> OBVIOUS
  <2>2. \/ buffer' = buffer /\ Taken' \subseteq Taken
        \/ buffer' = <<>> /\ Taken' \subseteq Read
    BY <1>2, <1>7 DEF Read
  <2> QED BY <1>1, <2>1, <2>2, LessRead
<1>10. /\ (caller').n \in Nat /\ (caller').op # "sending" /\ caller.op # "sending"
       /\ (caller').op \in Terminal \cup {"none", "looking", "asking"}
       /\ caller' \in [op : Terminal \cup {"none", "looking", "asking", "sending", "closing"}, n : Nat]
  BY DEF Terminal
<1>11. buffer' \in Seq(Lines(Events))
  <2>1. <<>> \in Seq(Lines(Events)) OBVIOUS
  <2> QED BY <1>1, <1>7, <2>1, Streams
<1>12. SessionTypeOK' /\ StreamsOK'
  <2>1. task' \in {"running", "waiting_for_user", "ready_for_followup", "cancelling"} \cup Final
    BY <1>1 DEF SessionTypeOK
  <2>2. SessionTypeOK' BY <1>1, <1>11, <2>1 DEF SessionTypeOK, Events
  <2>3. StreamsOK' BY <1>1, <1>10 DEF StreamsOK
  <2> QED BY <2>2, <2>3
<1>13. LoopOK' BY <1>1 DEF LoopOK
<1>14. MessagesOK' BY <1>1, <1>10 DEF MessagesOK
<1>15. (caller').op = "asking" =>
          /\ buffer' = <<>> /\ Taken' = {}
          /\ (caller').n <= asked /\ waitingFor < (caller').n
          /\ \A a \in Coming : a.kind = "question" => (caller').n < a.n
          /\ ~ cancelRequested => (caller').n <= token
  <2> SUFFICES ASSUME (caller').op = "asking"
               PROVE  /\ buffer' = <<>> /\ Taken' = {}
                      /\ (caller').n <= asked /\ waitingFor < (caller').n
                      /\ \A a \in Coming : a.kind = "question" => (caller').n < a.n
                      /\ ~ cancelRequested => (caller').n <= token
    OBVIOUS
  <2> DEFINE q == Event("question", (caller').n)
  <2>1. buffer' = <<>> /\ Taken' = {} /\ q \in ToSet(buffer) BY <1>6, <1>7
  <2>2. q.kind = "question" /\ q.n = (caller').n BY DEF Event
  <2> HIDE DEF q
  <2>3. q \in UpLines /\ Coming \subseteq UpLines BY <1>1, <2>1, Streams
  <2>4. q.n <= asked /\ waitingFor < q.n BY <1>1, <2>1, <2>2 DEF OrderOK, Read
  <2>5. \A a \in Coming : <<q, a>> \in Rising
    BY <1>1, <2>1 DEF OrderOK, InOrder, Chain, Coming
  <2>6. \A a \in Coming : a.kind = "question" => q.n < a.n BY <2>2, <2>3, <2>5, Pairs
  <2>7. ~ cancelRequested => q.n <= token BY <1>1, <2>1, <2>2 DEF TaskOK
  <2> QED BY <2>1, <2>2, <2>4, <2>6, <2>7
<1>16. OrderOK'
  <2>1. InOrder(Rising)' BY <1>1, <1>9 DEF OrderOK
  <2>2. Read' \cup Coming' \subseteq Read \cup Coming BY <1>9
  <2>3. ASSUME NEW a \in Read' \cup Coming', a.kind = "question", (caller').op = "asking"
        PROVE  (caller').n < a.n
    <3>1. a \in Coming BY <1>3, <1>9, <1>15, <2>3 DEF Read
    <3> QED BY <1>15, <2>3, <3>1
  <2>4. Running' = Running BY DEF Running
  <2> QED BY <1>1, <1>15, <2>1, <2>2, <2>3, <2>4 DEF OrderOK
<1>17. TaskOK'
  <2>1. (caller').op = "asking" /\ ~ cancelRequested => 0 < (caller').n /\ (caller').n <= token
    BY <1>1, <1>10, <1>15, Values
  <2>2. task' \notin Final BY DEF Final
  <2>3. task' = "waiting_for_user" => task = "waiting_for_user" OBVIOUS
  <2>4. ~ held' => main = "gone" BY <1>1 DEF LoopOK
  <2> QED BY <1>1, <1>9, <1>10, <2>1, <2>2, <2>3, <2>4 DEF TaskOK
<1>18. PresentOK' BY <1>1, <1>9 DEF PresentOK
<1>19. SaidOK'
  <2> SUFFICES ASSUME ~ givenUp, Owed
               PROVE  Event("succeeded", said) \in Read' \cup ToSet(up)
    BY DEF SaidOK, Owed
  <2> DEFINE s == Event("succeeded", said)
  <2>1. s \in ToSet(buffer) \cup ToSet(up) BY <1>1, <1>8 DEF SaidOK, Read, Final
  <2>2. s \in ToSet(buffer) => i # 0 /\ buffer[i] = s BY FirstResult DEF i
  <2> HIDE DEF s
  <2>3. s \in ToSet(buffer) => s \in Read' BY <1>7, <2>2 DEF Read
  <2> QED BY <2>1, <2>3 DEF s
<1>20. CancelKeepsResult' BY DEF CancelKeepsResult, Final
<1>21. CompleteOK'
  <2>1. \A kinds : Only(kinds) => Only(kinds)' BY <1>9 DEF Only
  <2>2. task' = "ready_for_followup" => task = "ready_for_followup" OBVIOUS
  <2> QED BY <1>1, <1>10, <2>1, <2>2 DEF CompleteOK, NoFollowup, Rest
<1>22. SendOK' BY <1>10 DEF SendOK
<1> QED BY <1>12, <1>13, <1>14, <1>16, <1>17, <1>18, <1>19, <1>20, <1>21, <1>22 DEF SessionInv

\* Inspect preserves the invariant.
LEMMA InspectPreserves ==
    ASSUME SessionInv, Inspect PROVE SessionInv'
<1>1. /\ SessionTypeOK /\ StreamsOK /\ TaskOK BY DEF SessionInv
<1> DEFINE i == FirstTerminal(buffer)
           j == LastQuestion(buffer)
<1>2. /\ task \notin Final /\ caller = Idle /\ buffer' = <<>> /\ held /\ held' = held
      /\ IF i # 0 THEN caller' = [op |-> buffer[i].kind, n |-> buffer[i].n]
         ELSE IF j # 0 THEN caller' = [op |-> "asking", n |-> buffer[j].n]
         ELSE caller' = [op |-> "looking", n |-> Nothing]
      /\ UNCHANGED <<loopVars, announced, up, hostTurn, hostComplete, main, down, inFlight, refusal,
                     token, cancelRequested, stopped, task, waitingFor, sent, accepted, answered,
                     reported, unrecorded, givenUp>>
  BY DEF Inspect, Others, Open, Call
<1>3. caller.op = "none" BY <1>2 DEF Idle
<1>4. UNCHANGED <<mainVars, pipes>> BY <1>2 DEF mainVars, pipes
<1>5. /\ i # 0 => buffer[i] \in ToSet(buffer) /\ buffer[i].kind \in Terminal
      /\ j # 0 => buffer[j] \in ToSet(buffer) /\ buffer[j].kind = "question"
      /\ ToSet(buffer) \subseteq Lines(Events)
  BY <1>1, Streams, FirstFound, LastFound
<1> HIDE DEF i, j
<1>6. ~ (cancelRequested /\ main # "gone") /\ held' /\ held' \in BOOLEAN
  BY <1>1, <1>2, <1>3, Values DEF TaskOK
<1>7. CASE i # 0
  <2>1. caller' = [op |-> buffer[i].kind, n |-> buffer[i].n] BY <1>2, <1>7
  <2>2. buffer[i].n \in Nat BY <1>5, <1>7 DEF Lines
  <2>3. caller' \in [op : Terminal \cup {"none", "looking", "asking"}, n : Nat]
    BY <1>5, <1>7, <2>1, <2>2
  <2> QED BY <1>2, <1>3, <1>4, <1>6, <1>7, <2>1, <2>3, LookPreserves DEF i
<1>8. CASE i = 0 /\ j # 0
  <2>1. (caller').op = "asking" /\ (caller').n = buffer[j].n
        /\ caller' = [op |-> "asking", n |-> buffer[j].n]
    BY <1>2, <1>8
  <2>2. buffer[j].n \in Nat /\ buffer[j] = Event("question", buffer[j].n)
    BY <1>5, <1>8 DEF Lines, Event
  <2>3. caller' \in [op : Terminal \cup {"none", "looking", "asking"}, n : Nat]
    BY <2>1, <2>2
  <2>4. Event("question", (caller').n) \in ToSet(buffer) BY <1>5, <1>8, <2>1, <2>2
  <2> QED BY <1>2, <1>3, <1>4, <1>6, <1>8, <2>1, <2>3, <2>4, LookPreserves DEF i
<1>9. CASE i = 0 /\ j = 0
  <2>1. (caller').op = "looking"
        /\ caller' \in [op : Terminal \cup {"none", "looking", "asking"}, n : Nat]
    BY <1>2, <1>9 DEF Nothing
  <2> QED BY <1>2, <1>3, <1>4, <1>6, <1>9, <2>1, LookPreserves DEF i
<1> QED BY <1>7, <1>8, <1>9

\* LookAround preserves the invariant when the session is there.
LEMMA LookAroundPreserves ==
    ASSUME SessionInv, LookAround, ~ stopped PROVE SessionInv' /\ reported' = reported
<1>1. /\ SessionTypeOK /\ StreamsOK /\ TaskOK BY DEF SessionInv
<1>2. /\ caller.op = "looking" /\ caller' = Idle /\ held' = held
      /\ UNCHANGED <<loopVars, announced, up, hostTurn, hostComplete, main, down, inFlight, refusal,
                     token, cancelRequested, stopped, buffer, task, waitingFor, sent, accepted,
                     answered, reported, unrecorded, givenUp>>
  BY DEF LookAround, Others
<1>3. /\ (caller').op = "none"
      /\ caller' \in [op : Terminal \cup {"none", "looking", "asking"}, n : Nat]
  BY <1>2 DEF Idle, Nothing
<1>4. UNCHANGED <<mainVars, pipes>> BY <1>2 DEF mainVars, pipes
<1>5. task \notin Final BY <1>1, <1>2 DEF TaskOK, Idle
<1>6. /\ ~ (cancelRequested /\ main # "gone") /\ held' \in BOOLEAN
      /\ ~ held' => stopped /\ caller' = Idle
  BY <1>1, <1>2, Values DEF TaskOK
<1> QED BY <1>2, <1>3, <1>4, <1>5, <1>6, LookPreserves

\* PutQuestion preserves the invariant.
LEMMA PutQuestionPreserves ==
    ASSUME SessionInv, PutQuestion PROVE SessionInv'
<1> USE DEF loopVars
<1>1. /\ SessionTypeOK /\ StreamsOK /\ LoopOK /\ MessagesOK /\ OrderOK /\ TaskOK /\ PresentOK
      /\ SaidOK /\ CancelKeepsResult /\ CompleteOK /\ SendOK
  BY DEF SessionInv
<1>2. /\ caller.op = "asking" /\ caller' = Idle /\ held' = held
      /\ task = "cancelling" => UNCHANGED <<task, waitingFor>>
      /\ task # "cancelling" => task' = "waiting_for_user" /\ waitingFor' = caller.n
      /\ UNCHANGED <<loopVars, announced, up, hostTurn, hostComplete, main, down, inFlight, refusal,
                     token, cancelRequested, stopped, buffer, sent, accepted, answered, reported,
                     unrecorded, givenUp>>
  BY DEF PutQuestion, Others
<1>3. (caller').op = "none" /\ Taken' = {} BY <1>2 DEF Idle, Taken, Terminal
<1>4. task \notin Final /\ held BY <1>1, <1>2 DEF TaskOK, Idle
<1>5. /\ Read' \subseteq Read /\ Coming' = Coming /\ ToSet(buffer') \subseteq ToSet(buffer)
      /\ \A R : InOrder(R) => InOrder(R)'
  <2>1. UNCHANGED <<up, out>> /\ buffer' = buffer /\ Taken' \subseteq Taken BY <1>2, <1>3
  <2> QED BY <1>1, <2>1, LessRead
<1>6. SessionTypeOK' /\ StreamsOK'
  <2>1. task' \in {"running", "waiting_for_user", "ready_for_followup", "cancelling"} \cup Final
    BY <1>2
  <2>2. waitingFor' \in Nat BY <1>1, <1>2, Values
  <2>3. Idle \in [op : Terminal \cup {"none", "looking", "asking", "sending", "closing"}, n : Nat]
    BY DEF Idle, Nothing
  <2>4. SessionTypeOK' BY <1>1, <1>2, <2>1 DEF SessionTypeOK
  <2>5. StreamsOK' BY <1>1, <1>2, <2>2, <2>3 DEF StreamsOK
  <2> QED BY <2>4, <2>5
<1>7. LoopOK' BY <1>1, <1>2 DEF LoopOK
<1>8. MessagesOK' BY <1>1, <1>2, <1>3 DEF MessagesOK
<1>9. OrderOK'
  <2>1. InOrder(Rising)' BY <1>1, <1>5 DEF OrderOK
  <2>2. Read' \cup Coming' \subseteq Read \cup Coming BY <1>5
  <2>3. Running' = Running BY <1>2 DEF Running
  <2> QED BY <1>1, <1>2, <1>3, <2>1, <2>2, <2>3 DEF OrderOK
<1>10. TaskOK'
  <2>1. task' \notin Final BY <1>2, <1>4 DEF Final
  <2>2. cancelRequested /\ main # "gone" => FALSE BY <1>1, <1>2 DEF TaskOK
  <2>3. ~ cancelRequested /\ task' = "waiting_for_user" => 0 < waitingFor' /\ waitingFor' <= token
    BY <1>1, <1>2 DEF TaskOK
  <2> QED BY <1>1, <1>2, <1>3, <1>4, <2>1, <2>2, <2>3 DEF TaskOK
<1>11. PresentOK' BY <1>1, <1>2, <1>5 DEF PresentOK
<1>12. SaidOK'
  <2>1. Read' = Read BY <1>2, <1>3 DEF Read, Taken, Terminal
  <2> QED BY <1>1, <1>2, <1>4, <2>1 DEF SaidOK, Owed, Final
<1>13. CancelKeepsResult' BY <1>2 DEF CancelKeepsResult
<1>14. CompleteOK'
  <2>1. \A kinds : Only(kinds) => Only(kinds)' BY <1>5 DEF Only
  <2>2. task' # "ready_for_followup" BY <1>2
  <2> QED BY <1>1, <1>2, <1>3, <2>1, <2>2 DEF CompleteOK, NoFollowup, Rest
<1>15. SendOK' BY <1>3 DEF SendOK
<1> QED BY <1>6, <1>7, <1>8, <1>9, <1>10, <1>11, <1>12, <1>13, <1>14, <1>15 DEF SessionInv

\* Commands are written to the pipe.
LEMMA Written ==
    ASSUME SessionInv, NEW c \in DownLines, c.kind # "followup",
           NEW d \in DownLines, d.kind # "followup"
    PROVE  /\ down \o <<c, d>> \in Seq(DownLines) /\ Sorted(down \o <<c, d>>, Later)
           /\ ToSet(down \o <<c, d>>) = ToSet(down) \cup {c, d}
           /\ Append(down, c) \in Seq(DownLines) /\ Sorted(Append(down, c), Later)
           /\ ToSet(Append(down, c)) = ToSet(down) \cup {c}
<1>1. down \in Seq(DownLines) /\ Sorted(down, Later) /\ ToSet(down) \subseteq DownLines
  BY Streams DEF SessionInv, MessagesOK
<1>2. ASSUME NEW a \in DownLines, NEW b \in {c, d} PROVE <<a, b>> \in Later BY DEF Later
<1>3. <<c, d>> \in Seq(DownLines) OBVIOUS
<1>4. ToSet(<<c, d>>) = {c, d} BY DEF ToSet
<1>5. Sorted(<<c, d>>, Later)
  <2>1. <<c, d>> \in Later BY <1>2
  <2> QED BY <2>1 DEF Sorted
<1>6. ToSet(down) \X {c, d} \subseteq Later
  <2> DEFINE both == {c, d}
  <2>1. \A a \in ToSet(down), b \in both : <<a, b>> \in Later BY <1>1, <1>2
  <2> HIDE DEF both
  <2>2. ToSet(down) \X both \subseteq Later BY <2>1
  <2> QED BY <2>2 DEF both
<1>7. ToSet(down) \X {c} \subseteq Later
  <2>1. \A a \in ToSet(down), b \in {c} : <<a, b>> \in Later BY <1>1, <1>2
  <2> QED BY <2>1
<1>8. /\ down \o <<c, d>> \in Seq(DownLines) /\ Sorted(down \o <<c, d>>, Later)
      /\ ToSet(down \o <<c, d>>) = ToSet(down) \cup {c, d}
  <2> DEFINE t == <<c, d>>
  <2>1. t \in Seq(DownLines) /\ ToSet(t) = {c, d} /\ Sorted(t, Later)
        /\ ToSet(down) \X ToSet(t) \subseteq Later
    <3>1. ToSet(t) = {c, d} BY <1>4
    <3> QED BY <1>3, <1>5, <1>6, <3>1
  <2> HIDE DEF t
  <2>2. down \o t \in Seq(DownLines) /\ ToSet(down \o t) = ToSet(down) \cup ToSet(t)
    BY <1>1, <2>1, InBoth
  <2>3. Sorted(down \o t, Later) BY <1>1, <2>1, SortedBoth
  <2> QED BY <2>1, <2>2, <2>3 DEF t
<1>9. /\ Append(down, c) \in Seq(DownLines) /\ Sorted(Append(down, c), Later)
      /\ ToSet(Append(down, c)) = ToSet(down) \cup {c}
  BY <1>1, <1>7, InAppend, SortedAppend
<1> QED BY <1>8, <1>9

\* A command that is written, and no follow-up, preserves the invariant: the answer to a
\* question, or the cancellation.
LEMMA CommandPreserves ==
    ASSUME SessionInv, caller.op = "none", task \notin Final,
           UNCHANGED <<loopVars, announced, up, hostTurn, hostComplete, main, inFlight, refusal,
                       stopped, held, sent, accepted, reported, unrecorded, givenUp>>, held,
           down' \in Seq(DownLines), Sorted(down', Later), ToSet(down) \subseteq ToSet(down'),
           NEW kinds \in SUBSET {"answer", "cancel", "close"},
           \A a \in ToSet(down') : a \in ToSet(down) \/ a.kind \in kinds,
           token' = Nothing,
           (caller').op \in {"none", "closing"}, caller' \in [op : {"none", "closing"}, n : Nat],
           \/ /\ kinds = {"answer"} /\ cancelRequested' = cancelRequested
              /\ caller' = caller /\ buffer' = buffer /\ waitingFor' = Nothing
              /\ task' = "running"
              /\ ~ cancelRequested => \A a \in ToSet(buffer) : a.kind # "question"
           \/ /\ cancelRequested' = TRUE /\ task' = "cancelling" /\ waitingFor' = waitingFor
              /\ buffer' = <<>> /\ FirstTerminal(buffer) = 0
              /\ main # "gone" => (caller').op = "closing"
    PROVE  SessionInv'
<1> USE DEF loopVars
<1>1. /\ SessionTypeOK /\ StreamsOK /\ LoopOK /\ MessagesOK /\ OrderOK /\ TaskOK /\ PresentOK
      /\ SaidOK /\ CancelKeepsResult /\ CompleteOK /\ SendOK
  BY DEF SessionInv
<1>2. Taken = {} /\ Taken' = {} BY DEF Taken, Terminal
<1>3. /\ Read' \subseteq Read /\ Coming' = Coming /\ ToSet(buffer') \subseteq ToSet(buffer)
      /\ \A R : InOrder(R) => InOrder(R)'
  <2>1. UNCHANGED <<up, out>> OBVIOUS
  <2>2. \/ buffer' = buffer /\ Taken' \subseteq Taken
        \/ buffer' = <<>> /\ Taken' \subseteq Read
    BY <1>2
  <2> QED BY <1>1, <2>1, <2>2, LessRead
<1>4. \A a \in ToSet(down') : a.kind = "followup" => a \in ToSet(down) OBVIOUS
<1>5. (caller').op \notin {"sending", "asking"} OBVIOUS
<1>6. /\ waitingFor' \in {waitingFor, Nothing} /\ task' \in {"running", "cancelling"}
      /\ cancelRequested' \in BOOLEAN
  BY <1>1, Values
<1>7. buffer' \in Seq(Lines(Events))
  <2>1. <<>> \in Seq(Lines(Events)) OBVIOUS
  <2> QED BY <1>1, <2>1, Streams
<1>8. SessionTypeOK' /\ StreamsOK'
  <2>1. SessionTypeOK' BY <1>1, <1>6, <1>7 DEF SessionTypeOK, Events, DownLines
  <2>2. caller' \in [op : Terminal \cup {"none", "looking", "asking", "sending", "closing"}, n : Nat]
    OBVIOUS
  <2>3. StreamsOK' BY <1>1, <1>6, <2>2 DEF StreamsOK, Nothing
  <2> QED BY <2>1, <2>3
<1>9. LoopOK'
  <2>1. cancelled \/ (\E a \in ToSet(down') : a.kind \in {"cancel", "close"}) => cancelRequested'
    BY <1>1 DEF LoopOK
  <2>2. main = "leaving" => drive = "stopped" \/ cancelRequested' BY <1>1 DEF LoopOK
  <2> QED BY <1>1, <2>1, <2>2 DEF LoopOK
<1>10. MessagesOK' BY <1>1, <1>4, <1>5 DEF MessagesOK
<1>11. OrderOK'
  <2>1. InOrder(Rising)' BY <1>1, <1>3 DEF OrderOK
  <2>2. Read' \cup Coming' \subseteq Read \cup Coming BY <1>3
  <2>3. \A a \in Read \cup Coming : a.kind = "question" => waitingFor' < a.n
    <3>1. waitingFor \in Nat /\ \A a \in Read \cup Coming : a.n \in Nat
      BY <1>1, Values, Streams DEF UpLines, Lines
    <3> QED BY <1>1, <1>6, <3>1 DEF OrderOK, Nothing
  <2>4. waitingFor' <= asked
    <3>1. waitingFor <= asked /\ 0 <= asked BY <1>1, Values DEF OrderOK
    <3> QED BY <1>6, <3>1 DEF Nothing
  <2>5. Running' = Running BY DEF Running
  <2> QED BY <1>1, <1>5, <2>1, <2>2, <2>3, <2>4, <2>5 DEF OrderOK
<1>12. TaskOK'
  <2>1. ~ cancelRequested' => \A a \in ToSet(buffer') : a.kind # "question" OBVIOUS
  <2>2. cancelRequested' /\ main # "gone" => task' = "cancelling" /\ (caller').op = "closing"
    BY <1>1 DEF TaskOK
  <2>3. task' \notin Final /\ task' # "waiting_for_user" BY <1>6 DEF Final
  <2> QED BY <1>1, <1>5, <2>1, <2>2, <2>3 DEF TaskOK
<1>13. PresentOK'
  <2>1. ~ cancelRequested' => ~ cancelRequested BY <1>1, Values
  <2> QED BY <1>1, <1>3, <2>1 DEF PresentOK
<1>14. SaidOK'
  <2> SUFFICES ASSUME ~ givenUp, Owed
               PROVE  Event("succeeded", said) \in Read' \cup ToSet(up)
    BY DEF SaidOK, Owed
  <2> DEFINE s == Event("succeeded", said)
  <2>1. s \in ToSet(buffer) \cup ToSet(up) BY <1>1, <1>2 DEF SaidOK, Read, Final
  <2>2. s \in ToSet(buffer) => FirstTerminal(buffer) # 0 BY FirstResult
  <2>3. buffer' = buffer \/ FirstTerminal(buffer) = 0 OBVIOUS
  <2> HIDE DEF s
  <2>4. s \in ToSet(buffer) => s \in Read' BY <2>2, <2>3 DEF Read
  <2> QED BY <2>1, <2>4 DEF s
<1>15. CancelKeepsResult' BY <1>6 DEF CancelKeepsResult
<1>16. CompleteOK'
  <2>1. \A k : Only(k) => Only(k)' BY <1>3 DEF Only
  <2>2. task' # "ready_for_followup" BY <1>6
  <2>3. ~ cancelRequested' => ~ cancelRequested BY <1>1, Values
  <2>4. NoFollowup => NoFollowup' BY <1>4 DEF NoFollowup
  <2>5. Rest' = Rest BY DEF Rest
  <2> QED BY <1>1, <1>5, <2>1, <2>2, <2>3, <2>4, <2>5 DEF CompleteOK
<1>17. SendOK' BY <1>5 DEF SendOK
<1> QED BY <1>8, <1>9, <1>10, <1>11, <1>12, <1>13, <1>14, <1>15, <1>16, <1>17 DEF SessionInv

\* Answer preserves the invariant.
LEMMA AnswerPreserves ==
    ASSUME SessionInv, Answer PROVE SessionInv'
<1>1. /\ SessionTypeOK /\ StreamsOK /\ OrderOK /\ TaskOK BY DEF SessionInv
<1> DEFINE c == Event("answer", waitingFor)
<1>2. /\ caller = Idle /\ task = "waiting_for_user" /\ token = waitingFor /\ main # "gone"
      /\ token' = Nothing /\ down' = Append(down, c) /\ waitingFor' = Nothing /\ task' = "running"
      /\ UNCHANGED <<loopVars, announced, up, hostTurn, hostComplete, main, inFlight, refusal,
                     cancelRequested, stopped, held, buffer, caller, sent, accepted, reported,
                     unrecorded, givenUp>>
  BY DEF Answer, Others
<1>3. c \in DownLines /\ c.kind = "answer"
  BY <1>1, Values DEF Event, DownLines, Lines
<1> HIDE DEF c
<1>4. /\ down' \in Seq(DownLines) /\ Sorted(down', Later) /\ ToSet(down') = ToSet(down) \cup {c}
  BY <1>2, <1>3, Written
<1>5. /\ caller.op = "none" /\ task \notin Final /\ caller' \in [op : {"none", "closing"}, n : Nat]
      /\ (caller').op \in {"none", "closing"} /\ held
  BY <1>1, <1>2, Values DEF Idle, Final, Nothing, TaskOK
<1>6. ~ cancelRequested => \A a \in ToSet(buffer) : a.kind # "question"
  <2>1. ASSUME NEW a \in ToSet(buffer), a.kind = "question", ~ cancelRequested PROVE FALSE
    <3>1. waitingFor < a.n BY <1>1, <2>1 DEF OrderOK, Read
    <3>2. a.n <= waitingFor BY <1>1, <1>2, <2>1 DEF TaskOK
    <3>3. a.n \in Nat /\ waitingFor \in Nat BY <1>1, Values, Streams DEF Lines
    <3> QED BY <3>1, <3>2, <3>3
  <2> QED BY <2>1
<1>7. \A a \in ToSet(down') : a \in ToSet(down) \/ a.kind \in {"answer"} BY <1>3, <1>4
<1>8. ToSet(down) \subseteq ToSet(down') /\ {"answer"} \in SUBSET {"answer", "cancel", "close"}
  BY <1>4
<1> QED BY <1>2, <1>4, <1>5, <1>6, <1>7, <1>8, CommandPreserves

\* Cancel preserves the invariant.
LEMMA CancelPreserves ==
    ASSUME SessionInv, Cancel PROVE SessionInv'
<1>1. /\ SessionTypeOK /\ StreamsOK /\ TaskOK /\ LoopOK BY DEF SessionInv
<1> DEFINE i == FirstTerminal(buffer)
<1>2. /\ caller = Idle /\ task \notin Final /\ task' = "cancelling"
      /\ UNCHANGED <<loopVars, announced, up, hostTurn, hostComplete, main, inFlight, refusal,
                     stopped, held, waitingFor, sent, accepted, answered, reported, unrecorded,
                     givenUp>>
      /\ ~ held => UNCHANGED <<buffer, caller, down, token, cancelRequested>>
      /\ held => buffer' = <<>>
      /\ held /\ i # 0 =>
            /\ caller' = [op |-> buffer[i].kind, n |-> buffer[i].n]
            /\ UNCHANGED <<down, token, cancelRequested>>
      /\ held /\ i = 0 =>
                  /\ cancelRequested' = TRUE /\ token' = Nothing
                  /\ down' = down \o <<Event("cancel", Nothing), Event("close", Nothing)>>
                  /\ caller' = [op |-> IF stopped \/ main # "gone" THEN "closing" ELSE "none",
                                n |-> Nothing]
  BY DEF Cancel, Others, Open, Call, RequestCancel
<1>3. caller.op = "none" BY <1>2 DEF Idle
<1>4. /\ ~ (cancelRequested /\ main # "gone") /\ held' \in BOOLEAN
      /\ ~ held => stopped
  BY <1>1, <1>2, <1>3, Values DEF TaskOK
<1>7. CASE ~ held
  <2>1. caller' \in [op : Terminal \cup {"none", "looking", "asking"}, n : Nat] /\ caller' = Idle
    BY <1>2, <1>7 DEF Idle, Nothing
  <2>2. UNCHANGED <<mainVars, pipes>> BY <1>2, <1>7 DEF mainVars, pipes
  <2>3. (caller').op \in {"none", "looking"} BY <2>1 DEF Idle
  <2> QED BY <1>2, <1>3, <1>4, <1>7, <2>1, <2>2, <2>3, LookPreserves
<1>5. CASE held /\ i # 0
  <2>1. buffer[i] \in ToSet(buffer) /\ buffer[i].kind \in Terminal
        /\ ToSet(buffer) \subseteq Lines(Events)
    BY <1>1, <1>5, Streams, FirstFound
  <2> HIDE DEF i
  <2>2. caller' = [op |-> buffer[i].kind, n |-> buffer[i].n] /\ UNCHANGED <<down, token, cancelRequested>>
    BY <1>2, <1>5
  <2>3. buffer[i].n \in Nat BY <2>1 DEF Lines
  <2>4. caller' \in [op : Terminal \cup {"none", "looking", "asking"}, n : Nat]
    BY <2>1, <2>2, <2>3
  <2>5. UNCHANGED <<mainVars, pipes>> BY <1>2, <2>2 DEF mainVars, pipes
  <2> QED BY <1>2, <1>3, <1>4, <1>5, <2>2, <2>4, <2>5, LookPreserves DEF i
<1>6. CASE held /\ i = 0
  <2> DEFINE c == Event("cancel", Nothing)
             d == Event("close", Nothing)
  <2>1. c \in DownLines /\ c.kind = "cancel" /\ d \in DownLines /\ d.kind = "close"
    BY DEF Event, DownLines, Lines, Nothing
  <2>2. down' = down \o <<c, d>> BY <1>2, <1>6
  <2> HIDE DEF c, d, i
  <2>3. /\ down' \in Seq(DownLines) /\ Sorted(down', Later) /\ ToSet(down') = ToSet(down) \cup {c, d}
    BY <2>1, <2>2, Written
  <2>4. /\ caller' \in [op : {"none", "closing"}, n : Nat] /\ (caller').op \in {"none", "closing"}
        /\ (main # "gone" => (caller').op = "closing")
    BY <1>2, <1>6 DEF Nothing
  <2>5. \A a \in ToSet(down') : a \in ToSet(down) \/ a.kind \in {"cancel", "close"} BY <2>1, <2>3
  <2>6. /\ ToSet(down) \subseteq ToSet(down')
        /\ {"cancel", "close"} \in SUBSET {"answer", "cancel", "close"}
    BY <2>3
  <2>7. cancelRequested' = TRUE /\ token' = Nothing BY <1>2, <1>6
  <2> QED BY <1>2, <1>3, <1>6, <2>3, <2>4, <2>5, <2>6, <2>7, CommandPreserves DEF i
<1> QED BY <1>5, <1>6, <1>7

\* ForgetFinished preserves the invariant.
LEMMA ForgetFinishedPreserves ==
    ASSUME SessionInv, ForgetFinished PROVE SessionInv'
<1>1. /\ SessionTypeOK /\ StreamsOK /\ TaskOK BY DEF SessionInv
<1>2. /\ caller = Idle /\ held /\ stopped /\ held' = FALSE
      /\ UNCHANGED <<loopVars, announced, up, hostTurn, hostComplete, main, down, inFlight, refusal,
                     token, cancelRequested, stopped, buffer, task, waitingFor, caller, sent,
                     accepted, answered, reported, unrecorded, givenUp>>
  BY DEF ForgetFinished, Others
<1>3. /\ caller.op = "none" /\ (caller').op = "none" /\ caller' = Idle
      /\ caller' \in [op : Terminal \cup {"none", "looking", "asking"}, n : Nat]
  BY <1>2 DEF Idle, Nothing
<1>4. UNCHANGED <<mainVars, pipes>> BY <1>2 DEF mainVars, pipes
<1>5. task \notin Final /\ ~ (cancelRequested /\ main # "gone") /\ held' \in BOOLEAN
  BY <1>1, <1>2, <1>3 DEF TaskOK
<1> QED BY <1>2, <1>3, <1>4, <1>5, LookPreserves

\* SendFollowup preserves the invariant: what it knows says that the turn is at rest.
LEMMA SendFollowupPreserves ==
    ASSUME SessionInv, SendFollowup PROVE SessionInv'
<1> USE DEF loopVars
<1>1. /\ SessionTypeOK /\ StreamsOK /\ LoopOK /\ MessagesOK /\ OrderOK /\ TaskOK /\ PresentOK
      /\ SaidOK /\ CancelKeepsResult /\ CompleteOK /\ SendOK
  BY DEF SessionInv
<1> DEFINE c == Event("followup", sent')
<1>2. /\ caller = Idle /\ task \in {"ready_for_followup", "waiting_for_user"} /\ sent < MaxFollowups
      /\ ~ stopped /\ hostComplete /\ token = Nothing /\ main # "gone"
      /\ sent' = sent + 1 /\ down' = Append(down, c) /\ inFlight' = TRUE /\ refusal' = FALSE
      /\ caller' = [op |-> "sending", n |-> hostTurn]
      /\ UNCHANGED <<loopVars, announced, up, hostTurn, hostComplete, main, token,
                     cancelRequested, stopped, held, buffer, task, waitingFor, accepted, answered,
                     reported, unrecorded, givenUp>>
  BY DEF SendFollowup, Others, Call
<1>3. /\ sent \in Nat /\ sent' \in 0 .. MaxFollowups /\ turn \in Nat /\ message \in Nat
      /\ waitingFor \in Nat /\ hostTurn \in Nat /\ sent' \in Nat
  BY <1>1, <1>2, Values DEF StreamsOK
<1>4. c \in DownLines /\ c.kind = "followup" /\ c.n = sent'
  BY <1>3 DEF Event, DownLines, Lines
<1> HIDE DEF c
<1>5. down \in Seq(DownLines) /\ ToSet(down) \subseteq DownLines BY <1>1, Streams
<1>6. down' \in Seq(DownLines) /\ ToSet(down') = ToSet(down) \cup {c} BY <1>2, <1>4, <1>5, InAppend
<1>7. Sorted(down', Later)
  <2>1. ASSUME NEW a \in ToSet(down) PROVE <<a, c>> \in Later
    <3>1. a \in DownLines /\ (a.kind = "followup" => a.n <= sent) BY <1>1, <1>5 DEF MessagesOK
    <3>2. a.n \in Nat BY <3>1 DEF DownLines, Lines
    <3>3. a.kind = "followup" => a.n < c.n BY <1>2, <1>3, <1>4, <3>1, <3>2
    <3> QED BY <1>4, <3>1, <3>3 DEF Later
  <2>2. ToSet(down) \X {c} \subseteq Later BY <2>1
  <2>3. Sorted(Append(down, c), Later) BY <1>1, <1>4, <1>5, <2>2, SortedAppend DEF MessagesOK
  <2> QED BY <1>2, <2>3
<1>8. /\ caller.op = "none" /\ (caller').op = "sending" /\ (caller').n = hostTurn
      /\ Taken = {} /\ Taken' = {}
  BY <1>2 DEF Idle, Taken, Terminal
<1>9. ~ cancelRequested BY <1>1, <1>2, <1>8 DEF TaskOK
<1>10. task = "ready_for_followup" BY <1>1, <1>2, <1>3, <1>9 DEF TaskOK, Nothing
<1>11. /\ Read' \subseteq Read /\ Coming' = Coming /\ ToSet(buffer') \subseteq ToSet(buffer)
       /\ \A R : InOrder(R) => InOrder(R)'
  <2>1. UNCHANGED <<up, out>> /\ buffer' = buffer /\ Taken' \subseteq Taken BY <1>2, <1>8
  <2> QED BY <1>1, <2>1, LessRead
<1>12. ~ givenUp => /\ Only({"finished"}) /\ Rest /\ hostTurn = turn /\ NoFollowup
  BY <1>1, <1>2, <1>8, <1>9, <1>10 DEF CompleteOK
<1>13. SessionTypeOK' /\ StreamsOK'
  <2>1. accepted' \cup queried' \subseteq 1 .. sent' BY <1>1, <1>2, <1>3 DEF SessionTypeOK
  <2>2. SessionTypeOK' BY <1>1, <1>2, <1>6, <2>1 DEF SessionTypeOK, DownLines
  <2>3. caller' \in [op : Terminal \cup {"none", "looking", "asking", "sending", "closing"}, n : Nat]
    BY <1>2, <1>3
  <2>4. StreamsOK' BY <1>1, <1>2, <1>3, <2>3 DEF StreamsOK
  <2> QED BY <2>2, <2>4
<1>14. LoopOK' BY <1>1, <1>2, <1>4, <1>6 DEF LoopOK
<1>15. MessagesOK'
  <2>1. sent < c.n /\ turn <= c.n /\ message < c.n /\ c.n <= sent'
    BY <1>1, <1>2, <1>3, <1>4 DEF MessagesOK
  <2>2. ASSUME NEW a \in ToSet(down'), a.kind = "followup"
        PROVE  message < a.n /\ turn <= a.n /\ a.n <= sent'
    <3>1. CASE a = c BY <2>1, <3>1
    <3>2. CASE a \in ToSet(down)
      <4>1. a.n \in Nat BY <1>5, <3>2 DEF DownLines, Lines
      <4>2. message < a.n /\ turn <= a.n /\ a.n <= sent BY <1>1, <2>2, <3>2 DEF MessagesOK
      <4> QED BY <1>2, <1>3, <4>1, <4>2
    <3> QED BY <1>6, <2>2, <3>1, <3>2
  <2>3. message <= sent' /\ turn <= sent' + 1 /\ 0 < sent'
    BY <1>1, <1>2, <1>3 DEF MessagesOK
  <2> QED BY <1>1, <1>2, <1>7, <2>2, <2>3 DEF MessagesOK
<1>16. OrderOK'
  <2>1. InOrder(Rising)' BY <1>1, <1>11 DEF OrderOK
  <2>2. Read' \cup Coming' \subseteq Read \cup Coming BY <1>11
  <2>3. Running' = Running BY <1>2 DEF Running
  <2> QED BY <1>1, <1>2, <1>8, <2>1, <2>2, <2>3 DEF OrderOK
<1>17. TaskOK' BY <1>1, <1>2, <1>8, <1>9, <1>10 DEF TaskOK, Final
<1>18. PresentOK' BY <1>1, <1>2, <1>11 DEF PresentOK
<1>19. SaidOK' /\ CancelKeepsResult'
  <2>1. Read' = Read BY <1>2, <1>8 DEF Read
  <2> QED BY <1>1, <1>2, <2>1 DEF SaidOK, Owed, CancelKeepsResult
<1>20. CompleteOK'
  <2>1. \A k : Only(k) => Only(k)' BY <1>11 DEF Only
  <2>2. Rest' = Rest BY <1>2 DEF Rest
  <2> QED BY <1>1, <1>2, <1>8, <2>1, <2>2 DEF CompleteOK
<1>21. SendOK'
  <2> SUFFICES ASSUME ~ givenUp PROVE Undelivered' BY <1>2 DEF SendOK
  <2>1. Only({"finished"})' BY <1>11, <1>12 DEF Only
  <2>2. Only({"failed", "finished"})' BY <2>1 DEF Only
  <2>3. Rest' /\ turn' = (caller').n BY <1>2, <1>8, <1>12 DEF Rest
  <2>4. \A a \in ToSet(down') : a.kind = "followup" => a.n = sent'
    BY <1>4, <1>6, <1>12 DEF NoFollowup
  <2> QED BY <1>2, <1>8, <2>1, <2>2, <2>3, <2>4 DEF Undelivered
<1> QED BY <1>13, <1>14, <1>15, <1>16, <1>17, <1>18, <1>19, <1>20, <1>21 DEF SessionInv

\* EndFollowup preserves the invariant: what is accepted was given to Claude.
LEMMA EndFollowupPreserves ==
    ASSUME SessionInv, NEW outcome \in {"refused", "accepted", "late"}, EndFollowup(outcome)
    PROVE  SessionInv'
<1> USE DEF loopVars
<1>1. /\ SessionTypeOK /\ StreamsOK /\ LoopOK /\ MessagesOK /\ OrderOK /\ TaskOK /\ PresentOK
      /\ SaidOK /\ CancelKeepsResult /\ CompleteOK /\ SendOK
  BY DEF SessionInv
<1>2. /\ caller.op = "sending" /\ caller' = Idle
      /\ outcome = "refused" => refusal \/ stopped
      /\ outcome = "accepted" => ~ refusal /\ ~ stopped /\ Started
      /\ inFlight' = (IF outcome = "accepted" THEN inFlight ELSE FALSE)
      /\ refusal' = (IF outcome = "refused" THEN FALSE ELSE refusal)
      /\ outcome = "accepted" =>
            accepted' = accepted \cup {sent} /\ task' = "running" /\ waitingFor' = Nothing
      /\ outcome # "accepted" => UNCHANGED <<accepted, task, waitingFor>>
      /\ givenUp' = (givenUp \/ outcome = "late")
      /\ UNCHANGED <<loopVars, announced, up, hostTurn, hostComplete, main, down, token,
                     cancelRequested, stopped, held, buffer, sent, answered, reported, unrecorded>>
  BY DEF EndFollowup, Others
<1>3. task = "ready_for_followup" /\ ~ cancelRequested BY <1>1, <1>2 DEF TaskOK
<1>4. (caller').op = "none" /\ Taken = {} /\ Taken' = {} BY <1>2 DEF Idle, Taken, Terminal
<1>5. ~ givenUp' => ~ givenUp /\ outcome # "late" BY <1>1, <1>2, Values
<1>6. outcome = "accepted" /\ ~ givenUp => Delivered
  <2>1. Undelivered => ~ Started
    <3>1. hostTurn \in Nat BY <1>1, Values
    <3> QED BY <3>1 DEF Undelivered, Started
  <2> QED BY <1>1, <1>2, <2>1 DEF SendOK
<1>7. ~ givenUp /\ outcome = "refused" => stopped /\ main = "gone"
  BY <1>1, <1>2 DEF CompleteOK, LoopOK
<1>8. /\ Read' = Read /\ Coming' = Coming /\ \A R : InOrder(R) => InOrder(R)'
  BY <1>2, <1>4 DEF Read, Coming, InOrder
<1>9. /\ sent \in Nat /\ waitingFor \in Nat /\ asked \in Nat /\ inFlight' \in BOOLEAN
      /\ refusal' \in BOOLEAN /\ givenUp' \in BOOLEAN
  BY <1>1, <1>2, Values
<1>10. /\ task' \in {"ready_for_followup", "running"} /\ (task' = "ready_for_followup" => outcome # "accepted")
       /\ waitingFor' \in {waitingFor, Nothing}
  BY <1>2, <1>3
<1>11. SessionTypeOK' /\ StreamsOK'
  <2>1. accepted' \cup queried' \subseteq 1 .. sent'
    <3>1. sent \in 1 .. sent BY <1>1, <1>2, <1>9 DEF MessagesOK
    <3> QED BY <1>1, <1>2, <3>1 DEF SessionTypeOK
  <2>2. {complete, cancelled, announced, hostComplete, inFlight', refusal',
         cancelRequested, stopped, held, givenUp'} \subseteq BOOLEAN
    BY <1>1, <1>9, Values
  <2>6. task' \in {"running", "waiting_for_user", "ready_for_followup", "cancelling"} \cup Final
    BY <1>10
  <2>3. SessionTypeOK' BY <1>1, <1>2, <2>1, <2>2, <2>6 DEF SessionTypeOK
  <2>4. Idle \in [op : Terminal \cup {"none", "looking", "asking", "sending", "closing"}, n : Nat]
    BY DEF Idle, Nothing
  <2>5. StreamsOK' BY <1>1, <1>2, <1>10, <2>4 DEF StreamsOK, Nothing
  <2> QED BY <2>3, <2>5
<1>12. LoopOK' BY <1>1, <1>2 DEF LoopOK
<1>13. MessagesOK' BY <1>1, <1>2, <1>4 DEF MessagesOK
<1>14. OrderOK'
  <2>1. InOrder(Rising)' BY <1>1, <1>8 DEF OrderOK
  <2>2. \A a \in Read \cup Coming : a.kind = "question" => waitingFor' < a.n
    <3>1. \A a \in Read \cup Coming : a.n \in Nat BY <1>1, Streams DEF UpLines, Lines
    <3> QED BY <1>1, <1>9, <1>10, <3>1 DEF OrderOK, Nothing
  <2>3. waitingFor' <= asked BY <1>1, <1>9, <1>10 DEF OrderOK, Nothing
  <2>4. Running' = Running BY <1>2 DEF Running
  <2> QED BY <1>1, <1>2, <1>4, <1>8, <2>1, <2>2, <2>3, <2>4 DEF OrderOK
<1>15. TaskOK' BY <1>1, <1>2, <1>3, <1>4, <1>10 DEF TaskOK, Final
<1>16. PresentOK'
  <2>1. ~ givenUp' => accepted' \subseteq queried
    BY <1>1, <1>2, <1>5, <1>6 DEF PresentOK, Delivered
  <2> QED BY <1>1, <1>2, <1>5, <1>8, <2>1 DEF PresentOK
<1>17. SaidOK' BY <1>1, <1>2, <1>3, <1>5, <1>8 DEF SaidOK, Owed
<1>18. CancelKeepsResult' BY <1>10 DEF CancelKeepsResult
<1>19. CompleteOK'
  <2> SUFFICES ASSUME ~ givenUp' PROVE CompleteOK' BY DEF CompleteOK
  <2>0. ~ givenUp /\ outcome # "late" BY <1>5
  <2>1. \A k : Only(k) => Only(k)' BY <1>2, <1>8 DEF Only
  <2>2. Rest' = Rest BY <1>2 DEF Rest
  <2>3. ~ refusal' BY <1>1, <1>2, <2>0 DEF CompleteOK
  <2>4. main # "gone" => message = Nothing /\ NoFollowup
    BY <1>6, <1>7, <2>0 DEF Delivered
  <2>5. hostComplete /\ ~ stopped =>
           Rest /\ hostTurn = turn /\ \A a \in ToSet(up) : a.kind # "turn_complete"
    <3> SUFFICES ASSUME hostComplete, ~ stopped
                 PROVE  Rest /\ hostTurn = turn /\ \A a \in ToSet(up) : a.kind # "turn_complete"
      OBVIOUS
    <3>1. outcome = "accepted" BY <1>7, <2>0
    <3>2. hostTurn # caller.n
      <4>1. hostTurn > caller.n /\ hostTurn \in Nat /\ caller.n \in Nat
        BY <1>1, <1>2, <3>1, Values DEF Started
      <4> QED BY <4>1
    <3> QED BY <1>1, <1>3, <2>0, <3>2 DEF CompleteOK
  <2>6. task' = "ready_for_followup" => stopped BY <1>7, <1>10, <2>0
  <2>7. \A a \in ToSet(up) : a.kind = "turn_complete" => a.n = turn /\ Rest
    BY <1>1, <1>3, <2>0 DEF CompleteOK
  <2>8. Only(Events \cup {"turn_complete", "finished"}) BY <1>1, <2>0 DEF CompleteOK
  <2> QED BY <1>2, <1>3, <1>4, <2>1, <2>2, <2>3, <2>4, <2>5, <2>6, <2>7, <2>8
          DEF CompleteOK, NoFollowup
<1>20. SendOK' BY <1>4 DEF SendOK
<1> QED BY <1>11, <1>12, <1>13, <1>14, <1>15, <1>16, <1>17, <1>18, <1>19, <1>20 DEF SessionInv

\* Finish preserves the invariant.
LEMMA FinishPreserves ==
    ASSUME SessionInv, Finish PROVE SessionInv'
<1> USE DEF loopVars
<1>1. /\ SessionTypeOK /\ StreamsOK /\ LoopOK /\ MessagesOK /\ OrderOK /\ TaskOK /\ PresentOK
      /\ SaidOK /\ CancelKeepsResult /\ CompleteOK /\ SendOK
  BY DEF SessionInv
<1>2. /\ caller = Idle /\ task = "ready_for_followup" /\ task' = "completed" /\ main' = "gone" /\ stopped' = TRUE
      /\ held' = FALSE
      /\ UNCHANGED <<loopVars, announced, up, hostTurn, hostComplete, down, inFlight, refusal, token,
                     cancelRequested, buffer, waitingFor, caller, sent, accepted, answered,
                     reported, unrecorded, givenUp>>
  BY DEF Finish, Others, Retire
<1>3. Read' = Read /\ Coming' = Coming /\ \A R : InOrder(R) => InOrder(R)'
  BY <1>2 DEF Read, Taken, Coming, InOrder
<1>4. SessionTypeOK' /\ StreamsOK' BY <1>1, <1>2 DEF SessionTypeOK, StreamsOK, Final
<1>5. LoopOK' BY <1>1, <1>2 DEF LoopOK
<1>6. MessagesOK' BY <1>1, <1>2 DEF MessagesOK
<1>7. OrderOK' BY <1>1, <1>2, <1>3 DEF OrderOK, Running
<1>8. TaskOK' BY <1>1, <1>2 DEF TaskOK, Idle
<1>9. PresentOK' BY <1>1, <1>2, <1>3 DEF PresentOK
<1>10. SaidOK' /\ CancelKeepsResult' BY <1>2 DEF SaidOK, Owed, CancelKeepsResult
<1>11. CompleteOK' BY <1>1, <1>2, <1>3 DEF CompleteOK, Only, NoFollowup, Rest
<1>12. SendOK' BY <1>2 DEF SendOK, Idle
<1> QED BY <1>4, <1>5, <1>6, <1>7, <1>8, <1>9, <1>10, <1>11, <1>12 DEF SessionInv
-----------------------------------------------------------------------------
(* The theorems.                                                            *)

\* It holds of a session that has just been started.
LEMMA StartedInv == SessionInit => SessionInv
<1> SUFFICES ASSUME SessionInit PROVE SessionInv OBVIOUS
<1>1. ToSet(<<>>) = {} BY InNothing
<1>2. /\ drive = "working" /\ turn = 1 /\ complete = FALSE /\ message = 0
      /\ cancelled = FALSE /\ question = NoQuestion /\ asked = 0 /\ out = <<>>
      /\ main = "get" /\ announced = FALSE /\ up = <<>> /\ down = <<>>
      /\ hostTurn = 1 /\ hostComplete = FALSE /\ inFlight = FALSE /\ refusal = FALSE
      /\ token = 0 /\ cancelRequested = FALSE /\ stopped = FALSE /\ buffer = <<>>
      /\ held = TRUE /\ task = "running" /\ waitingFor = 0 /\ caller = [op |-> "none", n |-> 0]
      /\ sent = 0 /\ queried = {} /\ accepted = {} /\ heard = {}
      /\ said = 0 /\ reported = 0 /\ unrecorded = 0 /\ givenUp = FALSE
  BY DEF SessionInit, Nothing
<1>3. caller.op = "none" /\ caller.n = 0 BY <1>2
<1>4. Read = {} /\ Coming = {} /\ Taken = {} /\ ToSet(up) = {} /\ ToSet(down) = {} /\ ToSet(buffer) = {}
  BY <1>1, <1>2, <1>3 DEF Read, Coming, Taken, Terminal
<1>5. {MaxFollowups, MaxQuestions} \subseteq Nat BY AgentSessionAssumption
<1>6. SessionTypeOK
  <2>1. <<>> \in Seq(Lines(Terminal \cup {"activity", "question"}))
        /\ <<>> \in Seq(Lines({"followup", "answer", "cancel", "close"}))
    OBVIOUS
  <2>2. NoQuestion \in [token: 0 .. MaxQuestions, answer: BOOLEAN, cancelled: BOOLEAN]
    BY <1>5 DEF NoQuestion, Nothing
  <2>3. {1, 0} \subseteq 0 .. MaxFollowups + 1 /\ {0} \subseteq 0 .. MaxFollowups
        /\ {0} \subseteq 0 .. MaxQuestions
    BY <1>5
  <2>4. {complete, cancelled, announced, hostComplete, inFlight, refusal, cancelRequested, stopped,
         held, givenUp} \subseteq BOOLEAN
    BY <1>2
  <2>5. {turn, hostTurn, said, reported} \subseteq 0 .. MaxFollowups + 1 BY <1>2, <2>3
  <2>6. {message, sent} \subseteq 0 .. MaxFollowups BY <1>2, <2>3
  <2>7. {asked, token, waitingFor} \subseteq 0 .. MaxQuestions BY <1>2, <2>3
  <2> QED BY <1>2, <2>1, <2>2, <2>4, <2>5, <2>6, <2>7 DEF SessionTypeOK
<1>7. StreamsOK
  <2>1. <<>> \in Seq(UpLines) OBVIOUS
  <2> QED BY <1>2, <1>5, <2>1 DEF StreamsOK
<1>8. LoopOK
  <2>1. question.token = 0 BY <1>2 DEF NoQuestion, Nothing
  <2> QED BY <1>2, <1>4, <2>1 DEF LoopOK, Nothing
<1>9. MessagesOK BY <1>2, <1>3, <1>4, SortedNothing DEF MessagesOK, Nothing
<1>10. \A R : InOrder(R) BY <1>1, <1>2, <1>4, SortedNothing DEF InOrder, Chain
<1>11. OrderOK BY <1>2, <1>3, <1>4, <1>10 DEF OrderOK
<1>12. TaskOK BY <1>2, <1>3, <1>4 DEF TaskOK, Final
<1>13. PresentOK BY <1>2, <1>4, <1>10 DEF PresentOK
<1>14. SaidOK /\ CancelKeepsResult BY <1>2 DEF SaidOK, Owed, CancelKeepsResult
<1>15. CompleteOK BY <1>2, <1>3, <1>4 DEF CompleteOK, Only, NoFollowup, Nothing
<1>16. SendOK BY <1>3 DEF SendOK
<1> QED BY <1>6, <1>7, <1>8, <1>9, <1>11, <1>12, <1>13, <1>14, <1>15, <1>16 DEF SessionInv

\* Every step preserves the invariant, and reports only later turns.
LEMMA SessionStep ==
    ASSUME SessionInv, [SessionNext]_sessionVars
    PROVE  SessionInv' /\ (reported' # reported => reported < reported')
<1>1. CASE Loop
  <2>1. reported' = reported
    BY <1>1 DEF Loop, Ask, BreakOff, Park, WakeUp, EndDrive, StopAsking, EndTurn, Query,
                LoopStep, adapterVars
  <2>2. CASE Ask BY <2>1, <2>2, AskPreserves
  <2>3. CASE BreakOff
    <3>1. /\ main # "gone" /\ drive = "working" /\ drive' = "ending"
          /\ out' \in {out, Append(out, Event("failed", turn))}
          /\ UNCHANGED <<turn, complete, message, cancelled, question, asked, queried, heard,
                         said, mainVars, pipes, hostVars, adapterVars, deaths>>
      BY <2>3 DEF BreakOff, LoopStep
    <3>2. SessionInv' BY <3>1, TurnEndPreserves
    <3> QED BY <2>1, <3>2
  <2>4. CASE Park BY <2>1, <2>4, ParkPreserves
  <2>5. CASE WakeUp BY <2>1, <2>5, WakeUpPreserves
  <2>6. CASE EndDrive BY <2>1, <2>6, EndDrivePreserves
  <2>7. CASE \E timeout \in BOOLEAN : StopAsking(timeout) BY <2>1, <2>7, StopAskingPreserves
  <2>8. CASE \E kind \in {"succeeded", "failed"} : EndTurn(kind)
    <3>1. PICK kind \in {"succeeded", "failed"} : EndTurn(kind) BY <2>8
    <3>2. /\ main # "gone" /\ drive = "working" /\ drive' = "told"
          /\ out' = Append(out, Event(kind, turn))
          /\ UNCHANGED <<turn, complete, message, cancelled, question, asked, queried, heard,
                         said, mainVars, pipes, hostVars, adapterVars, deaths>>
      BY <3>1 DEF EndTurn, LoopStep
    <3>3. SessionInv' BY <3>2, TurnEndPreserves
    <3> QED BY <2>1, <3>3
  <2>9. CASE \E works \in BOOLEAN : Query(works) BY <2>1, <2>9, QueryPreserves
  <2> QED BY <1>1, <2>2, <2>3, <2>4, <2>5, <2>6, <2>7, <2>8, <2>9 DEF Loop
<1>2. CASE Main
  <2>1. reported' = reported
    BY <1>2 DEF Main, TakeClose, TakeAnswer, TakeFollowup, TakeCancel, NoCommand, Flush,
                Announce, Leave, Take, MainStep, adapterVars
  <2> QED BY <1>2, <2>1, TakeClosePreserves, TakeAnswerPreserves, TakeFollowupPreserves,
             TakeCancelPreserves, NoCommandPreserves, FlushPreserves, AnnouncePreserves,
             LeavePreserves DEF Main
<1>3. CASE Die
  <2>1. reported' = reported BY <1>3 DEF Die, adapterVars
  <2> QED BY <1>3, <2>1, GonePreserves
<1>4. CASE Reader
  <2>1. reported' = reported BY <1>4 DEF Reader, Absorb, EndOfFile, ReaderStep, adapterVars
  <2> QED BY <1>4, <2>1, AbsorbPreserves, EndOfFilePreserves DEF Reader
<1>5. CASE Caller
  <2>1. CASE SettleTurn BY <2>1, SettleTurnPreserves
  <2>2. CASE PutQuestion
    <3>1. reported' = reported BY <2>2 DEF PutQuestion
    <3> QED BY <2>2, <3>1, PutQuestionPreserves
  <2>3. CASE LookAround
    <3>1. CASE stopped BY <2>3, <3>1, LookLostPreserves
    <3>2. CASE ~ stopped BY <2>3, <3>2, LookAroundPreserves
    <3> QED BY <3>1, <3>2
  <2>4. CASE Kill
    <3>1. reported' = reported BY <2>4 DEF Kill, adapterVars
    <3> QED BY <2>4, <3>1, GonePreserves
  <2>5. CASE EndCancel BY <2>5, EndCancelPreserves
  <2>6. CASE \E outcome \in {"refused", "accepted", "late"} : EndFollowup(outcome)
    <3>1. reported' = reported BY <2>6 DEF EndFollowup
    <3> QED BY <2>6, <3>1, EndFollowupPreserves
  <2> QED BY <1>5, <2>1, <2>2, <2>3, <2>4, <2>5, <2>6 DEF Caller
<1>6. CASE Inspect \/ SendFollowup \/ Answer \/ Cancel \/ ForgetFinished \/ Finish
  <2>1. reported' = reported
    BY <1>6 DEF Inspect, SendFollowup, Answer, Cancel, ForgetFinished, Finish
  <2> QED BY <1>6, <2>1, InspectPreserves, SendFollowupPreserves, AnswerPreserves,
             CancelPreserves, ForgetFinishedPreserves, FinishPreserves
<1>7. CASE UNCHANGED sessionVars
  <2> USE <1>7 DEF sessionVars, loopVars, mainVars, pipes, hostVars, adapterVars
  <2>1. Read' = Read /\ Coming' = Coming /\ \A R : InOrder(R) => InOrder(R)'
    BY DEF Read, Taken, Coming, InOrder
  <2>2. SessionTypeOK' /\ StreamsOK' BY DEF SessionInv, SessionTypeOK, StreamsOK
  <2>3. LoopOK' BY DEF SessionInv, LoopOK
  <2>4. MessagesOK' BY DEF SessionInv, MessagesOK
  <2>5. OrderOK' BY <2>1 DEF SessionInv, OrderOK, Running
  <2>6. TaskOK' BY DEF SessionInv, TaskOK
  <2>7. PresentOK' BY <2>1 DEF SessionInv, PresentOK
  <2>8. SaidOK' /\ CancelKeepsResult' BY <2>1 DEF SessionInv, SaidOK, Owed, CancelKeepsResult
  <2>9. CompleteOK' BY <2>1 DEF SessionInv, CompleteOK, Only, NoFollowup, Rest
  <2>10. SendOK'
    <3>1. Delivered => Delivered' BY DEF Delivered, NoFollowup
    <3>2. Undelivered => Undelivered' BY <2>1 DEF Undelivered, NoFollowup, Rest, Only
    <3> QED BY <3>1, <3>2 DEF SessionInv, SendOK
  <2> QED BY <2>2, <2>3, <2>4, <2>5, <2>6, <2>7, <2>8, <2>9, <2>10 DEF SessionInv
<1> QED BY <1>1, <1>2, <1>3, <1>4, <1>5, <1>6, <1>7 DEF SessionNext

\* The inductive invariant holds in every behaviour.
THEOREM SessionInvariant == SessionSpec => []SessionInv
<1>1. SessionInit => SessionInv BY StartedInv
<1>2. SessionInv /\ [SessionNext]_sessionVars => SessionInv' BY SessionStep
<1> QED BY <1>1, <1>2, PTL DEF SessionSpec

\* What the daemon says of the session is true of the helper, for any number of follow-ups,
\* questions and deaths (send_followup, cancel, note_cancelled).
THEOREM SessionStaysSound == SessionSpec => []SessionIsSound
<1>1. SessionInv => SessionIsSound
  BY DEF SessionInv, SessionIsSound, AcceptedWasQueried, PresentOK
<1> QED BY <1>1, SessionInvariant, PTL

\* Each result is reported once and in its order (_settle, _begin_next_turn).
THEOREM ReportsStayInOrder == SessionSpec => ReportedInOrder
<1>1. ASSUME SessionInv, [SessionNext]_sessionVars
      PROVE  [/\ caller.op = "succeeded" => caller.n > reported
              /\ reported' # reported => reported' > reported]_sessionVars
  <2>1. reported \in Nat /\ caller.n \in Nat BY <1>1, Values DEF SessionInv
  <2>2. caller.op = "succeeded" => reported < caller.n
    <3>1. ASSUME caller.op = "succeeded" PROVE reported < caller.n
      <4> DEFINE f == Event(caller.op, caller.n)
      <4>1. f \in Read /\ f.kind = "succeeded" /\ f.n = caller.n
        BY <3>1 DEF Event, Read, Taken, Terminal
      <4> HIDE DEF f
      <4> QED BY <1>1, <4>1 DEF SessionInv, OrderOK
    <3> QED BY <3>1
  <2>3. reported' \in Nat /\ (reported' # reported => reported < reported')
    BY <1>1, SessionStep, Values DEF SessionInv, StreamsOK
  <2> QED BY <2>1, <2>2, <2>3
<1> QED BY <1>1, SessionInvariant, PTL DEF SessionSpec, ReportedInOrder

=============================================================================
