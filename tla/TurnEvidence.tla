----------------------------- MODULE TurnEvidence -----------------------------
(***************************************************************************)
(* From what a worker did to a repository to the verdict on a criterion.    *)
(*                                                                          *)
(* Before a worker is handed its turn, HEAD and the state of the tree are   *)
(* recorded as one word.  When it has its result the adapter runs git       *)
(* status once, the host runs git diff from the recorded HEAD, both become  *)
(* bounded lists of observations, a bundle is assembled from them, and each *)
(* criterion is judged from the bundle alone; what the worker claims is     *)
(* compared with it and decides nothing.                                    *)
(*                                                                          *)
(* The worker's world is here as Git sees it: for each path the content at  *)
(* HEAD, in the index and in the working tree.  A rename is detected by     *)
(* equal content.                                                           *)
(***************************************************************************)
EXTENDS Naturals, FiniteSets

CONSTANTS Paths, Contents, Absent, None,
          Room,         \* observations a status report has room for
          RangeRoom,    \* observations a range report has room for
          MaxSteps      \* what a worker does in a turn

ASSUME AbsentIsNoContent == Absent \notin Contents

VARIABLES phase,      \* "working", "reported", "ranged"
          base,       \* the tree of the HEAD the baseline names
          given,      \* the working tree the worker was given
          boundary,   \* boundary_quality of the baseline
          head, index, work, ancestry,
          unsafe,     \* paths whose names no observation may carry
          steps,
          worktree,   \* the status report
          range,      \* the committed range
          ever        \* history: the contents each path went through

world == <<base, given, boundary, unsafe>>
repository == <<head, index, work, ancestry, ever, steps>>
vars == <<phase, world, repository, worktree, range>>

Trees == [Paths -> Contents \cup {Absent}]
Kinds == {"created", "modified", "deleted", "renamed", "unknown"}

Observations == [path: Paths, kind: Kinds, from: Paths \cup {None},
                 facts: SUBSET Kinds]

ASSUME NoneIsNothingElse ==
    None \notin Paths /\ None \notin Kinds /\ None \notin Observations
-----------------------------------------------------------------------------
(* Git.                                                                     *)

\* The source of a rename detected between two trees, and None without one.
RenameSource(old, new, q) ==
    LET sources == {p \in Paths : /\ old[p] # Absent /\ new[p] = Absent
                                  /\ new[q] = old[p]} IN
    IF old[q] = Absent /\ new[q] # Absent /\ sources # {}
    THEN CHOOSE p \in sources : TRUE
    ELSE None

RenamedAway(old, new, p) == \E q \in Paths : RenameSource(old, new, q) = p

\* How one path differs between two trees.
Difference(old, new, p) ==
    IF RenameSource(old, new, p) # None THEN "renamed"
    ELSE IF old[p] = new[p] \/ RenamedAway(old, new, p) THEN None
    ELSE IF old[p] = Absent THEN "created"
    ELSE IF new[p] = Absent THEN "deleted" ELSE "modified"

\* The letters X and Y of git status for a path the index or HEAD holds.
Staged(p) == Difference(head, index, p)
Unstaged(p) == IF index[p] = Absent \/ index[p] = work[p] THEN None
               ELSE IF work[p] = Absent THEN "deleted" ELSE "modified"

\* classify_status and STATUS_FACTS: a pair with no single word is unknown.
StatusKind(x, y) ==
    IF x = None THEN y
    ELSE IF y = None \/ (y = "modified" /\ x \in {"created", "modified", "renamed"}) THEN x
    ELSE "unknown"

\* The record of a path, or None.  A path Git reports twice, deleted in the
\* index and untracked in the tree, keeps the first record.
Record(p) ==
    IF Staged(p) # None \/ Unstaged(p) # None
    THEN [path |-> p, kind |-> StatusKind(Staged(p), Unstaged(p)),
          from |-> RenameSource(head, index, p),
          facts |-> {Staged(p), Unstaged(p)} \ {None}]
    ELSE IF index[p] = Absent /\ work[p] # Absent
    THEN [path |-> p, kind |-> "created", from |-> None, facts |-> {"created"}]
    ELSE None

Usable(record) == record.path \notin unsafe /\ record.from \notin unsafe

\* A path of the range, from the baseline's tree to HEAD's.
Committed(p) ==
    LET kind == Difference(base, head, p) IN
    IF kind = None THEN None
    ELSE [path |-> p, kind |-> kind, from |-> RenameSource(base, head, p),
          facts |-> {kind}]

\* What fits: every observation, or as many as there is room for.
Kept(records, room) ==
    IF Cardinality(records) <= room THEN {records}
    ELSE {kept \in SUBSET records : Cardinality(kept) = room}
-----------------------------------------------------------------------------
NoReport == [seen |-> {}, clean |-> FALSE, partial |-> FALSE]

NoRange == [recorded |-> FALSE, ancestry |-> "unknown",
            coverage |-> "unavailable", seen |-> {}]

\* The tree is recorded as clean, as dirty, or as neither: partly read, or not.
Init ==
    /\ phase = "working"
    /\ base \in Trees
    /\ given \in Trees
    /\ boundary \in {IF given = base THEN "clean" ELSE "dirty", "unknown"}
    /\ unsafe \in SUBSET Paths /\ Cardinality(unsafe) <= 1
    /\ head = base
    /\ index \in {base, given}
    /\ work = given
    /\ ancestry = "identical"
    /\ worktree = NoReport
    /\ range = NoRange
    /\ ever = [p \in Paths |-> {given[p]}]
    /\ steps = 0

\* What the worker and its tools do.
WorkerStep ==
    /\ phase = "working"
    /\ steps < MaxSteps
    /\ steps' = steps + 1
    /\ UNCHANGED <<phase, world, worktree, range>>

GoesThrough(p, content) == ever' = [ever EXCEPT ![p] = @ \cup {content}]

Write(p, content) ==
    /\ WorkerStep
    /\ work[p] # content
    /\ work' = [work EXCEPT ![p] = content]
    /\ GoesThrough(p, content)
    /\ UNCHANGED <<head, index, ancestry>>

\* git add, git rm, git rm --cached
Stage(p, content) ==
    /\ WorkerStep
    /\ content \in {work[p], Absent}
    /\ index[p] # content
    /\ index' = [index EXCEPT ![p] = content]
    /\ GoesThrough(p, content)
    /\ UNCHANGED <<head, work, ancestry>>

Commit ==
    /\ WorkerStep
    /\ index # head
    /\ head' = index
    /\ ancestry' = IF ancestry = "diverged" THEN "diverged" ELSE "linear"
    /\ UNCHANGED <<index, work, ever>>

\* HEAD is moved to a commit the baseline is not an ancestor of.
Reset(tree) ==
    /\ WorkerStep
    /\ ancestry # "diverged"
    /\ tree # base
    /\ head' = tree
    /\ index' = tree
    /\ ancestry' = "diverged"
    /\ UNCHANGED <<work, ever>>
-----------------------------------------------------------------------------
\* observe_git and git_evidence, once, when the worker has its result.  Nothing
\* is reported outside a repository, or for a result told before.
Report ==
    /\ phase = "working"
    /\ phase' = "reported"
    /\ LET records == {Record(p) : p \in Paths} \ {None}
           usable == {r \in records : Usable(r)} IN
       \/ UNCHANGED worktree
       \/ \E kept \in Kept(usable, Room) :
            worktree' = [seen |-> kept, clean |-> records = {},
                         partial |-> kept # records]
    /\ UNCHANGED <<world, repository, range>>

\* capture_committed_range and range_evidence, at the boundary of the turn.  A
\* probe that fails is recorded as unavailable, and the write may fail too.
CaptureRange ==
    /\ phase = "reported"
    /\ phase' = "ranged"
    /\ LET records == IF ancestry = "linear"
                      THEN {Committed(p) : p \in Paths} \ {None} ELSE {}
           usable == {r \in records : Usable(r)} IN
       \/ UNCHANGED range
       \/ \E known \in {"unknown", ancestry} :
            range' = [NoRange EXCEPT !.recorded = TRUE, !.ancestry = known]
       \/ /\ ancestry # "diverged"
          /\ \E kept \in Kept(usable, RangeRoom) :
               range' = [recorded |-> TRUE, ancestry |-> ancestry, seen |-> kept,
                         coverage |-> IF kept = records THEN "complete" ELSE "incomplete"]
    /\ UNCHANGED <<world, repository, worktree>>

Next == \/ \E p \in Paths, content \in Contents \cup {Absent} :
              Write(p, content) \/ Stage(p, content)
        \/ Commit
        \/ \E tree \in Trees : Reset(tree)
        \/ Report \/ CaptureRange

Spec == Init /\ [][Next]_vars
-----------------------------------------------------------------------------
(* The verdict: evaluation.py over the bundle.                              *)

HistoryValid == range.recorded /\ range.ancestry \in {"identical", "linear"}
\* Definitions named ...Mutant are not part of the specification: each is the
\* definition after it with a slip a programmer could make, and some property
\* must notice it.

\* Mutant: a recorded baseline is enough, clean or not.
AnyBoundaryMutant == range.recorded

PreWorkStateKnown == range.recorded /\ boundary = "clean"
ComparisonGrade == HistoryValid /\ boundary = "clean"

\* The observations of a path that the turn may be credited with.
Attributable(p) == {o \in worktree.seen : o.path = p /\ PreWorkStateKnown}
                   \cup {o \in range.seen : o.path = p /\ ComparisonGrade}
ObservedAt(p) == {o \in worktree.seen \cup range.seen : o.path = p}

\* _closure: absence proves something only if everything was looked at.
WorktreeWasObserved == worktree.clean \/ worktree.seen # {}
Closed == /\ PreWorkStateKnown
          /\ ~ worktree.partial
          /\ WorktreeWasObserved
          /\ HistoryValid
          /\ range.coverage = "complete"

PathChanged(p) ==
    IF Attributable(p) # {} THEN "met"
    ELSE IF ObservedAt(p) = {} /\ Closed THEN "not_met" ELSE "unverified"

PathOperation(p, op) ==
    LET seen == Attributable(p) IN
    IF \E o \in seen : o.kind = op THEN "met"
    ELSE IF \/ ObservedAt(p) # {} /\ seen = {}
            \/ \E o \in seen : o.kind = "unknown"
            \/ ~ Closed
    THEN "unverified" ELSE "not_met"

Rename(p, q) ==
    IF \E o \in Attributable(q) : o.kind = "renamed" /\ o.from = p THEN "met"
    ELSE IF \/ ObservedAt(p) \cup ObservedAt(q) # {}
               /\ Attributable(p) \cup Attributable(q) = {}
            \/ ~ Closed
    THEN "unverified" ELSE "not_met"
-----------------------------------------------------------------------------
(* The comparison of a claim with the observations: evidence.py.            *)

Incompatible == {<<"created", "deleted">>, <<"modified", "deleted">>,
                 <<"deleted", "created">>, <<"deleted", "modified">>}

\* operation_agreement.  A fact is what the status proves, or the one kind.
Agreement(op, o) ==
    LET facts == o.facts \ {"unknown"} IN
    IF op = "renamed" \/ facts = {} THEN "unknown"
    ELSE IF op \in facts THEN "agreed"
    ELSE IF \A fact \in facts : <<op, fact>> \in Incompatible THEN "differs"
    ELSE "unknown"

\* _domain_agreement and _group_agreement, for the claim of one operation on a
\* path: one domain that agrees is enough, and all must differ for a conflict.
DomainAgreement(op, seen) ==
    IF \E o \in seen : Agreement(op, o) = "differs" THEN "differs"
    ELSE IF \A o \in seen : Agreement(op, o) = "agreed" THEN "agreed"
    ELSE "unknown"

\* Mutant: one domain that differs is a conflict.
OneDiffersMutant(op, p) ==
    LET atPath(seen) == {o \in seen : o.path = p}
        domains == {atPath(worktree.seen)}
                   \cup (IF ComparisonGrade THEN {atPath(range.seen)} ELSE {})
        verdicts == {DomainAgreement(op, seen) : seen \in domains \ {{}}} IN
    IF "differs" \in verdicts THEN "differs"
    ELSE IF "agreed" \in verdicts THEN "agreed" ELSE "unknown"

GroupAgreement(op, p) ==
    LET atPath(seen) == {o \in seen : o.path = p}
        domains == {atPath(worktree.seen)}
                   \cup (IF ComparisonGrade THEN {atPath(range.seen)} ELSE {})
        verdicts == {DomainAgreement(op, seen) : seen \in domains \ {{}}} IN
    IF "agreed" \in verdicts THEN "agreed"
    ELSE IF verdicts = {"differs"} THEN "differs" ELSE "unknown"

ClaimConflict(op, p) == GroupAgreement(op, p) = "differs"
-----------------------------------------------------------------------------
Judged == phase = "ranged"
Known == Paths \ unsafe

\* The net effect of the turn on a path.
NetEffect(p) ==
    IF work[p] = given[p] THEN None
    ELSE IF given[p] = Absent THEN "created"
    ELSE IF work[p] = Absent THEN "deleted" ELSE "modified"

TypeOK ==
    /\ phase \in {"working", "reported", "ranged"}
    /\ {base, given, head, index, work} \subseteq Trees
    /\ boundary \in {"clean", "dirty", "unknown"}
    /\ ancestry \in {"identical", "linear", "diverged"}
    /\ worktree \in [seen: SUBSET Observations, clean: BOOLEAN, partial: BOOLEAN]
    /\ range \in [recorded: BOOLEAN, ancestry: {"unknown", "identical", "linear", "diverged"},
                 coverage: {"complete", "incomplete", "unavailable"},
                 seen: SUBSET Observations]

\* A criterion is met only by what the turn did: neither what the tree held
\* before, nor a lost or partial report, nor a rename passes for the worker's
\* change, as long as HEAD stayed on the history it was measured from
\* (_attributable_observations, _pre_work_state_known).
MetWasDone ==
    Judged /\ ancestry # "diverged" => \A p \in Known :
        /\ PathChanged(p) = "met" => ever[p] # {given[p]}
        /\ \A op \in {"created", "deleted"} :
              PathOperation(p, op) = "met" => Absent \in ever[p] /\ ever[p] # {Absent}
        /\ PathOperation(p, "modified") = "met" =>
              Cardinality(ever[p] \ {Absent}) > 1
        /\ \A q \in Known \ {p} : Rename(p, q) = "met" =>
              Absent \in ever[p] /\ (ever[p] \cap ever[q]) \ {Absent} # {}

\* A path is judged unchanged only if the turn left it as it was given: what
\* does not fit a report, has no usable name, was not looked at, or lies on
\* another history is never taken for absence (_closure).  A path that was
\* renamed away is the exception: see RenamedAwayIsNotUnchanged.
NotMetIsUnchanged ==
    Judged => \A p \in Known :
        PathChanged(p) = "not_met" =>
            \/ work[p] = given[p]
            \/ RenamedAway(head, index, p) \/ RenamedAway(base, head, p)

\* A criterion is called met or not met only on what the turn did or left.
VerdictsAreTrue == MetWasDone /\ NotMetIsUnchanged

\* path_changed: the turn produced a resulting change for this path.
RenamedAwayIsNotUnchanged ==
    Judged => \A p \in Known : PathChanged(p) = "not_met" => work[p] = given[p]

\* A truthful claim is not contradicted by the machine's own record of it: with
\* the work committed, edited again, staged, unstaged or renamed, the committed
\* range unread or cut short, a whole status report never lets the two domains
\* together speak against what the turn did to a clean tree
\* (_domain_agreement, _group_agreement).  Two paths are the exception: one that
\* Git was told to forget while its file stays, and one that was committed and
\* then renamed away in the index, which no domain but the range still names.
Forgotten(p) == index[p] = Absent /\ work[p] # Absent /\ {base[p], head[p]} # {Absent}

WholeReport == /\ Judged /\ boundary = "clean" /\ ancestry # "diverged"
               /\ WorktreeWasObserved /\ ~ worktree.partial

TruthIsNoConflict ==
    WholeReport =>
        \A p \in Known :
            NetEffect(p) # None /\ ~ Forgotten(p) /\ ~ RenamedAway(head, index, p)
                => ~ ClaimConflict(NetEffect(p), p)

\* A file that was committed as modified and is gone later does not make a
\* conflict of a true claim (_group_agreement).
RenamedAwayIsNoConflict ==
    WholeReport =>
        \A p \in Known :
            NetEffect(p) # None /\ RenamedAway(head, index, p)
                => ~ ClaimConflict(NetEffect(p), p)

\* The reports are what Git can report, and do not argue with what was done.
ReportsAreSound == TypeOK /\ TruthIsNoConflict
=============================================================================
