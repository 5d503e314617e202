---------------------------- MODULE MindProofs ----------------------------
(***************************************************************************)
(* The inductive invariant of Mind and its theorems, and the refinement of  *)
(* ProposalBook, for any documents, contents, workspaces, proposals,        *)
(* threads and bounds.                                                      *)
(***************************************************************************)
EXTENDS Mind, TLAPS

\* A row was reviewed, and has been shown if its document holds its content.
ReviewedOK ==
    \A p \in Proposals : state[p] # "absent" =>
        /\ review[p] \in Reviews
        /\ file[review[p].to.doc] = review[p].content => p \in shown

\* What a thread's locals say of the proposal it works on.
Proposing == {"base", "insert"}
ProposerOK(c) ==
    call[c].step \in Proposing =>
        /\ call[c].p \in Proposals /\ call[c].to \in Bindings
        /\ state[call[c].p] = "absent"
        /\ \A o \in Calls : call[o].p = call[c].p => o = c
BaseOK(c) == call[c].step = "insert" => call[c].base \in Contents
DeciderOK(c) ==
    call[c].step \notin Proposing \cup {"idle"} =>
        call[c].p \in Proposals /\ state[call[c].p] # "absent"
TargetOK(c) ==
    call[c].step \in {"inspect", "claim"} \cup Owning =>
        call[c].to = review[call[c].p].to
IdleOK(c) == call[c].step = "idle" => call[c] = Idle
WriterOK(c) ==
    /\ call[c].step = "finalize" => call[c].p \in shown
    /\ call[c].step \in {"replace", "release"} =>
         \A d \in Docs : last[d] = call[c].p => call[c].p \in blind
LocalsOK ==
    \A c \in Calls : /\ ProposerOK(c) /\ BaseOK(c) /\ DeciderOK(c)
                     /\ TargetOK(c) /\ IdleOK(c) /\ WriterOK(c)

\* The newest writer of a document, its row and the content it wrote.
LastOK ==
    \A d \in Docs : last[d] # None =>
        /\ state[last[d]] # "absent" /\ review[last[d]].to.doc = d
        /\ file[d] = review[last[d]].content

QuietWhenDown == mode = "starting" => \A c \in Calls : call[c] = Idle

MindInv ==
    /\ TypeOK /\ ReviewedOK /\ LocalsOK /\ LastOK /\ QuietWhenDown
    /\ OneClaimant /\ AppliedIsTrue /\ LastWriterIsRecorded /\ NoAbandonedClaim

-----------------------------------------------------------------------------
\* What rows, documents and history say of each other, if none of them moves.
LEMMA RowsUntouched ==
    ASSUME MindInv, UNCHANGED <<file, rows, shown, last, blind>>
    PROVE  ReviewedOK' /\ LastOK' /\ AppliedIsTrue' /\ LastWriterIsRecorded'
BY DEF MindInv, rows, ReviewedOK, LastOK, AppliedIsTrue, LastWriterIsRecorded

\* What the threads know, if neither they nor the rows move.
LEMMA CallsUntouched ==
    ASSUME MindInv, UNCHANGED <<rows, call, history>>
    PROVE  LocalsOK' /\ OneClaimant'
<1>1. LocalsOK'
  BY DEF MindInv, rows, history, LocalsOK, ProposerOK, BaseOK, DeciderOK,
         TargetOK, IdleOK, WriterOK
<1>2. OneClaimant' BY DEF MindInv, rows, OneClaimant, Owns
<1> QED BY <1>1, <1>2

\* A new proposal resolves its target, and nothing is written.
LEMMA ProposePreserves ==
    ASSUME MindInv, NEW c \in Calls, NEW p \in Proposals, NEW scope \in
           Scopes, Propose(c, p, scope)
    PROVE  MindInv'
<1> USE NoneAssumption, GlobalAssumption DEF MindInv, Propose
<1>1. ReviewedOK' /\ LastOK' /\ AppliedIsTrue' /\ LastWriterIsRecorded'
  BY RowsUntouched DEF rows, history
<1>2. TypeOK'
  <2>1. Target(scope) \in Bindings
    BY DEF TypeOK, Resolvable, ScopeNow, Target, Bindings, Scopes
  <2>2. [Idle EXCEPT !.step = "base", !.p = p, !.to = Target(scope)] \in CallRecords
    BY <2>1 DEF Idle, CallRecords, Steps
  <2> QED BY <2>2 DEF TypeOK, rows, config, bounds, history
<1>3. LocalsOK'
  BY DEF Resolvable, ScopeNow, Target, rows, history, TypeOK, LocalsOK,
         ProposerOK, BaseOK, DeciderOK, TargetOK, IdleOK, WriterOK, Proposing,
         Owning, Bindings, Scopes
<1>4. QuietWhenDown' BY DEF At, history, QuietWhenDown
<1>5. OneClaimant' BY DEF rows, history, OneClaimant, Owns, Owning
<1>6. NoAbandonedClaim'
  BY DEF At, Idle, rows, history, LocalsOK, IdleOK, NoAbandonedClaim, Owns
<1> QED BY <1>1, <1>2, <1>3, <1>4, <1>5, <1>6

\* The base is the content of a document that can be read.
LEMMA ReadBasePreserves ==
    ASSUME MindInv, NEW c \in Calls, ReadBase(c)
    PROVE  MindInv'
<1> USE NoneAssumption, GlobalAssumption DEF MindInv, ReadBase
<1>1. ReviewedOK' /\ LastOK' /\ AppliedIsTrue' /\ LastWriterIsRecorded'
  BY RowsUntouched DEF rows, history
<1>2. TypeOK'
  <2>1. call[c].to \in Bindings BY DEF At, LocalsOK, ProposerOK, Proposing
  <2>2. file[call[c].to.doc] \in Contents \cup {None} BY <2>1 DEF TypeOK, Bindings
  <2>3. call[c] \in CallRecords /\ Idle \in CallRecords
    BY DEF TypeOK, CallRecords, Idle, Steps
  <2>4. [call[c] EXCEPT !.step = "insert", !.base = file[call[c].to.doc]]
          \in CallRecords
    BY <2>2, <2>3 DEF CallRecords, Steps
  <2>5. call' \in [Calls -> CallRecords] BY <2>3, <2>4 DEF TypeOK, Return
  <2> QED BY <2>5 DEF TypeOK, rows, config, bounds, history
<1>3. LocalsOK'
  <2>1. CASE file[call[c].to.doc] = None
    BY <2>1 DEF Return, rows, history, Idle, LocalsOK, ProposerOK, BaseOK,
                DeciderOK, TargetOK, IdleOK, WriterOK, Proposing, Owning, TypeOK
  <2>2. CASE file[call[c].to.doc] # None
    <3>1. call[c].to \in Bindings BY DEF At, LocalsOK, ProposerOK, Proposing
    <3>2. file[call[c].to.doc] \in Contents BY <2>2, <3>1 DEF TypeOK, Bindings
    <3>3. /\ call'[c].step = "insert" /\ call'[c].base = file[call[c].to.doc]
          /\ call'[c].p = call[c].p /\ call'[c].to = call[c].to
          /\ \A o \in Calls \ {c} : call'[o] = call[o]
          /\ call[c].step = "base"
      BY <2>2 DEF At, TypeOK, CallRecords
    <3> QED BY <3>2, <3>3 DEF rows, history, LocalsOK, ProposerOK, BaseOK,
                DeciderOK, TargetOK, IdleOK, WriterOK, Proposing, Owning, TypeOK
  <2> QED BY <2>1, <2>2
<1>4. QuietWhenDown' BY DEF At, history, QuietWhenDown
<1>5. OneClaimant'
  BY DEF Return, Idle, rows, history, TypeOK, CallRecords, OneClaimant, Owns,
         Owning
<1>6. NoAbandonedClaim'
  BY DEF At, Return, rows, history, TypeOK, LocalsOK, ProposerOK, Proposing,
         NoAbandonedClaim, Owns, Steps
<1> QED BY <1>1, <1>2, <1>3, <1>4, <1>5, <1>6

\* The new row is the one its thread prepared.
LEMMA InsertProposalPreserves ==
    ASSUME MindInv, NEW c \in Calls, NEW x \in Contents, InsertProposal(c, x)
    PROVE  MindInv'
<1> USE NoneAssumption, GlobalAssumption DEF MindInv, InsertProposal
<1>1. TypeOK'
  BY DEF At, Return, Idle, config, bounds, history, TypeOK, CallRecords,
         LocalsOK, ProposerOK, BaseOK, Proposing, Decidable, States, Steps,
         Reviews
<1>2. ReviewedOK'
  BY DEF At, history, TypeOK, ReviewedOK, LocalsOK, ProposerOK, BaseOK,
         Proposing, Reviews
<1>3. LocalsOK'
  BY DEF At, Return, Idle, history, TypeOK, LocalsOK, ProposerOK, BaseOK,
         DeciderOK, TargetOK, IdleOK, WriterOK, Proposing, Owning
<1>4. LastOK' BY DEF At, history, LocalsOK, ProposerOK, Proposing, LastOK
<1>5. QuietWhenDown' BY DEF At, history, QuietWhenDown
<1>6. OneClaimant'
  BY DEF At, Return, Idle, history, LocalsOK, ProposerOK, Proposing,
         OneClaimant, Owns
<1>7. AppliedIsTrue' BY DEF history, AppliedIsTrue
<1>8. LastWriterIsRecorded'
  BY DEF At, history, LocalsOK, ProposerOK, Proposing, LastWriterIsRecorded
<1>9. NoAbandonedClaim' BY DEF Return, history, TypeOK, NoAbandonedClaim, Owns
<1> QED BY <1>1, <1>2, <1>3, <1>4, <1>5, <1>6, <1>7, <1>8, <1>9

\* A rejection starts from a decidable row.
LEMMA BeginRejectPreserves ==
    ASSUME MindInv, NEW c \in Calls, NEW p \in Proposals, BeginReject(c, p)
    PROVE  MindInv'
<1> USE NoneAssumption, GlobalAssumption DEF MindInv, BeginReject
<1>1. ReviewedOK' /\ LastOK' /\ AppliedIsTrue' /\ LastWriterIsRecorded'
  BY RowsUntouched DEF rows, history
<1>2. TypeOK'
  BY DEF Idle, rows, config, bounds, history, TypeOK, CallRecords, Steps
<1>3. LocalsOK'
  BY DEF Decidable, rows, history, LocalsOK, ProposerOK, BaseOK, DeciderOK,
         TargetOK, IdleOK, WriterOK, Proposing, Owning
<1>4. QuietWhenDown' BY DEF At, history, QuietWhenDown
<1>5. OneClaimant' BY DEF rows, history, OneClaimant, Owns, Owning
<1>6. NoAbandonedClaim'
  BY DEF At, Idle, rows, history, LocalsOK, IdleOK, NoAbandonedClaim, Owns
<1> QED BY <1>1, <1>2, <1>3, <1>4, <1>5, <1>6

\* The compare-and-set of a rejection leaves claims and decisions alone.
LEMMA RejectPreserves ==
    ASSUME MindInv, NEW c \in Calls, Reject(c)
    PROVE  MindInv'
<1> USE NoneAssumption, GlobalAssumption DEF MindInv, Reject
<1>1. TypeOK'
  BY DEF Return, CompareAndSet, Idle, config, bounds, history, TypeOK,
         CallRecords, Decided, States, Steps
<1>2. ReviewedOK'
  BY DEF At, CompareAndSet, history, ReviewedOK, LocalsOK, DeciderOK,
         Proposing
<1>3. LocalsOK'
  BY DEF At, Return, CompareAndSet, Idle, history, LocalsOK, ProposerOK,
         BaseOK, DeciderOK, TargetOK, IdleOK, WriterOK, Proposing, Owning
<1>4. LastOK' BY DEF CompareAndSet, history, LastOK
<1>5. QuietWhenDown' BY DEF At, history, QuietWhenDown
<1>6. OneClaimant'
  BY DEF Return, CompareAndSet, Idle, Decidable, history, OneClaimant, Owns
<1>7. AppliedIsTrue' BY DEF CompareAndSet, history, AppliedIsTrue
<1>8. LastWriterIsRecorded'
  BY DEF CompareAndSet, Decidable, history, LastWriterIsRecorded
<1>9. NoAbandonedClaim'
  BY DEF At, Return, CompareAndSet, history, NoAbandonedClaim, Owns, Owning
<1> QED BY <1>1, <1>2, <1>3, <1>4, <1>5, <1>6, <1>7, <1>8, <1>9

\* An acceptance starts from a decidable row.
LEMMA BeginAcceptPreserves ==
    ASSUME MindInv, NEW c \in Calls, NEW p \in Proposals, BeginAccept(c, p)
    PROVE  MindInv'
<1> USE NoneAssumption, GlobalAssumption DEF MindInv, BeginAccept
<1>1. ReviewedOK' /\ LastOK' /\ AppliedIsTrue' /\ LastWriterIsRecorded'
  BY RowsUntouched DEF rows, history
<1>2. TypeOK'
  BY DEF Idle, rows, config, bounds, history, TypeOK, CallRecords, Steps
<1>3. LocalsOK'
  BY DEF Decidable, rows, history, LocalsOK, ProposerOK, BaseOK, DeciderOK,
         TargetOK, IdleOK, WriterOK, Proposing, Owning
<1>4. QuietWhenDown' BY DEF At, history, QuietWhenDown
<1>5. OneClaimant' BY DEF rows, history, OneClaimant, Owns, Owning
<1>6. NoAbandonedClaim'
  BY DEF At, Idle, rows, history, LocalsOK, IdleOK, NoAbandonedClaim, Owns
<1> QED BY <1>1, <1>2, <1>3, <1>4, <1>5, <1>6

\* The workspace check only lets the thread go on or return.
LEMMA CheckWorkspacePreserves ==
    ASSUME MindInv, NEW c \in Calls, CheckWorkspace(c)
    PROVE  MindInv'
<1> USE NoneAssumption, GlobalAssumption DEF MindInv, CheckWorkspace
<1>1. ReviewedOK' /\ LastOK' /\ AppliedIsTrue' /\ LastWriterIsRecorded'
  BY RowsUntouched DEF rows, history
<1>2. TypeOK'
  <2>1. call[c] \in CallRecords /\ Idle \in CallRecords
    BY DEF TypeOK, CallRecords, Idle, Steps
  <2>2. [call[c] EXCEPT !.step = "resolve"] \in CallRecords
    BY <2>1 DEF CallRecords, Steps
  <2>3. call' \in [Calls -> CallRecords] BY <2>1, <2>2 DEF TypeOK, Goto, Return
  <2> QED BY <2>3 DEF TypeOK, rows, config, bounds, history
<1>3. LocalsOK'
  <2>1. call[c].p \in Proposals /\ state[call[c].p] # "absent"
    BY DEF At, LocalsOK, DeciderOK, Proposing
  <2>2. \/ call'[c] = Idle
        \/ call'[c].step = "resolve" /\ call'[c].p = call[c].p
    BY DEF Goto, Return, TypeOK, CallRecords
  <2>3. \A o \in Calls \ {c} : call'[o] = call[o] BY DEF Goto, Return, TypeOK
  <2>4. call[c].step = "workspace" BY DEF At
  <2> QED BY <2>1, <2>2, <2>3, <2>4 DEF rows, history, Idle, LocalsOK, ProposerOK,
             BaseOK, DeciderOK, TargetOK, IdleOK, WriterOK, Proposing, Owning
<1>4. QuietWhenDown' BY DEF At, history, QuietWhenDown
<1>5. OneClaimant'
  <2>1. \A o \in Calls, q \in Proposals : Owns(o, q)' => Owns(o, q)
    BY DEF Goto, Return, Owns, Owning, Idle, TypeOK, CallRecords
  <2> QED BY <2>1 DEF OneClaimant, rows
<1>6. NoAbandonedClaim'
  BY DEF At, Goto, Return, rows, history, TypeOK, QuietWhenDown,
         NoAbandonedClaim, Owns, Owning
<1> QED BY <1>1, <1>2, <1>3, <1>4, <1>5, <1>6

\* A thread that goes on to inspect holds the target of the review.
LEMMA ResolvePreserves ==
    ASSUME MindInv, NEW c \in Calls, Resolve(c)
    PROVE  MindInv'
<1> USE NoneAssumption, GlobalAssumption DEF MindInv, Resolve
<1>1. ReviewedOK' /\ LastOK' /\ AppliedIsTrue' /\ LastWriterIsRecorded'
  BY RowsUntouched DEF rows, history
<1>2. TypeOK'
  <2>1. call[c] \in CallRecords /\ Idle \in CallRecords
    BY DEF TypeOK, CallRecords, Idle, Steps
  <2>2. [call[c] EXCEPT !.step = "stale"] \in CallRecords
    BY <2>1 DEF CallRecords, Steps
  <2>3. LET scope == review[call[c].p].to.scope
        IN  Bound(call[c].p) =>
              [call[c] EXCEPT !.step = "inspect", !.to = Target(scope)]
                \in CallRecords
    <3>1. call[c].p \in Proposals /\ review[call[c].p] \in Reviews
      BY DEF At, LocalsOK, DeciderOK, Proposing, ReviewedOK
    <3> QED BY <2>1, <3>1 DEF Bound, Reviews, CallRecords, Steps
  <2>4. call' \in [Calls -> CallRecords]
    BY <2>1, <2>2, <2>3 DEF TypeOK, Goto, Return
  <2> QED BY <2>4 DEF TypeOK, rows, config, bounds, history
<1>3. LocalsOK'
  <2>1. call[c].p \in Proposals /\ state[call[c].p] # "absent"
    BY DEF At, LocalsOK, DeciderOK, Proposing
  <2>2. \/ call'[c] = Idle
        \/ call'[c].step = "stale" /\ call'[c].p = call[c].p
        \/ /\ call'[c].step = "inspect" /\ call'[c].p = call[c].p
           /\ call'[c].to = review[call[c].p].to
    BY DEF Goto, Return, TypeOK, CallRecords, Bound
  <2>3. \A o \in Calls \ {c} : call'[o] = call[o] BY DEF Goto, Return, TypeOK
  <2>4. call[c].step = "resolve" BY DEF At
  <2> QED BY <2>1, <2>2, <2>3, <2>4 DEF rows, history, Idle, LocalsOK, ProposerOK,
             BaseOK, DeciderOK, TargetOK, IdleOK, WriterOK, Proposing, Owning
<1>4. QuietWhenDown' BY DEF At, history, QuietWhenDown
<1>5. OneClaimant'
  <2>1. \A o \in Calls, q \in Proposals : Owns(o, q)' => Owns(o, q)
    BY DEF Goto, Return, Owns, Owning, Idle, TypeOK, CallRecords
  <2> QED BY <2>1 DEF OneClaimant, rows
<1>6. NoAbandonedClaim'
  BY DEF At, Goto, Return, rows, history, TypeOK, ProposerOK, LastOK,
         NoAbandonedClaim, Owns, Owning
<1> QED BY <1>1, <1>2, <1>3, <1>4, <1>5, <1>6

\* The hash check keeps the target.
LEMMA InspectPreserves ==
    ASSUME MindInv, NEW c \in Calls, Inspect(c)
    PROVE  MindInv'
<1> USE NoneAssumption, GlobalAssumption DEF MindInv, Inspect
<1>1. ReviewedOK' /\ LastOK' /\ AppliedIsTrue' /\ LastWriterIsRecorded'
  BY RowsUntouched DEF rows, history
<1>2. TypeOK'
  <2>1. ASSUME NEW step \in Steps
        PROVE  [call[c] EXCEPT !.step = step] \in CallRecords
    BY DEF TypeOK, CallRecords
  <2>2. "claim" \in Steps /\ "stale" \in Steps BY DEF Steps
  <2> QED BY <2>1, <2>2 DEF TypeOK, Goto, rows, config, bounds, history
<1>3. LocalsOK'
  BY DEF At, Goto, rows, history, LocalsOK, ProposerOK, BaseOK, DeciderOK,
         TargetOK, IdleOK, WriterOK, Proposing
<1>4. QuietWhenDown' BY DEF At, history, QuietWhenDown
<1>5. OneClaimant' BY DEF Goto, rows, history, OneClaimant, Owns, Owning
<1>6. NoAbandonedClaim'
  BY DEF At, Goto, rows, history, NoAbandonedClaim, Owns, Owning
<1> QED BY <1>1, <1>2, <1>3, <1>4, <1>5, <1>6

\* Marking stale leaves claims and decisions alone.
LEMMA MarkStalePreserves ==
    ASSUME MindInv, NEW c \in Calls, MarkStale(c)
    PROVE  MindInv'
<1> USE NoneAssumption, GlobalAssumption DEF MindInv, MarkStale
<1>1. TypeOK'
  BY DEF Return, CompareAndSet, Idle, config, bounds, history, TypeOK,
         CallRecords, Decided, States, Steps
<1>2. ReviewedOK'
  BY DEF At, CompareAndSet, history, ReviewedOK, LocalsOK, DeciderOK,
         Proposing
<1>3. LocalsOK'
  BY DEF At, Return, CompareAndSet, Idle, history, LocalsOK, ProposerOK,
         BaseOK, DeciderOK, TargetOK, IdleOK, WriterOK, Proposing, Owning
<1>4. LastOK' BY DEF CompareAndSet, history, LastOK
<1>5. QuietWhenDown' BY DEF At, history, QuietWhenDown
<1>6. OneClaimant'
  BY DEF Return, CompareAndSet, Idle, Decidable, history, OneClaimant, Owns
<1>7. AppliedIsTrue' BY DEF CompareAndSet, history, AppliedIsTrue
<1>8. LastWriterIsRecorded'
  BY DEF CompareAndSet, Decidable, history, LastWriterIsRecorded
<1>9. NoAbandonedClaim'
  BY DEF At, Return, CompareAndSet, history, NoAbandonedClaim, Owns, Owning
<1> QED BY <1>1, <1>2, <1>3, <1>4, <1>5, <1>6, <1>7, <1>8, <1>9

\* The compare-and-set makes its thread the only owner, or sends it back.
LEMMA ClaimPreserves ==
    ASSUME MindInv, NEW c \in Calls, Claim(c)
    PROVE  MindInv'
<1> USE NoneAssumption, GlobalAssumption DEF MindInv, Claim
<1>1. TypeOK'
  <2>1. Idle \in CallRecords /\ [call[c] EXCEPT !.step = "replace"] \in CallRecords
    BY DEF TypeOK, CallRecords, Idle, Steps
  <2>2. call' \in [Calls -> CallRecords] BY <2>1 DEF TypeOK, Goto, Return
  <2>3. state' \in [Proposals -> States]
    BY DEF TypeOK, CompareAndSet, States
  <2> QED BY <2>2, <2>3 DEF TypeOK, config, bounds, history
<1>2. ReviewedOK'
  BY DEF At, CompareAndSet, history, ReviewedOK, LocalsOK, DeciderOK,
         Proposing
<1>3. LocalsOK'
  <2> DEFINE p == call[c].p
  <2>1. /\ call[c].step = "claim" /\ p \in Proposals /\ state[p] # "absent"
        /\ call[c].to = review[p].to
    BY DEF At, LocalsOK, DeciderOK, TargetOK, Proposing, Owning
  <2>2. \A o \in Calls \ {c} : call'[o] = call[o] BY DEF Goto, Return, TypeOK
  <2>3. CASE state[p] \in Decidable
    <3>1. call'[c].step = "replace" /\ call'[c].p = p /\ call'[c].to = call[c].to
      BY <2>3 DEF Goto, TypeOK, CallRecords
    <3>2. state' = [state EXCEPT ![p] = "applying"] BY <2>3 DEF CompareAndSet
    <3>3. \A d \in Docs : last[d] = p => p \in blind
      BY <2>1, <2>3 DEF LastWriterIsRecorded, Decidable
    <3> QED BY <2>1, <2>2, <3>1, <3>2, <3>3 DEF TypeOK, history, LocalsOK,
               ProposerOK, BaseOK, DeciderOK, TargetOK, IdleOK, WriterOK,
               Proposing, Owning
  <2>4. CASE state[p] \notin Decidable
    <3>1. call'[c] = Idle BY <2>4 DEF Return, TypeOK
    <3>2. state' = state BY <2>4 DEF CompareAndSet
    <3> QED BY <2>1, <2>2, <3>1, <3>2 DEF history, Idle, LocalsOK, ProposerOK,
               BaseOK, DeciderOK, TargetOK, IdleOK, WriterOK, Proposing, Owning
  <2> QED BY <2>3, <2>4
<1>4. LastOK' BY DEF CompareAndSet, history, LastOK
<1>5. QuietWhenDown' BY DEF At, history, QuietWhenDown
<1>6. OneClaimant'
  <2> DEFINE p == call[c].p
  <2>1. \A o \in Calls \ {c} : call'[o] = call[o] BY DEF Goto, Return, TypeOK
  <2>2. CASE state[p] \in Decidable
    <3>1. \A o \in Calls : ~Owns(o, p)
      BY <2>2 DEF OneClaimant, Decidable, LocalsOK, DeciderOK, At, Owns, Owning,
                  Proposing
    <3>2. call'[c].p = p BY <2>2 DEF Goto, TypeOK, CallRecords
    <3>3. state' = [state EXCEPT ![p] = "applying"] BY <2>2 DEF CompareAndSet
    <3> QED BY <2>1, <3>1, <3>2, <3>3 DEF OneClaimant, Owns, TypeOK
  <2>3. CASE state[p] \notin Decidable
    BY <2>1, <2>3 DEF OneClaimant, Owns, Owning, Return, Idle, CompareAndSet, TypeOK
  <2> QED BY <2>2, <2>3
<1>7. AppliedIsTrue' BY DEF CompareAndSet, history, AppliedIsTrue
<1>8. LastWriterIsRecorded'
  BY DEF CompareAndSet, history, LastWriterIsRecorded
<1>9. NoAbandonedClaim'
  BY DEF At, Goto, Return, CompareAndSet, history, TypeOK, CallRecords,
         OneClaimant, NoAbandonedClaim, Owns, Owning
<1> QED BY <1>1, <1>2, <1>3, <1>4, <1>5, <1>6, <1>7, <1>8, <1>9

\* The owner writes the document its proposal was reviewed for.
LEMMA ReplacePreserves ==
    ASSUME MindInv, NEW c \in Calls, Replace(c)
    PROVE  MindInv'
<1> USE NoneAssumption, GlobalAssumption DEF MindInv, Replace
<1>1. TypeOK'
  <2>1. /\ call[c].p \in Proposals /\ review[call[c].p] \in Reviews
        /\ call[c].to = review[call[c].p].to
    BY DEF At, LocalsOK, DeciderOK, TargetOK, Proposing, Owning, ReviewedOK
  <2>2. call[c].to.doc \in Docs /\ review[call[c].p].content \in Contents
    BY <2>1 DEF Reviews, Bindings
  <2>3. [call[c] EXCEPT !.step = "finalize"] \in CallRecords
    BY DEF TypeOK, CallRecords, Steps
  <2>4. call' \in [Calls -> CallRecords] BY <2>3 DEF TypeOK, Goto
  <2> QED BY <2>1, <2>2, <2>4 DEF TypeOK, Put, rows, config, bounds
<1>2. ReviewedOK' BY DEF Put, rows, history, ReviewedOK
<1>3. LocalsOK'
  BY DEF At, Goto, Put, rows, history, TypeOK, LocalsOK, ProposerOK, BaseOK,
         DeciderOK, TargetOK, IdleOK, WriterOK, Proposing, OneClaimant, Owns,
         Owning
<1>4. LastOK'
  BY DEF At, Put, rows, history, TypeOK, LocalsOK, DeciderOK, TargetOK,
         Proposing, LastOK, Owning
<1>5. QuietWhenDown' BY DEF At, history, QuietWhenDown
<1>6. OneClaimant' BY DEF At, Goto, rows, history, OneClaimant, Owns, Owning
<1>7. AppliedIsTrue' BY DEF Put, rows, history, AppliedIsTrue
<1>8. LastWriterIsRecorded'
  BY DEF At, Put, rows, history, TypeOK, CallRecords, OneClaimant,
         LastWriterIsRecorded, Owns, Owning
<1>9. NoAbandonedClaim'
  BY DEF Goto, rows, history, NoAbandonedClaim, Owns, Owning
<1> QED BY <1>1, <1>2, <1>3, <1>4, <1>5, <1>6, <1>7, <1>8, <1>9

\* A failed write leaves the thread the owner.
LEMMA ReplaceFailsPreserves ==
    ASSUME MindInv, NEW c \in Calls, ReplaceFails(c)
    PROVE  MindInv'
<1> USE NoneAssumption, GlobalAssumption DEF MindInv, ReplaceFails
<1>1. ReviewedOK' /\ LastOK' /\ AppliedIsTrue' /\ LastWriterIsRecorded'
  BY RowsUntouched DEF rows, history
<1>2. TypeOK'
  <2>1. [call[c] EXCEPT !.step = "release"] \in CallRecords
    BY DEF TypeOK, CallRecords, Steps
  <2> QED BY <2>1 DEF TypeOK, Goto, rows, config, bounds, history
<1>3. LocalsOK'
  BY DEF At, Goto, rows, history, LocalsOK, ProposerOK, BaseOK, DeciderOK,
         TargetOK, IdleOK, WriterOK, Proposing, Owning
<1>4. QuietWhenDown' BY DEF At, history, QuietWhenDown
<1>5. OneClaimant' BY DEF At, Goto, rows, history, OneClaimant, Owns, Owning
<1>6. NoAbandonedClaim'
  BY DEF Goto, rows, history, NoAbandonedClaim, Owns, Owning
<1> QED BY <1>1, <1>2, <1>3, <1>4, <1>5, <1>6

\* The owner, which has not written, gives the claim back.
LEMMA ReleasePreserves ==
    ASSUME MindInv, NEW c \in Calls, Release(c)
    PROVE  MindInv'
<1> USE NoneAssumption, GlobalAssumption DEF MindInv, Release
<1>1. TypeOK'
  BY DEF Return, CompareAndSet, Idle, config, bounds, history, TypeOK,
         CallRecords, Decidable, States, Steps
<1>2. ReviewedOK' BY DEF CompareAndSet, history, ReviewedOK
<1>3. LocalsOK'
  BY DEF Return, CompareAndSet, Idle, history, LocalsOK, ProposerOK, BaseOK,
         DeciderOK, TargetOK, IdleOK, WriterOK, Proposing, Owning
<1>4. LastOK' BY DEF CompareAndSet, history, LastOK
<1>5. QuietWhenDown' BY DEF At, history, QuietWhenDown
<1>6. OneClaimant'
  BY DEF At, Return, CompareAndSet, Idle, history, TypeOK, OneClaimant, Owns,
         Owning
<1>7. AppliedIsTrue' BY DEF CompareAndSet, history, AppliedIsTrue
<1>8. LastWriterIsRecorded'
  BY DEF At, CompareAndSet, history, LocalsOK, WriterOK, LastWriterIsRecorded
<1>9. NoAbandonedClaim'
  BY DEF Return, CompareAndSet, history, TypeOK, NoAbandonedClaim, Owns
<1> QED BY <1>1, <1>2, <1>3, <1>4, <1>5, <1>6, <1>7, <1>8, <1>9

\* The owner records content its document has held.
LEMMA FinalizeAppliedPreserves ==
    ASSUME MindInv, NEW c \in Calls, FinalizeApplied(c)
    PROVE  MindInv'
<1> USE NoneAssumption, GlobalAssumption DEF MindInv, FinalizeApplied
<1>1. TypeOK'
  BY DEF Return, CompareAndSet, Idle, config, bounds, history, TypeOK,
         CallRecords, Decided, States, Steps
<1>2. ReviewedOK' BY DEF CompareAndSet, history, ReviewedOK
<1>3. LocalsOK'
  BY DEF Return, CompareAndSet, Idle, history, LocalsOK, ProposerOK, BaseOK,
         DeciderOK, TargetOK, IdleOK, WriterOK, Proposing, Owning
<1>4. LastOK' BY DEF CompareAndSet, history, LastOK
<1>5. QuietWhenDown' BY DEF At, history, QuietWhenDown
<1>6. OneClaimant'
  BY DEF At, Return, CompareAndSet, Idle, history, TypeOK, OneClaimant, Owns,
         Owning
<1>7. AppliedIsTrue'
  BY DEF At, CompareAndSet, history, LocalsOK, WriterOK, AppliedIsTrue
<1>8. LastWriterIsRecorded'
  BY DEF CompareAndSet, history, LastWriterIsRecorded
<1>9. NoAbandonedClaim'
  BY DEF Return, CompareAndSet, history, TypeOK, NoAbandonedClaim, Owns
<1> QED BY <1>1, <1>2, <1>3, <1>4, <1>5, <1>6, <1>7, <1>8, <1>9

\* A failed transaction changes no row; a claim it should have ended is lost.
LEMMA StoreFailsPreserves ==
    ASSUME MindInv, NEW c \in Calls, StoreFails(c)
    PROVE  MindInv'
<1> USE NoneAssumption, GlobalAssumption DEF MindInv, StoreFails
<1>1. ReviewedOK' /\ LastOK' /\ AppliedIsTrue' /\ LastWriterIsRecorded'
  BY RowsUntouched DEF rows, history
<1>2. TypeOK'
  BY DEF Return, Idle, rows, config, bounds, history, TypeOK, CallRecords,
         LocalsOK, ProposerOK, DeciderOK, Steps
<1>3. LocalsOK'
  BY DEF Return, Idle, rows, history, Owning, LocalsOK, ProposerOK, BaseOK,
         DeciderOK, TargetOK, IdleOK, WriterOK, Proposing
<1>4. QuietWhenDown' BY DEF history, QuietWhenDown
<1>5. OneClaimant' BY DEF Return, Idle, rows, history, OneClaimant, Owns
<1>6. NoAbandonedClaim' BY DEF Return, rows, history, NoAbandonedClaim, Owns
<1> QED BY <1>1, <1>2, <1>3, <1>4, <1>5, <1>6

\* No thread survives.
LEMMA CrashPreserves ==
    ASSUME MindInv, Crash
    PROVE  MindInv'
<1> USE NoneAssumption, GlobalAssumption DEF MindInv, Crash
<1>1. ReviewedOK' /\ LastOK' /\ AppliedIsTrue' /\ LastWriterIsRecorded'
  BY RowsUntouched DEF rows, history
<1>2. TypeOK' BY DEF Idle, rows, config, history, TypeOK, CallRecords, Steps
<1>3. LocalsOK'
  BY DEF Idle, history, LocalsOK, ProposerOK, BaseOK, DeciderOK, TargetOK,
         IdleOK, WriterOK, Proposing, Owning
<1>4. QuietWhenDown' BY DEF history, QuietWhenDown
<1>5. OneClaimant' BY DEF Idle, history, OneClaimant, Owns
<1>6. NoAbandonedClaim' BY DEF history, NoAbandonedClaim
<1> QED BY <1>1, <1>2, <1>3, <1>4, <1>5, <1>6

\* A claim found at start-up is classified.
LEMMA RecoverPreserves ==
    ASSUME MindInv, NEW p \in Proposals, Recover(p)
    PROVE  MindInv'
<1> USE NoneAssumption, GlobalAssumption DEF MindInv, Recover
<1>1. TypeOK'
  BY DEF CompareAndSet, config, bounds, history, Classify, TypeOK, Decidable,
         Decided, States
<1>2. ReviewedOK' BY DEF CompareAndSet, history, ReviewedOK
<1>3. LocalsOK'
  BY DEF CompareAndSet, history, Classify, LocalsOK, ProposerOK, BaseOK,
         DeciderOK, TargetOK, IdleOK, WriterOK
<1>4. LastOK' BY DEF CompareAndSet, history, Classify, LastOK
<1>5. QuietWhenDown' BY DEF history, QuietWhenDown
<1>6. OneClaimant'
  <2>1. \A o \in Calls, q \in Proposals : ~Owns(o, q)'
    BY DEF QuietWhenDown, Owns, Owning, Idle
  <2> QED BY <2>1 DEF OneClaimant
<1>7. AppliedIsTrue'
  BY DEF CompareAndSet, history, Classify, ReviewedOK, AppliedIsTrue
<1>8. LastWriterIsRecorded'
  BY DEF CompareAndSet, history, Classify, LastOK, LastWriterIsRecorded
<1>9. NoAbandonedClaim' BY DEF history, NoAbandonedClaim
<1> QED BY <1>1, <1>2, <1>3, <1>4, <1>5, <1>6, <1>7, <1>8, <1>9

\* No claim is left when requests are served.
LEMMA ServePreserves ==
    ASSUME MindInv, Serve
    PROVE  MindInv'
<1> USE NoneAssumption, GlobalAssumption DEF MindInv, Serve
<1>1. ReviewedOK' /\ LastOK' /\ AppliedIsTrue' /\ LastWriterIsRecorded'
  BY RowsUntouched DEF rows, history
<1>2. LocalsOK' /\ OneClaimant' BY CallsUntouched DEF rows
<1>3. TypeOK' BY DEF rows, config, bounds, history, TypeOK
<1>4. QuietWhenDown' BY DEF history, QuietWhenDown
<1>5. NoAbandonedClaim' BY DEF rows, history, NoAbandonedClaim
<1> QED BY <1>1, <1>2, <1>3, <1>4, <1>5

\* An outside edit makes a document its own.
LEMMA EditPreserves ==
    ASSUME MindInv, NEW d \in Docs, NEW x \in Contents \cup {None}, Edit(d, x)
    PROVE  MindInv'
<1> USE NoneAssumption, GlobalAssumption DEF MindInv, Edit
<1>1. TypeOK' BY DEF Put, rows, config, history, TypeOK
<1>2. ReviewedOK' BY DEF Put, rows, history, ReviewedOK
<1>3. LocalsOK'
  BY DEF Put, rows, history, LocalsOK, ProposerOK, BaseOK, DeciderOK,
         TargetOK, IdleOK, WriterOK
<1>4. LastOK' BY DEF Put, rows, history, TypeOK, LastOK
<1>5. QuietWhenDown' BY DEF history, QuietWhenDown
<1>6. OneClaimant' BY DEF rows, history, OneClaimant, Owns
<1>7. AppliedIsTrue' BY DEF Put, rows, history, AppliedIsTrue
<1>8. LastWriterIsRecorded' BY DEF Put, rows, history, LastWriterIsRecorded
<1>9. NoAbandonedClaim' BY DEF rows, history, NoAbandonedClaim, Owns
<1> QED BY <1>1, <1>2, <1>3, <1>4, <1>5, <1>6, <1>7, <1>8, <1>9

\* The configuration is no part of what the rows say.
LEMMA RemapPreserves ==
    ASSUME MindInv, NEW scope \in Scopes, NEW d \in Docs \cup {None},
           Remap(scope, d)
    PROVE  MindInv'
<1> USE NoneAssumption, GlobalAssumption DEF MindInv, Remap
<1>1. ReviewedOK' /\ LastOK' /\ AppliedIsTrue' /\ LastWriterIsRecorded'
  BY RowsUntouched DEF rows, history
<1>2. LocalsOK' /\ OneClaimant' BY CallsUntouched DEF rows
<1>3. TypeOK' BY DEF rows, history, TypeOK
<1>4. QuietWhenDown' BY DEF history, QuietWhenDown
<1>5. NoAbandonedClaim' BY DEF rows, history, NoAbandonedClaim, Owns
<1> QED BY <1>1, <1>2, <1>3, <1>4, <1>5

\* The active workspace is no part of what the rows say.
LEMMA ActivatePreserves ==
    ASSUME MindInv, NEW w \in Workspaces \cup {None}, Activate(w)
    PROVE  MindInv'
<1> USE NoneAssumption, GlobalAssumption DEF MindInv, Activate
<1>1. ReviewedOK' /\ LastOK' /\ AppliedIsTrue' /\ LastWriterIsRecorded'
  BY RowsUntouched DEF rows, history
<1>2. LocalsOK' /\ OneClaimant' BY CallsUntouched DEF rows
<1>3. TypeOK' BY DEF rows, history, TypeOK
<1>4. QuietWhenDown' BY DEF history, QuietWhenDown
<1>5. NoAbandonedClaim' BY DEF rows, history, NoAbandonedClaim, Owns
<1> QED BY <1>1, <1>2, <1>3, <1>4, <1>5

-----------------------------------------------------------------------------
\* The invariant holds when the service starts for the first time.
LEMMA InitEstablishes == Init => MindInv
<1> SUFFICES ASSUME Init PROVE MindInv OBVIOUS
<1> USE NoneAssumption DEF Init
<1>1. Idle \in CallRecords BY DEF Idle, CallRecords, Steps
<1>2. TypeOK BY <1>1 DEF TypeOK, States, Scopes
<1>3. \A c \in Calls : call[c] = Idle OBVIOUS
<1>4. LocalsOK
  BY <1>3 DEF LocalsOK, ProposerOK, BaseOK, DeciderOK, TargetOK, IdleOK, WriterOK,
              Proposing, Owning, Idle
<1>5. ReviewedOK /\ LastOK /\ QuietWhenDown /\ AppliedIsTrue /\ LastWriterIsRecorded
  BY DEF ReviewedOK, LastOK, QuietWhenDown, AppliedIsTrue, LastWriterIsRecorded
<1>6. OneClaimant /\ NoAbandonedClaim
  BY <1>3 DEF OneClaimant, NoAbandonedClaim, Owns, Owning, Idle
<1> QED BY <1>2, <1>4, <1>5, <1>6 DEF MindInv

\* Every step preserves it.
LEMMA StepPreserves == MindInv /\ [Next]_vars => MindInv'
<1> SUFFICES ASSUME MindInv, [Next]_vars PROVE MindInv' OBVIOUS
<1>1. ASSUME NEW c \in Calls, Request(c) PROVE MindInv'
  BY <1>1, ProposePreserves, BeginRejectPreserves, BeginAcceptPreserves
     DEF Request
<1>2. ASSUME NEW c \in Calls, CallStep(c) PROVE MindInv'
  BY <1>2, ReadBasePreserves, InsertProposalPreserves, RejectPreserves,
     CheckWorkspacePreserves, ResolvePreserves, InspectPreserves,
     MarkStalePreserves, ClaimPreserves, ReplacePreserves,
     ReplaceFailsPreserves, ReleasePreserves, FinalizeAppliedPreserves,
     StoreFailsPreserves
     DEF CallStep
<1>3. ASSUME Boot PROVE MindInv'
  BY <1>3, RecoverPreserves, ServePreserves DEF Boot
<1>4. ASSUME Host PROVE MindInv'
  BY <1>4, EditPreserves, RemapPreserves, ActivatePreserves DEF Host
<1>5. ASSUME UNCHANGED vars PROVE MindInv'
  <2> USE <1>5 DEF vars, rows, config, bounds, history
  <2>1. TypeOK' /\ ReviewedOK' /\ LastOK' /\ QuietWhenDown'
    BY DEF MindInv, TypeOK, ReviewedOK, LastOK, QuietWhenDown
  <2>2. LocalsOK'
    BY DEF MindInv, LocalsOK, ProposerOK, BaseOK, DeciderOK, TargetOK, IdleOK,
           WriterOK
  <2>3. OneClaimant' /\ AppliedIsTrue' /\ LastWriterIsRecorded' /\ NoAbandonedClaim'
    BY DEF MindInv, OneClaimant, AppliedIsTrue, LastWriterIsRecorded,
           NoAbandonedClaim, Owns
  <2> QED BY <2>1, <2>2, <2>3 DEF MindInv
<1> QED BY <1>1, <1>2, <1>3, <1>4, <1>5, CrashPreserves DEF Next

\* A request that arrives changes nothing but the thread that serves it.
LEMMA RequestsOnlyRead ==
    ASSUME NEW c \in Calls, Request(c)
    PROVE  UNCHANGED <<file, config, rows, mode, bounds, history>>
BY Zenon DEF Request, Propose, BeginReject, BeginAccept

\* The inductive invariant holds in every reachable state.
THEOREM MindInvariant == Spec => []MindInv
BY InitEstablishes, StepPreserves, PTL DEF Spec

\* Every variable keeps its type; a base and a proposed content are never None
\* (create_proposal refuses a document it cannot read).
THEOREM MindTypeCorrect == Spec => []TypeOK
<1>1. MindInv => TypeOK BY DEF MindInv
<1> QED BY <1>1, MindInvariant, PTL

\* However many threads accept one proposal, at most one becomes its writer
\* (the compare-and-set of claim).
THEOREM ClaimIsExclusive == Spec => []OneClaimant
<1>1. MindInv => OneClaimant BY DEF MindInv
<1> QED BY <1>1, MindInvariant, PTL

\* The store never says "applied" of content its document has not held.
THEOREM AppliedNeverLies == Spec => []AppliedIsTrue
<1>1. MindInv => AppliedIsTrue BY DEF MindInv
<1> QED BY <1>1, MindInvariant, PTL

\* A document last written by a proposal has a row that does not deny it,
\* unless a restart could not look at the document.
THEOREM WriterIsNeverDenied == Spec => []LastWriterIsRecorded
<1>1. MindInv => LastWriterIsRecorded BY DEF MindInv
<1> QED BY <1>1, MindInvariant, PTL

\* While requests are served a claim has an owner, unless the store failed.
THEOREM ClaimsHaveOwners == Spec => []NoAbandonedClaim
<1>1. MindInv => NoAbandonedClaim BY DEF MindInv
<1> QED BY <1>1, MindInvariant, PTL

\* Taken together: what the rows say of claims, of writers and of documents is
\* true in every reachable state (the apply protocol of accept_proposal).
THEOREM RowsStayTrue == Spec => []RowsAreTrue
<1>1. MindInv => RowsAreTrue BY DEF MindInv, RowsAreTrue
<1> QED BY <1>1, MindInvariant, PTL

\* A document changes only by an outside edit or by the claimed proposal that
\* was reviewed for it (accept_proposal).
THEOREM WritesAreClaimed == Spec => OnlyTheClaimantWrites
<1> DEFINE A == \A d \in Docs : edits' = edits /\ file'[d] # file[d] =>
                  \E p \in Proposals : /\ state[p] = "applying"
                                       /\ review[p].to.doc = d
                                       /\ file'[d] = review[p].content
<1>1. MindInv /\ [Next]_vars => A
  <2> SUFFICES ASSUME MindInv, [Next]_vars PROVE A OBVIOUS
  <2>1. ASSUME NEW c \in Calls, Replace(c) PROVE A
    <3> DEFINE p == call[c].p
    <3>1. p \in Proposals /\ Owns(c, p) /\ call[c].to = review[p].to
      BY <2>1 DEF MindInv, LocalsOK, DeciderOK, TargetOK, Replace, At, Owns,
                  Owning, Proposing
    <3>2. state[p] = "applying" BY <3>1 DEF MindInv, OneClaimant
    <3>3. file' = [file EXCEPT ![call[c].to.doc] = review[p].content]
      BY <2>1 DEF Replace, Put
    <3> QED BY <3>1, <3>2, <3>3 DEF MindInv, TypeOK
  <2>2. ASSUME NEW d \in Docs, NEW x \in Contents \cup {None}, Edit(d, x) PROVE A
    BY <2>2 DEF Edit, MindInv, TypeOK
  <2>3. CASE UNCHANGED file BY <2>3
  <2>4. CASE \E c \in Calls : Request(c) \/ CallStep(c)
    BY <2>1, <2>3, <2>4, RequestsOnlyRead DEF CallStep, ReadBase, InsertProposal,
         Reject, CheckWorkspace, Resolve, Inspect, MarkStale, Claim, ReplaceFails,
         Release, FinalizeApplied, StoreFails
  <2>5. CASE Crash \/ Boot \/ Host
    BY <2>2, <2>3, <2>5 DEF Crash, Boot, Serve, Recover, Host, Remap, Activate
  <2> QED BY <2>3, <2>4, <2>5 DEF Next, vars
<1>2. MindInv /\ [Next]_vars => [A]_vars BY <1>1
<1> QED BY <1>2, MindInvariant, PTL DEF Spec, OnlyTheClaimantWrites

\* A decision is never revised (the source states of _transition).
THEOREM DecisionsStand == Spec => DecidedIsFinal
<1> DEFINE A == \A p \in Proposals : state[p] \in Decided => state'[p] = state[p]
<1>1. MindInv /\ [Next]_vars => A
  <2> SUFFICES ASSUME MindInv, [Next]_vars PROVE A OBVIOUS
  <2>1. ASSUME NEW p \in Proposals, NEW from, NEW to,
               CompareAndSet(p, from, to), from \cap Decided = {}
        PROVE A
    BY <2>1 DEF CompareAndSet, MindInv, TypeOK
  <2>2. Decidable \cap Decided = {} /\ {"applying"} \cap Decided = {}
    BY DEF Decidable, Decided
  <2>3. ASSUME NEW c \in Calls, NEW x \in Contents, InsertProposal(c, x) PROVE A
    BY <2>3 DEF InsertProposal, At, MindInv, LocalsOK, ProposerOK, Proposing,
                TypeOK, Decided
  <2>4. ASSUME NEW c \in Calls,
               Reject(c) \/ MarkStale(c) \/ Claim(c) \/ Release(c)
                 \/ FinalizeApplied(c)
        PROVE A
    <3>1. call[c].p \in Proposals
      BY <2>4 DEF Reject, MarkStale, Claim, Release, FinalizeApplied, At, MindInv,
                  LocalsOK, DeciderOK, Proposing
    <3> QED BY <2>1, <2>2, <2>4, <3>1 DEF Reject, MarkStale, Claim, Release,
                  FinalizeApplied
  <2>5. ASSUME NEW p \in Proposals, Recover(p) PROVE A
    BY <2>1, <2>2, <2>5 DEF Recover
  <2>6. CASE UNCHANGED state BY <2>6
  <2>7. CASE \E c \in Calls : Request(c) \/ CallStep(c)
    BY <2>3, <2>4, <2>6, <2>7, RequestsOnlyRead DEF CallStep, ReadBase,
         CheckWorkspace, Resolve, Inspect, Replace, ReplaceFails, StoreFails, rows
  <2>8. CASE Crash \/ Boot \/ Host
    BY <2>5, <2>6, <2>8 DEF Crash, Boot, Serve, Host, Edit, Remap, Activate, rows
  <2> QED BY <2>6, <2>7, <2>8 DEF Next, vars, rows
<1>2. MindInv /\ [Next]_vars => [A]_vars BY <1>1
<1> QED BY <1>2, MindInvariant, PTL DEF Spec, DecidedIsFinal
-----------------------------------------------------------------------------
(* Mind keeps the promises of ProposalBook.                                 *)

\* What the rows and the threads say of the phase of a proposal.
PhaseSays ==
    \A p \in Proposals :
        /\ state[p] \in Decidable => Phase[p] = "open"
        /\ state[p] \notin Decidable \cup {"applying"} => Phase[p] = state[p]
        /\ \A c \in Calls : Owns(c, p) =>
             /\ call[c].step = "replace" => Phase[p] = "accepted"
             /\ call[c].step = "finalize" => Phase[p] = "written"
             /\ call[c].step = "release" => Phase[p] = "failed"
        /\ state[p] = "applying" /\ (\A c \in Calls : ~ Owns(c, p)) => Phase[p] = "abandoned"

\* It does so because a claim has one owner at most.
LEMMA PhaseIsKnown == MindInv => PhaseSays
<1> SUFFICES ASSUME MindInv, NEW p \in Proposals
             PROVE  /\ state[p] \in Decidable => Phase[p] = "open"
                    /\ state[p] \notin Decidable \cup {"applying"} => Phase[p] = state[p]
                    /\ \A c \in Calls : Owns(c, p) =>
                         /\ call[c].step = "replace" => Phase[p] = "accepted"
                         /\ call[c].step = "finalize" => Phase[p] = "written"
                         /\ call[c].step = "release" => Phase[p] = "failed"
                    /\ state[p] = "applying" /\ (\A c \in Calls : ~ Owns(c, p))
                         => Phase[p] = "abandoned"
  BY DEF PhaseSays
<1>1. OneClaimant BY DEF MindInv
<1>2. state[p] \in Decidable => Phase[p] = "open" BY DEF Phase
<1>3. state[p] \notin Decidable \cup {"applying"} => Phase[p] = state[p] BY DEF Phase
<1>4. "applying" \notin Decidable BY DEF Decidable
<1>5. ASSUME NEW c \in Calls, Owns(c, p)
      PROVE  /\ call[c].step = "replace" => Phase[p] = "accepted"
             /\ call[c].step = "finalize" => Phase[p] = "written"
             /\ call[c].step = "release" => Phase[p] = "failed"
  <2>1. state[p] = "applying" /\ \A o \in Calls : Owns(o, p) => o = c
    BY <1>1, <1>5 DEF OneClaimant
  <2>2. \A step \in Owning : InHands(p, step) <=> call[c].step = step
    BY <1>5, <2>1 DEF InHands, Owns
  <2> QED BY <1>4, <2>1, <2>2 DEF Phase, Owning
<1>6. ASSUME state[p] = "applying", \A c \in Calls : ~ Owns(c, p) PROVE Phase[p] = "abandoned"
  <2>1. \A step \in Owning : ~ InHands(p, step) BY <1>6 DEF InHands, Owns
  <2> QED BY <1>4, <1>6, <2>1 DEF Phase, Owning
<1> QED BY <1>2, <1>3, <1>5, <1>6

\* ... and says it after a step as well.
LEMMA PhaseIsKnownNext == MindInv' => PhaseSays'
BY PhaseIsKnown, PTL

\* A thread moves the phase of the proposal it works on, and of no other.
LEMMA OnlyItsPhase ==
    ASSUME NEW c \in Calls, NEW q \in Proposals,
           \A o \in Calls \ {c} : call'[o] = call[o],
           call[c].step \in Owning => call[c].p = q,
           call'[c].step \in Owning => call'[c].p = q,
           \A p \in Proposals \ {q} : state'[p] = state[p]
    PROVE  Phase' = [Phase EXCEPT ![q] = Phase'[q]]
<1>1. ASSUME NEW p \in Proposals \ {q} PROVE Phase'[p] = Phase[p]
  <2>1. \A step \in Owning : InHands(p, step)' <=> InHands(p, step) BY DEF InHands
  <2>2. InHands(p, "replace")' <=> InHands(p, "replace") BY <2>1 DEF Owning
  <2>3. InHands(p, "finalize")' <=> InHands(p, "finalize") BY <2>1 DEF Owning
  <2>4. InHands(p, "release")' <=> InHands(p, "release") BY <2>1 DEF Owning
  <2> QED BY <2>2, <2>3, <2>4 DEF Phase
<1>2. Phase = [p \in Proposals |-> Phase[p]] /\ Phase' = [p \in Proposals |-> Phase'[p]]
  BY DEF Phase
<1> QED BY <1>1, <1>2

\* Threads without a claim and rows that stand move no phase.
LEMMA NoPhase ==
    ASSUME NEW c \in Calls, \A o \in Calls \ {c} : call'[o] = call[o],
           call[c].step \notin Owning, call'[c].step \notin Owning, state' = state
    PROVE  Phase' = Phase
<1>1. ASSUME NEW p \in Proposals, NEW step \in Owning
      PROVE  InHands(p, step)' <=> InHands(p, step)
  BY DEF InHands
<1>2. ASSUME NEW p \in Proposals PROVE Phase'[p] = Phase[p]
  <2>1. InHands(p, "replace")' <=> InHands(p, "replace") BY <1>1 DEF Owning
  <2>2. InHands(p, "finalize")' <=> InHands(p, "finalize") BY <1>1 DEF Owning
  <2>3. InHands(p, "release")' <=> InHands(p, "release") BY <1>1 DEF Owning
  <2> QED BY <2>1, <2>2, <2>3 DEF Phase
<1>3. Phase = [p \in Proposals |-> Phase[p]] /\ Phase' = [p \in Proposals |-> Phase'[p]]
  BY DEF Phase
<1> QED BY <1>2, <1>3

\* At first: documents that can be read, and no proposal.
LEMMA BookOpens == Init => Book!Init
BY DEF Init, Book!Init, Phase, Decidable

\* A thread that only reads does nothing that the book knows of.
LEMMA ReadingIsNothing ==
    ASSUME NEW c \in Calls, \A o \in Calls \ {c} : call'[o] = call[o],
           call[c].step \notin Owning, call'[c].step \notin Owning,
           UNCHANGED <<file, rows>>
    PROVE  UNCHANGED Book!vars
<1>1. state' = state /\ review' = review /\ file' = file BY DEF rows
<1>2. Phase' = Phase BY <1>1, NoPhase
<1> QED BY <1>1, <1>2 DEF Book!vars

\* A step of a thread that works on proposal q is one step of q in the book.
LEMMA MovesOne ==
    ASSUME MindInv, MindInv', NEW c \in Calls, NEW q \in Proposals, call[c].p = q,
           \A o \in Calls \ {c} : call'[o] = call[o],
           call'[c].step \in Owning => call'[c].p = q,
           \A p \in Proposals \ {q} : state'[p] = state[p],
           NEW from, NEW to, Phase[q] = from, Phase'[q] = to
    PROVE  Book!Turn(q, from, to)
<1>1. Phase' = [Phase EXCEPT ![q] = Phase'[q]] BY OnlyItsPhase
<1> QED BY <1>1 DEF Book!Turn

\* A proposal is submitted, a request declined or accepted.
LEMMA DecisionIsABookStep ==
    ASSUME MindInv, MindInv', NEW c \in Calls,
           \/ \E x \in Contents : InsertProposal(c, x)
           \/ Reject(c) \/ MarkStale(c) \/ Claim(c)
    PROVE  [Book!Next]_(Book!vars)
<1> DEFINE q == call[c].p
<1>1. TypeOK /\ LocalsOK /\ TypeOK' /\ PhaseSays /\ PhaseSays'
  BY PhaseIsKnown, PhaseIsKnownNext DEF MindInv
<1>2. q \in Proposals /\ call[c].step \notin Owning
  BY <1>1 DEF LocalsOK, ProposerOK, DeciderOK, Proposing, InsertProposal, Reject, MarkStale,
              Claim, At, Owning
<1>3. /\ call \in [Calls -> CallRecords] /\ state \in [Proposals -> States]
      /\ Idle.step \notin Owning /\ Idle.step = "idle"
  BY <1>1 DEF TypeOK, Idle, Owning
<1>4. \A o \in Calls \ {c} : call'[o] = call[o]
  BY <1>3 DEF InsertProposal, Reject, MarkStale, Claim, Return, Goto
<1>5. ASSUME NEW x \in Contents, InsertProposal(c, x) PROVE Book!Next
  <2>1. state[q] = "absent" BY <1>1, <1>5 DEF LocalsOK, ProposerOK, Proposing, InsertProposal, At
  <2>2. state' = [state EXCEPT ![q] = "pending"] /\ call'[c] = Idle
    BY <1>3, <1>5 DEF InsertProposal, Return
  <2>3. Phase[q] = "absent" BY <1>1, <1>2, <2>1 DEF PhaseSays, Decidable
  <2>4. Phase'[q] = "open" BY <1>1, <1>2, <1>3, <2>2 DEF PhaseSays, Decidable
  <2>5. Book!Turn(q, "absent", "open")
    BY <1>2, <1>3, <1>4, <2>2, <2>3, <2>4, MovesOne
  <2> DEFINE r == [to |-> call[c].to, base |-> call[c].base, content |-> x]
  <2>6. r \in Reviews
    BY <1>1, <1>5 DEF LocalsOK, ProposerOK, BaseOK, Proposing, InsertProposal, At, Reviews
  <2>7. review' = [review EXCEPT ![q] = r] /\ file' = file BY <1>5 DEF InsertProposal
  <2>8. Book!Submit(q) BY <2>5, <2>6, <2>7 DEF Book!Submit
  <2> QED BY <1>2, <2>8 DEF Book!Next
<1>6. ASSUME Reject(c) \/ MarkStale(c) PROVE [Book!Next]_(Book!vars)
  <2>1. UNCHANGED <<file, review>> /\ call'[c] = Idle
    BY <1>3, <1>6 DEF Reject, MarkStale, Return
  <2>2. CASE state' = state BY <1>2, <1>3, <1>4, <2>1, <2>2, ReadingIsNothing DEF rows
  <2>3. CASE state' # state
    <3>1. PICK to \in {"rejected", "stale"} : CompareAndSet(q, Decidable, to)
      BY <1>6 DEF Reject, MarkStale
    <3>2. state[q] \in Decidable /\ state' = [state EXCEPT ![q] = to]
      BY <2>3, <3>1 DEF CompareAndSet
    <3>3. Phase[q] = "open" BY <1>1, <1>2, <3>2 DEF PhaseSays
    <3>4. Phase'[q] = to BY <1>1, <1>2, <1>3, <3>2 DEF PhaseSays, Decidable
    <3>5. Book!Turn(q, "open", to) BY <1>2, <1>3, <1>4, <2>1, <3>2, <3>3, <3>4, MovesOne
    <3>6. Book!Decline(q) BY <2>1, <3>5 DEF Book!Decline
    <3> QED BY <1>2, <3>6 DEF Book!Next
  <2> QED BY <2>2, <2>3
<1>7. ASSUME Claim(c) PROVE [Book!Next]_(Book!vars)
  <2>1. UNCHANGED <<file, review>> BY <1>7 DEF Claim
  <2>2. CASE state[q] \notin Decidable
    <3>1. state' = state /\ call'[c] = Idle
      BY <1>3, <1>7, <2>2 DEF Claim, CompareAndSet, Return
    <3> QED BY <1>2, <1>3, <1>4, <2>1, <3>1, ReadingIsNothing DEF rows
  <2>3. CASE state[q] \in Decidable
    <3>1. /\ state' = [state EXCEPT ![q] = "applying"]
          /\ call'[c] = [call[c] EXCEPT !.step = "replace"]
      BY <1>3, <1>7, <2>3 DEF Claim, CompareAndSet, Goto
    <3>2. call'[c].step = "replace" /\ call'[c].p = q BY <1>3, <3>1 DEF CallRecords
    <3>3. Phase[q] = "open" BY <1>1, <1>2, <2>3 DEF PhaseSays
    <3>4. Phase'[q] = "accepted" BY <1>1, <1>2, <3>2 DEF PhaseSays, Owns, Owning
    <3>5. Book!Turn(q, "open", "accepted") BY <1>2, <1>3, <1>4, <3>1, <3>2, <3>3, <3>4, MovesOne
    <3>6. Book!Accept(q) BY <2>1, <3>5 DEF Book!Accept
    <3> QED BY <1>2, <3>6 DEF Book!Next
  <2> QED BY <2>2, <2>3
<1> QED BY <1>5, <1>6, <1>7

\* The writer of a claimed proposal writes, or fails to, and tells it.
LEMMA WritingIsABookStep ==
    ASSUME MindInv, MindInv', NEW c \in Calls,
           Replace(c) \/ ReplaceFails(c) \/ Release(c) \/ FinalizeApplied(c)
    PROVE  Book!Next
<1> DEFINE q == call[c].p
<1>1. TypeOK /\ LocalsOK /\ OneClaimant /\ PhaseSays /\ PhaseSays'
  BY PhaseIsKnown, PhaseIsKnownNext DEF MindInv
<1>2. /\ call[c].step \in Owning /\ q \in Proposals /\ Owns(c, q)
      /\ call[c].to = review[q].to
  BY <1>1 DEF LocalsOK, DeciderOK, TargetOK, Proposing, Replace, ReplaceFails, Release,
              FinalizeApplied, At, Owning, Owns
<1>3. /\ call \in [Calls -> CallRecords] /\ state \in [Proposals -> States]
      /\ Idle.step \notin Owning /\ state[q] = "applying"
  BY <1>1, <1>2 DEF TypeOK, Idle, Owning, OneClaimant
<1>4. \A o \in Calls \ {c} : call'[o] = call[o]
  BY <1>3 DEF Replace, ReplaceFails, Release, FinalizeApplied, Return, Goto
<1>5. ASSUME Replace(c) PROVE Book!Next
  <2>1. /\ call[c].step = "replace" /\ UNCHANGED <<state, review>>
        /\ call'[c] = [call[c] EXCEPT !.step = "finalize"]
        /\ file' = [file EXCEPT ![review[q].to.doc] = review[q].content]
    BY <1>2, <1>3, <1>5 DEF Replace, At, Goto, Put, rows
  <2>2. call'[c].step = "finalize" /\ call'[c].p = q BY <1>3, <2>1 DEF CallRecords
  <2>3. Phase[q] = "accepted" BY <1>1, <1>2, <2>1 DEF PhaseSays
  <2>4. Phase'[q] = "written" BY <1>1, <1>2, <2>2 DEF PhaseSays, Owns, Owning
  <2>5. Book!Turn(q, "accepted", "written") BY <1>2, <1>4, <2>1, <2>2, <2>3, <2>4, MovesOne
  <2>6. Book!Write(q) BY <2>1, <2>5 DEF Book!Write
  <2> QED BY <1>2, <2>6 DEF Book!Next
<1>6. ASSUME ReplaceFails(c) PROVE Book!Next
  <2>1. /\ call[c].step = "replace" /\ UNCHANGED <<file, state, review>>
        /\ call'[c] = [call[c] EXCEPT !.step = "release"]
    BY <1>3, <1>6 DEF ReplaceFails, At, Goto, rows
  <2>2. call'[c].step = "release" /\ call'[c].p = q BY <1>3, <2>1 DEF CallRecords
  <2>3. Phase[q] = "accepted" BY <1>1, <1>2, <2>1 DEF PhaseSays
  <2>4. Phase'[q] = "failed" BY <1>1, <1>2, <2>2 DEF PhaseSays, Owns, Owning
  <2>5. Book!Turn(q, "accepted", "failed") BY <1>2, <1>4, <2>1, <2>2, <2>3, <2>4, MovesOne
  <2>6. Book!Fail(q) BY <2>1, <2>5 DEF Book!Fail
  <2> QED BY <1>2, <2>6 DEF Book!Next
<1>7. ASSUME Release(c) PROVE Book!Next
  <2>1. /\ call[c].step = "release" /\ UNCHANGED <<file, review>> /\ call'[c] = Idle
        /\ state' = [state EXCEPT ![q] = "pending"]
    BY <1>3, <1>7 DEF Release, At, Return, CompareAndSet
  <2>2. Phase[q] = "failed" BY <1>1, <1>2, <2>1 DEF PhaseSays
  <2>3. Phase'[q] = "open" BY <1>1, <1>2, <1>3, <2>1 DEF PhaseSays, Decidable
  <2>4. Book!Turn(q, "failed", "open") BY <1>2, <1>3, <1>4, <2>1, <2>2, <2>3, MovesOne
  <2>5. Book!Close(q) BY <2>1, <2>4 DEF Book!Close
  <2> QED BY <1>2, <2>5 DEF Book!Next
<1>8. ASSUME FinalizeApplied(c) PROVE Book!Next
  <2>1. /\ call[c].step = "finalize" /\ UNCHANGED <<file, review>> /\ call'[c] = Idle
        /\ state' = [state EXCEPT ![q] = "applied"]
    BY <1>3, <1>8 DEF FinalizeApplied, At, Return, CompareAndSet
  <2>2. Phase[q] = "written" BY <1>1, <1>2, <2>1 DEF PhaseSays
  <2>3. Phase'[q] = "applied" BY <1>1, <1>2, <1>3, <2>1 DEF PhaseSays, Decidable
  <2>4. Book!Turn(q, "written", "applied") BY <1>2, <1>3, <1>4, <2>1, <2>2, <2>3, MovesOne
  <2>5. Book!Close(q) BY <2>1, <2>4 DEF Book!Close
  <2> QED BY <1>2, <2>5 DEF Book!Next
<1> QED BY <1>5, <1>6, <1>7, <1>8

\* A claimed proposal has the phase of its writer, or was abandoned.
LEMMA ClaimedIsHeld ==
    ASSUME MindInv, NEW p \in Proposals, state[p] = "applying"
    PROVE  /\ (\E c \in Calls : Owns(c, p)) => Phase[p] \in {"accepted", "written", "failed"}
           /\ (\A c \in Calls : ~ Owns(c, p)) => Phase[p] = "abandoned"
BY PhaseIsKnown DEF PhaseSays, Owns, Owning

\* The store refuses to record the end of an acceptance, or something less.
LEMMA RefusedIsABookStep ==
    ASSUME MindInv, MindInv', NEW c \in Calls, StoreFails(c)
    PROVE  [Book!Next]_(Book!vars)
<1> DEFINE q == call[c].p
<1>1. TypeOK /\ LocalsOK /\ OneClaimant /\ PhaseSays' /\ OneClaimant'
  BY PhaseIsKnownNext DEF MindInv
<1>2. /\ UNCHANGED <<file, rows>> /\ call'[c] = Idle /\ Idle.step \notin Owning
      /\ \A o \in Calls \ {c} : call'[o] = call[o]
  BY <1>1 DEF StoreFails, Return, TypeOK, Idle, Owning
<1>3. CASE call[c].step \notin Owning BY <1>2, <1>3, ReadingIsNothing
<1>4. CASE call[c].step \in Owning
  <2>1. q \in Proposals /\ Owns(c, q) /\ state[q] = "applying"
    BY <1>1, <1>4 DEF LocalsOK, DeciderOK, Proposing, Owning, Owns, OneClaimant
  <2>2. Phase[q] \in {"accepted", "written", "failed"} BY <2>1, ClaimedIsHeld
  <2>3. \A o \in Calls : ~ (call'[o].step \in Owning /\ call'[o].p = q)
    BY <1>1, <1>2, <2>1 DEF OneClaimant, Owns
  <2>4. Phase'[q] = "abandoned" BY <1>1, <1>2, <2>1, <2>3 DEF PhaseSays, rows, Owns
  <2>5. Phase' = [Phase EXCEPT ![q] = Phase'[q]] BY <1>2, <2>1, OnlyItsPhase DEF rows
  <2>6. Phase' = [p \in Proposals |-> IF p \in {q} THEN "abandoned" ELSE Phase[p]]
    BY <2>4, <2>5 DEF Phase
  <2>7. Book!Abandon({q}) BY <1>2, <2>2, <2>6 DEF Book!Abandon, rows
  <2> QED BY <2>1, <2>7 DEF Book!Next
<1> QED BY <1>3, <1>4

\* With the process go the writers of all acceptances under way.
LEMMA DyingIsABookStep ==
    ASSUME MindInv, MindInv', Crash
    PROVE  [Book!Next]_(Book!vars)
<1> DEFINE held == {p \in Proposals : \E c \in Calls : Owns(c, p)}
<1>1. OneClaimant /\ PhaseSays /\ PhaseSays' BY PhaseIsKnown, PhaseIsKnownNext DEF MindInv
<1>2. UNCHANGED <<file, rows>> /\ call' = [c \in Calls |-> Idle] BY DEF Crash
<1>3. \A c \in Calls, p \in Proposals : ~ Owns(c, p)' BY <1>2 DEF Owns, Owning, Idle
<1>4. ASSUME NEW p \in held
      PROVE  Phase[p] \in {"accepted", "written", "failed"} /\ Phase'[p] = "abandoned"
  <2>1. state[p] = "applying" BY <1>1 DEF OneClaimant
  <2>2. Phase[p] \in {"accepted", "written", "failed"} BY <2>1, ClaimedIsHeld
  <2> QED BY <1>1, <1>2, <1>3, <2>1, <2>2 DEF PhaseSays, rows
<1>5. ASSUME NEW p \in Proposals \ held PROVE Phase'[p] = Phase[p]
  <2>1. CASE state[p] = "applying"
    <3>1. Phase[p] = "abandoned" BY <2>1, <1>5, ClaimedIsHeld
    <3>2. Phase'[p] = "abandoned" BY <1>1, <1>2, <1>3, <2>1 DEF PhaseSays, rows
    <3> QED BY <3>1, <3>2
  <2>2. CASE state[p] # "applying" BY <1>1, <1>2, <2>2 DEF PhaseSays, rows
  <2> QED BY <2>1, <2>2
<1>6. Phase' = [p \in Proposals |-> IF p \in held THEN "abandoned" ELSE Phase[p]]
  <2>1. Phase' = [p \in Proposals |-> Phase'[p]] BY DEF Phase
  <2> HIDE DEF held
  <2> QED BY <1>4, <1>5, <2>1
<1>7. Book!Abandon(held) BY <1>2, <1>4, <1>6 DEF Book!Abandon, rows
<1> QED BY <1>7 DEF Book!Next

\* Recovery tells the end of an abandoned acceptance from the document.
LEMMA RecoveryIsABookStep ==
    ASSUME MindInv, MindInv', NEW p \in Proposals, Recover(p)
    PROVE  Book!Next
<1>1. TypeOK /\ QuietWhenDown /\ PhaseSays' BY PhaseIsKnownNext DEF MindInv
<1>2. /\ state[p] = "applying" /\ UNCHANGED <<file, review, call>>
      /\ state' = [state EXCEPT ![p] = Classify(p)]
  BY DEF Recover, CompareAndSet
<1>3. \A c \in Calls : call[c] = Idle BY <1>1 DEF Recover, QuietWhenDown
<1>4. \A c \in Calls, o \in Proposals : ~ Owns(c, o) BY <1>3 DEF Owns, Owning, Idle
<1>5. Phase[p] = "abandoned" BY <1>2, <1>4, ClaimedIsHeld
<1>6. state'[p] = Classify(p) BY <1>1, <1>2 DEF TypeOK
<1>7. Phase'[p] = IF Classify(p) = "interrupted" THEN "open" ELSE Classify(p)
  <2>1. Classify(p) \in {"interrupted", "applied", "stale"} BY DEF Classify
  <2> QED BY <1>1, <1>6, <2>1 DEF PhaseSays, Decidable
<1>8. Phase' = [Phase EXCEPT ![p] = Phase'[p]]
  <2>1. \A o \in Proposals, step \in {"replace", "finalize", "release"} :
           InHands(o, step)' <=> InHands(o, step)
    BY <1>2 DEF InHands
  <2>2. ASSUME NEW o \in Proposals \ {p} PROVE Phase'[o] = Phase[o]
    <3>1. state'[o] = state[o] BY <1>1, <1>2 DEF TypeOK
    <3> QED BY <2>1, <3>1 DEF Phase
  <2>3. Phase = [o \in Proposals |-> Phase[o]] /\ Phase' = [o \in Proposals |-> Phase'[o]]
    BY DEF Phase
  <2> QED BY <2>2, <2>3
<1>9. Book!Turn(p, "abandoned", Phase'[p]) BY <1>5, <1>8 DEF Book!Turn
<1>10. Book!Settle(p)
  <2>1. CASE Classify(p) = "interrupted" BY <1>2, <1>7, <1>9, <2>1 DEF Book!Settle
  <2>2. CASE Classify(p) = "applied"
    <3>1. Book!Held(p) = review[p].content BY <2>2 DEF Classify, Book!Held
    <3> QED BY <1>2, <1>7, <1>9, <2>2, <3>1 DEF Book!Settle
  <2>3. CASE Classify(p) = "stale"
    <3>1. Book!Held(p) \notin {review[p].base, review[p].content}
      BY <2>3 DEF Classify, Book!Held
    <3> QED BY <1>2, <1>7, <1>9, <2>3, <3>1 DEF Book!Settle
  <2> QED BY <2>1, <2>2, <2>3 DEF Classify
<1> QED BY <1>10 DEF Book!Next

\* Every step of Mind is a step of the book, or one that it does not know of.
LEMMA StepIsABookStep ==
    ASSUME MindInv, MindInv', [Next]_vars
    PROVE  [Book!Next]_(Book!vars)
<1>1. TypeOK BY DEF MindInv
<1>2. Idle.step \notin Owning BY DEF Idle, Owning
<1>3. ASSUME NEW c \in Calls, Request(c) PROVE [Book!Next]_(Book!vars)
  <2>0. call \in [Calls -> CallRecords] BY <1>1 DEF TypeOK
  <2> DEFINE Begins ==
        /\ call[c].step = "idle" /\ call'[c].step \in {"base", "reject", "resolve", "workspace"}
        /\ \A o \in Calls \ {c} : call'[o] = call[o]
  <2>1. Begins
    <3>1. ASSUME NEW p \in Proposals, NEW scope \in Scopes, Propose(c, p, scope) PROVE Begins
      BY <2>0, <3>1 DEF Propose, At, Idle
    <3>2. ASSUME NEW p \in Proposals, BeginReject(c, p) PROVE Begins
      BY <2>0, <3>2 DEF BeginReject, At, Idle
    <3>3. ASSUME NEW p \in Proposals, BeginAccept(c, p) PROVE Begins
      BY <2>0, <3>3 DEF BeginAccept, At, Idle
    <3> QED BY <1>3, <3>1, <3>2, <3>3, Zenon DEF Request
  <2>2. call[c].step \notin Owning /\ call'[c].step \notin Owning BY <2>1 DEF Owning
  <2>3. UNCHANGED <<file, rows>> BY <1>3, RequestsOnlyRead
  <2> QED BY <2>1, <2>2, <2>3, ReadingIsNothing
<1>4. ASSUME NEW c \in Calls, ReadBase(c) \/ CheckWorkspace(c) \/ Resolve(c) \/ Inspect(c)
      PROVE  [Book!Next]_(Book!vars)
  <2>1. call \in [Calls -> CallRecords] BY <1>1 DEF TypeOK
  <2>2. call[c].step \in {"base", "workspace", "resolve", "inspect"} /\ UNCHANGED <<file, rows>>
    BY <1>4 DEF ReadBase, CheckWorkspace, Resolve, Inspect, At
  <2>3. \A o \in Calls \ {c} : call'[o] = call[o]
    BY <1>4, <2>1 DEF ReadBase, CheckWorkspace, Resolve, Inspect, Goto, Return
  <2>4. call'[c].step \in {"idle", "insert", "resolve", "stale", "inspect", "claim"}
    BY <1>4, <2>1 DEF ReadBase, CheckWorkspace, Resolve, Inspect, Goto, Return, CallRecords, Idle
  <2>5. call[c].step \notin Owning /\ call'[c].step \notin Owning BY <2>2, <2>4 DEF Owning
  <2> QED BY <2>2, <2>3, <2>5, ReadingIsNothing
<1>5. ASSUME NEW c \in Calls, CallStep(c) PROVE [Book!Next]_(Book!vars)
  BY <1>4, <1>5, DecisionIsABookStep, WritingIsABookStep, RefusedIsABookStep DEF CallStep
<1>6. ASSUME UNCHANGED <<file, rows, call>> PROVE [Book!Next]_(Book!vars)
  <2>1. Phase' = Phase BY <1>6 DEF Phase, InHands, rows
  <2> QED BY <1>6, <2>1 DEF Book!vars, rows
<1>7. ASSUME NEW d \in Docs, NEW x \in Contents \cup {None}, Edit(d, x)
      PROVE  [Book!Next]_(Book!vars)
  <2>1. UNCHANGED <<rows, call>> /\ file' = [file EXCEPT ![d] = x] BY <1>7 DEF Edit, Put
  <2>2. Phase' = Phase BY <2>1 DEF Phase, InHands, rows
  <2>3. Book!Edit(d) BY <2>1, <2>2 DEF Book!Edit, rows
  <2> QED BY <2>3 DEF Book!Next
<1>8. ASSUME Boot \/ Host PROVE [Book!Next]_(Book!vars)
  BY <1>6, <1>7, <1>8, RecoveryIsABookStep DEF Boot, Host, Serve, Remap, Activate
<1>9. CASE UNCHANGED vars BY <1>6, <1>9 DEF vars
<1> QED BY <1>3, <1>5, <1>8, <1>9, DyingIsABookStep DEF Next

\* However its threads interleave, and wherever it dies, Mind writes a proposal once for
\* each time it is accepted, and what it records of it is so.
THEOREM ImplementsBook == Spec => BookSpec
<1>1. Init => Book!Init BY BookOpens
<1>2. MindInv /\ MindInv' /\ [Next]_vars => [Book!Next]_(Book!vars) BY StepIsABookStep
<1> QED BY <1>1, <1>2, MindInvariant, PTL DEF Spec, BookSpec, Book!Spec
=============================================================================
