-------------------------------- MODULE Mind --------------------------------
(***************************************************************************)
(* Mind: MindService (mind/service.py) over MindStore and the documents.    *)
(*                                                                          *)
(* A proposal is reviewed against the content of one document and, when a   *)
(* person accepts it, claimed in the database, written by a rename and only *)
(* then recorded.  Requests run in a thread pool and share no lock: every   *)
(* read, compare-and-set and rename is an action of its own.  The documents *)
(* and the mapping of roles to documents belong to the host and change      *)
(* underneath.  A content hash is the content, since only equality is asked *)
(* of it; a root and a relative name are one document.                      *)
(***************************************************************************)
EXTENDS Naturals

CONSTANTS
    Docs,        \* ordinary files a role may be mapped to
    Contents,    \* what a document may hold
    Workspaces,  \* configured workspaces: the project scopes
    Global,      \* the scope of the granted vault
    Proposals,   \* proposal ids
    Calls,       \* threads serving requests
    None,        \* no document, proposal, workspace or content
    MaxEdits,    \* bound: changes of a document from outside
    MaxChanges,  \* bound: workspace switches and remapped or revoked roles
    MaxCrashes   \* bound: process deaths

Scopes == Workspaces \cup {Global}

ASSUME GlobalAssumption == Global \notin Workspaces
ASSUME NoneAssumption ==
    None \notin Docs \cup Contents \cup Scopes \cup Proposals
ASSUME MindBoundsAssumption ==
    MaxEdits \in Nat /\ MaxChanges \in Nat /\ MaxCrashes \in Nat

VARIABLES
    file,     \* the content of each document, None when it is not readable
    names,    \* the document a scope maps the role to, None when it maps none
    active,   \* the active workspace
    state,    \* memory_proposals.state, or "absent"
    review,   \* the immutable columns of a row
    call,     \* the local variables of each thread
    mode,     \* "up" (serving) or "starting"
    edits,    \* number of changes from outside
    changes,  \* number of changes of the configuration
    crashes,  \* number of process deaths
    shown,    \* history: proposals whose document has held their content since
    last,     \* history: the proposal whose write is the newest change of a file
    blind,    \* history: claims recovery gave back without seeing the document
    lost      \* history: claims whose release or record the store refused

rows == <<state, review>>
config == <<names, active>>
bounds == <<edits, changes, crashes>>
history == <<shown, last, blind, lost>>
vars == <<file, config, rows, call, mode, bounds, history>>

Decidable == {"pending", "interrupted"}
Decided == {"applied", "rejected", "stale"}
States == {"absent", "applying"} \cup Decidable \cup Decided

Bindings == [scope : Scopes, doc : Docs]
Reviews == [to : Bindings, base : Contents, content : Contents]
Steps == {"idle", "base", "insert", "workspace", "resolve", "inspect", "stale",
          "claim", "replace", "release", "finalize", "reject"}
CallRecords == [step : Steps, p : Proposals \cup {None},
                to : Bindings \cup {None}, base : Contents \cup {None}]
Idle == [step |-> "idle", p |-> None, to |-> None, base |-> None]

\* A thread at one of these steps holds the claim of its proposal.
Owning == {"replace", "release", "finalize"}
Owns(c, p) == call[c].step \in Owning /\ call[c].p = p

-----------------------------------------------------------------------------
(* Resolution, and the one compare-and-set.                                 *)

\* _resolve: the vault, or the active workspace whatever the proposal says.
ScopeNow(scope) == IF scope = Global THEN Global ELSE active
Resolvable(scope) ==
    ScopeNow(scope) # None /\ names[ScopeNow(scope)] # None
Target(scope) == [scope |-> ScopeNow(scope), doc |-> names[ScopeNow(scope)]]

\* The row's scope still resolves, and to the document that was reviewed.
BoundMutant(p) == Resolvable(review[p].to.scope)
Bound(p) == /\ Resolvable(review[p].to.scope)
            /\ Target(review[p].to.scope) = review[p].to

\* _transition: the source states are in the UPDATE itself.
CompareAndSet(p, from, to) ==
    state' = IF state[p] \in from THEN [state EXCEPT ![p] = to] ELSE state

\* A document changes; "writer" is the proposal that wrote it, or None.
Put(d, x, writer) ==
    /\ file' = [file EXCEPT ![d] = x]
    /\ last' = [last EXCEPT ![d] = writer]
    /\ shown' = shown \cup
         {p \in Proposals : /\ state[p] # "absent"
                            /\ review[p].to.doc = d
                            /\ review[p].content = x}

At(c, step) == mode = "up" /\ call[c].step = step
Goto(c, step) == call' = [call EXCEPT ![c].step = step]
Return(c) == call' = [call EXCEPT ![c] = Idle]

-----------------------------------------------------------------------------
(* create_proposal: resolve, read the base, insert the row.                 *)

\* "p" is the id the insert will mint: fresh.
Propose(c, p, scope) ==
    /\ At(c, "idle")
    /\ state[p] = "absent" /\ \A o \in Calls : call[o].p # p
    /\ Resolvable(scope)
    /\ call' = [call EXCEPT ![c] = [Idle EXCEPT !.step = "base", !.p = p,
                                               !.to = Target(scope)]]
    /\ UNCHANGED <<file, config, rows, mode, bounds, history>>

\* inspect_document: a document that cannot be read refuses the proposal.
ReadBase(c) ==
    /\ At(c, "base")
    /\ IF file[call[c].to.doc] = None THEN Return(c)
       ELSE call' = [call EXCEPT ![c].step = "insert",
                                 ![c].base = file[call[c].to.doc]]
    /\ UNCHANGED <<file, config, rows, mode, bounds, history>>

InsertProposal(c, content) ==
    /\ At(c, "insert")
    /\ LET p == call[c].p
       IN  /\ state' = [state EXCEPT ![p] = "pending"]
           /\ review' = [review EXCEPT ![p] =
                [to |-> call[c].to, base |-> call[c].base, content |-> content]]
           /\ shown' = IF file[call[c].to.doc] = content THEN shown \cup {p}
                       ELSE shown
    /\ Return(c)
    /\ UNCHANGED <<file, config, mode, bounds, last, blind, lost>>

-----------------------------------------------------------------------------
(* reject_proposal and accept_proposal.                                     *)

BeginReject(c, p) ==
    /\ At(c, "idle")
    /\ state[p] \in Decidable
    /\ call' = [call EXCEPT ![c] = [Idle EXCEPT !.step = "reject", !.p = p]]
    /\ UNCHANGED <<file, config, rows, mode, bounds, history>>

RejectMutant(c) ==
    /\ At(c, "reject")
    /\ state' = [state EXCEPT ![call[c].p] = "rejected"]
    /\ Return(c)
    /\ UNCHANGED <<file, config, review, mode, bounds, history>>
Reject(c) ==
    /\ At(c, "reject")
    /\ CompareAndSet(call[c].p, Decidable, "rejected")
    /\ Return(c)
    /\ UNCHANGED <<file, config, review, mode, bounds, history>>

BeginAccept(c, p) ==
    /\ At(c, "idle")
    /\ state[p] \in Decidable
    /\ call' = [call EXCEPT ![c] =
         [Idle EXCEPT !.p = p,
                      !.step = IF review[p].to.scope = Global THEN "resolve"
                               ELSE "workspace"]]
    /\ UNCHANGED <<file, config, rows, mode, bounds, history>>

\* Another workspace is active: refused, and the proposal stays decidable.
CheckWorkspace(c) ==
    /\ At(c, "workspace")
    /\ IF active = review[call[c].p].to.scope THEN Goto(c, "resolve")
       ELSE Return(c)
    /\ UNCHANGED <<file, config, rows, mode, bounds, history>>

\* The configuration is read again: no document refuses, another document
\* makes the proposal stale.
Resolve(c) ==
    /\ At(c, "resolve")
    /\ LET p == call[c].p
           scope == review[p].to.scope
       IN  \/ /\ ~Resolvable(scope)
              /\ Return(c)
           \/ /\ Resolvable(scope) /\ ~Bound(p)
              /\ Goto(c, "stale")
           \/ /\ Bound(p)
              /\ call' = [call EXCEPT ![c].step = "inspect",
                                      ![c].to = Target(scope)]
    /\ UNCHANGED <<file, config, rows, mode, bounds, history>>

\* The held descriptor is read: drifted and missing are both stale.
Inspect(c) ==
    /\ At(c, "inspect")
    /\ Goto(c, IF file[call[c].to.doc] = review[call[c].p].base
               THEN "claim" ELSE "stale")
    /\ UNCHANGED <<file, config, rows, mode, bounds, history>>

MarkStale(c) ==
    /\ At(c, "stale")
    /\ CompareAndSet(call[c].p, Decidable, "stale")
    /\ Return(c)
    /\ UNCHANGED <<file, config, review, mode, bounds, history>>

\* Mutant: whether the compare-and-set took is not looked at.
ClaimMutant(c) ==
    /\ At(c, "claim")
    /\ CompareAndSet(call[c].p, Decidable, "applying")
    /\ Goto(c, "replace")
    /\ UNCHANGED <<file, config, review, mode, bounds, history>>

\* claim: the compare-and-set that makes one caller the writer.
Claim(c) ==
    /\ At(c, "claim")
    /\ CompareAndSet(call[c].p, Decidable, "applying")
    /\ IF state[call[c].p] \in Decidable THEN Goto(c, "replace") ELSE Return(c)
    /\ UNCHANGED <<file, config, review, mode, bounds, history>>

\* The rename.  Nothing is read again on the way to it.
Replace(c) ==
    /\ At(c, "replace")
    /\ Put(call[c].to.doc, review[call[c].p].content, call[c].p)
    /\ Goto(c, "finalize")
    /\ UNCHANGED <<config, rows, mode, bounds, blind, lost>>

\* ApplyFailed: the document is what it was.
ReplaceFailsMutant(c) ==
    /\ At(c, "replace")
    /\ Return(c)
    /\ UNCHANGED <<file, config, rows, mode, bounds, history>>
ReplaceFails(c) ==
    /\ At(c, "replace")
    /\ Goto(c, "release")
    /\ UNCHANGED <<file, config, rows, mode, bounds, history>>

Release(c) ==
    /\ At(c, "release")
    /\ CompareAndSet(call[c].p, {"applying"}, "pending")
    /\ Return(c)
    /\ UNCHANGED <<file, config, review, mode, bounds, history>>

FinalizeApplied(c) ==
    /\ At(c, "finalize")
    /\ CompareAndSet(call[c].p, {"applying"}, "applied")
    /\ Return(c)
    /\ UNCHANGED <<file, config, review, mode, bounds, history>>

\* StoreUnavailable or a SQLite error: the transaction is rolled back and the
\* call ends.  A claim whose release or record fails has no owner any more.
StoreFails(c) ==
    /\ mode = "up"
    /\ call[c].step \in {"insert", "reject", "stale", "claim", "release", "finalize"}
    /\ lost' = IF call[c].step \in Owning THEN lost \cup {call[c].p} ELSE lost
    /\ Return(c)
    /\ UNCHANGED <<file, config, rows, mode, bounds, shown, last, blind>>

-----------------------------------------------------------------------------
(* The end of the process, and recover_after_restart.                       *)

Crash ==
    /\ mode = "up" /\ crashes < MaxCrashes
    /\ mode' = "starting"
    /\ crashes' = crashes + 1
    /\ call' = [c \in Calls |-> Idle]
    /\ lost' = {}
    /\ UNCHANGED <<file, config, rows, edits, changes, shown, last, blind>>

\* _classify_interrupted: what the row and the document say together.
Seen(p) == Bound(p) /\ file[review[p].to.doc] # None
ClassifyByBase(p) ==
    IF Seen(p) /\ file[review[p].to.doc] # review[p].base
    THEN "stale" ELSE "interrupted"
Classify(p) ==
    IF ~Seen(p) THEN "interrupted"
    ELSE IF file[review[p].to.doc] = review[p].content THEN "applied"
    ELSE IF file[review[p].to.doc] = review[p].base THEN "interrupted"
    ELSE "stale"

\* One outstanding claim: read, classify, record.  No document is written.
Recover(p) ==
    /\ mode = "starting"
    /\ state[p] = "applying"
    /\ CompareAndSet(p, {"applying"}, Classify(p))
    /\ blind' = IF Seen(p) THEN blind ELSE blind \cup {p}
    /\ UNCHANGED <<file, config, review, call, mode, bounds, shown, last, lost>>

\* The first request is served after every claim has been classified.
Serve ==
    /\ mode = "starting"
    /\ \A p \in Proposals : state[p] # "applying"
    /\ mode' = "up"
    /\ UNCHANGED <<file, config, rows, call, bounds, history>>

-----------------------------------------------------------------------------
(* The host: a person at an editor, at workspaces.json, at the client.      *)

Edit(d, x) ==
    /\ edits < MaxEdits
    /\ file[d] # x
    /\ Put(d, x, None)
    /\ edits' = edits + 1
    /\ UNCHANGED <<config, rows, call, mode, changes, crashes, blind, lost>>

Remap(scope, d) ==
    /\ changes < MaxChanges
    /\ names[scope] # d
    /\ names' = [names EXCEPT ![scope] = d]
    /\ changes' = changes + 1
    /\ UNCHANGED <<file, active, rows, call, mode, edits, crashes, history>>

Activate(w) ==
    /\ mode = "up"
    /\ changes < MaxChanges
    /\ active # w
    /\ active' = w
    /\ changes' = changes + 1
    /\ UNCHANGED <<file, names, rows, call, mode, edits, crashes, history>>

-----------------------------------------------------------------------------
Init ==
    /\ file \in [Docs -> Contents]
    /\ names \in [Scopes -> Docs]
    /\ active \in Workspaces
    /\ state = [p \in Proposals |-> "absent"]
    /\ review = [p \in Proposals |-> None]
    /\ call = [c \in Calls |-> Idle]
    /\ mode = "up"
    /\ edits = 0 /\ changes = 0 /\ crashes = 0
    /\ shown = {} /\ blind = {} /\ lost = {}
    /\ last = [d \in Docs |-> None]

Request(c) ==
    \E p \in Proposals :
        \/ \E scope \in Scopes : Propose(c, p, scope)
        \/ BeginReject(c, p)
        \/ BeginAccept(c, p)

CallStep(c) ==
    \/ ReadBase(c)
    \/ \E x \in Contents : InsertProposal(c, x)
    \/ Reject(c) \/ CheckWorkspace(c) \/ Resolve(c) \/ Inspect(c)
    \/ MarkStale(c) \/ Claim(c) \/ Replace(c) \/ ReplaceFails(c)
    \/ Release(c) \/ FinalizeApplied(c) \/ StoreFails(c)

Boot == Serve \/ \E p \in Proposals : Recover(p)

Host ==
    \/ \E d \in Docs, x \in Contents \cup {None} : Edit(d, x)
    \/ \E scope \in Scopes, d \in Docs \cup {None} : Remap(scope, d)
    \/ \E w \in Workspaces \cup {None} : Activate(w)

Next ==
    \/ \E c \in Calls : Request(c) \/ CallStep(c)
    \/ Crash \/ Boot \/ Host

Spec == Init /\ [][Next]_vars

\* A request in the thread pool goes on, and start-up is a loop over rows.
Fairness == WF_vars(Boot) /\ \A c \in Calls : WF_vars(CallStep(c))
FairSpec == Spec /\ Fairness

-----------------------------------------------------------------------------
(* Properties.                                                              *)

\* Every variable has its type; a base and a proposed content are never None.
TypeOK ==
    /\ file \in [Docs -> Contents \cup {None}]
    /\ names \in [Scopes -> Docs \cup {None}]
    /\ active \in Workspaces \cup {None}
    /\ state \in [Proposals -> States]
    /\ review \in [Proposals -> Reviews \cup {None}]
    /\ call \in [Calls -> CallRecords]
    /\ mode \in {"up", "starting"}
    /\ edits \in Nat /\ changes \in Nat /\ crashes \in Nat
    /\ shown \subseteq Proposals /\ blind \subseteq Proposals
    /\ lost \subseteq Proposals
    /\ last \in [Docs -> Proposals \cup {None}]

\* Of the threads that accept one proposal at once, at most one is its writer,
\* and while it is, the row says so (claim, mind/store.py).
OneClaimant ==
    \A p \in Proposals : \A c, o \in Calls :
        Owns(c, p) /\ Owns(o, p) => c = o /\ state[p] = "applying"

\* A change of a document that is not an outside edit is the content of one
\* claimed proposal, in the document that proposal was reviewed for, whatever
\* the configuration has become meanwhile (accept_proposal).
OnlyTheClaimantWrites ==
    [][\A d \in Docs : edits' = edits /\ file'[d] # file[d] =>
         \E p \in Proposals : /\ state[p] = "applying"
                              /\ review[p].to.doc = d
                              /\ file'[d] = review[p].content]_vars

\* A decision is never revised: not by a racing request, not by a restart.
DecidedIsFinal ==
    [][\A p \in Proposals : state[p] \in Decided => state'[p] = state[p]]_vars

\* The store never says "applied" of content its document has not held since
\* the proposal was made (the promise of the apply protocol).
AppliedIsTrue ==
    \A p \in Proposals : state[p] = "applied" => p \in shown

\* A document whose newest change is an accepted proposal has a row that does
\* not deny it, unless a restart could not look at the document.
LastWriterIsRecorded ==
    \A d \in Docs : last[d] # None =>
        state[last[d]] \in {"applying", "applied"} \/ last[d] \in blind

\* While requests are served, a claim is in some thread's hands, except where
\* the store refused to record how the apply ended.
NoAbandonedClaim ==
    mode = "up" => \A p \in Proposals : state[p] = "applying" =>
        p \in lost \/ \E c \in Calls : Owns(c, p)

\* What the rows say of claims, of writers and of documents is true, all
\* threads, edits and restarts together.
RowsAreTrue ==
    OneClaimant /\ AppliedIsTrue /\ LastWriterIsRecorded /\ NoAbandonedClaim

\* A claim ends, across restarts, except where the store refused to record it.
ClaimIsSettled ==
    \A p \in Proposals :
        state[p] = "applying" ~> (state[p] # "applying" \/ p \in lost)

\* The file that was hashed is the file that is written: a write replaces the
\* content of an earlier accepted proposal only if that was its base.
HashedIsWritten ==
    [][\A d \in Docs : last[d] # None /\ last'[d] # None /\ last'[d] # last[d] =>
         review[last'[d]].base = review[last[d]].content]_vars

-----------------------------------------------------------------------------
(* Mind keeps the promises of ProposalBook.                                 *)

InHands(p, step) == \E c \in Calls : call[c].step = step /\ call[c].p = p

\* What became of a proposal; of a claimed one its writer knows.
Phase == [p \in Proposals |->
            IF state[p] \in Decidable THEN "open"
            ELSE IF state[p] # "applying" THEN state[p]
            ELSE IF InHands(p, "replace") THEN "accepted"
            ELSE IF InHands(p, "finalize") THEN "written"
            ELSE IF InHands(p, "release") THEN "failed"
            ELSE "abandoned"]

Book == INSTANCE ProposalBook WITH text <- file, phase <- Phase, about <- review,
                                   Texts <- Contents

\* However its threads interleave, and wherever it dies, Mind writes a proposal once
\* for each time it is accepted, and what it records of it is so (accept_proposal,
\* recover_after_restart).
BookSpec == Book!Spec
=============================================================================
