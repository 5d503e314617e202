---------------------------- MODULE ProposalBook ----------------------------
(***************************************************************************)
(* What Mind promises a person who reviews proposals, whatever threads,     *)
(* edits, faults and restarts come in between: a proposal is written only   *)
(* after it was accepted, once for each time it is accepted, to the         *)
(* document it was about; it is recorded as applied after it was written,   *)
(* or when it can be seen in its document; a decision stands.               *)
(***************************************************************************)
CONSTANTS
    Docs, Proposals,
    Texts,    \* what a document may hold, when it can be read
    Reviews,  \* what a proposal may be about: [to.doc, base, content]
    None      \* the text of a document that cannot be read

VARIABLES
    text,   \* of each document
    phase,  \* "absent", "open", "accepted", "written", "failed", "abandoned"
            \* or decided: "applied", "rejected", "stale"
    about   \* the review of each proposal

vars == <<text, phase, about>>

Turn(p, from, to) ==
    /\ phase[p] = from
    /\ phase' = [phase EXCEPT ![p] = to]

Held(p) == text[about[p].to.doc]

Submit(p) ==
    /\ Turn(p, "absent", "open")
    /\ \E r \in Reviews : about' = [about EXCEPT ![p] = r]
    /\ UNCHANGED text

Decline(p) ==
    /\ Turn(p, "open", "rejected") \/ Turn(p, "open", "stale")
    /\ UNCHANGED <<text, about>>

Accept(p) ==
    /\ Turn(p, "open", "accepted")
    /\ UNCHANGED <<text, about>>

Write(p) ==
    /\ Turn(p, "accepted", "written")
    /\ text' = [text EXCEPT ![about[p].to.doc] = about[p].content]
    /\ UNCHANGED about

Fail(p) ==
    /\ Turn(p, "accepted", "failed")
    /\ UNCHANGED <<text, about>>

\* The end of an acceptance, as its writer tells it.
Close(p) ==
    /\ Turn(p, "written", "applied") \/ Turn(p, "failed", "open")
    /\ UNCHANGED <<text, about>>

\* The writers of some acceptances are gone.
Abandon(gone) ==
    /\ \A p \in gone : phase[p] \in {"accepted", "written", "failed"}
    /\ phase' = [p \in Proposals |-> IF p \in gone THEN "abandoned" ELSE phase[p]]
    /\ UNCHANGED <<text, about>>

\* ... and its end as the document tells it, or left open.
Settle(p) ==
    /\ \/ Turn(p, "abandoned", "open")
       \/ Turn(p, "abandoned", "applied") /\ Held(p) = about[p].content
       \/ Turn(p, "abandoned", "stale") /\ Held(p) \notin {about[p].base, about[p].content}
    /\ UNCHANGED <<text, about>>

Edit(d) ==
    /\ \E x \in Texts \cup {None} : text' = [text EXCEPT ![d] = x]
    /\ UNCHANGED <<phase, about>>

Init ==
    /\ text \in [Docs -> Texts]
    /\ phase = [p \in Proposals |-> "absent"]
    /\ about = [p \in Proposals |-> None]

Next ==
    \/ \E p \in Proposals : \/ Submit(p) \/ Decline(p) \/ Accept(p) \/ Write(p)
                            \/ Fail(p) \/ Close(p) \/ Settle(p)
    \/ \E gone \in SUBSET Proposals : Abandon(gone)
    \/ \E d \in Docs : Edit(d)

Spec == Init /\ [][Next]_vars
=============================================================================
