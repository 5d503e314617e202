----------------------------- MODULE TurnLedger -----------------------------
(***************************************************************************)
(* What Task Core promises a reader of a task's history, whatever crashes,  *)
(* retries and refusals happen on the way: turns are numbered in the order  *)
(* they were opened, a turn is opened only on a live task whose last turn    *)
(* completed, an outcome is written once, and a task that has ended keeps   *)
(* the history it ended with.                                               *)
(***************************************************************************)
EXTENDS Naturals, Sequences

CONSTANT Tasks

VARIABLES
    phase,  \* "absent", "live" or "ended"
    ledger  \* the outcomes of the turns; "open" for the one in flight

vars == <<phase, ledger>>

InFlight(t) == ledger[t] # <<>> /\ ledger[t][Len(ledger[t])] = "open"

Accept(t) ==
    /\ phase[t] = "absent"
    /\ phase' = [phase EXCEPT ![t] = "live"]
    /\ UNCHANGED ledger

OpenNext(t) ==
    /\ phase[t] = "live"
    /\ ledger[t] # <<>> => ledger[t][Len(ledger[t])] = "completed"
    /\ ledger' = [ledger EXCEPT ![t] = Append(@, "open")]
    /\ UNCHANGED phase

\* A failed or cancelled turn takes the task with it; a completed or an
\* interrupted one may leave it live.
Close(t) ==
    /\ phase[t] = "live"
    /\ InFlight(t)
    /\ \E outcome \in {"completed", "failed", "cancelled", "interrupted"} :
          ledger' = [ledger EXCEPT ![t][Len(ledger[t])] = outcome]
    /\ \/ phase' = [phase EXCEPT ![t] = "ended"]
       \/ /\ ledger'[t][Len(ledger[t])] \in {"completed", "interrupted"}
          /\ UNCHANGED phase

End(t) ==
    /\ phase[t] = "live"
    /\ ~InFlight(t)
    /\ phase' = [phase EXCEPT ![t] = "ended"]
    /\ UNCHANGED ledger

Init == phase = [t \in Tasks |-> "absent"] /\ ledger = [t \in Tasks |-> <<>>]

Next == \E t \in Tasks : Accept(t) \/ OpenNext(t) \/ Close(t) \/ End(t)

Spec == Init /\ [][Next]_vars
=============================================================================
