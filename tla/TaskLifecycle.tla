--------------------------- MODULE TaskLifecycle ---------------------------
(***************************************************************************)
(* The task state graph: the states of models.py and the arrows of         *)
(* lifecycle.py, as sets and a function.                                    *)
(***************************************************************************)

Terminal == {"completed", "failed", "cancelled", "interrupted"}

\* Every state a stored row may carry.
States == Terminal \cup
    {"created", "queued", "starting", "running", "waiting_for_user",
     "ready_for_followup", "cancelling", "recovery_required"}

\* States in which send_followup may deliver a message.
FollowupStates == {"waiting_for_user", "ready_for_followup"}

\* The reports whose arrival ends the open turn.
TurnEndingStates == {"completed", "failed", "cancelled", "ready_for_followup"}

\* The arrows out of each non-terminal state; terminal states have none.
AllowedTransitions ==
    [created |-> {"queued", "failed", "cancelling", "cancelled", "interrupted"},
     queued |-> {"starting", "failed", "cancelling", "cancelled", "interrupted"},
     starting |-> {"running", "failed", "cancelling", "interrupted",
                   "recovery_required"},
     running |-> {"waiting_for_user", "ready_for_followup", "completed",
                  "failed", "cancelling", "interrupted", "recovery_required"},
     ready_for_followup |-> {"running", "waiting_for_user", "completed",
                             "failed", "cancelling", "interrupted",
                             "recovery_required"},
     waiting_for_user |-> {"running", "failed", "cancelling", "interrupted",
                           "recovery_required"},
     cancelling |-> {"cancelled", "completed", "failed", "interrupted",
                     "recovery_required"},
     recovery_required |-> {"cancelling", "cancelled", "failed", "interrupted"}]

CanTransition(from, to) ==
    /\ from \in States \ Terminal
    /\ to \in AllowedTransitions[from]
=============================================================================
