------------------------ MODULE SessionLifecycleStore ------------------------
(***************************************************************************)
(* The methods of SessionLifecycleStore, each one transaction.  A method   *)
(* that throws leaves the draft as it is, so its guards are conjuncts; a   *)
(* method that returns changed: false is a step with the draft UNCHANGED.  *)
(* The generation is the fence between executions admitted before and      *)
(* after a delete, a restore or an archive restore.  The revision counter  *)
(* only names lifecycle events and is left out with them.                  *)
(***************************************************************************)
EXTENDS SessionDraft

Unchanged == UNCHANGED durable

Paused(s) == [s EXCEPT !.status = "PAUSED"]

BeginDelete ==
    IF lifecycle.state \in {"deleting", "deleted"}
    THEN Unchanged
    ELSE /\ lifecycle.generation < MaxGeneration
         /\ lifecycle' = [ state |-> "deleting", admission |-> "closed",
                           stopStatus |-> "requested",
                           generation |-> lifecycle.generation + 1,
                           restored |-> FALSE ]
         /\ session' = Paused(session)
         /\ UNCHANGED <<stopRequest, ops>>

CloseForStop ==
    IF lifecycle.state \in {"deleting", "deleted"} \/ lifecycle.admission = "closed"
    THEN Unchanged
    ELSE /\ lifecycle' = [ state |-> "active", admission |-> "closed",
                           stopStatus |-> "requested",
                           generation |-> IF HasLifecycle THEN lifecycle.generation ELSE 1,
                           restored |-> FALSE ]
         /\ UNCHANGED <<session, stopRequest, ops>>

MarkArchived ==
    /\ HasLifecycle
    /\ IF session.archived
       THEN Unchanged
       ELSE /\ lifecycle.state = "active"
            /\ lifecycle.admission = "closed"
            /\ SummaryCanResume
            /\ lifecycle' = [lifecycle EXCEPT !.stopStatus = LatestStopStatus]
            /\ session' = [ status |-> "PAUSED", archived |-> TRUE ]
            /\ UNCHANGED <<stopRequest, ops>>

\* The method reads archivedAt and the stop summary; it never reads lifecycle.state.
RestoreArchived ==
    /\ HasLifecycle
    /\ IF ~session.archived
       THEN Unchanged
       ELSE /\ SummaryCanResume
            /\ lifecycle.generation < MaxGeneration
            /\ lifecycle' = [lifecycle EXCEPT !.admission = "open",
                                              !.stopStatus = LatestStopStatus,
                                              !.generation = @ + 1,
                                              !.restored = FALSE]
            /\ session' = [ status |-> "PAUSED", archived |-> FALSE ]
            /\ UNCHANGED <<stopRequest, ops>>

Reopen ==
    /\ lifecycle.state = "active"
    /\ LatestStopStatus \in {"idle", "confirmed"}
    /\ IF lifecycle.admission = "open" /\ lifecycle.stopStatus \in {"idle", "confirmed"}
       THEN Unchanged
       ELSE /\ lifecycle' = [lifecycle EXCEPT !.admission = "open",
                                              !.stopStatus = LatestStopStatus]
            /\ UNCHANGED <<session, stopRequest, ops>>

CompleteDelete ==
    IF lifecycle.state = "deleted"
    THEN Unchanged
    ELSE /\ lifecycle.state = "deleting"
         /\ lifecycle' =
                IF SummaryCanResume
                THEN [lifecycle EXCEPT !.stopStatus = LatestStopStatus,
                                       !.state = "deleted", !.admission = "closed"]
                ELSE [lifecycle EXCEPT !.stopStatus = LatestStopStatus]
         /\ UNCHANGED <<session, stopRequest, ops>>

\* expected is the generation the user saw when asking for the restore.
Restore(expected) ==
    /\ lifecycle.generation = expected
    /\ lifecycle.generation < MaxGeneration
    /\ lifecycle.state = "deleted"
    /\ LatestStopStatus \in {"idle", "confirmed"}
    /\ lifecycle' = [ state |-> "active", admission |-> "closed",
                      stopStatus |-> LatestStopStatus,
                      generation |-> lifecycle.generation + 1,
                      restored |-> TRUE ]
    /\ session' = Paused(session)
    /\ UNCHANGED <<stopRequest, ops>>
=============================================================================
