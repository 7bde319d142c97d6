------------------------ MODULE SessionStopStateStore ------------------------
(***************************************************************************)
(* SessionStopStateStore.requestWithEvent.  An unconfirmed request is      *)
(* reused with the targets it was created with; otherwise a new one        *)
(* freezes its targets: the active invocations of the draft and the        *)
(* invocations its caller passes in, which the caller read from memory     *)
(* before this transaction was queued.                                     *)
(***************************************************************************)
EXTENDS SessionDraft

\* Mutant: the durable reservations are not scanned.
StopTargets_SupervisedOnly(supervised) == supervised

StopTargets(supervised) ==
    {i \in Invs : \E o \in OpIds : ops[o].active = i /\ ops[o].stop # "confirmed"}
        \cup supervised

NewStopRequest(targets) ==
    [ status  |-> IF targets = {} THEN "confirmed" ELSE "waiting",
      targets |-> [i \in Invs |-> IF i \in targets THEN "waiting" ELSE "none"] ]

RequestStop(supervised) ==
    /\ stopRequest' = IF stopRequest.status = "waiting"
                      THEN stopRequest
                      ELSE NewStopRequest(StopTargets(supervised))
    /\ lifecycle' = SyncStopStatus(lifecycle, stopRequest')
    /\ UNCHANGED <<session, ops>>
=============================================================================
