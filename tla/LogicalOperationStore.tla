------------------------ MODULE LogicalOperationStore ------------------------
(***************************************************************************)
(* The methods of LogicalOperationStore: the reservation an adapter needs  *)
(* before it may start a process, and the evidence that ends it.           *)
(*                                                                         *)
(* Time is abstracted to choices: "left" says whether any active time      *)
(* remained (remainingActiveMs > 0) when an invocation ended.  A deadline  *)
(* that passed makes reserve throw; the callers of these actions may fail  *)
(* at any time, which includes it.  "owner" is the server process (a       *)
(* restart count) that holds the store, ownerId in the code.               *)
(***************************************************************************)
EXTENDS SessionDraft

OpFor(b) == <<b, lifecycle.generation>>

\* assertRestrictedRoutingAdmission
RestrictedAdmission ==
    /\ ~session.archived
    /\ lifecycle.state \in {"none", "active"}
    /\ stopRequest.status # "waiting"
    /\ \A o \in OpIds : ops[o].stop \notin {"unconfirmed", "requested"}
    /\ lifecycle.stopStatus \in {"idle", "confirmed"}

\* The lifecycle conditions of begin and reserve.
Admits(b) ==
    /\ b \in Restricted => RestrictedAdmission
    /\ lifecycle.state \in {"none", "active"}
    /\ b \in Restricted \/ lifecycle.admission = "open"

\* begin creates the operation of the current generation or returns it as it is;
\* a restricted operation is never begun again in another generation.
BeginOp(b) ==
    /\ Admits(b)
    /\ b \in Restricted /\ HasLifecycle =>
           \A g \in Generations \ {lifecycle.generation} : ops[<<b, g>>].status = "absent"
    /\ ops' = IF ops[OpFor(b)].status = "absent"
              THEN [ops EXCEPT ![OpFor(b)] = [AbsentOp EXCEPT !.status = "ready"]]
              ELSE ops
    /\ UNCHANGED <<lifecycle, session, stopRequest>>

\* An operation of a Session without lifecycle has no sessionGeneration.
GenerationMismatch(o) == o[2] # 0 /\ o[2] # lifecycle.generation

\* Operations whose process may be running without this server knowing of it.
UnknownTo(owner) ==
    {o \in OpIds : \/ ops[o].stop = "unconfirmed"
                   \/ /\ ops[o].status = "running"
                      /\ ops[o].active \notin Internal
                      /\ ops[o].owner # owner}

CanReserve(o, i, owner) ==
    /\ ops[o].status \in {"ready", "running"}
    /\ Admits(o[1])
    /\ HasLifecycle => ~GenerationMismatch(o)
    /\ o[1] \in Restricted \/ session.status = "EXECUTING"
    /\ stopRequest.status # "waiting"
    /\ UnknownTo(owner) = {}
    /\ ops[o].active = NoInv
    /\ i \notin ops[o].invs
    /\ ops[o].attempts < MaxAttempts

Reserve(o, i, owner) ==
    /\ CanReserve(o, i, owner)
    /\ ops' = [ops EXCEPT ![o].attempts = @ + 1,
                          ![o].invs     = @ \cup {i},
                          ![o].active   = i,
                          ![o].owner    = owner,
                          ![o].bridged  = i \in Local,
                          ![o].status   = "running",
                          ![o].stop     = "none"]
    /\ UNCHANGED <<lifecycle, session, stopRequest>>

\* Mutant: a requested pause is forgotten when the invocation ends.
EndedStatus_NoPause(op, left) ==
    IF left /\ op.attempts < MaxAttempts THEN "ready" ELSE "exhausted"

\* The status an operation takes when its invocation is known to have ended.
EndedStatus(op, left) ==
    CASE op.pauseReq -> "paused"
      [] ~op.pauseReq /\ left /\ op.attempts < MaxAttempts -> "ready"
      [] OTHER -> "exhausted"

\* Mutant: an unconfirmed stop releases the reservation too.
SettledOp_AlwaysReleases(op, stop, pause, left) ==
    LET requested == [op EXCEPT !.stop = stop, !.pauseReq = @ \/ pause, !.active = NoInv]
    IN  [requested EXCEPT !.status = IF stop = "confirmed" THEN EndedStatus(requested, left)
                                     ELSE "interrupted"]

SettledOp(op, stop, pause, left) ==
    LET requested == [op EXCEPT !.stop = stop, !.pauseReq = @ \/ pause]
    IN  IF stop = "confirmed"
        THEN [requested EXCEPT !.status = EndedStatus(requested, left), !.active = NoInv]
        ELSE [requested EXCEPT !.status = "interrupted"]

\* Evidence about invocation i reaches the latest stop request and the lifecycle.
RecordStop(i, state) ==
    /\ stopRequest' = UpdateStopTarget(stopRequest, i, state)
    /\ lifecycle' = SyncStopStatus(lifecycle, stopRequest')
    /\ UNCHANGED session

\* Mutant: the stop state is written to the target without its conversion.
Settle_Unconverted(o, i, stop, pause, left) ==
    IF ops[o].active # i
    THEN UNCHANGED durable
    ELSE /\ ops' = [ops EXCEPT ![o] = SettledOp(@, stop, pause, left)]
         /\ RecordStop(i, stop)

\* Mutant: every settle confirms the target.
Settle_Confirms(o, i, stop, pause, left) ==
    IF ops[o].active # i
    THEN UNCHANGED durable
    ELSE /\ ops' = [ops EXCEPT ![o] = SettledOp(@, stop, pause, left)]
         /\ RecordStop(i, "confirmed")

\* Mutant: a settle is not compared with the active invocation.
Settle_Unchecked(o, i, stop, pause, left) ==
    /\ ops' = [ops EXCEPT ![o] = SettledOp(@, stop, pause, left)]
    /\ RecordStop(i, IF stop = "confirmed" THEN "confirmed" ELSE "unknown")

\* stop is "confirmed" or "unconfirmed"; a superseded invocation settles nothing.
Settle(o, i, stop, pause, left) ==
    IF ops[o].active # i
    THEN UNCHANGED durable
    ELSE /\ ops' = [ops EXCEPT ![o] = SettledOp(@, stop, pause, left)]
         /\ RecordStop(i, IF stop = "confirmed" THEN "confirmed" ELSE "unknown")

ResumeOp(o) ==
    /\ HasLifecycle => /\ lifecycle.state = "active"
                       /\ lifecycle.admission = "open"
                       /\ o[2] = lifecycle.generation
    /\ ops[o].status = "paused"
    /\ ops[o].stop = "confirmed"
    /\ ops[o].active = NoInv
    /\ ops[o].attempts < MaxAttempts
    /\ ops' = [ops EXCEPT ![o].status = "ready", ![o].pauseReq = FALSE]
    /\ UNCHANGED <<lifecycle, session, stopRequest>>

RequestIntentStop(invocations) ==
    /\ ops' = [o \in OpIds |->
                 IF ops[o].active \in invocations
                 THEN [ops[o] EXCEPT !.pauseReq = TRUE,
                                     !.stop = IF @ = "unconfirmed" THEN @ ELSE "requested"]
                 ELSE ops[o]]
    /\ UNCHANGED <<lifecycle, session, stopRequest>>

(***************************************************************************)
(* confirmTransportReceipt: evidence from the local bridge that the        *)
(* process of invocation i ended.  It settles the operation i is active    *)
(* on; for an operation already confirmed it only reaches the stop         *)
(* request; an operation that moved on to another invocation ignores it.   *)
(***************************************************************************)
ReceiptCandidates(i) == {o \in OpIds : i \in ops[o].invs /\ ops[o].bridged}
ActiveCandidates(i) == {o \in ReceiptCandidates(i) : ops[o].active = i}
ConfirmedCandidates(i) ==
    {o \in ReceiptCandidates(i) : ops[o].stop = "confirmed" /\ ops[o].active = NoInv}

ConfirmTransportReceipt(i, left) ==
    IF ActiveCandidates(i) # {}
    THEN \E o \in ActiveCandidates(i) :
            /\ ops' = [ops EXCEPT ![o] = SettledOp(@, "confirmed", FALSE, left)]
            /\ RecordStop(i, "confirmed")
    ELSE IF ConfirmedCandidates(i) # {}
    THEN /\ RecordStop(i, "confirmed")
         /\ UNCHANGED ops
    ELSE UNCHANGED durable
=============================================================================
