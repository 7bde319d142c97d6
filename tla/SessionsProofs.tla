--------------------------- MODULE SessionsProofs ---------------------------
(***************************************************************************)
(* Proofs about the Session controls, for any sets of invocations,         *)
(* operations, controls and switches and any bounds, in three parts:       *)
(*                                                                         *)
(*   SessionsService    its types and what an end or a stop confirms       *)
(*   SessionsAdmission  what a closed admission keeps out, and that the    *)
(*                      controls, the supervisor and the stores implement  *)
(*                      the admission promise                              *)
(*   RuntimeSwitch      what a switch keeps of all that, and what it adds  *)
(***************************************************************************)
EXTENDS RuntimeSwitch, SessionsAdmission, TLAPS

-----------------------------------------------------------------------------
(* Types of the operators the stores are built from. *)

(***************************************************************************)
(* The record settle and confirmTransportReceipt compute for an operation  *)
(* is an operation again.                                                  *)
(***************************************************************************)
LEMMA SettledOpType ==
    ASSUME NEW op \in Operation, NEW stop \in {"confirmed", "unconfirmed"},
           NEW pause \in BOOLEAN, NEW left \in BOOLEAN
    PROVE  SettledOp(op, stop, pause, left) \in Operation
<1>. USE DraftAssumption
<1>1. \A x : EndedStatus(x, left) \in {"ready", "paused", "exhausted"}
  BY DEF EndedStatus
<1>2. [op EXCEPT !.stop = stop, !.pauseReq = @ \/ pause] \in Operation
  BY DEF Operation
<1>. QED
  BY <1>1, <1>2 DEF SettledOp, Operation

(***************************************************************************)
(* updateStopTarget gives a stop request again.                            *)
(***************************************************************************)
LEMMA UpdateStopTargetType ==
    ASSUME NEW r \in StopRequest, NEW i \in Invs, NEW state \in {"unknown", "confirmed"}
    PROVE  UpdateStopTarget(r, i, state) \in StopRequest
BY DEF UpdateStopTarget, StopRequest

(***************************************************************************)
(* Copying the status of a stop request into the lifecycle keeps its type. *)
(***************************************************************************)
LEMMA SyncStopStatusType ==
    ASSUME NEW l \in Lifecycle, NEW r \in StopRequest
    PROVE  SyncStopStatus(l, r) \in Lifecycle
BY DEF SyncStopStatus, Lifecycle, StopRequest

(***************************************************************************)
(* settle keeps the type of the draft, whichever invocation it is for.     *)
(***************************************************************************)
LEMMA SettleType ==
    ASSUME DraftTypeOK, NEW o, NEW i \in Invs, NEW stop \in {"confirmed", "unconfirmed"},
           NEW pause \in BOOLEAN, NEW left \in BOOLEAN, Settle(o, i, stop, pause, left)
    PROVE  DraftTypeOK'
<1>1. CASE ops[o].active # i
  BY <1>1 DEF Settle, DraftTypeOK, durable
<1>2. CASE ops[o].active = i
  <2>1. ops' = [ops EXCEPT ![o] = SettledOp(@, stop, pause, left)]
    BY <1>2 DEF Settle
  <2>2. ops' \in [OpIds -> Operation]
    <3>1. CASE o \in OpIds
      BY <2>1, <3>1, SettledOpType DEF DraftTypeOK
    <3>2. CASE o \notin OpIds
      BY <2>1, <3>2 DEF DraftTypeOK
    <3>. QED BY <3>1, <3>2
  <2>3. stopRequest' \in StopRequest
    BY <1>2, UpdateStopTargetType DEF Settle, RecordStop, DraftTypeOK
  <2>4. lifecycle' \in Lifecycle /\ session' = session
    BY <1>2, <2>3, SyncStopStatusType DEF Settle, RecordStop, DraftTypeOK
  <2>. QED BY <2>2, <2>3, <2>4 DEF DraftTypeOK
<1>. QED BY <1>1, <1>2

(***************************************************************************)
(* A transport receipt keeps the type of the draft.                        *)
(***************************************************************************)
LEMMA ReceiptType ==
    ASSUME DraftTypeOK, NEW i \in Invs, NEW left \in BOOLEAN, ConfirmTransportReceipt(i, left)
    PROVE  DraftTypeOK'
<1>1. ASSUME RecordStop(i, "confirmed")
      PROVE  lifecycle' \in Lifecycle /\ session' \in Session /\ stopRequest' \in StopRequest
  BY <1>1, UpdateStopTargetType, SyncStopStatusType DEF RecordStop, DraftTypeOK
<1>2. CASE ActiveCandidates(i) # {}
  <2>1. PICK o \in ActiveCandidates(i) :
            /\ ops' = [ops EXCEPT ![o] = SettledOp(@, "confirmed", FALSE, left)]
            /\ RecordStop(i, "confirmed")
    BY <1>2 DEF ConfirmTransportReceipt
  <2>2. o \in OpIds
    BY DEF ActiveCandidates, ReceiptCandidates
  <2>3. ops' \in [OpIds -> Operation]
    BY <2>1, <2>2, SettledOpType DEF DraftTypeOK
  <2>. QED BY <2>1, <2>3, <1>1 DEF DraftTypeOK
<1>3. CASE ActiveCandidates(i) = {} /\ ConfirmedCandidates(i) # {}
  BY <1>1, <1>3 DEF ConfirmTransportReceipt, DraftTypeOK
<1>4. CASE ActiveCandidates(i) = {} /\ ConfirmedCandidates(i) = {}
  BY <1>4 DEF ConfirmTransportReceipt, DraftTypeOK, durable
<1>. QED BY <1>2, <1>3, <1>4

(***************************************************************************)
(* begin keeps the type of the draft and names an operation of it.         *)
(***************************************************************************)
LEMMA BeginOpType ==
    ASSUME DraftTypeOK, NEW b \in Bases, BeginOp(b)
    PROVE  DraftTypeOK' /\ OpFor(b) \in OpIds
<1>. USE DraftAssumption
<1>1. OpFor(b) \in OpIds
  BY DEF OpFor, OpIds, DraftTypeOK, Lifecycle
<1>2. AbsentOp \in Operation
  BY DEF AbsentOp, Operation
<1>3. [AbsentOp EXCEPT !.status = "ready"] \in Operation
  BY <1>2 DEF Operation
<1>4. ops' \in [OpIds -> Operation]
  BY <1>1, <1>3 DEF BeginOp, DraftTypeOK
<1>. QED BY <1>1, <1>4 DEF BeginOp, DraftTypeOK

(***************************************************************************)
(* The record reserve computes; bridged is its transport, i \in Local.     *)
(***************************************************************************)
LEMMA ReservedOpType ==
    ASSUME NEW op \in Operation, NEW i \in Invs, NEW owner \in 0 .. MaxRestarts,
           NEW bridged \in BOOLEAN, op.attempts < MaxAttempts
    PROVE  [op EXCEPT !.attempts = @ + 1, !.invs = @ \cup {i}, !.active = i,
                      !.owner = owner, !.bridged = bridged,
                      !.status = "running", !.stop = "none"] \in Operation
<1>1. op.attempts + 1 \in 0 .. MaxAttempts
  BY DraftAssumption DEF Operation
<1>2. op.invs \cup {i} \in SUBSET Invs
  BY DEF Operation
<1>. QED BY <1>1, <1>2 DEF Operation

(***************************************************************************)
(* reserve keeps the types of the draft.                                   *)
(***************************************************************************)
LEMMA ReserveType ==
    ASSUME DraftTypeOK, NEW o, NEW i \in Invs, NEW owner \in 0 .. MaxRestarts,
           Reserve(o, i, owner)
    PROVE  DraftTypeOK'
<1>. USE DraftAssumption
<1>1. ops' \in [OpIds -> Operation]
  <2>1. CASE o \in OpIds
    <3>1. ops[o] \in Operation /\ ops[o].attempts < MaxAttempts
      BY <2>1 DEF DraftTypeOK, Reserve, CanReserve
    <3>2. ops' = [ops EXCEPT ![o] = [ops[o] EXCEPT !.attempts = @ + 1,
                          !.invs = @ \cup {i}, !.active = i, !.owner = owner,
                          !.bridged = i \in Local, !.status = "running", !.stop = "none"]]
      BY <2>1, <3>1 DEF Reserve, DraftTypeOK, Operation
    <3>3. [ops[o] EXCEPT !.attempts = @ + 1,
                          !.invs = @ \cup {i}, !.active = i, !.owner = owner,
                          !.bridged = i \in Local, !.status = "running", !.stop = "none"] \in Operation
      <4>1. (i \in Local) \in BOOLEAN
        OBVIOUS
      <4>. HIDE DraftAssumption
      <4>. QED BY <3>1, <4>1, ReservedOpType, Zenon
    <3>. QED BY <3>2, <3>3, <2>1 DEF DraftTypeOK
  <2>2. CASE o \notin OpIds
    BY <2>2 DEF Reserve, DraftTypeOK
  <2>. QED BY <2>1, <2>2
<1>. QED BY <1>1 DEF Reserve, DraftTypeOK

-----------------------------------------------------------------------------
(* The inductive invariant. *)

BeforeReserve == {"idle", "starting", "begun", "admitted"}
BeforeLaunch == {"reserved", "cleared"}

(***************************************************************************)
(* What the place of start() says about the operation, the process and the *)
(* pending settle of an invocation.                                        *)
(***************************************************************************)
InvocationInv(i) ==
    /\ pc[i] \notin {"idle", "starting", "done"} => opOf[i] \in OpIds
    /\ pc[i] \in BeforeReserve => proc[i] = "none" /\ \A o \in OpIds : ops[o].active # i
    /\ pc[i] \in BeforeLaunch => proc[i] = "none" /\ ops[opOf[i]].active = i
    /\ pc[i] = "ended" => proc[i] # "live"
    /\ proc[i] = "live" => opOf[i] \in OpIds /\ ops[opOf[i]].active = i
    /\ sync[i] # "none" => pc[i] \in {"tombstone", "done"} /\ opOf[i] \in OpIds
    /\ sync[i] = "confirmed" => proc[i] # "live"

(***************************************************************************)
(* What a reservation says about the invocation that holds it, and what a  *)
(* requested pause leaves behind when the reservation is released.         *)
(***************************************************************************)
OperationInv ==
    \A o \in OpIds :
        /\ ops[o].status = "absent" => ops[o].active = NoInv
        /\ ops[o].active # NoInv =>
              /\ opOf[ops[o].active] = o
              /\ ops[o].active \in ops[o].invs
              /\ ops[o].active \in Local => ops[o].bridged
              /\ ops[o].stop # "confirmed"
        /\ ops[o].pauseReq /\ ops[o].active = NoInv => ops[o].status = "paused"

ReservationInv == OperationInv /\ \A i \in Invs : InvocationInv(i)

(***************************************************************************)
(* An invocation that a stop request has confirmed is past its launch.     *)
(***************************************************************************)
StopInv ==
    /\ OpenStopCoversActive
    /\ \A i \in Invs : stopRequest.targets[i] = "confirmed" =>
           proc[i] # "live" /\ pc[i] \notin BeforeReserve \cup BeforeLaunch

(***************************************************************************)
(* Between beginDelete and completeDelete nothing is admitted, so what the *)
(* stop request of delete() covers is everything that may be running.      *)
(***************************************************************************)
DeleteInv ==
    /\ lifecycle.state = "deleted" => ActiveInvs = {}
    /\ "delete" \in Controls =>
          /\ flow["delete"] \in {"closed", "again", "requesting", "waiting", "stopped"} =>
                lifecycle.state = "deleting"
          /\ flow["delete"] = "waiting" /\ ~requestFailed /\ ActiveInvs # {} =>
                stopRequest.status = "waiting"
          /\ flow["delete"] = "stopped" => ActiveInvs = {}

-----------------------------------------------------------------------------
(* Type correctness. *)

(***************************************************************************)
(* The lifecycle record beginDelete and closeForStop write.                *)
(***************************************************************************)
LEMMA ClosedLifecycleType ==
    ASSUME NEW state \in {"active", "deleting"}, NEW g \in Generations
    PROVE  [ state |-> state, admission |-> "closed", stopStatus |-> "requested",
             generation |-> g, restored |-> FALSE ] \in Lifecycle
BY DEF Lifecycle

(***************************************************************************)
(* The lifecycle methods keep the type of the draft.                       *)
(***************************************************************************)
LEMMA LifecycleStoreType ==
    ASSUME DraftTypeOK,
           \/ BeginDelete \/ CloseForStop \/ MarkArchived \/ RestoreArchived
           \/ Reopen \/ CompleteDelete \/ \E g \in Generations : Restore(g)
    PROVE  DraftTypeOK'
<1>. USE DraftAssumption
<1>0. lifecycle \in Lifecycle /\ session \in Session /\ stopRequest \in StopRequest
  BY DEF DraftTypeOK
<1>1. LatestStopStatus \in {"idle", "waiting", "confirmed"}
  BY <1>0 DEF LatestStopStatus, StopRequest
<1>2. lifecycle.generation < MaxGeneration => lifecycle.generation + 1 \in Generations
  BY <1>0 DEF Lifecycle, Generations
<1>3. 1 \in Generations
  BY DEF Generations
<1>4. Paused(session) \in Session
  BY <1>0 DEF Paused, Session
<1>5. lifecycle' \in Lifecycle
  <2>1. CASE BeginDelete
    <3>1. \/ lifecycle' = lifecycle
          \/ /\ lifecycle.generation < MaxGeneration
             /\ lifecycle' = [ state |-> "deleting", admission |-> "closed",
                                stopStatus |-> "requested",
                                generation |-> lifecycle.generation + 1,
                                restored |-> FALSE ]
      BY <2>1, Zenon DEF BeginDelete, Unchanged, durable
    <3>. QED BY <1>0, <1>2, <3>1, ClosedLifecycleType
  <2>2. CASE CloseForStop
    <3>1. \/ lifecycle' = lifecycle
          \/ \E g \in {lifecycle.generation, 1} :
                lifecycle' = [ state |-> "active", admission |-> "closed",
                               stopStatus |-> "requested", generation |-> g,
                               restored |-> FALSE ]
      BY <2>2 DEF CloseForStop, Unchanged, durable
    <3>2. lifecycle.generation \in Generations
      BY <1>0 DEF Lifecycle
    <3>. QED BY <1>0, <1>3, <3>1, <3>2, ClosedLifecycleType
  <2>3. CASE MarkArchived
    <3>1. \/ lifecycle' = lifecycle
          \/ lifecycle' = [lifecycle EXCEPT !.stopStatus = LatestStopStatus]
      BY <2>3, Zenon DEF MarkArchived, Unchanged, durable
    <3>. QED BY <1>0, <1>1, <3>1 DEF Lifecycle
  <2>4. CASE RestoreArchived
    <3>1. \/ lifecycle' = lifecycle
          \/ /\ lifecycle.generation < MaxGeneration
             /\ lifecycle' = [lifecycle EXCEPT !.admission = "open",
                                               !.stopStatus = LatestStopStatus,
                                               !.generation = @ + 1,
                                               !.restored = FALSE]
      BY <2>4, Zenon DEF RestoreArchived, Unchanged, durable
    <3>. QED BY <1>0, <1>1, <1>2, <3>1 DEF Lifecycle
  <2>5. CASE Reopen
    BY <1>0, <1>1, <2>5 DEF Reopen, Unchanged, durable, Lifecycle
  <2>6. CASE CompleteDelete
    BY <1>0, <1>1, <2>6 DEF CompleteDelete, Unchanged, durable, Lifecycle
  <2>7. CASE \E g \in Generations : Restore(g)
    BY <1>0, <1>1, <1>2, <2>7 DEF Restore, Lifecycle
  <2>. QED BY <2>1, <2>2, <2>3, <2>4, <2>5, <2>6, <2>7
<1>6. session' \in Session
  <2>1. CASE BeginDelete \/ CloseForStop \/ Reopen \/ CompleteDelete
             \/ \E g \in Generations : Restore(g)
    BY <1>0, <1>4, <2>1
       DEF BeginDelete, CloseForStop, Reopen, CompleteDelete, Restore, Unchanged, durable
  <2>2. CASE MarkArchived \/ RestoreArchived
    <3>1. \/ session' = session
          \/ \E archived \in BOOLEAN : session' = [ status |-> "PAUSED", archived |-> archived ]
      BY <2>2, Zenon DEF MarkArchived, RestoreArchived, Unchanged, durable
    <3>. QED BY <1>0, <3>1 DEF Session
  <2>. QED BY <2>1, <2>2
<1>7. UNCHANGED <<stopRequest, ops>>
  BY DEF BeginDelete, CloseForStop, MarkArchived, RestoreArchived, Reopen, CompleteDelete,
         Restore, Unchanged, durable
<1>. QED BY <1>5, <1>6, <1>7 DEF DraftTypeOK

(***************************************************************************)
(* A stop request keeps the type of the draft.                             *)
(***************************************************************************)
LEMMA RequestStopType ==
    ASSUME DraftTypeOK, NEW supervised \in SUBSET Invs, RequestStop(supervised)
    PROVE  DraftTypeOK'
<1>1. stopRequest' \in StopRequest
  BY DEF RequestStop, DraftTypeOK, NewStopRequest, StopRequest
<1>2. lifecycle' \in Lifecycle
  BY <1>1, SyncStopStatusType DEF RequestStop, DraftTypeOK
<1>. QED BY <1>1, <1>2 DEF RequestStop, DraftTypeOK

(***************************************************************************)
(* resume and requestIntentStop keep the type of the draft.                *)
(***************************************************************************)
LEMMA ResumeOpType ==
    ASSUME DraftTypeOK, NEW o \in OpIds, ResumeOp(o)
    PROVE  DraftTypeOK'
<1>1. [ops[o] EXCEPT !.status = "ready", !.pauseReq = FALSE] \in Operation
  BY DEF DraftTypeOK, Operation
<1>2. ops' = [ops EXCEPT ![o] = [ops[o] EXCEPT !.status = "ready", !.pauseReq = FALSE]]
  BY DEF ResumeOp, DraftTypeOK, Operation
<1>. QED BY <1>1, <1>2 DEF ResumeOp, DraftTypeOK

(***************************************************************************)
(* requestIntentStop keeps the types of the draft.                         *)
(***************************************************************************)
LEMMA RequestIntentStopType ==
    ASSUME DraftTypeOK, NEW invocations, RequestIntentStop(invocations)
    PROVE  DraftTypeOK'
<1>1. \A o \in OpIds :
        [ops[o] EXCEPT !.pauseReq = TRUE,
                       !.stop = IF @ = "unconfirmed" THEN @ ELSE "requested"] \in Operation
  BY DEF DraftTypeOK, Operation
<1>. QED BY <1>1 DEF RequestIntentStop, DraftTypeOK

(***************************************************************************)
(* Aborting invocations keeps the types of abort and armed.                *)
(***************************************************************************)
LEMMA AbortAllType ==
    ASSUME RuntimeTypeOK, NEW invocations, NEW kind \in {"paused", "other"},
           AbortAll(invocations, kind)
    PROVE  abort' \in [Invs -> {"no", "paused", "other"}] /\ armed' \in [Invs -> BOOLEAN]
<1>1. abort' \in [Invs -> {"no", "paused", "other"}]
  BY DEF AbortAll, RuntimeTypeOK
<1>2. armed' \in [Invs -> BOOLEAN]
  BY Zenon DEF AbortAll
<1>. QED BY <1>1, <1>2

(***************************************************************************)
(* A step of one invocation keeps every type.                              *)
(***************************************************************************)
LEMMA RuntimeStepType ==
    ASSUME TypeOK, NEW i \in Invs, RuntimeStep(i), UNCHANGED controls
    PROVE  TypeOK'
<1>. USE DraftAssumption, RuntimeAssumption
<1>0. DraftTypeOK /\ RuntimeTypeOK /\ ControlsTypeOK /\ ControlsTypeOK'
  BY DEF TypeOK, ControlsTypeOK, controls
<1>1. \A label \in Pc : Goto(i, label) => pc' \in [Invs -> Pc]
  BY <1>0 DEF Goto, RuntimeTypeOK
<1>2. Evidence(i) \in {"confirmed", "unconfirmed"} /\ AfterSettle(i) \in Pc /\ AfterLate(i) \in Pc
  BY DEF Evidence, AfterSettle, AfterLate, Pc, SupervisedPc
<1>3. PauseRequested(i) \in BOOLEAN
  BY DEF PauseRequested
<1>4. PruneSync => sync' \in [Invs -> {"none", "confirmed", "unconfirmed"}]
  BY <1>0 DEF PruneSync, RuntimeTypeOK
<1>5. TransactionFails => failures' \in 0 .. MaxFailures
  BY <1>0 DEF TransactionFails, RuntimeTypeOK
<1>6. UNCHANGED durable => DraftTypeOK'
  BY <1>0 DEF durable, DraftTypeOK
<1>a. CASE Start(i) \/ RefuseStart(i) \/ RefuseLaunch(i) \/ Result(i) \/ UnconfirmedResult(i)
           \/ StopTimer(i) \/ LateUnconfirmedResult(i)
  <2>1. UNCHANGED <<durable, proc, handle, pending, faults, correcting>>
    BY <1>a DEF Start, RefuseStart, RefuseLaunch, Result, UnconfirmedResult, StopTimer,
                LateUnconfirmedResult
  <2>2. \E label \in Pc : Goto(i, label)
    BY <1>a, <1>2 DEF Start, RefuseStart, RefuseLaunch, Result, UnconfirmedResult, StopTimer,
                LateUnconfirmedResult, Pc, SupervisedPc
  <2>. QED BY <1>0, <1>1, <1>6, <2>1, <2>2
           DEF TypeOK, RuntimeTypeOK, handle, pending, faults
<1>b. CASE Begin(i)
  <2>1. DraftTypeOK' /\ OpFor(BaseOf[i]) \in OpIds
    BY <1>0, <1>b, BeginOpType DEF Begin
  <2>2. pc' \in [Invs -> Pc]
    BY <1>1, <1>b DEF Begin, Pc, SupervisedPc
  <2>3. opOf' \in [Invs -> OpIds \cup {NoOp}]
    BY <1>0, <1>b, <2>1 DEF Begin, RuntimeTypeOK
  <2>. QED BY <1>0, <1>b, <2>1, <2>2, <2>3 DEF Begin, TypeOK, RuntimeTypeOK, pending, faults
<1>c. CASE CheckBeforeReserve(i) \/ CheckBeforeLaunch(i)
  <2>1. pc' \in [Invs -> Pc]
    BY <1>1, <1>c DEF CheckBeforeReserve, CheckBeforeLaunch, PassBarrier, Pc, SupervisedPc
  <2>2. PruneSync /\ UNCHANGED <<durable, proc, handle, syncTries, faults, correcting>>
    BY <1>c DEF CheckBeforeReserve, CheckBeforeLaunch, PassBarrier
  <2>. QED BY <1>0, <1>4, <1>6, <2>1, <2>2 DEF TypeOK, RuntimeTypeOK, handle, faults
<1>d. CASE ReserveInvocation(i)
  <2>1. DraftTypeOK'
    BY <1>0, <1>d, ReserveType DEF ReserveInvocation, RuntimeTypeOK
  <2>2. pc' \in [Invs -> Pc]
    BY <1>1, <1>d DEF ReserveInvocation, Pc, SupervisedPc
  <2>. QED BY <1>0, <1>d, <2>1, <2>2
           DEF ReserveInvocation, TypeOK, RuntimeTypeOK, handle, pending, faults
<1>e. CASE Launch(i) \/ ProcessExit(i)
  <2>1. pc' \in [Invs -> Pc]
    BY <1>0, <1>1, <1>e DEF Launch, ProcessExit, Pc, SupervisedPc, RuntimeTypeOK
  <2>2. proc' \in [Invs -> {"none", "live", "exited"}]
    BY <1>0, <1>e DEF Launch, ProcessExit, RuntimeTypeOK
  <2>3. UNCHANGED <<durable, handle, pending, faults, correcting>>
    BY <1>e DEF Launch, ProcessExit
  <2>. QED BY <1>0, <1>6, <2>1, <2>2, <2>3 DEF TypeOK, RuntimeTypeOK, handle, pending, faults
<1>f. CASE Abort(i) \/ CancelIntent(i)
  <2>1. AbortAll({i}, "other")
    BY <1>f DEF Abort, CancelIntent
  <2>2. abort' \in [Invs -> {"no", "paused", "other"}] /\ armed' \in [Invs -> BOOLEAN]
    BY <1>0, <2>1, AbortAllType
  <2>3. correcting' \subseteq Corrected
    BY <1>0, <1>f DEF Abort, CancelIntent, RuntimeTypeOK
  <2>4. UNCHANGED <<durable, pc, opOf, proc, pending, faults>>
    BY <1>f DEF Abort, CancelIntent
  <2>. QED BY <1>0, <1>6, <2>2, <2>3, <2>4 DEF TypeOK, RuntimeTypeOK, pending, faults
<1>g. CASE StopIntent(i)
  <2>1. DraftTypeOK'
    BY <1>0, <1>g, RequestIntentStopType DEF StopIntent
  <2>2. correcting' \subseteq Corrected
    BY <1>0, <1>g DEF StopIntent, RuntimeTypeOK
  <2>. QED BY <1>0, <1>g, <2>1, <2>2
           DEF StopIntent, TypeOK, RuntimeTypeOK, handle, pending, faults
<1>h. CASE SettleInvocation(i) \/ LateResult(i)
  <2>1. DraftTypeOK'
    <3>1. PICK left \in BOOLEAN, stop \in {"confirmed", "unconfirmed"} :
              Settle(opOf[i], i, stop, PauseRequested(i), left)
      BY <1>2, <1>h, Zenon DEF SettleInvocation, LateResult
    <3>. QED BY <1>0, <1>3, <3>1, SettleType, Zenon
  <2>2. pc' \in [Invs -> Pc]
    BY <1>1, <1>2, <1>h DEF SettleInvocation, LateResult
  <2>3. UNCHANGED <<proc, handle, pending, faults, correcting>>
    BY <1>h DEF SettleInvocation, LateResult
  <2>. QED BY <1>0, <2>1, <2>2, <2>3 DEF TypeOK, RuntimeTypeOK, handle, pending, faults
<1>i. CASE SettleFails(i) \/ LateResultFails(i)
  <2>1. pc' \in [Invs -> Pc] /\ failures' \in 0 .. MaxFailures
    BY <1>1, <1>2, <1>5, <1>i DEF SettleFails, LateResultFails
  <2>2. sync' \in [Invs -> {"none", "confirmed", "unconfirmed"}]
    BY <1>0, <1>2, <1>i DEF SettleFails, LateResultFails, RuntimeTypeOK, pending
  <2>3. UNCHANGED <<durable, proc, handle, syncTries, requestFailed, epoch, correcting>>
    BY <1>i DEF SettleFails, LateResultFails, pending
  <2>. QED BY <1>0, <1>6, <2>1, <2>2, <2>3 DEF TypeOK, RuntimeTypeOK, handle
<1>j. CASE Reconcile(i)
  <2>1. sync[i] \in {"confirmed", "unconfirmed"}
    BY <1>0, <1>j DEF Reconcile, RuntimeTypeOK
  <2>2. DraftTypeOK'
    <3>1. PICK left \in BOOLEAN : Settle(opOf[i], i, sync[i], PauseRequested(i), left)
      BY <1>j, Zenon DEF Reconcile
    <3>. QED BY <1>0, <1>3, <2>1, <3>1, SettleType, Zenon
  <2>3. sync' \in [Invs -> {"none", "confirmed", "unconfirmed"}]
    BY <1>0, <1>j DEF Reconcile, RuntimeTypeOK
  <2>. QED BY <1>0, <1>j, <2>2, <2>3 DEF Reconcile, TypeOK, RuntimeTypeOK, handle, faults
<1>k. CASE ReconcileFails(i)
  <2>1. syncTries' \in [Invs -> 0 .. MaxSyncAttempts]
    BY <1>0, <1>k DEF ReconcileFails, RuntimeTypeOK
  <2>2. failures' \in 0 .. MaxFailures
    BY <1>5, <1>k DEF ReconcileFails
  <2>. QED BY <1>0, <1>6, <1>k, <2>1, <2>2 DEF ReconcileFails, TypeOK, RuntimeTypeOK, handle
<1>l. CASE Receipt(i)
  <2>1. DraftTypeOK'
    BY <1>0, <1>l, ReceiptType DEF Receipt
  <2>. QED BY <1>0, <1>l, <2>1
           DEF Receipt, TypeOK, RuntimeTypeOK, runtime, handle, pending, faults
<1>. QED
  BY <1>a, <1>b, <1>c, <1>d, <1>e, <1>f, <1>g, <1>h, <1>i, <1>j, <1>k, <1>l DEF RuntimeStep

(***************************************************************************)
(* Closing, finishing and reopening steps change the draft by a lifecycle  *)
(* method or write the status, and move a control to its next place.       *)
(***************************************************************************)
ControlStep ==
    \/ Pause \/ Delete \/ Archive \/ Disconnect
    \/ \E c \in Controls : EnterStop(c) \/ CommitStop(c) \/ CommitStopFails(c)
                               \/ EndWait(c) \/ AbandonStopped(c)
    \/ FinishDelete \/ ClearArchived \/ FinishArchive
    \/ CheckResume \/ ReopenAdmission \/ ReopenRefused \/ FinishResume
    \/ RestoreDeleted \/ RestoreAgain \/ CheckUnarchive \/ FinishUnarchive \/ UnarchiveRefused

(***************************************************************************)
(* A step of a control keeps every type.                                   *)
(***************************************************************************)
LEMMA ControlStepType ==
    ASSUME TypeOK, ControlStep
    PROVE  TypeOK'
<1>. USE RuntimeAssumption
<1>0. DraftTypeOK /\ RuntimeTypeOK /\ ControlsTypeOK
  BY DEF TypeOK
<1>1. \A c \in Controls : \A label \in FlowPc : Step(c, label) => flow' \in [Controls -> FlowPc]
  BY <1>0 DEF Step, ControlsTypeOK
<1>2. UNCHANGED runtime => RuntimeTypeOK'
  BY <1>0 DEF runtime, handle, pending, faults, RuntimeTypeOK
<1>3. UNCHANGED durable => DraftTypeOK'
  BY <1>0 DEF durable, DraftTypeOK
<1>4. /\ PruneSync /\ UNCHANGED <<pc, proc, handle, syncTries, faults, correcting>> => RuntimeTypeOK'
      /\ Supervised \in SUBSET Invs
  BY <1>0 DEF PruneSync, RuntimeTypeOK, handle, faults, Supervised
<1>5. Paused(session) \in Session /\ Executing(session) \in Session
  BY <1>0 DEF DraftTypeOK, Paused, Executing, Session
<1>6. session' \in Session /\ UNCHANGED <<lifecycle, stopRequest, ops>> => DraftTypeOK'
  BY <1>0 DEF DraftTypeOK
<1>7. \A c : seen' = [seen EXCEPT ![c] = Supervised] \/ seen' = [seen EXCEPT ![c] = {}]
          => seen' \in [Controls -> SUBSET Invs]
  BY <1>0, <1>4 DEF ControlsTypeOK
<1>a. CASE Pause \/ Delete \/ Archive \/ FinishDelete \/ FinishArchive
  <2>1. \E c \in Controls, label \in FlowPc : Step(c, label)
    BY <1>a DEF Pause, Delete, Archive, FinishDelete, FinishArchive, FlowPc
  <2>2. DraftTypeOK'
    BY <1>0, <1>a, LifecycleStoreType DEF Pause, Delete, Archive, FinishDelete, FinishArchive
  <2>3. UNCHANGED <<runtime, seen, resuming, unarchiving>>
    BY <1>a DEF Pause, Delete, Archive, FinishDelete, FinishArchive
  <2>. QED BY <1>0, <1>1, <1>2, <2>1, <2>2, <2>3 DEF TypeOK, ControlsTypeOK
<1>b. CASE Disconnect \/ \E c \in Controls : EnterStop(c)
  <2>1. PICK c \in Controls : /\ Step(c, "requesting")
                              /\ seen' = [seen EXCEPT ![c] = Supervised]
    BY <1>b DEF Disconnect, EnterStop
  <2>2. session' \in Session
    <3>1. CASE Disconnect
      BY <1>0, <3>1 DEF Disconnect, DraftTypeOK, Session
    <3>2. CASE \E d \in Controls : EnterStop(d)
      BY <1>0, <1>5, <3>2 DEF EnterStop, DraftTypeOK
    <3>. QED BY <1>b, <3>1, <3>2
  <2>3. UNCHANGED <<lifecycle, stopRequest, ops, runtime, resuming, unarchiving>>
    BY <1>b DEF Disconnect, EnterStop
  <2>4. flow' \in [Controls -> FlowPc]
    BY <1>1, <2>1 DEF FlowPc
  <2>. QED BY <1>0, <1>2, <1>6, <1>7, <2>1, <2>2, <2>3, <2>4 DEF TypeOK, ControlsTypeOK
<1>c. ASSUME NEW c \in Controls, CommitStop(c) \/ CommitStopFails(c)
      PROVE  TypeOK'
  <2>1. flow' \in [Controls -> FlowPc]
    BY <1>1, <1>c DEF CommitStop, CommitStopFails, FlowPc
  <2>2. seen[c] \in SUBSET Invs /\ Termination(c) \in {"paused", "other"}
    BY <1>0 DEF ControlsTypeOK, Termination
  <2>3. abort' \in [Invs -> {"no", "paused", "other"}] /\ armed' \in [Invs -> BOOLEAN]
    BY <1>0, <1>c, <2>2, AbortAllType DEF CommitStop, CommitStopFails
  <2>4. DraftTypeOK'
    BY <1>0, <1>3, <1>c, <2>2, RequestStopType DEF CommitStop, CommitStopFails
  <2>5. requestFailed' \in BOOLEAN /\ failures' \in 0 .. MaxFailures
    <3>1. requestFailed' \in BOOLEAN
      BY <1>c, Zenon DEF CommitStop, CommitStopFails
    <3>2. failures' \in 0 .. MaxFailures
      BY <1>0, <1>c DEF CommitStop, CommitStopFails, TransactionFails, RuntimeTypeOK
    <3>. QED BY <3>1, <3>2
  <2>6. UNCHANGED <<pc, opOf, proc, pending, epoch, correcting, seen, resuming, unarchiving>>
    BY <1>c DEF CommitStop, CommitStopFails
  <2>. QED BY <1>0, <2>1, <2>3, <2>4, <2>5, <2>6
           DEF TypeOK, RuntimeTypeOK, ControlsTypeOK, pending
<1>d. ASSUME NEW c \in Controls, EndWait(c) \/ AbandonStopped(c)
      PROVE  TypeOK'
  <2>1. flow' \in [Controls -> FlowPc]
    BY <1>1, <1>d DEF EndWait, AbandonStopped, FlowPc
  <2>2. RuntimeTypeOK' /\ UNCHANGED durable
    BY <1>2, <1>4, <1>d DEF EndWait, AbandonStopped
  <2>3. seen' \in [Controls -> SUBSET Invs] /\ UNCHANGED <<resuming, unarchiving>>
    BY <1>0, <1>7, <1>d DEF EndWait, AbandonStopped, ControlsTypeOK
  <2>. QED BY <1>0, <1>3, <2>1, <2>2, <2>3 DEF TypeOK, ControlsTypeOK
<1>e. CASE ClearArchived
  <2>1. session' \in Session
    BY <1>0, <1>e DEF ClearArchived, DraftTypeOK, Session
  <2>2. flow' \in [Controls -> FlowPc]
    BY <1>1, <1>e DEF ClearArchived, FlowPc
  <2>. QED BY <1>0, <1>2, <1>6, <1>e, <2>1, <2>2 DEF ClearArchived, TypeOK, ControlsTypeOK
<1>f. CASE CheckResume
  <2>1. session' \in Session /\ resuming' \in {"idle", "checked", "reopened"}
    BY <1>0, <1>5, <1>f DEF CheckResume, DraftTypeOK, ControlsTypeOK
  <2>2. RuntimeTypeOK' /\ DraftTypeOK'
    BY <1>4, <1>6, <1>f, <2>1 DEF CheckResume
  <2>. QED BY <1>0, <1>f, <2>1, <2>2 DEF CheckResume, TypeOK, ControlsTypeOK
<1>g. CASE ReopenAdmission \/ ReopenRefused \/ FinishResume
  <2>1. DraftTypeOK'
    BY <1>0, <1>3, <1>5, <1>6, <1>g, LifecycleStoreType
       DEF ReopenAdmission, ReopenRefused, FinishResume
  <2>. QED BY <1>0, <1>2, <1>g, <2>1
           DEF ReopenAdmission, ReopenRefused, FinishResume, TypeOK, ControlsTypeOK
<1>h. CASE RestoreDeleted \/ RestoreAgain
  <2>1. lifecycle.generation \in Generations
    BY <1>0 DEF DraftTypeOK, Lifecycle
  <2>2. DraftTypeOK'
    BY <1>0, <1>5, <1>6, <1>h, <2>1, LifecycleStoreType DEF RestoreDeleted, RestoreAgain
  <2>. QED BY <1>0, <1>2, <1>h, <2>2
           DEF RestoreDeleted, RestoreAgain, controls, TypeOK, ControlsTypeOK
<1>i. CASE CheckUnarchive \/ FinishUnarchive \/ UnarchiveRefused
  <2>1. DraftTypeOK'
    BY <1>0, <1>3, <1>5, <1>6, <1>i, LifecycleStoreType
       DEF CheckUnarchive, FinishUnarchive, UnarchiveRefused
  <2>2. unarchiving' \in BOOLEAN /\ UNCHANGED <<runtime, flow, seen, resuming>>
    BY <1>i DEF CheckUnarchive, FinishUnarchive, UnarchiveRefused
  <2>. QED BY <1>0, <1>2, <2>1, <2>2 DEF TypeOK, ControlsTypeOK
<1>. QED
  BY <1>a, <1>b, <1>c, <1>d, <1>e, <1>f, <1>g, <1>h, <1>i DEF ControlStep

(***************************************************************************)
(* A crash and restart of the server keeps every type.                     *)
(***************************************************************************)
LEMMA RestartType ==
    ASSUME TypeOK, Restart
    PROVE  TypeOK'
<1>0. DraftTypeOK /\ RuntimeTypeOK /\ ControlsTypeOK
  BY DEF TypeOK
<1>1. DraftTypeOK'
  BY <1>0 DEF Restart, DraftTypeOK, Session
<1>2. pc' \in [Invs -> Pc] /\ proc' \in [Invs -> {"none", "live", "exited"}]
  BY <1>0 DEF Restart, RuntimeTypeOK, Pc
<1>3. epoch' \in 0 .. MaxRestarts /\ syncTries' \in [Invs -> 0 .. MaxSyncAttempts]
  BY <1>0, DraftAssumption, RuntimeAssumption DEF Restart, RuntimeTypeOK
<1>4. RuntimeTypeOK'
  BY <1>0, <1>2, <1>3 DEF Restart, RuntimeTypeOK
<1>5. ControlsTypeOK'
  BY <1>0 DEF Restart, ControlsTypeOK, FlowPc
<1>. QED BY <1>1, <1>4, <1>5 DEF TypeOK

(***************************************************************************)
(* The initial state of a new or a legacy Session is typed.                *)
(***************************************************************************)
LEMMA InitType == Init => TypeOK
<1>. SUFFICES ASSUME Init PROVE TypeOK
  OBVIOUS
<1>. USE DraftAssumption, RuntimeAssumption
<1>1. AbsentOp \in Operation
  BY DEF AbsentOp, Operation
<1>2. lifecycle \in Lifecycle
  <2>1. NoLifecycle \in Lifecycle
    BY DEF NoLifecycle, Lifecycle, Generations
  <2>2. NewLifecycle \in Lifecycle
    BY DEF NewLifecycle, Lifecycle, Generations
  <2>. QED BY <2>1, <2>2 DEF Init, DraftInit
<1>3. session \in Session /\ stopRequest \in StopRequest
  BY DEF Init, DraftInit, Session, NoStopRequest, StopRequest
<1>4. DraftTypeOK
  BY <1>1, <1>2, <1>3 DEF Init, DraftInit, DraftTypeOK
<1>5. RuntimeTypeOK
  <2>1. armed \in [Invs -> BOOLEAN] /\ requestFailed \in BOOLEAN
    BY Zenon DEF Init, RuntimeInit
  <2>. QED BY <2>1 DEF Init, RuntimeInit, RuntimeTypeOK, Pc
<1>6. ControlsTypeOK
  BY DEF Init, ControlsTypeOK, FlowPc
<1>. QED BY <1>4, <1>5, <1>6 DEF TypeOK

(***************************************************************************)
(* Next is a step of an invocation, the resume of an operation, a step of  *)
(* a control or a restart.                                                 *)
(***************************************************************************)
LEMMA NextCases ==
    ASSUME Next
    PROVE  \/ \E i \in Invs : RuntimeStep(i) /\ UNCHANGED controls
           \/ \E o \in OpIds : ResumeOperation(o) /\ UNCHANGED controls
           \/ ControlStep
           \/ Restart
BY Zenon DEF Next, ControlStep

(***************************************************************************)
(* Every step keeps the types.                                             *)
(***************************************************************************)
LEMMA TypeStep ==
    ASSUME TypeOK, [Next]_vars
    PROVE  TypeOK'
<1>1. ASSUME NEW o \in OpIds, ResumeOperation(o), UNCHANGED controls PROVE TypeOK'
  <2>1. DraftTypeOK'
    BY <1>1, ResumeOpType DEF ResumeOperation, TypeOK
  <2>2. RuntimeTypeOK' /\ ControlsTypeOK'
    BY <1>1 DEF ResumeOperation, TypeOK, RuntimeTypeOK, ControlsTypeOK, controls,
                runtime, handle, pending, faults
  <2>. QED BY <2>1, <2>2 DEF TypeOK
<1>2. CASE UNCHANGED vars
  BY <1>2 DEF TypeOK, DraftTypeOK, RuntimeTypeOK, ControlsTypeOK, vars, durable, controls,
              runtime, handle, pending, faults
<1>. QED BY <1>1, <1>2, NextCases, RuntimeStepType, ControlStepType, RestartType

(***************************************************************************)
(* Every variable of the stores, the supervisor and the controls stays     *)
(* within its type: the generation, the attempts, the sync attempts and    *)
(* the owner never pass their bounds.                                      *)
(***************************************************************************)
THEOREM TypeCorrect == Spec => []TypeOK
BY InitType, TypeStep, PTL DEF Spec

-----------------------------------------------------------------------------
(* Reservations: the operation of a live process is held by it. *)

\* A step that changes no reservation, or releases only those of invocation i.
KeepsActive == \A o \in OpIds : ops'[o].active = ops[o].active
Releases(i) == \A o \in OpIds : \/ ops'[o].active = ops[o].active
                                \/ ops[o].active = i /\ ops'[o].active = NoInv

(***************************************************************************)
(* What settling does to an operation: a confirmed stop releases it, and a *)
(* requested pause then leaves it paused; an unconfirmed one keeps it.     *)
(***************************************************************************)
LEMMA SettledOpEffect ==
    ASSUME NEW op \in Operation, NEW stop \in {"confirmed", "unconfirmed"},
           NEW pause \in BOOLEAN, NEW left \in BOOLEAN
    PROVE  LET s == SettledOp(op, stop, pause, left)
           IN  /\ s.stop = stop /\ s.invs = op.invs /\ s.bridged = op.bridged
               /\ s.status # "absent"
               /\ stop = "confirmed" =>
                     s.active = NoInv /\ (s.pauseReq => s.status = "paused")
               /\ stop = "unconfirmed" => s.active = op.active
<1>. DEFINE requested == [op EXCEPT !.stop = stop, !.pauseReq = @ \/ pause]
<1>1. EndedStatus(requested, left) \in {"ready", "paused", "exhausted"}
  BY DEF EndedStatus
<1>2. requested.pauseReq => EndedStatus(requested, left) = "paused"
  BY DEF EndedStatus
<1>3. requested \in Operation
  BY DEF Operation
<1>4. /\ requested.stop = stop /\ requested.invs = op.invs /\ requested.bridged = op.bridged
      /\ requested.active = op.active
  BY DEF Operation
<1>. HIDE DEF requested
<1>5. CASE stop = "confirmed"
  <2>1. SettledOp(op, stop, pause, left) =
            [requested EXCEPT !.status = EndedStatus(requested, left), !.active = NoInv]
    BY <1>5 DEF SettledOp, requested
  <2>. QED BY <1>1, <1>2, <1>3, <1>4, <1>5, <2>1 DEF Operation
<1>6. CASE stop = "unconfirmed"
  <2>1. SettledOp(op, stop, pause, left) = [requested EXCEPT !.status = "interrupted"]
    BY <1>6 DEF SettledOp, requested
  <2>. QED BY <1>3, <1>4, <1>6, <2>1 DEF Operation
<1>. QED BY <1>5, <1>6

(***************************************************************************)
(* Settling the operation invocation i holds, by its result, by a delayed  *)
(* settle or by a receipt, releases at most that reservation.              *)
(***************************************************************************)
LEMMA SettleActive ==
    ASSUME TypeOK, OperationInv, UNCHANGED opOf, NEW o \in OpIds, NEW i \in Invs,
           NEW stop \in {"confirmed", "unconfirmed"}, NEW pause \in BOOLEAN, NEW left \in BOOLEAN,
           ops[o].active = i, ops' = [ops EXCEPT ![o] = SettledOp(@, stop, pause, left)]
    PROVE  /\ OperationInv'
           /\ Releases(i)
           /\ stop = "unconfirmed" => KeepsActive
           /\ stop = "confirmed" => ops'[o].active = NoInv
<1>. DEFINE s == SettledOp(ops[o], stop, pause, left)
<1>0. ops \in [OpIds -> Operation] /\ NoInv \notin Invs
  BY DraftAssumption DEF TypeOK, DraftTypeOK
<1>1. /\ s.stop = stop /\ s.invs = ops[o].invs /\ s.bridged = ops[o].bridged
      /\ s.status # "absent"
      /\ stop = "confirmed" => s.active = NoInv /\ (s.pauseReq => s.status = "paused")
      /\ stop = "unconfirmed" => s.active = ops[o].active
  BY <1>0, SettledOpEffect
<1>2. ops' = [ops EXCEPT ![o] = s]
  OBVIOUS
<1>. HIDE DEF s
<1>3. \A p \in OpIds : ops'[p] = IF p = o THEN s ELSE ops[p]
  BY <1>0, <1>2
<1>4. OperationInv'
  BY <1>0, <1>1, <1>3 DEF OperationInv
<1>. QED BY <1>0, <1>1, <1>3, <1>4 DEF Releases, KeepsActive

(***************************************************************************)
(* settle releases at most the invocation it is about, and nothing when it *)
(* has no evidence; a superseded invocation changes no operation.          *)
(***************************************************************************)
LEMMA SettleEffect ==
    ASSUME TypeOK, OperationInv, UNCHANGED opOf, NEW o \in OpIds, NEW i \in Invs,
           NEW stop \in {"confirmed", "unconfirmed"}, NEW pause \in BOOLEAN, NEW left \in BOOLEAN,
           Settle(o, i, stop, pause, left)
    PROVE  OperationInv' /\ Releases(i) /\ (stop = "unconfirmed" => KeepsActive)
<1>1. CASE ops[o].active # i
  BY <1>1 DEF Settle, durable, OperationInv, Releases, KeepsActive
<1>2. CASE ops[o].active = i
  BY <1>2, SettleActive DEF Settle
<1>. QED BY <1>1, <1>2

(***************************************************************************)
(* A transport receipt releases at most the invocation it is about.        *)
(***************************************************************************)
LEMMA ReceiptEffect ==
    ASSUME TypeOK, OperationInv, UNCHANGED opOf, NEW i \in Invs, NEW left \in BOOLEAN,
           ConfirmTransportReceipt(i, left)
    PROVE  OperationInv' /\ Releases(i)
<1>1. CASE ActiveCandidates(i) # {}
  <2>1. PICK o \in ActiveCandidates(i) :
            ops' = [ops EXCEPT ![o] = SettledOp(@, "confirmed", FALSE, left)]
    BY <1>1 DEF ConfirmTransportReceipt
  <2>2. o \in OpIds /\ ops[o].active = i
    BY DEF ActiveCandidates, ReceiptCandidates
  <2>. QED BY <2>1, <2>2, SettleActive
<1>2. CASE ActiveCandidates(i) = {}
  <2>1. UNCHANGED ops
    BY <1>2 DEF ConfirmTransportReceipt, durable
  <2>. QED BY <2>1 DEF OperationInv, Releases
<1>. QED BY <1>1, <1>2

(***************************************************************************)
(* begin, resume and requestIntentStop change no reservation.              *)
(***************************************************************************)
LEMMA BeginEffect ==
    ASSUME TypeOK, OperationInv, NEW b \in Bases, BeginOp(b),
           NEW i \in Invs, \A o \in OpIds : ops[o].active # i,
           opOf' = [opOf EXCEPT ![i] = OpFor(b)]
    PROVE  OperationInv' /\ KeepsActive
<1>0. /\ ops \in [OpIds -> Operation] /\ NoInv \notin Invs
      /\ opOf \in [Invs -> OpIds \cup {NoOp}]
  BY DraftAssumption DEF TypeOK, DraftTypeOK, RuntimeTypeOK
<1>1. OpFor(b) \in OpIds
  BY BeginOpType DEF TypeOK
<1>2. \A o \in OpIds : \/ ops'[o] = ops[o]
                       \/ /\ ops[o].active = NoInv /\ ops'[o].active = NoInv
                          /\ ops'[o].status = "ready" /\ ~ops'[o].pauseReq
  BY <1>0, <1>1 DEF BeginOp, AbsentOp, OperationInv
<1>3. \A o \in OpIds : ops[o].active # NoInv => opOf'[ops[o].active] = opOf[ops[o].active]
  BY <1>0 DEF Operation
<1>. QED BY <1>0, <1>2, <1>3 DEF OperationInv, KeepsActive

(***************************************************************************)
(* resume changes no reservation: the operation it takes up has none.      *)
(***************************************************************************)
LEMMA ResumeEffect ==
    ASSUME TypeOK, OperationInv, UNCHANGED opOf, NEW o \in OpIds, ResumeOp(o)
    PROVE  OperationInv' /\ KeepsActive
<1>0. ops \in [OpIds -> Operation]
  BY DEF TypeOK, DraftTypeOK
<1>1. \A p \in OpIds : \/ ops'[p] = ops[p]
                       \/ /\ ops[p].active = NoInv /\ ops'[p].active = NoInv
                          /\ ops'[p].status = "ready" /\ ~ops'[p].pauseReq
  BY <1>0 DEF ResumeOp, Operation
<1>. QED BY <1>0, <1>1 DEF OperationInv, KeepsActive

(***************************************************************************)
(* requestIntentStop marks operations and changes no reservation.          *)
(***************************************************************************)
LEMMA IntentStopEffect ==
    ASSUME TypeOK, OperationInv, UNCHANGED opOf, NEW i \in Invs, RequestIntentStop({i})
    PROVE  OperationInv' /\ KeepsActive
<1>0. ops \in [OpIds -> Operation] /\ NoInv \notin Invs
  BY DraftAssumption DEF TypeOK, DraftTypeOK
<1>1. \A o \in OpIds : \/ ops'[o] = ops[o]
                       \/ /\ ops[o].active = i /\ ops'[o].active = i
                          /\ ops'[o].stop \in {"unconfirmed", "requested"}
                          /\ ops'[o].status = ops[o].status /\ ops'[o].invs = ops[o].invs
                          /\ ops'[o].bridged = ops[o].bridged
  <2>. SUFFICES ASSUME NEW o \in OpIds, ops'[o] # ops[o]
                PROVE  /\ ops[o].active = i /\ ops'[o].active = i
                       /\ ops'[o].stop \in {"unconfirmed", "requested"}
                       /\ ops'[o].status = ops[o].status /\ ops'[o].invs = ops[o].invs
                       /\ ops'[o].bridged = ops[o].bridged
    OBVIOUS
  <2>1. ops[o] \in Operation
    BY <1>0
  <2>2. ops[o].active = i
    BY DEF RequestIntentStop
  <2>3. ops'[o] = [ops[o] EXCEPT !.pauseReq = TRUE,
                                 !.stop = IF ops[o].stop = "unconfirmed" THEN ops[o].stop
                                                                         ELSE "requested"]
    BY <2>2 DEF RequestIntentStop
  <2>. QED BY <2>1, <2>2, <2>3 DEF Operation
<1>. QED BY <1>0, <1>1 DEF OperationInv, KeepsActive

(***************************************************************************)
(* reserve gives invocation i a reservation nobody held, of an operation   *)
(* on which no pause is pending.                                           *)
(***************************************************************************)
LEMMA ReserveEffect ==
    ASSUME TypeOK, OperationInv, UNCHANGED opOf, NEW i \in Invs, opOf[i] \in OpIds,
           Reserve(opOf[i], i, epoch)
    PROVE  /\ OperationInv'
           /\ ops[opOf[i]].active = NoInv /\ ~ops[opOf[i]].pauseReq
           /\ \A o \in OpIds : ops'[o].active = IF o = opOf[i] THEN i ELSE ops[o].active
<1>0. ops \in [OpIds -> Operation] /\ NoInv \notin Invs
  BY DraftAssumption DEF TypeOK, DraftTypeOK
<1>1. ops[opOf[i]].active = NoInv /\ ops[opOf[i]].status \in {"ready", "running"}
  BY DEF Reserve, CanReserve
<1>2. ~ops[opOf[i]].pauseReq
  BY <1>1 DEF OperationInv
<1>. DEFINE r == [ops[opOf[i]] EXCEPT !.attempts = @ + 1, !.invs = @ \cup {i}, !.active = i,
                                     !.owner = epoch, !.bridged = i \in Local,
                                     !.status = "running", !.stop = "none"]
<1>3. \A o \in OpIds : ops'[o] = IF o = opOf[i] THEN r ELSE ops[o]
  BY <1>0 DEF Reserve, Operation
<1>4. r.active = i /\ i \in r.invs /\ r.status = "running" /\ r.stop = "none"
  BY <1>0 DEF Operation
<1>5. i \in Local => r.bridged
  BY <1>0 DEF Operation
<1>. HIDE DEF r
<1>6. OperationInv'
  BY <1>0, <1>3, <1>4, <1>5 DEF OperationInv
<1>. QED BY <1>1, <1>2, <1>3, <1>4, <1>6

(***************************************************************************)
(* A step that leaves an invocation alone, except for dropping its pending *)
(* settle, keeps what the invariant says of it.                            *)
(***************************************************************************)
LEMMA OtherInvocation ==
    ASSUME NEW j \in Invs, InvocationInv(j), pc'[j] = pc[j], proc'[j] = proc[j],
           opOf'[j] = opOf[j], sync'[j] \in {sync[j], "none"},
           \A o \in OpIds : (ops'[o].active = j) <=> (ops[o].active = j)
    PROVE  InvocationInv(j)'
BY DEF InvocationInv, BeforeReserve, BeforeLaunch

(***************************************************************************)
(* Settling an invocation whose start() is past its launch keeps the       *)
(* invariant when a live process keeps its reservation.                    *)
(***************************************************************************)
LEMMA SettlingKeeps ==
    ASSUME TypeOK, ReservationInv, NEW i \in Invs, opOf[i] \in OpIds,
           pc[i] \notin BeforeReserve \cup BeforeLaunch,
           OperationInv', Releases(i), proc[i] = "live" => KeepsActive,
           UNCHANGED <<proc, opOf>>,
           sync' = sync \/ sync' = [sync EXCEPT ![i] = "none"],
           \/ pc' = pc
           \/ Goto(i, "tombstone") \/ Goto(i, "done")
           \/ pc[i] = "timedOut" /\ Goto(i, "flagged")
    PROVE  ReservationInv'
<1>0. /\ pc \in [Invs -> Pc] /\ sync \in [Invs -> {"none", "confirmed", "unconfirmed"}]
      /\ NoInv \notin Invs
  BY DraftAssumption DEF TypeOK, RuntimeTypeOK
<1>1. ASSUME NEW j \in Invs PROVE InvocationInv(j)'
  <2>1. InvocationInv(j)
    BY DEF ReservationInv
  <2>2. CASE j # i
    <3>1. pc'[j] = pc[j] /\ sync'[j] = sync[j]
      BY <1>0, <2>2 DEF Goto
    <3>2. \A o \in OpIds : (ops'[o].active = j) <=> (ops[o].active = j)
      BY <1>0, <2>2 DEF Releases
    <3>. QED BY <2>1, <3>1, <3>2, OtherInvocation
  <2>3. CASE j = i
    <3>1. \/ pc'[i] = pc[i]
          \/ pc'[i] \in {"tombstone", "done"}
          \/ pc[i] = "timedOut" /\ pc'[i] = "flagged"
      BY <1>0 DEF Goto
    <3>2. sync'[i] = sync[i] \/ sync'[i] = "none"
      BY <1>0
    <3>. QED BY <2>1, <2>3, <3>1, <3>2
             DEF InvocationInv, BeforeReserve, BeforeLaunch, KeepsActive
  <2>. QED BY <2>2, <2>3
<1>. QED BY <1>1 DEF ReservationInv

(***************************************************************************)
(* A step of one invocation keeps the reservation invariant.               *)
(***************************************************************************)
LEMMA RuntimeStepReservation ==
    ASSUME TypeOK, ReservationInv, NEW i \in Invs, RuntimeStep(i)
    PROVE  ReservationInv'
<1>0. /\ pc \in [Invs -> Pc] /\ proc \in [Invs -> {"none", "live", "exited"}]
      /\ sync \in [Invs -> {"none", "confirmed", "unconfirmed"}]
      /\ opOf \in [Invs -> OpIds \cup {NoOp}] /\ BaseOf \in [Invs -> Bases]
      /\ NoOp \notin OpIds /\ NoInv \notin Invs
  BY DraftAssumption, RuntimeAssumption DEF TypeOK, RuntimeTypeOK
<1>1. OperationInv /\ InvocationInv(i) /\ \A j \in Invs : InvocationInv(j)
  BY DEF ReservationInv
<1>2. ASSUME OperationInv', InvocationInv(i)',
             \A j \in Invs \ {i} : /\ pc'[j] = pc[j] /\ proc'[j] = proc[j]
                                   /\ opOf'[j] = opOf[j] /\ sync'[j] \in {sync[j], "none"},
             \A j \in Invs \ {i} : \A o \in OpIds :
                 (ops'[o].active = j) <=> (ops[o].active = j)
      PROVE  ReservationInv'
  BY <1>1, <1>2, OtherInvocation DEF ReservationInv
<1>3. UNCHANGED <<ops, opOf>> => OperationInv' /\ KeepsActive
  BY <1>1 DEF OperationInv, KeepsActive
<1>4. PauseRequested(i) \in BOOLEAN /\ Evidence(i) \in {"confirmed", "unconfirmed"}
  BY DEF PauseRequested, Evidence
<1>a. CASE Start(i) \/ RefuseStart(i) \/ RefuseLaunch(i) \/ Result(i) \/ UnconfirmedResult(i)
           \/ StopTimer(i) \/ LateUnconfirmedResult(i) \/ LateResultFails(i)
  <2>1. UNCHANGED <<ops, opOf, proc, sync>>
    BY <1>a DEF Start, RefuseStart, RefuseLaunch, Result, UnconfirmedResult, StopTimer,
                LateUnconfirmedResult, LateResultFails, durable, handle, pending
  <2>2. \A j \in Invs \ {i} : pc'[j] = pc[j]
    BY <1>0, <1>a DEF Start, RefuseStart, RefuseLaunch, Result, UnconfirmedResult, StopTimer,
                LateUnconfirmedResult, LateResultFails, Goto
  <2>3. InvocationInv(i)'
    BY <1>0, <1>1, <1>a, <2>1
       DEF Start, RefuseStart, RefuseLaunch, Result, UnconfirmedResult, StopTimer, AfterLate,
           LateUnconfirmedResult, LateResultFails, Goto, InvocationInv, BeforeReserve, BeforeLaunch
  <2>. QED BY <1>2, <1>3, <2>1, <2>2, <2>3
<1>b. CASE Begin(i)
  <2>1. OperationInv' /\ KeepsActive /\ OpFor(BaseOf[i]) \in OpIds
    <3>1. \A o \in OpIds : ops[o].active # i
      BY <1>1, <1>b DEF Begin, InvocationInv, BeforeReserve
    <3>. QED BY <1>0, <1>1, <1>b, <3>1, BeginEffect, BeginOpType DEF Begin, TypeOK
  <2>2. InvocationInv(i)'
    BY <1>0, <1>1, <1>b, <2>1
       DEF Begin, Goto, pending, InvocationInv, BeforeReserve, BeforeLaunch, KeepsActive
  <2>. QED BY <1>0, <1>2, <1>b, <2>1, <2>2 DEF Begin, Goto, pending, KeepsActive
<1>c. CASE CheckBeforeReserve(i) \/ CheckBeforeLaunch(i)
  <2>1. UNCHANGED <<ops, opOf, proc>> /\ PruneSync
    BY <1>c DEF CheckBeforeReserve, CheckBeforeLaunch, PassBarrier, durable, handle
  <2>2. \A j \in Invs : sync'[j] \in {sync[j], "none"}
    BY <2>1 DEF PruneSync
  <2>3. \/ pc[i] = "begun" /\ (Goto(i, "admitted") \/ Goto(i, "done"))
        \/ pc[i] = "reserved" /\ (Goto(i, "cleared") \/ Goto(i, "ended"))
    BY <1>c DEF CheckBeforeReserve, CheckBeforeLaunch, PassBarrier
  <2>4. InvocationInv(i)'
    BY <1>0, <1>1, <2>1, <2>2, <2>3 DEF Goto, InvocationInv, BeforeReserve, BeforeLaunch
  <2>. QED BY <1>0, <1>2, <1>3, <2>1, <2>2, <2>3, <2>4 DEF Goto
<1>d. CASE ReserveInvocation(i)
  <2>1. UNCHANGED <<proc, opOf, sync>> /\ Goto(i, "reserved") /\ opOf[i] \in OpIds
    BY <1>1, <1>d DEF ReserveInvocation, handle, pending, InvocationInv
  <2>2. /\ OperationInv' /\ ops[opOf[i]].active = NoInv
        /\ \A o \in OpIds : ops'[o].active = IF o = opOf[i] THEN i ELSE ops[o].active
    BY <1>1, <1>d, <2>1, ReserveEffect DEF ReserveInvocation
  <2>3. InvocationInv(i)'
    BY <1>0, <1>1, <1>d, <2>1, <2>2
       DEF ReserveInvocation, Goto, InvocationInv, BeforeReserve, BeforeLaunch
  <2>. QED BY <1>0, <1>2, <2>1, <2>2, <2>3 DEF Goto
<1>e. CASE Launch(i)
  <2>1. UNCHANGED <<ops, opOf, sync>>
    BY <1>e DEF Launch, durable, handle, pending
  <2>2. InvocationInv(i)'
    BY <1>0, <1>1, <1>e, <2>1 DEF Launch, Goto, InvocationInv, BeforeReserve, BeforeLaunch
  <2>. QED BY <1>0, <1>2, <1>3, <1>e, <2>1, <2>2 DEF Launch, Goto
<1>f. CASE ProcessExit(i)
  <2>1. UNCHANGED <<ops, opOf, sync, pc>>
    BY <1>f DEF ProcessExit, durable, handle, pending
  <2>2. InvocationInv(i)'
    BY <1>0, <1>1, <1>f, <2>1 DEF ProcessExit, InvocationInv, BeforeReserve, BeforeLaunch
  <2>. QED BY <1>0, <1>2, <1>3, <1>f, <2>1, <2>2 DEF ProcessExit
<1>g. CASE Abort(i) \/ CancelIntent(i) \/ ReconcileFails(i)
  <2>1. UNCHANGED <<ops, opOf, sync, pc, proc>>
    BY <1>g DEF Abort, CancelIntent, ReconcileFails, durable, pending, handle
  <2>. QED BY <1>1, <1>2, <1>3, <2>1, OtherInvocation
<1>h. CASE StopIntent(i)
  <2>1. UNCHANGED <<opOf, sync, pc, proc>>
    BY <1>h DEF StopIntent, handle, pending
  <2>2. OperationInv' /\ KeepsActive
    BY <1>1, <1>h, <2>1, IntentStopEffect DEF StopIntent
  <2>. QED BY <1>1, <1>2, <2>1, <2>2, OtherInvocation DEF KeepsActive
<1>i. CASE SettleInvocation(i)
  <2>1. opOf[i] \in OpIds /\ pc[i] \notin BeforeReserve \cup BeforeLaunch
    BY <1>1, <1>i DEF SettleInvocation, InvocationInv, BeforeReserve, BeforeLaunch
  <2>2. UNCHANGED <<proc, opOf, sync>> /\ (Goto(i, "tombstone") \/ Goto(i, "done"))
    BY <1>i DEF SettleInvocation, handle, pending, AfterSettle
  <2>3. OperationInv' /\ Releases(i) /\ (Evidence(i) = "unconfirmed" => KeepsActive)
    <3>1. PICK left \in BOOLEAN : Settle(opOf[i], i, Evidence(i), PauseRequested(i), left)
      BY <1>i, Zenon DEF SettleInvocation
    <3>. QED BY <1>1, <1>4, <2>1, <2>2, <3>1, SettleEffect, Zenon
  <2>4. proc[i] = "live" => KeepsActive
    BY <1>1, <2>3 DEF Evidence, InvocationInv
  <2>. QED BY <2>1, <2>2, <2>3, <2>4, SettlingKeeps
<1>j. CASE SettleFails(i)
  <2>1. UNCHANGED <<ops, opOf, proc>> /\ (Goto(i, "tombstone") \/ Goto(i, "done"))
    BY <1>j DEF SettleFails, durable, handle, AfterSettle
  <2>2. sync' = [sync EXCEPT ![i] = Evidence(i)] /\ pc[i] \in {"ended", "timedOut", "flagged"}
    BY <1>j DEF SettleFails
  <2>3. InvocationInv(i)'
    BY <1>0, <1>1, <2>1, <2>2 DEF Goto, Evidence, InvocationInv, BeforeReserve, BeforeLaunch
  <2>. QED BY <1>0, <1>2, <1>3, <2>1, <2>2, <2>3 DEF Goto
<1>k. CASE Reconcile(i)
  <2>1. /\ opOf[i] \in OpIds /\ pc[i] \notin BeforeReserve \cup BeforeLaunch
        /\ sync[i] \in {"confirmed", "unconfirmed"}
    BY <1>0, <1>1, <1>k DEF Reconcile, InvocationInv, BeforeReserve, BeforeLaunch
  <2>2. UNCHANGED <<proc, opOf, pc>> /\ sync' = [sync EXCEPT ![i] = "none"]
    BY <1>k DEF Reconcile, handle
  <2>3. OperationInv' /\ Releases(i) /\ (sync[i] = "unconfirmed" => KeepsActive)
    <3>1. PICK left \in BOOLEAN : Settle(opOf[i], i, sync[i], PauseRequested(i), left)
      BY <1>k, Zenon DEF Reconcile
    <3>. QED BY <1>1, <1>4, <2>1, <2>2, <3>1, SettleEffect, Zenon
  <2>4. proc[i] = "live" => KeepsActive
    BY <1>1, <2>1, <2>3 DEF InvocationInv
  <2>. QED BY <2>1, <2>2, <2>3, <2>4, SettlingKeeps
<1>l. CASE LateResult(i)
  <2>1. opOf[i] \in OpIds /\ pc[i] \notin BeforeReserve \cup BeforeLaunch /\ proc[i] # "live"
    BY <1>1, <1>l DEF LateResult, InvocationInv, BeforeReserve, BeforeLaunch
  <2>2. /\ UNCHANGED <<proc, opOf, sync>>
        /\ Goto(i, "done") \/ (pc[i] = "timedOut" /\ Goto(i, "flagged"))
    BY <1>l DEF LateResult, handle, pending, AfterLate
  <2>3. OperationInv' /\ Releases(i)
    <3>1. PICK left \in BOOLEAN : Settle(opOf[i], i, "confirmed", PauseRequested(i), left)
      BY <1>l, Zenon DEF LateResult
    <3>. QED BY <1>1, <1>4, <2>1, <2>2, <3>1, SettleEffect
  <2>. QED BY <2>1, <2>2, <2>3, SettlingKeeps
<1>m. CASE Receipt(i)
  <2>1. UNCHANGED <<proc, opOf, sync, pc>> /\ proc[i] = "exited"
    BY <1>m DEF Receipt, runtime, handle, pending
  <2>2. OperationInv' /\ Releases(i)
    BY <1>1, <1>m, <2>1, ReceiptEffect DEF Receipt
  <2>3. pc[i] \notin BeforeReserve \cup BeforeLaunch
    BY <1>1, <2>1 DEF InvocationInv
  <2>4. InvocationInv(i)'
    BY <1>1, <2>1, <2>3 DEF InvocationInv
  <2>. QED BY <1>0, <1>2, <2>1, <2>2, <2>4 DEF Releases
<1>. QED
  BY <1>a, <1>b, <1>c, <1>d, <1>e, <1>f, <1>g, <1>h, <1>i, <1>j, <1>k, <1>l, <1>m
     DEF RuntimeStep

(***************************************************************************)
(* The lifecycle methods touch no operation and no stop request.           *)
(***************************************************************************)
LEMMA LifecycleStoreFrame ==
    ASSUME \/ BeginDelete \/ CloseForStop \/ MarkArchived \/ RestoreArchived
           \/ Reopen \/ CompleteDelete \/ \E g : Restore(g)
    PROVE  UNCHANGED <<stopRequest, ops>>
BY DEF BeginDelete, CloseForStop, MarkArchived, RestoreArchived, Reopen, CompleteDelete,
       Restore, Unchanged, durable

(***************************************************************************)
(* A control never moves an invocation, a process or a reservation; it may *)
(* prune a pending settle, and only cancelSessionAndWait requests a stop.  *)
(***************************************************************************)
LEMMA ControlFrame ==
    ASSUME ControlStep
    PROVE  /\ UNCHANGED <<pc, opOf, proc, ops>>
           /\ sync' = sync \/ PruneSync
           /\ \/ UNCHANGED stopRequest
              \/ \E c \in Controls : CommitStop(c)
<1>1. CASE Pause \/ Delete \/ Archive \/ FinishDelete \/ FinishArchive
  BY <1>1, LifecycleStoreFrame
     DEF Pause, Delete, Archive, FinishDelete, FinishArchive, runtime, handle, pending
<1>2. CASE Disconnect \/ \E c \in Controls : EnterStop(c) \/ CommitStopFails(c)
                             \/ EndWait(c) \/ AbandonStopped(c)
  BY <1>2 DEF Disconnect, EnterStop, CommitStopFails, EndWait, AbandonStopped,
              durable, runtime, handle, pending
<1>3. CASE \E c \in Controls : CommitStop(c)
  BY <1>3 DEF CommitStop, RequestStop, pending
<1>4. CASE ClearArchived \/ CheckResume \/ ReopenRefused \/ FinishResume \/ RestoreAgain
           \/ CheckUnarchive \/ UnarchiveRefused
  BY <1>4 DEF ClearArchived, CheckResume, ReopenRefused, FinishResume, RestoreAgain,
              CheckUnarchive, UnarchiveRefused, durable, runtime, handle, pending
<1>5. CASE ReopenAdmission \/ RestoreDeleted \/ FinishUnarchive
  BY <1>5, LifecycleStoreFrame DEF ReopenAdmission, RestoreDeleted, FinishUnarchive,
              durable, runtime, handle, pending
<1>. QED BY <1>1, <1>2, <1>3, <1>4, <1>5 DEF ControlStep

(***************************************************************************)
(* The reservation invariant is inductive.                                 *)
(***************************************************************************)
LEMMA ReservationStep ==
    ASSUME TypeOK, ReservationInv, [Next]_vars
    PROVE  ReservationInv'
<1>0. OperationInv /\ \A j \in Invs : InvocationInv(j)
  BY DEF ReservationInv
<1>1. ASSUME UNCHANGED <<pc, opOf, proc>>, OperationInv', KeepsActive,
             \A j \in Invs : sync'[j] \in {sync[j], "none"}
      PROVE  ReservationInv'
  BY <1>0, <1>1, OtherInvocation DEF ReservationInv, KeepsActive
<1>2. ASSUME NEW o \in OpIds, ResumeOperation(o) PROVE ReservationInv'
  <2>1. UNCHANGED <<pc, opOf, proc, sync>>
    BY <1>2 DEF ResumeOperation, runtime, handle, pending
  <2>2. OperationInv' /\ KeepsActive
    BY <1>0, <1>2, <2>1, ResumeEffect DEF ResumeOperation
  <2>. QED BY <1>1, <2>1, <2>2
<1>3. CASE ControlStep
  <2>1. UNCHANGED <<pc, opOf, proc, ops>> /\ (sync' = sync \/ PruneSync)
    BY <1>3, ControlFrame
  <2>2. \A j \in Invs : sync'[j] \in {sync[j], "none"}
    BY <2>1 DEF PruneSync
  <2>3. OperationInv' /\ KeepsActive
    BY <1>0, <2>1 DEF OperationInv, KeepsActive
  <2>. QED BY <1>1, <2>1, <2>2, <2>3
<1>4. CASE Restart
  <2>1. UNCHANGED <<ops, opOf>>
    BY <1>4 DEF Restart
  <2>2. OperationInv'
    BY <1>0, <2>1 DEF OperationInv
  <2>3. ASSUME NEW j \in Invs PROVE InvocationInv(j)'
    <3>1. /\ pc'[j] \in {"idle", "done"} /\ (pc'[j] = "idle" => pc[j] = "idle")
          /\ sync'[j] = "none"
      BY <1>4 DEF Restart
    <3>2. proc'[j] = proc[j] \/ (proc[j] = "live" /\ proc'[j] = "exited")
      BY <1>4 DEF Restart
    <3>. QED BY <1>0, <2>1, <3>1, <3>2 DEF InvocationInv, BeforeReserve, BeforeLaunch
  <2>. QED BY <2>2, <2>3 DEF ReservationInv
<1>5. CASE UNCHANGED vars
  <2>1. UNCHANGED <<pc, opOf, proc, sync, ops>>
    BY <1>5 DEF vars, durable, runtime, handle, pending
  <2>2. OperationInv' /\ KeepsActive
    BY <1>0, <2>1 DEF OperationInv, KeepsActive
  <2>. QED BY <1>1, <2>1, <2>2
<1>. QED BY <1>2, <1>3, <1>4, <1>5, NextCases, RuntimeStepReservation

(***************************************************************************)
(* Nothing is supervised and nothing is reserved in an initial state.      *)
(***************************************************************************)
LEMMA InitReservation == Init => ReservationInv
BY DraftAssumption
   DEF Init, DraftInit, RuntimeInit, AbsentOp, ReservationInv, OperationInv, InvocationInv,
       BeforeReserve, BeforeLaunch

(***************************************************************************)
(* At every moment, whatever interleaves, fails or restarts, the operation *)
(* of a live agent process is reserved by exactly that process: reserve    *)
(* commits before the launch, and only evidence that the process ended     *)
(* releases the reservation.                                               *)
(***************************************************************************)
THEOREM ReservationHeld == Spec => []LiveIsReserved
<1>1. Init => ReservationInv
  BY InitReservation
<1>2. TypeOK /\ ReservationInv /\ [Next]_vars => ReservationInv'
  BY ReservationStep
<1>3. ReservationInv => LiveIsReserved
  BY DEF ReservationInv, InvocationInv, LiveIsReserved
<1>. QED BY <1>1, <1>2, <1>3, TypeCorrect, PTL DEF Spec

-----------------------------------------------------------------------------
(* Stop requests: what a request still waits for covers what is reserved. *)

\* No process starts except from a cleared invocation, and no start() goes back.
LaunchFrame ==
    \A j \in Invs :
        /\ pc'[j] \in BeforeReserve \cup BeforeLaunch => pc[j] \in BeforeReserve \cup BeforeLaunch
        /\ proc'[j] = "live" => proc[j] = "live" \/ pc[j] \in BeforeLaunch

\* A request that stops waiting leaves no reservation behind.
Drains == stopRequest.status = "waiting" => stopRequest'.status = "waiting" \/ ActiveInvs' = {}

\* The targets of a waiting request are frozen and its evidence is kept.
KeepsEvidence ==
    stopRequest.status = "waiting" =>
        \A i \in Invs :
           /\ stopRequest'.targets[i] = "none" <=> stopRequest.targets[i] = "none"
           /\ stopRequest.targets[i] = "confirmed" => stopRequest'.targets[i] = "confirmed"

StopStep == StopInv' /\ Drains /\ KeepsEvidence

(***************************************************************************)
(* updateStopTarget changes one target of a waiting request, and confirms  *)
(* the request when nothing is left to wait for.                           *)
(***************************************************************************)
LEMMA UpdateStopTargetEffect ==
    ASSUME NEW r \in StopRequest, NEW i \in Invs, NEW state \in {"unknown", "confirmed"}
    PROVE  LET u == UpdateStopTarget(r, i, state)
           IN  /\ \A j \in Invs \ {i} : u.targets[j] = r.targets[j]
               /\ u.targets[i] = IF r.status = "waiting" /\ r.targets[i] # "none"
                                 THEN state ELSE r.targets[i]
               /\ u.status = "waiting" => r.status = "waiting"
               /\ r.status = "waiting" /\ u.status # "waiting" =>
                     \A j \in Invs : u.targets[j] \in {"none", "confirmed"}
BY DEF UpdateStopTarget, StopRequest

(***************************************************************************)
(* Recording evidence about invocation i: an unknown stop of a reserved    *)
(* invocation, or the confirmed stop of one that no longer is.             *)
(***************************************************************************)
LEMMA RecordStopEffect ==
    ASSUME TypeOK, StopInv, NEW i \in Invs, NEW state \in {"unknown", "confirmed"},
           stopRequest' = UpdateStopTarget(stopRequest, i, state),
           Releases(i), LaunchFrame,
           state = "unknown" => i \in ActiveInvs,
           state = "confirmed" =>
               /\ \A o \in OpIds : ops'[o].active # i
               /\ proc'[i] # "live" /\ pc'[i] \notin BeforeReserve \cup BeforeLaunch
    PROVE  StopStep
<1>0. stopRequest \in StopRequest /\ NoInv \notin Invs
  BY DraftAssumption DEF TypeOK, DraftTypeOK
<1>1. /\ \A j \in Invs \ {i} : stopRequest'.targets[j] = stopRequest.targets[j]
      /\ stopRequest'.targets[i] =
            IF stopRequest.status = "waiting" /\ stopRequest.targets[i] # "none"
            THEN state ELSE stopRequest.targets[i]
      /\ stopRequest'.status = "waiting" => stopRequest.status = "waiting"
      /\ stopRequest.status = "waiting" /\ stopRequest'.status # "waiting" =>
            \A j \in Invs : stopRequest'.targets[j] \in {"none", "confirmed"}
  BY <1>0, UpdateStopTargetEffect
<1>2. ActiveInvs' \subseteq ActiveInvs /\ (state = "confirmed" => i \notin ActiveInvs')
  BY <1>0 DEF ActiveInvs, Releases
<1>3. stopRequest.status = "waiting" => ActiveInvs' \subseteq Blockers'
  BY <1>0, <1>1, <1>2 DEF StopInv, OpenStopCoversActive, Blockers
<1>4. Drains
  BY <1>1, <1>3 DEF Drains, Blockers, ActiveInvs
<1>5. KeepsEvidence
  BY <1>0, <1>1 DEF KeepsEvidence, StopInv, OpenStopCoversActive, Blockers
<1>6. OpenStopCoversActive'
  BY <1>1, <1>3 DEF OpenStopCoversActive
<1>7. ASSUME NEW j \in Invs, stopRequest'.targets[j] = "confirmed"
      PROVE  proc'[j] # "live" /\ pc'[j] \notin BeforeReserve \cup BeforeLaunch
  BY <1>0, <1>1, <1>7 DEF StopInv, LaunchFrame
<1>. QED BY <1>4, <1>5, <1>6, <1>7 DEF StopStep, StopInv

(***************************************************************************)
(* A step that releases and requests nothing keeps the stop invariant.     *)
(***************************************************************************)
LEMMA QuietStop ==
    ASSUME StopInv, UNCHANGED stopRequest, KeepsActive, LaunchFrame
    PROVE  StopStep
<1>1. ActiveInvs' = ActiveInvs /\ Blockers' = Blockers
  BY DEF KeepsActive, ActiveInvs, Blockers
<1>2. StopInv'
  BY <1>1 DEF StopInv, OpenStopCoversActive, LaunchFrame
<1>. QED BY <1>2 DEF StopStep, Drains, KeepsEvidence

(***************************************************************************)
(* A settle of the invocation i, with evidence or without.                 *)
(***************************************************************************)
LEMMA SettleStop ==
    ASSUME TypeOK, ReservationInv, StopInv, UNCHANGED opOf, LaunchFrame,
           NEW i \in Invs, opOf[i] \in OpIds,
           NEW stop \in {"confirmed", "unconfirmed"}, NEW pause \in BOOLEAN, NEW left \in BOOLEAN,
           Settle(opOf[i], i, stop, pause, left),
           stop = "confirmed" =>
               proc'[i] # "live" /\ pc'[i] \notin BeforeReserve \cup BeforeLaunch
    PROVE  StopStep
<1>1. CASE ops[opOf[i]].active # i
  <2>1. UNCHANGED stopRequest /\ KeepsActive
    BY <1>1 DEF Settle, durable, KeepsActive
  <2>. QED BY <2>1, QuietStop
<1>2. CASE ops[opOf[i]].active = i
  <2>. DEFINE state == IF stop = "confirmed" THEN "confirmed" ELSE "unknown"
  <2>1. stopRequest' = UpdateStopTarget(stopRequest, i, state)
    BY <1>2 DEF Settle, RecordStop
  <2>2. Releases(i) /\ (stop = "confirmed" => ops'[opOf[i]].active = NoInv)
    BY <1>2, SettleActive DEF Settle, ReservationInv
  <2>3. stop = "confirmed" => \A o \in OpIds : ops'[o].active # i
    BY <2>2, DraftAssumption DEF Releases, ReservationInv, OperationInv
  <2>4. i \in ActiveInvs
    BY <1>2 DEF ActiveInvs
  <2>. QED BY <2>1, <2>2, <2>3, <2>4, RecordStopEffect
<1>. QED BY <1>1, <1>2

(***************************************************************************)
(* A receipt of the local bridge for an ended process.                     *)
(***************************************************************************)
LEMMA ReceiptStop ==
    ASSUME TypeOK, ReservationInv, StopInv, NEW i \in Local, NEW left \in BOOLEAN,
           proc[i] = "exited", ConfirmTransportReceipt(i, left), UNCHANGED <<pc, proc, opOf>>
    PROVE  StopStep
<1>0. i \in Invs /\ NoInv \notin Invs
  BY DraftAssumption
<1>1. LaunchFrame /\ pc'[i] \notin BeforeReserve \cup BeforeLaunch /\ proc'[i] # "live"
  BY <1>0 DEF LaunchFrame, ReservationInv, InvocationInv
<1>2. Releases(i)
  BY <1>0, ReceiptEffect DEF ReservationInv
<1>3. \A o \in OpIds : ops[o].active = i => o = opOf[i] /\ o \in ActiveCandidates(i)
  BY <1>0 DEF ReservationInv, OperationInv, ActiveCandidates, ReceiptCandidates
<1>4. CASE ActiveCandidates(i) # {}
  <2>1. PICK o \in ActiveCandidates(i) :
            /\ ops' = [ops EXCEPT ![o] = SettledOp(@, "confirmed", FALSE, left)]
            /\ RecordStop(i, "confirmed")
    BY <1>4 DEF ConfirmTransportReceipt
  <2>2. o \in OpIds /\ ops[o].active = i
    BY DEF ActiveCandidates, ReceiptCandidates
  <2>3. ops'[o].active = NoInv
    BY <1>0, <2>1, <2>2, SettleActive DEF ReservationInv
  <2>4. \A p \in OpIds : ops'[p].active # i
    BY <1>0, <1>2, <1>3, <2>2, <2>3 DEF Releases
  <2>. QED BY <1>0, <1>1, <1>2, <2>1, <2>4, RecordStopEffect DEF RecordStop
<1>5. CASE ActiveCandidates(i) = {} /\ ConfirmedCandidates(i) # {}
  <2>1. RecordStop(i, "confirmed") /\ UNCHANGED ops
    BY <1>5 DEF ConfirmTransportReceipt
  <2>2. \A o \in OpIds : ops'[o].active # i
    BY <1>3, <1>5, <2>1
  <2>. QED BY <1>0, <1>1, <1>2, <2>1, <2>2, RecordStopEffect DEF RecordStop
<1>6. CASE ActiveCandidates(i) = {} /\ ConfirmedCandidates(i) = {}
  <2>1. UNCHANGED <<ops, stopRequest>>
    BY <1>6 DEF ConfirmTransportReceipt, durable
  <2>. QED BY <1>1, <2>1, QuietStop DEF KeepsActive
<1>. QED BY <1>4, <1>5, <1>6

(***************************************************************************)
(* start() of an invocation only goes forward.                             *)
(***************************************************************************)
LEMMA RuntimeLaunchFrame ==
    ASSUME TypeOK, NEW i \in Invs, RuntimeStep(i)
    PROVE  LaunchFrame
<1>0. pc \in [Invs -> Pc] /\ proc \in [Invs -> {"none", "live", "exited"}]
  BY DEF TypeOK, RuntimeTypeOK
<1>1. CASE Start(i) \/ Begin(i) \/ RefuseStart(i) \/ RefuseLaunch(i) \/ Result(i)
           \/ UnconfirmedResult(i) \/ StopTimer(i)
  BY <1>0, <1>1 DEF Start, Begin, RefuseStart, RefuseLaunch, Result, UnconfirmedResult,
                    StopTimer, Goto, LaunchFrame, BeforeReserve, BeforeLaunch
<1>2. CASE CheckBeforeReserve(i) \/ ReserveInvocation(i) \/ CheckBeforeLaunch(i) \/ Launch(i)
  BY <1>0, <1>2 DEF CheckBeforeReserve, ReserveInvocation, CheckBeforeLaunch, Launch,
                    PassBarrier, Goto, LaunchFrame, BeforeReserve, BeforeLaunch
<1>3. CASE Abort(i) \/ StopIntent(i) \/ CancelIntent(i) \/ ProcessExit(i) \/ Reconcile(i)
           \/ ReconcileFails(i) \/ Receipt(i)
  BY <1>0, <1>3 DEF Abort, StopIntent, CancelIntent, ProcessExit, Reconcile, ReconcileFails,
                    Receipt, runtime, LaunchFrame
<1>4. CASE SettleInvocation(i) \/ SettleFails(i) \/ LateResult(i) \/ LateUnconfirmedResult(i)
           \/ LateResultFails(i)
  BY <1>0, <1>4 DEF SettleInvocation, SettleFails, LateResult, LateUnconfirmedResult,
                    LateResultFails, AfterSettle, AfterLate, Goto, LaunchFrame,
                    BeforeReserve, BeforeLaunch
<1>. QED BY <1>1, <1>2, <1>3, <1>4 DEF RuntimeStep

(***************************************************************************)
(* A step of one invocation releases at most its own reservation, or makes *)
(* it.                                                                     *)
(***************************************************************************)
LEMMA ActiveStep ==
    ASSUME TypeOK, ReservationInv, NEW i \in Invs, RuntimeStep(i)
    PROVE  Releases(i) \/ ReserveInvocation(i)
<1>0. OperationInv /\ \A j \in Invs : InvocationInv(j)
  BY DEF ReservationInv
<1>p. PauseRequested(i) \in BOOLEAN /\ Evidence(i) \in {"confirmed", "unconfirmed"}
  BY DEF PauseRequested, Evidence
<1>1. CASE Begin(i)
  <2>1. \A p \in OpIds : ops[p].active # i
    BY <1>0, <1>1 DEF Begin, InvocationInv, BeforeReserve
  <2>. QED BY <1>0, <1>1, <2>1, DraftAssumption, BeginEffect DEF Begin, KeepsActive, Releases
<1>2. CASE StopIntent(i)
  BY <1>0, <1>2, IntentStopEffect DEF StopIntent, handle, KeepsActive, Releases
<1>3. CASE SettleInvocation(i)
  <2>1. PICK left \in BOOLEAN : Settle(opOf[i], i, Evidence(i), PauseRequested(i), left)
    BY <1>3, Zenon DEF SettleInvocation
  <2>2. opOf[i] \in OpIds /\ UNCHANGED opOf
    BY <1>0, <1>3 DEF SettleInvocation, InvocationInv, handle
  <2>. QED BY <1>0, <1>p, <2>1, <2>2, SettleEffect, Zenon
<1>4. CASE Reconcile(i)
  <2>1. PICK left \in BOOLEAN : Settle(opOf[i], i, sync[i], PauseRequested(i), left)
    BY <1>4, Zenon DEF Reconcile
  <2>2. opOf[i] \in OpIds /\ UNCHANGED opOf /\ sync[i] \in {"confirmed", "unconfirmed"}
    BY <1>0, <1>4 DEF Reconcile, InvocationInv, handle, TypeOK, RuntimeTypeOK
  <2>. QED BY <1>0, <1>p, <2>1, <2>2, SettleEffect, Zenon
<1>5. CASE LateResult(i)
  <2>1. PICK left \in BOOLEAN : Settle(opOf[i], i, "confirmed", PauseRequested(i), left)
    BY <1>5, Zenon DEF LateResult
  <2>2. opOf[i] \in OpIds /\ UNCHANGED opOf
    BY <1>0, <1>5 DEF LateResult, InvocationInv, handle
  <2>. QED BY <1>0, <1>p, <2>1, <2>2, SettleEffect
<1>6. CASE Receipt(i)
  BY <1>0, <1>6, ReceiptEffect DEF Receipt, runtime, handle
<1>7. CASE \/ Start(i) \/ CheckBeforeReserve(i) \/ RefuseStart(i) \/ CheckBeforeLaunch(i)
           \/ RefuseLaunch(i) \/ Launch(i) \/ Abort(i) \/ CancelIntent(i) \/ ProcessExit(i)
           \/ Result(i) \/ UnconfirmedResult(i) \/ StopTimer(i) \/ SettleFails(i)
           \/ ReconcileFails(i) \/ LateUnconfirmedResult(i) \/ LateResultFails(i)
  <2>1. UNCHANGED ops
    BY <1>7 DEF Start, CheckBeforeReserve, RefuseStart, CheckBeforeLaunch, RefuseLaunch,
                Launch, Abort, CancelIntent, ProcessExit, Result, UnconfirmedResult, StopTimer,
                SettleFails, ReconcileFails, LateUnconfirmedResult, LateResultFails,
                PassBarrier, durable
  <2>. QED BY <2>1 DEF Releases
<1>. QED BY <1>1, <1>2, <1>3, <1>4, <1>5, <1>6, <1>7 DEF RuntimeStep

(***************************************************************************)
(* A step that starts or ends a process changes no operation.              *)
(***************************************************************************)
LEMMA ProcessStep ==
    ASSUME NEW i \in Invs, RuntimeStep(i)
    PROVE  UNCHANGED proc \/ (UNCHANGED ops /\ (Launch(i) \/ ProcessExit(i)))
<1>1. CASE Launch(i) \/ ProcessExit(i)
  BY <1>1 DEF Launch, ProcessExit, durable
<1>2. CASE \/ Start(i) \/ Begin(i) \/ CheckBeforeReserve(i) \/ ReserveInvocation(i)
           \/ RefuseStart(i) \/ CheckBeforeLaunch(i) \/ RefuseLaunch(i) \/ Abort(i)
           \/ StopIntent(i) \/ CancelIntent(i) \/ Result(i) \/ UnconfirmedResult(i)
           \/ StopTimer(i) \/ SettleInvocation(i) \/ SettleFails(i) \/ Reconcile(i)
           \/ ReconcileFails(i) \/ LateResult(i) \/ LateUnconfirmedResult(i)
           \/ LateResultFails(i) \/ Receipt(i)
  BY <1>2
     DEF Start, Begin, CheckBeforeReserve, ReserveInvocation, RefuseStart, CheckBeforeLaunch,
         RefuseLaunch, Abort, StopIntent, CancelIntent, Result, UnconfirmedResult, StopTimer,
         SettleInvocation, SettleFails, Reconcile, ReconcileFails, LateResult,
         LateUnconfirmedResult, LateResultFails, Receipt, PassBarrier, runtime
<1>. QED BY <1>1, <1>2 DEF RuntimeStep

(***************************************************************************)
(* Only reserve gives an operation to an invocation, and it does so only   *)
(* if no pause is pending, no stop request waits and the Session is not    *)
(* being deleted.                                                          *)
(***************************************************************************)
LEMMA OnlyReserveActivates ==
    ASSUME TypeOK, ReservationInv, [Next]_vars, NEW o \in OpIds
    PROVE  \/ ops'[o].active \in {ops[o].active, NoInv}
           \/ /\ ~ops[o].pauseReq
              /\ stopRequest.status # "waiting"
              /\ lifecycle.state \in {"none", "active"}
<1>0. OperationInv /\ \A j \in Invs : InvocationInv(j)
  BY DEF ReservationInv
<1>2. ASSUME NEW i \in Invs, ReserveInvocation(i)
      PROVE  \/ ops'[o].active = ops[o].active
             \/ /\ ~ops[o].pauseReq
                /\ stopRequest.status # "waiting"
                /\ lifecycle.state \in {"none", "active"}
  <2>1. opOf[i] \in OpIds /\ UNCHANGED opOf
    BY <1>0, <1>2 DEF ReserveInvocation, InvocationInv, handle
  <2>2. /\ ~ops[opOf[i]].pauseReq
        /\ \A p \in OpIds : ops'[p].active = IF p = opOf[i] THEN i ELSE ops[p].active
    BY <1>0, <1>2, <2>1, ReserveEffect DEF ReserveInvocation
  <2>3. stopRequest.status # "waiting" /\ lifecycle.state \in {"none", "active"}
    BY <1>2 DEF ReserveInvocation, Reserve, CanReserve, Admits
  <2>. QED BY <2>2, <2>3
<1>3. ASSUME NEW p \in OpIds, ResumeOperation(p) PROVE KeepsActive
  BY <1>0, <1>3, ResumeEffect DEF ResumeOperation, runtime, handle
<1>4. CASE ControlStep \/ Restart \/ UNCHANGED vars
  BY <1>4, ControlFrame DEF Restart, vars, durable
<1>. QED BY <1>2, <1>3, <1>4, ActiveStep, NextCases DEF Releases, KeepsActive

(***************************************************************************)
(* A step of one invocation keeps the stop invariant.                      *)
(***************************************************************************)
LEMMA RuntimeStepStop ==
    ASSUME TypeOK, ReservationInv, StopInv, NEW i \in Invs, RuntimeStep(i)
    PROVE  StopStep
<1>0. OperationInv /\ InvocationInv(i) /\ LaunchFrame
  BY RuntimeLaunchFrame DEF ReservationInv
<1>1. pc \in [Invs -> Pc] /\ sync[i] \in {"none", "confirmed", "unconfirmed"}
  BY DEF TypeOK, RuntimeTypeOK
<1>2. PauseRequested(i) \in BOOLEAN /\ Evidence(i) \in {"confirmed", "unconfirmed"}
  BY DEF PauseRequested, Evidence
<1>a. CASE Begin(i)
  <2>1. \A p \in OpIds : ops[p].active # i
    BY <1>0, <1>a DEF Begin, InvocationInv, BeforeReserve
  <2>2. KeepsActive
    BY <1>0, <1>a, <2>1, DraftAssumption, BeginEffect DEF Begin
  <2>3. UNCHANGED stopRequest
    BY <1>a DEF Begin, BeginOp
  <2>. QED BY <1>0, <2>2, <2>3, QuietStop
<1>b. CASE ReserveInvocation(i)
  <2>1. stopRequest.status # "waiting" /\ UNCHANGED stopRequest
    BY <1>b DEF ReserveInvocation, Reserve, CanReserve
  <2>2. StopInv'
    BY <1>0, <2>1 DEF StopInv, OpenStopCoversActive, LaunchFrame
  <2>. QED BY <2>1, <2>2 DEF StopStep, Drains, KeepsEvidence
<1>c. CASE StopIntent(i)
  <2>1. KeepsActive
    BY <1>0, <1>c, IntentStopEffect DEF StopIntent, handle
  <2>2. UNCHANGED stopRequest
    BY <1>c DEF StopIntent, RequestIntentStop
  <2>. QED BY <1>0, <2>1, <2>2, QuietStop
<1>d. CASE SettleInvocation(i)
  <2>1. PICK left \in BOOLEAN : Settle(opOf[i], i, Evidence(i), PauseRequested(i), left)
    BY <1>d, Zenon DEF SettleInvocation
  <2>2. opOf[i] \in OpIds /\ UNCHANGED opOf
    BY <1>0, <1>d DEF SettleInvocation, InvocationInv, handle
  <2>3. Evidence(i) = "confirmed" =>
            proc'[i] # "live" /\ pc'[i] \notin BeforeReserve \cup BeforeLaunch
    BY <1>0, <1>1, <1>d DEF SettleInvocation, Goto, AfterSettle, Evidence, InvocationInv,
                            BeforeReserve, BeforeLaunch
  <2>. QED BY <1>0, <1>2, <2>1, <2>2, <2>3, SettleStop, Zenon
<1>e. CASE Reconcile(i)
  <2>1. PICK left \in BOOLEAN : Settle(opOf[i], i, sync[i], PauseRequested(i), left)
    BY <1>e, Zenon DEF Reconcile
  <2>2. opOf[i] \in OpIds /\ UNCHANGED opOf /\ sync[i] \in {"confirmed", "unconfirmed"}
    BY <1>0, <1>1, <1>e DEF Reconcile, InvocationInv, handle
  <2>3. sync[i] = "confirmed" =>
            proc'[i] # "live" /\ pc'[i] \notin BeforeReserve \cup BeforeLaunch
    BY <1>0, <1>e DEF Reconcile, InvocationInv, BeforeReserve, BeforeLaunch
  <2>. QED BY <1>0, <1>2, <2>1, <2>2, <2>3, SettleStop, Zenon
<1>f. CASE LateResult(i)
  <2>1. PICK left \in BOOLEAN : Settle(opOf[i], i, "confirmed", PauseRequested(i), left)
    BY <1>f, Zenon DEF LateResult
  <2>2. opOf[i] \in OpIds /\ UNCHANGED opOf
    BY <1>0, <1>f DEF LateResult, InvocationInv, handle
  <2>3. proc'[i] # "live" /\ pc'[i] \notin BeforeReserve \cup BeforeLaunch
    BY <1>0, <1>1, <1>f DEF LateResult, Goto, AfterLate, BeforeReserve, BeforeLaunch
  <2>. QED BY <1>0, <1>2, <2>1, <2>2, <2>3, SettleStop
<1>g. CASE Receipt(i)
  BY <1>g, ReceiptStop DEF Receipt, runtime, handle
<1>h. CASE \/ Start(i) \/ CheckBeforeReserve(i) \/ RefuseStart(i) \/ CheckBeforeLaunch(i)
           \/ RefuseLaunch(i) \/ Launch(i) \/ Abort(i) \/ CancelIntent(i) \/ ProcessExit(i)
           \/ Result(i) \/ UnconfirmedResult(i) \/ StopTimer(i) \/ SettleFails(i)
           \/ ReconcileFails(i) \/ LateUnconfirmedResult(i) \/ LateResultFails(i)
  <2>1. UNCHANGED <<stopRequest, ops>>
    BY <1>h DEF Start, CheckBeforeReserve, RefuseStart, CheckBeforeLaunch, RefuseLaunch,
                Launch, Abort, CancelIntent, ProcessExit, Result, UnconfirmedResult, StopTimer,
                SettleFails, ReconcileFails, LateUnconfirmedResult, LateResultFails,
                PassBarrier, durable
  <2>. QED BY <1>0, <2>1, QuietStop DEF KeepsActive
<1>. QED BY <1>a, <1>b, <1>c, <1>d, <1>e, <1>f, <1>g, <1>h DEF RuntimeStep

(***************************************************************************)
(* A stop request takes every reserved invocation as a target.             *)
(***************************************************************************)
LEMMA CommitStopEffect ==
    ASSUME TypeOK, ReservationInv, StopInv, NEW c \in Controls, CommitStop(c)
    PROVE  /\ StopStep
           /\ stopRequest'.status = "waiting" \/ ActiveInvs' = {}
<1>0. /\ stopRequest \in StopRequest /\ NoInv \notin Invs
      /\ UNCHANGED <<pc, proc, ops>>
  BY DraftAssumption DEF TypeOK, DraftTypeOK, CommitStop, RequestStop
<1>1. LaunchFrame /\ KeepsActive /\ ActiveInvs' = ActiveInvs
  BY <1>0 DEF LaunchFrame, KeepsActive, ActiveInvs
<1>2. CASE stopRequest.status = "waiting"
  <2>1. UNCHANGED stopRequest
    BY <1>2 DEF CommitStop, RequestStop
  <2>. QED BY <1>1, <1>2, <2>1, QuietStop
<1>3. CASE stopRequest.status # "waiting"
  <2>. DEFINE T == StopTargets(seen[c])
  <2>1. stopRequest' = NewStopRequest(T)
    BY <1>3 DEF CommitStop, RequestStop
  <2>2. ActiveInvs \subseteq T
    BY <1>0 DEF ActiveInvs, StopTargets, ReservationInv, OperationInv
  <2>. HIDE DEF T
  <2>3. /\ stopRequest'.status = IF T = {} THEN "confirmed" ELSE "waiting"
        /\ \A j \in Invs : stopRequest'.targets[j] = IF j \in T THEN "waiting" ELSE "none"
    BY <2>1 DEF NewStopRequest
  <2>4. ActiveInvs' \subseteq Blockers'
    BY <1>1, <2>2, <2>3 DEF Blockers, ActiveInvs
  <2>5. StopInv'
    BY <2>3, <2>4 DEF StopInv, OpenStopCoversActive
  <2>. QED BY <1>1, <1>3, <2>2, <2>3, <2>5 DEF StopStep, Drains, KeepsEvidence
<1>. QED BY <1>2, <1>3

(***************************************************************************)
(* The stop invariant is inductive.                                        *)
(***************************************************************************)
LEMMA StopNext ==
    ASSUME TypeOK, ReservationInv, StopInv, [Next]_vars
    PROVE  StopStep
<1>1. ASSUME NEW o \in OpIds, ResumeOperation(o) PROVE StopStep
  <2>1. UNCHANGED <<pc, proc, opOf, stopRequest>>
    BY <1>1 DEF ResumeOperation, ResumeOp, runtime, handle
  <2>2. KeepsActive
    BY <1>1, <2>1, ResumeEffect DEF ResumeOperation, ReservationInv
  <2>. QED BY <2>1, <2>2, QuietStop DEF LaunchFrame
<1>2. CASE ControlStep
  <2>1. CASE \E c \in Controls : CommitStop(c)
    BY <2>1, CommitStopEffect
  <2>2. CASE UNCHANGED stopRequest
    <3>1. UNCHANGED <<pc, proc, ops>>
      BY <1>2, ControlFrame
    <3>. QED BY <2>2, <3>1, QuietStop DEF LaunchFrame, KeepsActive
  <2>. QED BY <1>2, <2>1, <2>2, ControlFrame
<1>3. CASE Restart
  <2>1. UNCHANGED <<ops, stopRequest>>
    BY <1>3 DEF Restart
  <2>2. LaunchFrame
    BY <1>3 DEF Restart, LaunchFrame, BeforeReserve, BeforeLaunch
  <2>. QED BY <2>1, <2>2, QuietStop DEF KeepsActive
<1>4. CASE UNCHANGED vars
  <2>1. UNCHANGED <<pc, proc, ops, stopRequest>>
    BY <1>4 DEF vars, durable, runtime
  <2>. QED BY <2>1, QuietStop DEF LaunchFrame, KeepsActive
<1>. QED BY <1>1, <1>2, <1>3, <1>4, NextCases, RuntimeStepStop

-----------------------------------------------------------------------------
(* Deletion. *)

(***************************************************************************)
(* Once a Session is being deleted no invocation is reserved any more.     *)
(***************************************************************************)
LEMMA DeletingAdmitsNothing ==
    ASSUME TypeOK, ReservationInv, [Next]_vars, lifecycle.state \in {"deleting", "deleted"}
    PROVE  ActiveInvs' \subseteq ActiveInvs
<1>1. \A o \in OpIds : ops'[o].active \in {ops[o].active, NoInv}
  BY OnlyReserveActivates
<1>2. NoInv \notin Invs
  BY DraftAssumption
<1>. QED BY <1>1, <1>2 DEF ActiveInvs

(***************************************************************************)
(* A step that leaves the lifecycle state, the place of delete() and the   *)
(* failure mark alone keeps the deletion invariant.                        *)
(***************************************************************************)
LEMMA DeleteFrame ==
    ASSUME DeleteInv, Drains,
           lifecycle'.state = lifecycle.state,
           "delete" \in Controls => flow'["delete"] = flow["delete"],
           requestFailed' = requestFailed,
           lifecycle.state \in {"deleting", "deleted"} => ActiveInvs' \subseteq ActiveInvs
    PROVE  DeleteInv'
<1>1. ActiveInvs = {} /\ lifecycle.state \in {"deleting", "deleted"} => ActiveInvs' = {}
  OBVIOUS
<1>2. ActiveInvs' # {} /\ lifecycle.state \in {"deleting", "deleted"} => ActiveInvs # {}
  OBVIOUS
<1>. QED BY <1>1, <1>2 DEF DeleteInv, Drains

(***************************************************************************)
(* The stores of an invocation never change the lifecycle state.           *)
(***************************************************************************)
LEMMA RuntimeStepState ==
    ASSUME TypeOK, NEW i \in Invs, RuntimeStep(i)
    PROVE  lifecycle'.state = lifecycle.state /\ requestFailed' = requestFailed
<1>0. lifecycle \in Lifecycle
  BY DEF TypeOK, DraftTypeOK
<1>1. \A r : SyncStopStatus(lifecycle, r).state = lifecycle.state
  BY <1>0 DEF SyncStopStatus, Lifecycle
<1>2. \A o, stop, pause, left : Settle(o, i, stop, pause, left) => lifecycle'.state = lifecycle.state
  BY <1>1 DEF Settle, RecordStop, durable
<1>a. CASE Begin(i) \/ ReserveInvocation(i) \/ StopIntent(i)
  BY <1>a DEF Begin, BeginOp, ReserveInvocation, Reserve, StopIntent, RequestIntentStop, faults
<1>b. CASE SettleInvocation(i) \/ Reconcile(i) \/ LateResult(i)
  <2>1. lifecycle'.state = lifecycle.state
    BY <1>2, <1>b, Zenon DEF SettleInvocation, Reconcile, LateResult
  <2>. QED BY <1>b, <2>1 DEF SettleInvocation, Reconcile, LateResult, faults
<1>c. CASE Receipt(i)
  <2>1. lifecycle'.state = lifecycle.state
    BY <1>1, <1>c DEF Receipt, ConfirmTransportReceipt, RecordStop, durable
  <2>. QED BY <1>c, <2>1 DEF Receipt, runtime, faults
<1>d. CASE \/ Start(i) \/ CheckBeforeReserve(i) \/ RefuseStart(i) \/ CheckBeforeLaunch(i)
           \/ RefuseLaunch(i) \/ Launch(i) \/ Abort(i) \/ CancelIntent(i) \/ ProcessExit(i)
           \/ Result(i) \/ UnconfirmedResult(i) \/ StopTimer(i) \/ SettleFails(i)
           \/ ReconcileFails(i) \/ LateUnconfirmedResult(i) \/ LateResultFails(i)
  BY <1>d DEF Start, CheckBeforeReserve, RefuseStart, CheckBeforeLaunch, RefuseLaunch,
              Launch, Abort, CancelIntent, ProcessExit, Result, UnconfirmedResult, StopTimer,
              SettleFails, ReconcileFails, LateUnconfirmedResult, LateResultFails,
              PassBarrier, durable, faults
<1>. QED BY <1>a, <1>b, <1>c, <1>d DEF RuntimeStep

(***************************************************************************)
(* A step of a control keeps the deletion invariant: delete() goes on to   *)
(* completeDelete only with a stop request that was confirmed, and what it *)
(* waited for was everything reserved.                                     *)
(***************************************************************************)
LEMMA ControlStepDelete ==
    ASSUME TypeOK, ReservationInv, StopInv, DeleteInv, ControlStep
    PROVE  DeleteInv'
<1>0. flow \in [Controls -> FlowPc] /\ lifecycle \in Lifecycle
  BY DEF TypeOK, ControlsTypeOK, DraftTypeOK
<1>1. UNCHANGED ops /\ ActiveInvs' = ActiveInvs
  BY ControlFrame DEF ActiveInvs
<1>2. \A r : SyncStopStatus(lifecycle, r).state = lifecycle.state
  BY <1>0 DEF SyncStopStatus, Lifecycle
<1>3. UNCHANGED stopRequest => Drains
  BY DEF Drains
<1>4. \A c \in Controls \ {"delete"} : \A label :
          Step(c, label) /\ "delete" \in Controls => flow'["delete"] = flow["delete"]
  BY <1>0 DEF Step
<1>5. \A label : Step("delete", label) /\ "delete" \in Controls => flow'["delete"] = label
  BY <1>0 DEF Step
<1>a. CASE Pause \/ Archive \/ FinishArchive
  <2>1. UNCHANGED <<stopRequest, requestFailed>>
    BY <1>a, LifecycleStoreFrame DEF Pause, Archive, FinishArchive, runtime, faults
  <2>2. "delete" \in Controls => flow'["delete"] = flow["delete"]
    BY <1>4, <1>a DEF Pause, Archive, FinishArchive
  <2>3. \/ lifecycle'.state = lifecycle.state
        \/ lifecycle.state \notin {"deleting", "deleted"} /\ lifecycle'.state = "active"
    BY <1>0, <1>a DEF Pause, Archive, FinishArchive, CloseForStop, MarkArchived, Unchanged,
                      durable, Lifecycle
  <2>. QED BY <1>1, <1>3, <2>1, <2>2, <2>3, DeleteFrame DEF DeleteInv
<1>b. CASE Delete
  <2>1. lifecycle'.state = "deleting" /\ flow'["delete"] = "closed"
    BY <1>5, <1>b DEF Delete, BeginDelete, Unchanged, durable
  <2>. QED BY <2>1 DEF DeleteInv
<1>c. CASE Disconnect
  <2>1. UNCHANGED <<lifecycle, stopRequest, requestFailed>>
    BY <1>c DEF Disconnect, runtime, faults
  <2>2. "delete" \in Controls => flow'["delete"] = flow["delete"]
    BY <1>4, <1>c DEF Disconnect
  <2>. QED BY <1>1, <1>3, <2>1, <2>2, DeleteFrame
<1>d. ASSUME NEW c \in Controls, EnterStop(c) \/ AbandonStopped(c) PROVE DeleteInv'
  <2>1. UNCHANGED <<lifecycle, stopRequest, requestFailed>>
    BY <1>d DEF EnterStop, AbandonStopped, durable, runtime, faults
  <2>2. CASE c # "delete"
    BY <1>1, <1>3, <1>4, <1>d, <2>1, <2>2, DeleteFrame DEF EnterStop, AbandonStopped
  <2>3. CASE c = "delete"
    <3>1. \/ flow["delete"] \in {"closed", "again"} /\ flow'["delete"] = "requesting"
          \/ flow'["delete"] = "idle"
      BY <1>5, <1>d, <2>3 DEF EnterStop, AbandonStopped
    <3>. QED BY <1>1, <1>d, <2>1, <2>3, <3>1 DEF DeleteInv
  <2>. QED BY <2>2, <2>3
<1>e. ASSUME NEW c \in Controls, CommitStop(c) \/ CommitStopFails(c) PROVE DeleteInv'
  <2>1. lifecycle'.state = lifecycle.state
    BY <1>2, <1>e DEF CommitStop, RequestStop, CommitStopFails, durable
  <2>2. requestFailed' \/ stopRequest'.status = "waiting" \/ ActiveInvs' = {}
    BY <1>e, CommitStopEffect DEF CommitStopFails
  <2>3. \/ c # "delete" /\ ("delete" \in Controls => flow'["delete"] = flow["delete"])
        \/ c = "delete" /\ flow["delete"] = "requesting" /\ flow'["delete"] = "waiting"
    BY <1>4, <1>5, <1>e DEF CommitStop, CommitStopFails
  <2>. QED BY <1>1, <2>1, <2>2, <2>3 DEF DeleteInv
<1>f. ASSUME NEW c \in Controls, EndWait(c) PROVE DeleteInv'
  <2>1. UNCHANGED <<lifecycle, stopRequest, requestFailed>>
    BY <1>f DEF EndWait, durable, faults
  <2>2. CASE c # "delete"
    BY <1>1, <1>3, <1>4, <1>f, <2>1, <2>2, DeleteFrame DEF EndWait
  <2>3. CASE c = "delete"
    <3>1. /\ flow["delete"] = "waiting"
          /\ flow'["delete"] = "idle" \/ (flow'["delete"] = "stopped" /\ CanResume)
      BY <1>5, <1>f, <2>3 DEF EndWait, StopTimedOut
    <3>2. CanResume => ~requestFailed /\ stopRequest.status # "waiting"
      BY DEF CanResume, SummaryCanResume
    <3>. QED BY <1>1, <1>f, <2>1, <2>3, <3>1, <3>2 DEF DeleteInv
  <2>. QED BY <2>2, <2>3
<1>g. CASE FinishDelete
  <2>1. flow["delete"] = "stopped" /\ flow'["delete"] \in {"deleted", "idle"}
    BY <1>5, <1>g DEF FinishDelete
  <2>. QED BY <1>1, <1>g, <2>1 DEF FinishDelete, DeleteInv
<1>h. CASE ClearArchived
  <2>1. flow'["delete"] = "idle" /\ UNCHANGED lifecycle
    BY <1>5, <1>h DEF ClearArchived
  <2>. QED BY <1>1, <2>1 DEF DeleteInv
<1>i. CASE CheckResume \/ ReopenAdmission \/ ReopenRefused \/ FinishResume \/ RestoreAgain
           \/ CheckUnarchive \/ FinishUnarchive \/ UnarchiveRefused
  <2>1. UNCHANGED <<stopRequest, requestFailed, flow>>
    BY <1>i, LifecycleStoreFrame
       DEF CheckResume, ReopenAdmission, ReopenRefused, FinishResume, RestoreAgain,
           CheckUnarchive, FinishUnarchive, UnarchiveRefused, durable, runtime, faults, controls
  <2>2. lifecycle'.state = lifecycle.state
    BY <1>0, <1>i
       DEF CheckResume, ReopenAdmission, ReopenRefused, FinishResume, RestoreAgain,
           CheckUnarchive, FinishUnarchive, UnarchiveRefused, Reopen, RestoreArchived,
           Unchanged, durable, Lifecycle
  <2>. QED BY <1>1, <1>3, <2>1, <2>2, DeleteFrame
<1>j. CASE RestoreDeleted
  <2>1. lifecycle.state = "deleted" /\ lifecycle'.state = "active" /\ UNCHANGED flow
    BY <1>j DEF RestoreDeleted, Restore, controls
  <2>. QED BY <1>1, <2>1 DEF DeleteInv
<1>. QED
  BY <1>a, <1>b, <1>c, <1>d, <1>e, <1>f, <1>g, <1>h, <1>i, <1>j DEF ControlStep

(***************************************************************************)
(* The deletion invariant is inductive.                                    *)
(***************************************************************************)
LEMMA DeleteNext ==
    ASSUME TypeOK, ReservationInv, StopInv, DeleteInv, [Next]_vars
    PROVE  DeleteInv'
<1>0. Drains /\ (lifecycle.state \in {"deleting", "deleted"} => ActiveInvs' \subseteq ActiveInvs)
  BY StopNext, DeletingAdmitsNothing DEF StopStep
<1>1. ASSUME NEW i \in Invs, RuntimeStep(i), UNCHANGED controls PROVE DeleteInv'
  BY <1>0, <1>1, RuntimeStepState, DeleteFrame DEF controls
<1>2. ASSUME NEW o \in OpIds, ResumeOperation(o), UNCHANGED controls PROVE DeleteInv'
  BY <1>0, <1>2, DeleteFrame DEF ResumeOperation, ResumeOp, runtime, faults, controls
<1>3. CASE Restart
  <2>1. UNCHANGED <<lifecycle, ops>> /\ ("delete" \in Controls => flow'["delete"] = "idle")
    BY <1>3 DEF Restart
  <2>. QED BY <2>1 DEF DeleteInv, ActiveInvs
<1>4. CASE UNCHANGED vars
  BY <1>0, <1>4, DeleteFrame DEF vars, durable, runtime, faults, controls
<1>. QED BY <1>1, <1>2, <1>3, <1>4, NextCases, ControlStepDelete

-----------------------------------------------------------------------------
(* The theorems. *)

IInv == TypeOK /\ ReservationInv /\ StopInv /\ DeleteInv

\* It holds initially.
LEMMA InvInit == Init => IInv
<1>1. Init => StopInv
  BY DEF Init, DraftInit, NoStopRequest, StopInv, OpenStopCoversActive
<1>2. Init => DeleteInv
  BY DEF Init, DraftInit, NoLifecycle, NewLifecycle, DeleteInv
<1>. QED BY <1>1, <1>2, InitType, InitReservation DEF IInv

(***************************************************************************)
(* The conjunction is inductive.                                           *)
(***************************************************************************)
LEMMA InvStep ==
    ASSUME IInv, [Next]_vars
    PROVE  IInv'
BY TypeStep, ReservationStep, StopNext, DeleteNext DEF IInv, StopStep

(***************************************************************************)
(* The inductive invariant of the Session controls holds of every state    *)
(* the stores, the supervisor and the handlers can reach.                  *)
(***************************************************************************)
THEOREM Invariance == Spec => []IInv
BY InvInit, InvStep, PTL DEF Spec

(***************************************************************************)
(* While a stop request waits, every reservation belongs to one of its     *)
(* targets that has not been confirmed.                                    *)
(***************************************************************************)
THEOREM StopCovers == Spec => []OpenStopCoversActive
<1>1. IInv => OpenStopCoversActive
  BY DEF IInv, StopInv
<1>. QED BY <1>1, Invariance, PTL

(***************************************************************************)
(* The stop of a target is confirmed only if its process is not running,   *)
(* and it never starts to run afterwards.                                  *)
(***************************************************************************)
THEOREM StopConfirmation == Spec => []ConfirmedTargetsEnded
<1>1. IInv => ConfirmedTargetsEnded
  BY DEF IInv, StopInv, ConfirmedTargetsEnded
<1>. QED BY <1>1, Invariance, PTL

(***************************************************************************)
(* No agent process of a deleted Session is running, whatever interleaved  *)
(* with delete(), whichever transactions failed and however often the      *)
(* server restarted.                                                       *)
(***************************************************************************)
THEOREM DeletionIsComplete == Spec => []DeletedIsStopped
<1>1. IInv => DeletedIsStopped
  BY DEF IInv, DeleteInv, ReservationInv, InvocationInv, ActiveInvs, DeletedIsStopped
<1>. QED BY <1>1, Invariance, PTL

(***************************************************************************)
(* The targets of a waiting stop request are frozen and the evidence in it *)
(* is final.                                                               *)
(***************************************************************************)
THEOREM EvidenceIsFinal == Spec => StopEvidenceKept
<1>1. IInv /\ [Next]_vars => KeepsEvidence
  BY StopNext DEF IInv, StopStep
<1>. QED BY <1>1, Invariance, PTL DEF Spec, StopEvidenceKept, KeepsEvidence

(***************************************************************************)
(* An operation whose pause was requested gets no new invocation before    *)
(* resume has cleared the request.                                         *)
(***************************************************************************)
THEOREM PauseIsKept == Spec => PausedNeedsResume
<1>1. IInv /\ [Next]_vars =>
          \A o \in OpIds : ops[o].pauseReq /\ ops'[o].active # ops[o].active
                               => ops'[o].active = NoInv
  BY OnlyReserveActivates DEF IInv
<1>. QED BY <1>1, Invariance, PTL DEF Spec, PausedNeedsResume

-----------------------------------------------------------------------------
(***************************************************************************)
(* SessionsAdmission.  Archiving and pausing one Session concurrently can  *)
(* archive it while a process runs: archive() goes on with the stop it     *)
(* confirmed although the Session was resumed, and paused again, since.    *)
(* The theorems that depend on it are about the two controls apart.        *)
(***************************************************************************)

-----------------------------------------------------------------------------
(* The inductive invariant. *)

Ordinary == {i \in Invs : BaseOf[i] \notin Restricted}

\* An ordinary invocation that has a process, or is past every check of the admission.
Unsafe == {i \in Ordinary : proc[i] = "live" \/ pc[i] \in BeforeLaunch}

\* Invocations of an operation from before the Session had a lifecycle record.
Legacy == {i \in Invs : pc[i] \in {"begun", "admitted"} /\ opOf[i][2] = 0}

Closed == lifecycle.state = "active" /\ lifecycle.admission = "closed"

(***************************************************************************)
(* A process the supervisor has no handle of is visible in its operation,  *)
(* or in the settle that is still to be repeated.                          *)
(***************************************************************************)
HandleInv ==
    /\ \A o \in OpIds : ops[o].active # NoInv =>
           ops[o].status = "running" \/ ops[o].stop = "unconfirmed"
    /\ \A i \in Internal : proc[i] = "live" =>
           i \in Supervised \/ sync[i] # "none" \/ ops[opOf[i]].stop = "unconfirmed"
    /\ \A i \in Invs : opOf[i] # NoOp => opOf[i][1] = BaseOf[i]

(***************************************************************************)
(* An operation is not of a later generation, what may still become or is  *)
(* a process of an active Session is of its generation, and what began     *)
(* before the first lifecycle record is gone when there is a second one.   *)
(***************************************************************************)
FenceInv ==
    /\ lifecycle.state = "none" <=> lifecycle.generation = 0
    /\ \A i \in Invs : opOf[i] # NoOp => opOf[i][2] <= lifecycle.generation
    /\ lifecycle.state = "active" /\ "archive" \notin Controls =>
           /\ \A i \in Unsafe : \/ opOf[i][2] = lifecycle.generation
                                \/ opOf[i][2] = 0 /\ lifecycle.generation = 1
           /\ lifecycle.generation > 1 => Legacy = {}
    /\ lifecycle.state = "deleted" => Legacy = {}
    /\ "delete" \in Controls =>
           /\ flow["delete"] \in {"requesting", "waiting"} => Legacy \subseteq seen["delete"]
           /\ flow["delete"] = "stopped" => Legacy = {}

(***************************************************************************)
(* While resume waits to reopen, the status keeps ordinary work out.       *)
(***************************************************************************)
ResumeInv == resuming = "checked" => session.status # "EXECUTING" /\ Unsafe = {}

(***************************************************************************)
(* What archive() stops is everything ordinary, and nothing has started    *)
(* in a Session that is still closed when it is marked archived.           *)
(***************************************************************************)
ArchiveInv ==
    /\ "archive" \notin Controls => ~session.archived
    /\ "archive" \in Controls /\ Closed =>
           /\ flow["archive"] \in {"requesting", "waiting"} =>
                  Unsafe \cap Supervised \subseteq seen["archive"]
           /\ flow["archive"] = "stopped" \/ session.archived => Unsafe = {}

-----------------------------------------------------------------------------
(* What a step does to operations, invocations and pending settles. *)

\* A reservation is running, or its stop is unconfirmed and stays so.
OpsStep ==
    \A o \in OpIds : ops'[o].active # NoInv =>
        /\ ops'[o].status = "running" \/ ops'[o].stop = "unconfirmed"
        /\ ops[o].stop = "unconfirmed" /\ ops[o].active = ops'[o].active =>
               ops'[o].stop = "unconfirmed"

(***************************************************************************)
(* settle leaves an operation released, or marked unconfirmed.             *)
(***************************************************************************)
LEMMA SettleOps ==
    ASSUME TypeOK, HandleInv, NEW o \in OpIds, NEW stop \in {"confirmed", "unconfirmed"},
           NEW pause \in BOOLEAN, NEW left \in BOOLEAN,
           ops' = [ops EXCEPT ![o] = SettledOp(@, stop, pause, left)]
    PROVE  OpsStep /\ (stop = "unconfirmed" => ops'[o].stop = "unconfirmed")
<1>. DEFINE s == SettledOp(ops[o], stop, pause, left)
<1>0. ops \in [OpIds -> Operation]
  BY DEF TypeOK, DraftTypeOK
<1>1. s.stop = stop /\ (stop = "confirmed" => s.active = NoInv)
  BY <1>0, SettledOpEffect
<1>2. ops' = [ops EXCEPT ![o] = s]
  OBVIOUS
<1>. HIDE DEF s
<1>3. \A p \in OpIds : ops'[p] = IF p = o THEN s ELSE ops[p]
  BY <1>0, <1>2
<1>. QED BY <1>1, <1>3 DEF OpsStep, HandleInv

(***************************************************************************)
(* The same of settle as the store runs it, for whichever invocation.      *)
(***************************************************************************)
LEMMA SettleCallOps ==
    ASSUME TypeOK, HandleInv, NEW i \in Invs, opOf[i] \in OpIds,
           NEW stop \in {"confirmed", "unconfirmed"},
           NEW pause \in BOOLEAN, NEW left \in BOOLEAN,
           Settle(opOf[i], i, stop, pause, left)
    PROVE  /\ OpsStep
           /\ stop = "unconfirmed" /\ ops[opOf[i]].active = i =>
                  ops'[opOf[i]].stop = "unconfirmed"
<1>1. CASE ops[opOf[i]].active # i
  BY <1>1 DEF Settle, durable, OpsStep, HandleInv
<1>2. CASE ops[opOf[i]].active = i
  BY <1>2, SettleOps DEF Settle
<1>. QED BY <1>1, <1>2

(***************************************************************************)
(* begin reserves nothing.                                                 *)
(***************************************************************************)
LEMMA BeginOps ==
    ASSUME TypeOK, OperationInv, HandleInv, NEW b \in Bases, BeginOp(b)
    PROVE  OpsStep
<1>0. ops \in [OpIds -> Operation]
  BY DEF TypeOK, DraftTypeOK
<1>1. OpFor(b) \in OpIds
  BY BeginOpType DEF TypeOK
<1>2. \A o \in OpIds : ops'[o] = ops[o] \/ ops'[o].active = NoInv
  BY <1>0, <1>1 DEF BeginOp, AbsentOp
<1>. QED BY <1>2 DEF OpsStep, HandleInv

(***************************************************************************)
(* resume of an operation reserves nothing.                                *)
(***************************************************************************)
LEMMA ResumeOps ==
    ASSUME TypeOK, HandleInv, NEW o \in OpIds, ResumeOp(o)
    PROVE  OpsStep
<1>0. ops \in [OpIds -> Operation]
  BY DEF TypeOK, DraftTypeOK
<1>1. \A p \in OpIds : ops'[p] = ops[p] \/ ops'[p].active = NoInv
  BY <1>0 DEF ResumeOp, Operation
<1>. QED BY <1>1 DEF OpsStep, HandleInv

(***************************************************************************)
(* An intent stop keeps the reservation, and a stop that is unconfirmed.   *)
(***************************************************************************)
LEMMA IntentStopOps ==
    ASSUME TypeOK, HandleInv, NEW i \in Invs, RequestIntentStop({i})
    PROVE  OpsStep
<1>0. ops \in [OpIds -> Operation]
  BY DEF TypeOK, DraftTypeOK
<1>1. ASSUME NEW o \in OpIds, ops[o].active = i
      PROVE  /\ ops'[o].status = ops[o].status
             /\ ops[o].stop = "unconfirmed" => ops'[o].stop = "unconfirmed"
             /\ ops'[o].active = i
  <2>1. ops[o] \in Operation
    BY <1>0
  <2>2. ops'[o] = [ops[o] EXCEPT !.pauseReq = TRUE,
                                 !.stop = IF ops[o].stop = "unconfirmed" THEN ops[o].stop
                                                                         ELSE "requested"]
    BY <1>1 DEF RequestIntentStop
  <2>. QED BY <1>1, <2>1, <2>2 DEF Operation
<1>2. \A o \in OpIds : ops[o].active # i => ops'[o] = ops[o]
  BY DEF RequestIntentStop
<1>3. NoInv # i
  BY DraftAssumption
<1>. QED BY <1>1, <1>2, <1>3 DEF OpsStep, HandleInv

(***************************************************************************)
(* reserve writes a running operation.                                     *)
(***************************************************************************)
LEMMA ReserveOps ==
    ASSUME TypeOK, HandleInv, NEW o \in OpIds, NEW i \in Invs, Reserve(o, i, epoch)
    PROVE  OpsStep
<1>0. ops \in [OpIds -> Operation]
  BY DEF TypeOK, DraftTypeOK
<1>1. \A p \in OpIds \ {o} : ops'[p] = ops[p]
  BY <1>0 DEF Reserve
<1>2. ops'[o].status = "running" /\ ops'[o].active = i /\ ops[o].active = NoInv
  BY <1>0 DEF Reserve, CanReserve, Operation
<1>3. NoInv # i
  BY DraftAssumption
<1>. QED BY <1>1, <1>2, <1>3 DEF OpsStep, HandleInv

(***************************************************************************)
(* A transport receipt releases the operation it settles.                  *)
(***************************************************************************)
LEMMA ReceiptOps ==
    ASSUME TypeOK, HandleInv, NEW i \in Invs, NEW left \in BOOLEAN,
           ConfirmTransportReceipt(i, left)
    PROVE  OpsStep
<1>1. CASE ActiveCandidates(i) # {}
  <2>1. PICK o \in ActiveCandidates(i) :
            ops' = [ops EXCEPT ![o] = SettledOp(@, "confirmed", FALSE, left)]
    BY <1>1 DEF ConfirmTransportReceipt
  <2>2. o \in OpIds
    BY DEF ActiveCandidates, ReceiptCandidates
  <2>. QED BY <2>1, <2>2, SettleOps
<1>2. CASE ActiveCandidates(i) = {}
  <2>1. UNCHANGED ops
    BY <1>2 DEF ConfirmTransportReceipt, durable
  <2>. QED BY <2>1 DEF OpsStep, HandleInv
<1>. QED BY <1>1, <1>2

(***************************************************************************)
(* A step of one invocation keeps what the invariant says of operations.   *)
(***************************************************************************)
LEMMA RuntimeOps ==
    ASSUME TypeOK, ReservationInv, HandleInv, NEW i \in Invs, RuntimeStep(i)
    PROVE  OpsStep
<1>0. OperationInv /\ \A j \in Invs : InvocationInv(j)
  BY DEF ReservationInv
<1>1. PauseRequested(i) \in BOOLEAN /\ Evidence(i) \in {"confirmed", "unconfirmed"}
  BY DEF PauseRequested, Evidence
<1>2. UNCHANGED ops => OpsStep
  BY DEF OpsStep, HandleInv
<1>a. CASE Begin(i)
  BY <1>0, <1>a, BeginOps, DraftAssumption DEF Begin
<1>b. CASE ReserveInvocation(i)
  <2>1. opOf[i] \in OpIds
    BY <1>0, <1>b DEF ReserveInvocation, InvocationInv
  <2>. QED BY <1>b, <2>1, ReserveOps DEF ReserveInvocation
<1>c. CASE StopIntent(i)
  BY <1>c, IntentStopOps DEF StopIntent
<1>d. CASE SettleInvocation(i)
  <2>1. PICK left \in BOOLEAN : Settle(opOf[i], i, Evidence(i), PauseRequested(i), left)
    BY <1>d, Zenon DEF SettleInvocation
  <2>2. opOf[i] \in OpIds
    BY <1>0, <1>d DEF SettleInvocation, InvocationInv
  <2>. QED BY <1>1, <2>1, <2>2, SettleCallOps, Zenon
<1>e. CASE Reconcile(i)
  <2>1. PICK left \in BOOLEAN : Settle(opOf[i], i, sync[i], PauseRequested(i), left)
    BY <1>e, Zenon DEF Reconcile
  <2>2. opOf[i] \in OpIds /\ sync[i] \in {"confirmed", "unconfirmed"}
    BY <1>0, <1>e DEF Reconcile, InvocationInv, TypeOK, RuntimeTypeOK
  <2>. QED BY <1>1, <2>1, <2>2, SettleCallOps, Zenon
<1>f. CASE LateResult(i)
  <2>1. PICK left \in BOOLEAN : Settle(opOf[i], i, "confirmed", PauseRequested(i), left)
    BY <1>f, Zenon DEF LateResult
  <2>2. opOf[i] \in OpIds
    BY <1>0, <1>f DEF LateResult, InvocationInv
  <2>. QED BY <1>1, <2>1, <2>2, SettleCallOps
<1>g. CASE Receipt(i)
  BY <1>g, ReceiptOps DEF Receipt
<1>h. CASE \/ Start(i) \/ CheckBeforeReserve(i) \/ RefuseStart(i) \/ CheckBeforeLaunch(i)
           \/ RefuseLaunch(i) \/ Launch(i) \/ Abort(i) \/ CancelIntent(i) \/ ProcessExit(i)
           \/ Result(i) \/ UnconfirmedResult(i) \/ StopTimer(i) \/ SettleFails(i)
           \/ ReconcileFails(i) \/ LateUnconfirmedResult(i) \/ LateResultFails(i)
  BY <1>2, <1>h DEF Start, CheckBeforeReserve, RefuseStart, CheckBeforeLaunch, RefuseLaunch,
             Launch, Abort, CancelIntent, ProcessExit, Result, UnconfirmedResult, StopTimer,
             SettleFails, ReconcileFails, LateUnconfirmedResult, LateResultFails,
             PassBarrier, durable
<1>. QED
  BY <1>a, <1>b, <1>c, <1>d, <1>e, <1>f, <1>g, <1>h DEF RuntimeStep

(***************************************************************************)
(* A step of one invocation moves no other, gives an operation only to one *)
(* that begins, and drops a pending settle only when it repeats it or when *)
(* other evidence has settled the invocation.                              *)
(***************************************************************************)
LEMMA RuntimeStepFrame ==
    ASSUME TypeOK, NEW i \in Invs, RuntimeStep(i)
    PROVE  /\ \A j \in Invs \ {i} : pc'[j] = pc[j] /\ proc'[j] = proc[j]
           /\ \A j \in Invs : opOf'[j] = opOf[j] \/ (j = i /\ Begin(i))
           /\ \A j \in Invs \ {i} : sync'[j] = sync[j] \/ (PruneSync /\ Resolved(j))
<1>0. /\ pc \in [Invs -> Pc] /\ proc \in [Invs -> {"none", "live", "exited"}]
      /\ sync \in [Invs -> {"none", "confirmed", "unconfirmed"}]
      /\ opOf \in [Invs -> OpIds \cup {NoOp}]
  BY DEF TypeOK, RuntimeTypeOK
<1>1. CASE Begin(i)
  BY <1>0, <1>1 DEF Begin, Goto, pending
<1>2. CASE CheckBeforeReserve(i) \/ CheckBeforeLaunch(i)
  <2>1. PruneSync /\ UNCHANGED <<proc, opOf>>
    BY <1>2 DEF CheckBeforeReserve, CheckBeforeLaunch, PassBarrier, handle
  <2>2. \A j \in Invs \ {i} : pc'[j] = pc[j]
    BY <1>0, <1>2 DEF CheckBeforeReserve, CheckBeforeLaunch, PassBarrier, Goto
  <2>3. \A j \in Invs : sync'[j] = sync[j] \/ Resolved(j)
    BY <2>1 DEF PruneSync
  <2>. QED BY <2>1, <2>2, <2>3
<1>3. CASE Start(i) \/ RefuseStart(i) \/ RefuseLaunch(i) \/ Launch(i) \/ ProcessExit(i)
           \/ Result(i) \/ UnconfirmedResult(i) \/ StopTimer(i) \/ ReserveInvocation(i)
  BY <1>0, <1>3 DEF Start, RefuseStart, RefuseLaunch, Launch, ProcessExit, Result,
              UnconfirmedResult, StopTimer, ReserveInvocation, Goto, handle, pending
<1>4. CASE Abort(i) \/ StopIntent(i) \/ CancelIntent(i) \/ ReconcileFails(i) \/ Receipt(i)
  BY <1>4 DEF Abort, StopIntent, CancelIntent, ReconcileFails, Receipt, runtime, handle, pending
<1>5. CASE SettleInvocation(i) \/ SettleFails(i) \/ Reconcile(i) \/ LateResult(i)
           \/ LateUnconfirmedResult(i) \/ LateResultFails(i)
  BY <1>0, <1>5 DEF SettleInvocation, SettleFails, Reconcile, LateResult,
              LateUnconfirmedResult, LateResultFails, Goto, handle, pending
<1>. QED BY <1>1, <1>2, <1>3, <1>4, <1>5 DEF RuntimeStep

\* The mark of a process without a handle, see HandleInv.
Visibly(i) == i \in Supervised \/ sync[i] # "none" \/ ops[opOf[i]].stop = "unconfirmed"

(***************************************************************************)
(* The supervisor lets go of a live process only with an unconfirmed       *)
(* settle, or with one that is still pending.                              *)
(***************************************************************************)
LEMMA StepStaysVisible ==
    ASSUME TypeOK, ReservationInv, ReservationInv', HandleInv, OpsStep,
           NEW i \in Invs, RuntimeStep(i), i \in Internal, proc'[i] = "live"
    PROVE  Visibly(i)'
<1>0. /\ pc \in [Invs -> Pc] /\ proc \in [Invs -> {"none", "live", "exited"}]
      /\ sync \in [Invs -> {"none", "confirmed", "unconfirmed"}]
      /\ opOf \in [Invs -> OpIds \cup {NoOp}]
  BY DEF TypeOK, RuntimeTypeOK
<1>1. InvocationInv(i) /\ InvocationInv(i)'
  BY DEF ReservationInv
<1>2. opOf'[i] \in OpIds /\ ops'[opOf'[i]].active = i
  BY <1>1 DEF InvocationInv
<1>3. PauseRequested(i) \in BOOLEAN /\ Evidence(i) \in {"confirmed", "unconfirmed"}
  BY DEF PauseRequested, Evidence
<1>4. ASSUME pc'[i] = pc[i], sync'[i] = sync[i], opOf'[i] = opOf[i], proc[i] = "live"
      PROVE  Visibly(i)'
  <2>1. ops[opOf[i]].active = i /\ opOf[i] \in OpIds /\ Visibly(i)
    BY <1>1, <1>4 DEF InvocationInv, HandleInv, Visibly
  <2>2. i # NoInv
    BY DraftAssumption
  <2>. QED BY <1>2, <1>4, <2>1, <2>2 DEF Visibly, Supervised, OpsStep
<1>5. pc'[i] \in SupervisedPc => Visibly(i)'
  BY DEF Visibly, Supervised
<1>a. CASE Start(i) \/ Begin(i) \/ CheckBeforeReserve(i) \/ ReserveInvocation(i)
           \/ RefuseStart(i) \/ CheckBeforeLaunch(i) \/ RefuseLaunch(i)
  BY <1>0, <1>1, <1>a
     DEF Start, Begin, CheckBeforeReserve, ReserveInvocation, RefuseStart, CheckBeforeLaunch,
         RefuseLaunch, PassBarrier, InvocationInv, BeforeReserve, BeforeLaunch
<1>b. CASE Launch(i) \/ UnconfirmedResult(i) \/ StopTimer(i) \/ Result(i) \/ ProcessExit(i)
  BY <1>0, <1>5, <1>b DEF Launch, UnconfirmedResult, StopTimer, Result, ProcessExit, Goto,
                          SupervisedPc
<1>c. CASE Abort(i) \/ StopIntent(i) \/ CancelIntent(i) \/ ReconcileFails(i) \/ Receipt(i)
  BY <1>0, <1>4, <1>c DEF Abort, StopIntent, CancelIntent, ReconcileFails, Receipt, runtime,
                          handle, pending
<1>d. CASE SettleInvocation(i)
  <2>1. PICK left \in BOOLEAN : Settle(opOf[i], i, Evidence(i), PauseRequested(i), left)
    BY <1>d, Zenon DEF SettleInvocation
  <2>2. proc[i] = "live" /\ UNCHANGED opOf
    BY <1>d DEF SettleInvocation, handle
  <2>3. Evidence(i) = "unconfirmed" /\ opOf[i] \in OpIds /\ ops[opOf[i]].active = i
    BY <1>1, <2>2 DEF InvocationInv, Evidence
  <2>4. ops'[opOf[i]].stop = "unconfirmed"
    BY <1>3, <2>1, <2>3, SettleCallOps, Zenon
  <2>. QED BY <2>2, <2>4 DEF Visibly
<1>e. CASE SettleFails(i)
  BY <1>0, <1>e DEF SettleFails, Evidence, Visibly
<1>f. CASE Reconcile(i)
  <2>1. PICK left \in BOOLEAN : Settle(opOf[i], i, sync[i], PauseRequested(i), left)
    BY <1>f, Zenon DEF Reconcile
  <2>2. proc[i] = "live" /\ UNCHANGED opOf
    BY <1>f DEF Reconcile, handle
  <2>3. sync[i] = "unconfirmed" /\ opOf[i] \in OpIds /\ ops[opOf[i]].active = i
    BY <1>0, <1>1, <1>f, <2>2 DEF InvocationInv, Reconcile
  <2>4. ops'[opOf[i]].stop = "unconfirmed"
    <3>1. Settle(opOf[i], i, "unconfirmed", PauseRequested(i), left)
      BY <2>1, <2>3
    <3>. QED BY <1>3, <2>3, <3>1, SettleCallOps
  <2>. QED BY <2>2, <2>4 DEF Visibly
<1>g. CASE LateResult(i) \/ LateResultFails(i)
  BY <1>g DEF LateResult, LateResultFails, handle
<1>h. CASE LateUnconfirmedResult(i)
  <2>1. UNCHANGED <<ops, opOf, sync, proc>> /\ pc[i] \in {"timedOut", "tombstone"}
    BY <1>h DEF LateUnconfirmedResult, durable, handle, pending
  <2>2. CASE pc[i] = "timedOut"
    BY <1>0, <1>5, <1>h, <2>2 DEF LateUnconfirmedResult, AfterLate, Goto, SupervisedPc
  <2>3. CASE pc[i] = "tombstone"
    BY <2>1, <2>3 DEF HandleInv, Visibly, Supervised, SupervisedPc
  <2>. QED BY <2>1, <2>2, <2>3
<1>. QED
  BY <1>a, <1>b, <1>c, <1>d, <1>e, <1>f, <1>g, <1>h DEF RuntimeStep

(***************************************************************************)
(* The handle invariant is inductive.                                      *)
(***************************************************************************)
LEMMA HandleNext ==
    ASSUME TypeOK, ReservationInv, ReservationInv', HandleInv, [Next]_vars
    PROVE  HandleInv' /\ OpsStep
<1>0. /\ opOf \in [Invs -> OpIds \cup {NoOp}]
      /\ Internal \subseteq Invs /\ NoInv \notin Invs
  BY DraftAssumption DEF TypeOK, RuntimeTypeOK
<1>1. OpsStep
  <2>1. CASE UNCHANGED ops
    BY <2>1 DEF OpsStep, HandleInv
  <2>2. ASSUME NEW o \in OpIds, ResumeOperation(o) PROVE OpsStep
    BY <2>2, ResumeOps DEF ResumeOperation
  <2>3. ControlStep \/ Restart \/ UNCHANGED vars => UNCHANGED ops
    BY ControlFrame DEF Restart, vars, durable
  <2>. QED BY <2>1, <2>2, <2>3, RuntimeOps, NextCases
<1>2. ASSUME NEW j \in Internal, proc'[j] = "live" PROVE Visibly(j)'
  <2>1. opOf'[j] \in OpIds /\ ops'[opOf'[j]].active = j /\ j # NoInv
    BY <1>0, <1>2 DEF ReservationInv, InvocationInv
  <2>2. ASSUME pc'[j] = pc[j], proc[j] = "live", opOf'[j] = opOf[j],
               sync'[j] = sync[j] \/ Resolved(j)
        PROVE  Visibly(j)'
    <3>1. ops[opOf[j]].active = j /\ Visibly(j)
      BY <1>0, <2>2 DEF ReservationInv, InvocationInv, HandleInv, Visibly
    <3>2. sync'[j] = sync[j]
      BY <2>2, <3>1 DEF Resolved
    <3>. QED BY <1>1, <2>1, <2>2, <3>1, <3>2 DEF Visibly, Supervised, OpsStep
  <2>3. ASSUME NEW i \in Invs, RuntimeStep(i), UNCHANGED controls PROVE Visibly(j)'
    <3>1. CASE i = j
      BY <1>0, <1>1, <1>2, <2>3, <3>1, StepStaysVisible
    <3>2. CASE i # j
      <4>1. pc'[j] = pc[j] /\ proc'[j] = proc[j] /\ opOf'[j] = opOf[j]
        BY <1>0, <2>3, <3>2, RuntimeStepFrame
      <4>2. sync'[j] = sync[j] \/ Resolved(j)
        BY <1>0, <2>3, <3>2, RuntimeStepFrame
      <4>. QED BY <1>2, <2>2, <4>1, <4>2
    <3>. QED BY <3>1, <3>2
  <2>4. CASE ControlStep
    <3>1. UNCHANGED <<pc, proc, opOf>> /\ (sync' = sync \/ PruneSync)
      BY <2>4, ControlFrame
    <3>2. sync'[j] = sync[j] \/ Resolved(j)
      BY <1>0, <3>1 DEF PruneSync
    <3>. QED BY <1>2, <2>2, <3>1, <3>2
  <2>5. CASE Restart
    BY <1>0, <1>2, <2>5 DEF Restart
  <2>6. CASE UNCHANGED <<pc, proc, opOf, sync>>
    BY <1>2, <2>2, <2>6
  <2>7. \A o \in OpIds : ResumeOperation(o) => UNCHANGED <<pc, proc, opOf, sync>>
    BY DEF ResumeOperation, runtime, handle, pending
  <2>8. UNCHANGED vars => UNCHANGED <<pc, proc, opOf, sync>>
    BY DEF vars, runtime, handle, pending
  <2>. QED BY <2>3, <2>4, <2>5, <2>6, <2>7, <2>8, NextCases
<1>3. \A j \in Invs : opOf'[j] = opOf[j] \/ opOf'[j][1] = BaseOf[j]
  <2>1. ASSUME NEW i \in Invs, RuntimeStep(i) PROVE \A j \in Invs : opOf'[j] = opOf[j]
                                                        \/ opOf'[j][1] = BaseOf[j]
    <3>1. Begin(i) => opOf'[i][1] = BaseOf[i]
      BY <1>0 DEF Begin, OpFor
    <3>. QED BY <2>1, <3>1, RuntimeStepFrame
  <2>2. ControlStep \/ Restart \/ UNCHANGED vars => UNCHANGED opOf
    BY ControlFrame DEF Restart, vars, runtime, handle
  <2>3. \A o \in OpIds : ResumeOperation(o) => UNCHANGED opOf
    BY DEF ResumeOperation, runtime, handle
  <2>. QED BY <2>1, <2>2, <2>3, NextCases
<1>. QED
  BY <1>0, <1>1, <1>2, <1>3 DEF HandleInv, OpsStep, Visibly

-----------------------------------------------------------------------------
(* What may become a process, and what a finished stop has excluded. *)

(***************************************************************************)
(* An unsafe invocation is reserved: with no reservation there is none.    *)
(***************************************************************************)
LEMMA UnsafeIsReserved ==
    ASSUME ReservationInv
    PROVE  Unsafe \subseteq ActiveInvs /\ (ActiveInvs = {} => Unsafe = {})
<1>1. \A i \in Unsafe : opOf[i] \in OpIds /\ ops[opOf[i]].active = i
  BY DEF Unsafe, Ordinary, ReservationInv, InvocationInv, BeforeLaunch
<1>2. Unsafe \subseteq ActiveInvs
  BY <1>1 DEF Unsafe, Ordinary, ActiveInvs
<1>. QED BY <1>2

(***************************************************************************)
(* When a stop summary allows to resume, every process still has a handle: *)
(* with no unsafe one supervised there is none.                            *)
(***************************************************************************)
LEMMA CanResumeIsQuiet ==
    ASSUME TypeOK, ReservationInv, HandleInv, CanResume, Unsafe \cap Supervised = {}
    PROVE  Unsafe = {}
<1>. SUFFICES ASSUME NEW i \in Unsafe PROVE FALSE
  OBVIOUS
<1>1. i \in Invs /\ i \notin Supervised /\ NoInv \notin Invs
  BY DraftAssumption DEF Unsafe, Ordinary
<1>2. proc[i] = "live"
  BY <1>1 DEF Unsafe, Supervised, BeforeLaunch, SupervisedPc
<1>3. opOf[i] \in OpIds /\ ops[opOf[i]].active = i
  BY <1>1, <1>2 DEF ReservationInv, InvocationInv
<1>4. sync[i] = "none"
  BY <1>1, <1>3 DEF CanResume, PendingSync, Resolved
<1>5. ops[opOf[i]].stop # "unconfirmed"
  BY <1>3 DEF CanResume, UnknownOperations
<1>6. i \notin Internal
  BY <1>1, <1>2, <1>4, <1>5 DEF HandleInv
<1>7. ops[opOf[i]].status = "running"
  BY <1>1, <1>3, <1>5 DEF HandleInv
<1>. QED BY <1>1, <1>3, <1>6, <1>7 DEF CanResume, UnknownOperations

(***************************************************************************)
(* An invocation becomes unsafe only by a reservation, which needs an open *)
(* admission and a Session that executes; nothing changes its operation.   *)
(***************************************************************************)
LEMMA UnsafeStep ==
    ASSUME TypeOK, ReservationInv, [Next]_vars, NEW i \in Invs, i \in Unsafe'
    PROVE  opOf'[i] = opOf[i] /\ (i \in Unsafe \/ ReserveInvocation(i))
<1>0. pc \in [Invs -> Pc] /\ proc \in [Invs -> {"none", "live", "exited"}]
  BY DEF TypeOK, RuntimeTypeOK
<1>1. i \in Ordinary /\ (proc'[i] = "live" \/ pc'[i] \in BeforeLaunch)
  BY DEF Unsafe, Ordinary
<1>2. UNCHANGED <<pc, proc, opOf>> => opOf'[i] = opOf[i] /\ i \in Unsafe
  BY <1>1 DEF Unsafe
<1>3. ASSUME NEW j \in Invs, RuntimeStep(j)
      PROVE  opOf'[i] = opOf[i] /\ (i \in Unsafe \/ ReserveInvocation(i))
  <2>1. CASE i # j
    BY <1>1, <1>3, <2>1, RuntimeStepFrame DEF Unsafe
  <2>2. CASE i = j
    <3>0. ReservationInv => InvocationInv(i)
      BY DEF ReservationInv
    <3>1. CASE Start(i) \/ Begin(i) \/ CheckBeforeReserve(i) \/ RefuseStart(i)
      BY <1>0, <1>1, <3>0, <3>1
         DEF Start, Begin, CheckBeforeReserve, RefuseStart, PassBarrier, Goto, InvocationInv,
             BeforeReserve, BeforeLaunch
    <3>2. CASE ReserveInvocation(i)
      BY <3>2 DEF ReserveInvocation, handle
    <3>3. CASE CheckBeforeLaunch(i) \/ RefuseLaunch(i) \/ Launch(i)
      BY <1>1, <3>3 DEF CheckBeforeLaunch, RefuseLaunch, Launch, PassBarrier, Unsafe,
                        BeforeLaunch, handle
    <3>4. CASE ProcessExit(i) \/ Result(i) \/ UnconfirmedResult(i) \/ StopTimer(i)
               \/ LateUnconfirmedResult(i) \/ LateResultFails(i)
      BY <1>0, <1>1, <3>4
         DEF ProcessExit, Result, UnconfirmedResult, StopTimer, LateUnconfirmedResult, Goto,
             LateResultFails, AfterLate, Unsafe, BeforeLaunch, handle
    <3>5. CASE SettleInvocation(i) \/ SettleFails(i) \/ LateResult(i)
      BY <1>0, <1>1, <3>5
         DEF SettleInvocation, SettleFails, LateResult, Goto, AfterLate, AfterSettle, Unsafe,
             BeforeLaunch, handle
    <3>6. CASE Abort(i) \/ StopIntent(i) \/ CancelIntent(i) \/ Reconcile(i)
               \/ ReconcileFails(i) \/ Receipt(i)
      BY <1>2, <3>6 DEF Abort, StopIntent, CancelIntent, Reconcile, ReconcileFails, Receipt,
                        runtime, handle
    <3>. QED BY <1>3, <2>2, <3>1, <3>2, <3>3, <3>4, <3>5, <3>6 DEF RuntimeStep
  <2>. QED BY <2>1, <2>2
<1>4. CASE Restart
  BY <1>0, <1>1, <1>4 DEF Restart, Unsafe, BeforeLaunch
<1>5. ControlStep \/ UNCHANGED vars => UNCHANGED <<pc, proc, opOf>>
  BY ControlFrame DEF vars, runtime, handle
<1>6. \A o \in OpIds : ResumeOperation(o) => UNCHANGED <<pc, proc, opOf>>
  BY DEF ResumeOperation, runtime, handle
<1>. QED BY <1>2, <1>3, <1>4, <1>5, <1>6, NextCases

(***************************************************************************)
(* A reservation of an ordinary invocation: what the store has checked.    *)
(***************************************************************************)
LEMMA OrdinaryReserve ==
    ASSUME TypeOK, ReservationInv, HandleInv, NEW i \in Ordinary, ReserveInvocation(i)
    PROVE  /\ pc[i] = "admitted" /\ opOf[i] \in OpIds
           /\ session.status = "EXECUTING"
           /\ lifecycle.state \in {"none", "active"} /\ lifecycle.admission = "open"
           /\ HasLifecycle => opOf[i][2] \in {0, lifecycle.generation}
<1>0. i \in Invs /\ BaseOf[i] \notin Restricted
  BY DEF Ordinary
<1>1. pc[i] = "admitted" /\ opOf[i] \in OpIds
  BY <1>0 DEF ReserveInvocation, ReservationInv, InvocationInv
<1>2. opOf[i][1] \notin Restricted
  BY <1>0, <1>1, RuntimeAssumption DEF HandleInv
<1>3. CanReserve(opOf[i], i, epoch)
  BY DEF ReserveInvocation, Reserve
<1>. QED BY <1>1, <1>2, <1>3 DEF CanReserve, Admits, GenerationMismatch

(***************************************************************************)
(* A supervised invocation that is unsafe was supervised before.           *)
(***************************************************************************)
LEMMA SupervisedStep ==
    ASSUME TypeOK, ReservationInv, [Next]_vars, NEW i \in Unsafe, i \in Supervised'
    PROVE  i \in Supervised
<1>0. pc \in [Invs -> Pc] /\ i \in Invs
  BY DEF TypeOK, RuntimeTypeOK, Unsafe, Ordinary
<1>1. pc[i] # "idle"
  BY <1>0 DEF Unsafe, ReservationInv, InvocationInv, BeforeReserve, BeforeLaunch
<1>2. pc'[i] \in SupervisedPc
  BY DEF Supervised
<1>3. pc'[i] = pc[i] => i \in Supervised
  BY <1>0, <1>2 DEF Supervised
<1>4. ASSUME NEW j \in Invs, RuntimeStep(j) PROVE i \in Supervised
  <2>1. CASE i # j
    BY <1>0, <1>3, <1>4, <2>1, RuntimeStepFrame
  <2>2. CASE i = j
    <3>1. CASE Start(i)
      BY <1>1, <3>1 DEF Start
    <3>2. CASE Begin(i) \/ CheckBeforeReserve(i) \/ ReserveInvocation(i) \/ RefuseStart(i)
               \/ CheckBeforeLaunch(i) \/ RefuseLaunch(i) \/ Launch(i)
      BY <1>0, <3>2
         DEF Begin, CheckBeforeReserve, ReserveInvocation, RefuseStart, CheckBeforeLaunch,
             RefuseLaunch, Launch, PassBarrier, Supervised, SupervisedPc
    <3>3. CASE Result(i) \/ UnconfirmedResult(i) \/ StopTimer(i) \/ SettleInvocation(i)
               \/ SettleFails(i)
      BY <1>0, <3>3
         DEF Result, UnconfirmedResult, StopTimer, SettleInvocation, SettleFails, Supervised,
             SupervisedPc
    <3>4. CASE LateResult(i) \/ LateUnconfirmedResult(i) \/ LateResultFails(i)
      BY <1>0, <1>2, <3>4
         DEF LateResult, LateUnconfirmedResult, LateResultFails, AfterLate, Goto, Supervised,
             SupervisedPc
    <3>5. CASE Abort(i) \/ StopIntent(i) \/ CancelIntent(i) \/ Reconcile(i)
               \/ ReconcileFails(i) \/ Receipt(i) \/ ProcessExit(i)
      BY <1>3, <3>5 DEF Abort, StopIntent, CancelIntent, Reconcile, ReconcileFails, Receipt,
                        ProcessExit, runtime
    <3>. QED BY <1>4, <2>2, <3>1, <3>2, <3>3, <3>4, <3>5 DEF RuntimeStep
  <2>. QED BY <2>1, <2>2
<1>5. CASE Restart
  BY <1>0, <1>2, <1>5 DEF Restart, SupervisedPc
<1>6. ControlStep \/ UNCHANGED vars => UNCHANGED pc
  BY ControlFrame DEF vars, runtime
<1>7. \A o \in OpIds : ResumeOperation(o) => UNCHANGED pc
  BY DEF ResumeOperation, runtime
<1>. QED BY <1>3, <1>4, <1>5, <1>6, <1>7, NextCases

(***************************************************************************)
(* Only a begin in a Session without a lifecycle record makes a legacy     *)
(* invocation.                                                             *)
(***************************************************************************)
LEMMA LegacyStep ==
    ASSUME TypeOK, ReservationInv, [Next]_vars, NEW i \in Invs, i \in Legacy'
    PROVE  \/ i \in Legacy
           \/ /\ lifecycle.state \in {"none", "active"} /\ lifecycle.generation = 0
              /\ UNCHANGED <<lifecycle, controls>>
<1>0. pc \in [Invs -> Pc] /\ opOf \in [Invs -> OpIds \cup {NoOp}]
  BY DEF TypeOK, RuntimeTypeOK
<1>1. pc'[i] \in {"begun", "admitted"} /\ opOf'[i][2] = 0
  BY DEF Legacy
<1>2. UNCHANGED <<pc, opOf>> => i \in Legacy
  BY <1>1 DEF Legacy
<1>3. ASSUME NEW j \in Invs, RuntimeStep(j), UNCHANGED controls
      PROVE  \/ i \in Legacy
             \/ /\ lifecycle.state \in {"none", "active"} /\ lifecycle.generation = 0
                /\ UNCHANGED <<lifecycle, controls>>
  <2>1. CASE i # j
    BY <1>1, <1>3, <2>1, RuntimeStepFrame DEF Legacy
  <2>2. CASE i = j /\ Begin(i)
    BY <1>0, <1>1, <1>3, <2>2 DEF Begin, BeginOp, Admits, OpFor
  <2>3. CASE i = j /\ CheckBeforeReserve(i)
    BY <1>0, <1>1, <2>3 DEF CheckBeforeReserve, PassBarrier, Legacy, handle
  <2>4. CASE i = j /\ (\/ Start(i) \/ ReserveInvocation(i) \/ RefuseStart(i)
                       \/ CheckBeforeLaunch(i) \/ RefuseLaunch(i) \/ Launch(i)
                       \/ Result(i) \/ UnconfirmedResult(i) \/ StopTimer(i)
                       \/ SettleInvocation(i) \/ SettleFails(i) \/ LateResult(i)
                       \/ LateUnconfirmedResult(i) \/ LateResultFails(i))
    BY <1>0, <1>1, <2>4
       DEF Start, ReserveInvocation, RefuseStart, CheckBeforeLaunch, RefuseLaunch, Launch,
           Result, UnconfirmedResult, StopTimer, SettleInvocation, SettleFails, LateResult,
           LateUnconfirmedResult, LateResultFails, PassBarrier, AfterSettle, AfterLate, Goto
  <2>5. CASE i = j /\ (\/ Abort(i) \/ StopIntent(i) \/ CancelIntent(i) \/ Reconcile(i)
                       \/ ReconcileFails(i) \/ Receipt(i) \/ ProcessExit(i))
    BY <1>2, <2>5 DEF Abort, StopIntent, CancelIntent, Reconcile, ReconcileFails, Receipt,
                      ProcessExit, runtime, handle
  <2>. QED BY <1>3, <2>1, <2>2, <2>3, <2>4, <2>5 DEF RuntimeStep
<1>4. CASE Restart
  BY <1>0, <1>1, <1>4 DEF Restart
<1>5. ControlStep \/ UNCHANGED vars => UNCHANGED <<pc, opOf>>
  BY ControlFrame DEF vars, runtime, handle
<1>6. \A o \in OpIds : ResumeOperation(o) => UNCHANGED <<pc, opOf>>
  BY DEF ResumeOperation, runtime, handle
<1>. QED BY <1>2, <1>3, <1>4, <1>5, <1>6, NextCases

-----------------------------------------------------------------------------
(* The lifecycle steps. *)

Stays == /\ lifecycle'.state = lifecycle.state
         /\ lifecycle'.admission = lifecycle.admission
         /\ lifecycle'.generation = lifecycle.generation

Closes == /\ lifecycle.state \in {"none", "active"} /\ lifecycle.admission = "open"
          /\ lifecycle'.state = "active" /\ lifecycle'.admission = "closed"
          /\ lifecycle'.generation = IF lifecycle.state = "none" THEN 1 ELSE lifecycle.generation

StartsDelete == /\ lifecycle.state \in {"none", "active"}
                /\ lifecycle'.state = "deleting" /\ lifecycle'.admission = "closed"
                /\ lifecycle'.generation = lifecycle.generation + 1

Unarchives == /\ lifecycle.state # "none" /\ session.archived /\ ~session'.archived
              /\ lifecycle'.state = lifecycle.state /\ lifecycle'.admission = "open"
              /\ lifecycle'.generation = lifecycle.generation + 1

Reopens == /\ lifecycle.state = "active" /\ lifecycle.admission = "closed"
           /\ lifecycle'.state = "active" /\ lifecycle'.admission = "open"
           /\ lifecycle'.generation = lifecycle.generation

Hides == /\ lifecycle.state = "deleting"
         /\ lifecycle'.state = "deleted" /\ lifecycle'.admission = "closed"
         /\ lifecycle'.generation = lifecycle.generation

Restores == /\ lifecycle.state = "deleted"
            /\ lifecycle'.state = "active" /\ lifecycle'.admission = "closed"
            /\ lifecycle'.generation = lifecycle.generation + 1

(***************************************************************************)
(* What each lifecycle method does to the state, the admission and the     *)
(* generation.                                                             *)
(***************************************************************************)
LEMMA LifecycleMethods ==
    ASSUME TypeOK
    PROVE  /\ CloseForStop => UNCHANGED <<session, stopRequest, ops>> /\ (Stays \/ Closes)
           /\ BeginDelete => Stays \/ StartsDelete
           /\ MarkArchived => Stays
           /\ RestoreArchived => Stays \/ Unarchives
           /\ Reopen => UNCHANGED session /\ lifecycle.state = "active" /\ (Stays \/ Reopens)
           /\ CompleteDelete => Stays \/ Hides
           /\ \A g : Restore(g) => Restores
<1>0. lifecycle \in Lifecycle
  BY DEF TypeOK, DraftTypeOK
<1>1. UNCHANGED lifecycle => Stays
  BY DEF Stays
<1>2. CloseForStop => UNCHANGED <<session, stopRequest, ops>> /\ (Stays \/ Closes)
  BY <1>0, <1>1 DEF CloseForStop, Unchanged, durable, Closes, HasLifecycle, Lifecycle
<1>3. BeginDelete => Stays \/ StartsDelete
  BY <1>0, <1>1 DEF BeginDelete, Unchanged, durable, StartsDelete, Lifecycle
<1>4. MarkArchived => Stays
  BY <1>0, <1>1 DEF MarkArchived, Unchanged, durable, Stays, Lifecycle
<1>5. RestoreArchived => Stays \/ Unarchives
  <2>1. RestoreArchived /\ ~session.archived => UNCHANGED lifecycle
    BY DEF RestoreArchived, Unchanged, durable
  <2>2. RestoreArchived /\ session.archived => ~session'.archived
    BY DEF RestoreArchived
  <2>3. RestoreArchived /\ session.archived
          => /\ lifecycle.state # "none" /\ lifecycle'.state = lifecycle.state
             /\ lifecycle'.admission = "open"
             /\ lifecycle'.generation = lifecycle.generation + 1
    BY <1>0 DEF RestoreArchived, HasLifecycle, Lifecycle
  <2>. QED BY <1>1, <2>1, <2>2, <2>3 DEF Unarchives
<1>6. Reopen => UNCHANGED session /\ lifecycle.state = "active" /\ (Stays \/ Reopens)
  BY <1>0, <1>1 DEF Reopen, Unchanged, durable, Stays, Reopens, Lifecycle
<1>7. CompleteDelete => Stays \/ Hides
  BY <1>0, <1>1 DEF CompleteDelete, Unchanged, durable, Stays, Hides, Lifecycle
<1>8. \A g : Restore(g) => Restores
  BY <1>0 DEF Restore, Restores, Lifecycle
<1>. QED BY <1>2, <1>3, <1>4, <1>5, <1>6, <1>7, <1>8

(***************************************************************************)
(* Which control makes which step of the lifecycle.                        *)
(***************************************************************************)
LEMMA ControlLifecycle ==
    ASSUME TypeOK, ControlStep
    PROVE  \/ Stays
           \/ Closes /\ (Pause \/ Archive)
           \/ StartsDelete /\ Delete
           \/ Unarchives /\ FinishUnarchive
           \/ Reopens /\ ReopenAdmission
           \/ Hides /\ FinishDelete
           \/ Restores /\ RestoreDeleted
<1>0. lifecycle \in Lifecycle
  BY DEF TypeOK, DraftTypeOK
<1>1. UNCHANGED lifecycle => Stays
  BY DEF Stays
<1>2. CASE Pause \/ Archive \/ Delete
  BY <1>2, LifecycleMethods DEF Pause, Archive, Delete
<1>3. CASE FinishUnarchive
  BY <1>1, <1>3, LifecycleMethods DEF FinishUnarchive
<1>4. CASE ReopenAdmission \/ FinishDelete \/ FinishArchive \/ RestoreDeleted
  BY <1>4, LifecycleMethods DEF ReopenAdmission, FinishDelete, FinishArchive, RestoreDeleted
<1>5. CASE \E c \in Controls : CommitStop(c)
  BY <1>0, <1>5 DEF CommitStop, RequestStop, SyncStopStatus, Stays, Lifecycle
<1>6. CASE \/ Disconnect \/ ClearArchived \/ CheckResume \/ ReopenRefused \/ FinishResume
           \/ RestoreAgain \/ CheckUnarchive \/ UnarchiveRefused
           \/ \E c \in Controls : EnterStop(c) \/ CommitStopFails(c)
                                      \/ EndWait(c) \/ AbandonStopped(c)
  BY <1>1, <1>6
     DEF Disconnect, ClearArchived, CheckResume, ReopenRefused, FinishResume, RestoreAgain,
         CheckUnarchive, UnarchiveRefused, EnterStop, CommitStopFails, EndWait, AbandonStopped,
         durable
<1>. QED BY <1>2, <1>3, <1>4, <1>5, <1>6 DEF ControlStep

(***************************************************************************)
(* The stores of an invocation leave the lifecycle as it is, but for the   *)
(* stop status, and so do the resume of an operation and a restart.        *)
(***************************************************************************)
LEMMA OtherLifecycle ==
    ASSUME TypeOK
    PROVE  /\ \A i \in Invs : RuntimeStep(i) => Stays /\ UNCHANGED session
           /\ \A o \in OpIds : ResumeOperation(o) => Stays /\ UNCHANGED session
           /\ Restart => Stays /\ (session'.status = "EXECUTING" => session.status = "EXECUTING")
                               /\ session'.archived = session.archived
           /\ UNCHANGED vars => Stays /\ UNCHANGED session
<1>0. lifecycle \in Lifecycle /\ session \in Session
  BY DEF TypeOK, DraftTypeOK
<1>1. UNCHANGED lifecycle => Stays
  BY DEF Stays
<1>2. ASSUME NEW i \in Invs, RuntimeStep(i) PROVE Stays /\ UNCHANGED session
  <2>1. \A r : LET l == SyncStopStatus(lifecycle, r)
               IN  /\ l.state = lifecycle.state /\ l.admission = lifecycle.admission
                   /\ l.generation = lifecycle.generation
    BY <1>0 DEF SyncStopStatus, Lifecycle
  <2>2. \A state : RecordStop(i, state) => Stays /\ UNCHANGED session
    BY <2>1 DEF RecordStop, Stays
  <2>3. \A o, stop, pause, left : Settle(o, i, stop, pause, left) => Stays /\ UNCHANGED session
    BY <1>1, <2>2, Zenon DEF Settle, durable
  <2>a. CASE Begin(i) \/ ReserveInvocation(i) \/ StopIntent(i)
    BY <1>1, <2>a DEF Begin, BeginOp, ReserveInvocation, Reserve, StopIntent, RequestIntentStop
  <2>b. CASE SettleInvocation(i) \/ Reconcile(i) \/ LateResult(i)
    BY <2>3, <2>b, Zenon DEF SettleInvocation, Reconcile, LateResult
  <2>c. CASE Receipt(i)
    <3>1. PICK left \in BOOLEAN : ConfirmTransportReceipt(i, left)
      BY <2>c DEF Receipt
    <3>. QED BY <1>1, <2>2, <3>1, Zenon DEF ConfirmTransportReceipt, durable
  <2>d. CASE \/ Start(i) \/ CheckBeforeReserve(i) \/ RefuseStart(i) \/ CheckBeforeLaunch(i)
             \/ RefuseLaunch(i) \/ Launch(i) \/ Abort(i) \/ CancelIntent(i) \/ ProcessExit(i)
             \/ Result(i) \/ UnconfirmedResult(i) \/ StopTimer(i) \/ SettleFails(i)
             \/ ReconcileFails(i) \/ LateUnconfirmedResult(i) \/ LateResultFails(i)
    BY <1>1, <2>d
       DEF Start, CheckBeforeReserve, RefuseStart, CheckBeforeLaunch, RefuseLaunch,
           Launch, Abort, CancelIntent, ProcessExit, Result, UnconfirmedResult, StopTimer,
           SettleFails, ReconcileFails, LateUnconfirmedResult, LateResultFails,
           PassBarrier, durable
  <2>. QED BY <1>2, <2>a, <2>b, <2>c, <2>d DEF RuntimeStep
<1>3. \A o \in OpIds : ResumeOperation(o) => Stays /\ UNCHANGED session
  BY <1>1 DEF ResumeOperation, ResumeOp
<1>4. Restart => Stays /\ (session'.status = "EXECUTING" => session.status = "EXECUTING")
                       /\ session'.archived = session.archived
  BY <1>0, <1>1 DEF Restart, Session
<1>5. UNCHANGED vars => Stays /\ UNCHANGED session
  BY <1>1 DEF vars, durable
<1>. QED BY <1>2, <1>3, <1>4, <1>5

(***************************************************************************)
(* Any step stays, closes, starts a deletion, restores from the archive,   *)
(* reopens, hides or restores.                                             *)
(***************************************************************************)
LEMMA LifecycleNext ==
    ASSUME TypeOK, [Next]_vars
    PROVE  \/ Stays
           \/ ControlStep /\ \/ Closes /\ (Pause \/ Archive)
                             \/ StartsDelete /\ Delete
                             \/ Unarchives /\ FinishUnarchive
                             \/ Reopens /\ ReopenAdmission
                             \/ Hides /\ FinishDelete
                             \/ Restores /\ RestoreDeleted
BY NextCases, ControlLifecycle, OtherLifecycle

(***************************************************************************)
(* Only resume writes EXECUTING, and only archive sets the mark.           *)
(***************************************************************************)
LEMMA SessionFieldsStep ==
    ASSUME TypeOK, [Next]_vars
    PROVE  /\ session'.status = "EXECUTING" =>
                  session.status = "EXECUTING" \/ CheckResume \/ FinishResume
           /\ session'.archived => session.archived \/ FinishArchive
<1>. DEFINE Goal == /\ session'.status = "EXECUTING" =>
                           session.status = "EXECUTING" \/ CheckResume \/ FinishResume
                    /\ session'.archived => session.archived \/ FinishArchive
<1>0. session \in Session
  BY DEF TypeOK, DraftTypeOK
<1>1. UNCHANGED session => Goal
  OBVIOUS
<1>2. session' = Paused(session) => Goal
  BY <1>0 DEF Paused, Session
<1>3. CASE CheckResume \/ FinishResume
  BY <1>0, <1>3 DEF CheckResume, FinishResume, Executing, Session
<1>4. CASE Pause \/ Archive \/ ReopenAdmission
  BY <1>1, <1>4, LifecycleMethods DEF Pause, Archive, ReopenAdmission
<1>5. CASE Delete \/ FinishDelete \/ RestoreDeleted \/ RestoreAgain
  BY <1>1, <1>2, <1>5
     DEF Delete, BeginDelete, FinishDelete, CompleteDelete, RestoreDeleted, Restore,
         RestoreAgain, Unchanged, durable
<1>6. CASE Disconnect \/ ClearArchived
  BY <1>0, <1>6 DEF Disconnect, ClearArchived, Session
<1>7. CASE FinishArchive
  BY <1>0, <1>1, <1>7 DEF FinishArchive, MarkArchived, Unchanged, durable, Session
<1>8. CASE FinishUnarchive
  BY <1>0, <1>1, <1>2, <1>8 DEF FinishUnarchive, RestoreArchived, Unchanged, durable, Session
<1>9. CASE \/ ReopenRefused \/ CheckUnarchive \/ UnarchiveRefused
           \/ \E c \in Controls : EnterStop(c) \/ CommitStop(c) \/ CommitStopFails(c)
                                      \/ EndWait(c) \/ AbandonStopped(c)
  BY <1>1, <1>2, <1>9
     DEF ReopenRefused, CheckUnarchive, UnarchiveRefused, EnterStop, CommitStop, RequestStop,
         CommitStopFails, EndWait, AbandonStopped, durable
<1>10. ControlStep => Goal
  BY <1>3, <1>4, <1>5, <1>6, <1>7, <1>8, <1>9 DEF ControlStep
<1>11. ~ControlStep => Goal
  BY <1>1, NextCases, OtherLifecycle
<1>. QED BY <1>10, <1>11

(***************************************************************************)
(* An operation is given to an invocation only by begin.                   *)
(***************************************************************************)
LEMMA OpOfStep ==
    ASSUME TypeOK, [Next]_vars, NEW i \in Invs
    PROVE  opOf'[i] = opOf[i] \/ (opOf'[i] = OpFor(BaseOf[i]) /\ UNCHANGED lifecycle)
<1>0. opOf \in [Invs -> OpIds \cup {NoOp}]
  BY DEF TypeOK, RuntimeTypeOK
<1>1. Begin(i) => opOf'[i] = OpFor(BaseOf[i]) /\ UNCHANGED lifecycle
  BY <1>0 DEF Begin, BeginOp
<1>2. \A j \in Invs : RuntimeStep(j) => opOf'[i] = opOf[i] \/ Begin(i)
  BY RuntimeStepFrame
<1>3. ControlStep \/ Restart \/ UNCHANGED vars => UNCHANGED opOf
  BY ControlFrame DEF Restart, vars, runtime, handle
<1>4. \A o \in OpIds : ResumeOperation(o) => UNCHANGED opOf
  BY DEF ResumeOperation, runtime, handle
<1>. QED BY <1>1, <1>2, <1>3, <1>4, NextCases

(***************************************************************************)
(* The places of a control that stops a Session: what it has read, and     *)
(* that it goes on only after a stop that did not time out.                *)
(***************************************************************************)
LEMMA FlowStep ==
    ASSUME TypeOK, [Next]_vars, NEW c \in Controls, c # "disconnect"
    PROVE  \/ flow'[c] = flow[c] /\ seen'[c] = seen[c]
           \/ flow'[c] \in {"idle", "closed", "again", "deleted"}
           \/ /\ Stays /\ UNCHANGED <<pc, proc, opOf>>
              /\ \/ flow'[c] = "requesting" /\ seen'[c] = Supervised
                 \/ flow[c] = "requesting" /\ flow'[c] = "waiting" /\ seen'[c] = seen[c]
                 \/ flow[c] = "waiting" /\ flow'[c] = "stopped" /\ ~StopTimedOut(c)
<1>. DEFINE Same == flow'[c] = flow[c] /\ seen'[c] = seen[c]
            Ends == flow'[c] \in {"idle", "closed", "again", "deleted"}
<1>0. flow \in [Controls -> FlowPc] /\ seen \in [Controls -> SUBSET Invs]
      /\ lifecycle \in Lifecycle
  BY DEF TypeOK, ControlsTypeOK, DraftTypeOK
<1>1. UNCHANGED <<flow, seen>> => Same
  OBVIOUS
<1>2. \A d : \A label : Step(d, label) /\ d # c /\ UNCHANGED seen => Same
  BY <1>0 DEF Step
<1>3. \A label \in {"idle", "closed", "again", "deleted"} : Step(c, label) => Ends
  BY <1>0 DEF Step
<1>4. UNCHANGED lifecycle => Stays
  BY DEF Stays
<1>5. CASE Pause \/ Delete \/ Archive \/ FinishDelete \/ ClearArchived \/ FinishArchive
  BY <1>2, <1>3, <1>5 DEF Pause, Delete, Archive, FinishDelete, ClearArchived, FinishArchive
<1>6. CASE Disconnect
  BY <1>0, <1>6 DEF Disconnect, Step
<1>7. ASSUME NEW d \in Controls, EnterStop(d) \/ CommitStop(d) \/ CommitStopFails(d)
                                    \/ EndWait(d) \/ AbandonStopped(d), d # c
      PROVE  Same
  BY <1>0, <1>7 DEF EnterStop, CommitStop, CommitStopFails, EndWait, AbandonStopped, Step
<1>8. CASE EnterStop(c)
  BY <1>0, <1>4, <1>8 DEF EnterStop, Step, runtime, handle
<1>9. CASE CommitStop(c) \/ CommitStopFails(c)
  <2>1. Stays
    BY <1>0, <1>4, <1>9 DEF CommitStop, CommitStopFails, RequestStop, SyncStopStatus, Stays,
                            Lifecycle, durable
  <2>2. UNCHANGED <<pc, proc, opOf>>
    BY <1>9 DEF CommitStop, CommitStopFails
  <2>. QED BY <1>0, <1>9, <2>1, <2>2 DEF CommitStop, CommitStopFails, Step
<1>10. CASE EndWait(c)
  BY <1>0, <1>4, <1>10 DEF EndWait, Step, durable, handle
<1>11. CASE AbandonStopped(c)
  BY <1>3, <1>11 DEF AbandonStopped
<1>12. CASE CheckResume \/ ReopenAdmission \/ ReopenRefused \/ FinishResume \/ RestoreDeleted
            \/ RestoreAgain \/ CheckUnarchive \/ FinishUnarchive \/ UnarchiveRefused
  BY <1>1, <1>12 DEF CheckResume, ReopenAdmission, ReopenRefused, FinishResume, RestoreDeleted,
         RestoreAgain, CheckUnarchive, FinishUnarchive, UnarchiveRefused, controls
<1>13. CASE Restart
  BY <1>13 DEF Restart
<1>14. CASE UNCHANGED controls
  BY <1>1, <1>14 DEF controls
<1>. HIDE DEF Same, Ends
<1>15. CASE ControlStep
  BY <1>5, <1>6, <1>7, <1>8, <1>9, <1>10, <1>11, <1>12, <1>15 DEF ControlStep, Same, Ends
<1>16. UNCHANGED vars => UNCHANGED controls
  BY DEF vars
<1>. QED BY <1>13, <1>14, <1>15, <1>16, NextCases

-----------------------------------------------------------------------------
(* The invariants of resume and archive are inductive. *)

(***************************************************************************)
(* resume goes on to reopen only a Session nothing ordinary can start in.  *)
(***************************************************************************)
LEMMA ResumeNext ==
    ASSUME TypeOK, ReservationInv, HandleInv, ResumeInv, [Next]_vars
    PROVE  ResumeInv'
<1>. SUFFICES ASSUME resuming' = "checked"
              PROVE  session'.status # "EXECUTING" /\ Unsafe' = {}
  BY DEF ResumeInv
<1>1. resuming = "checked" \/ CheckResume
  <2>1. UNCHANGED resuming => resuming = "checked"
    OBVIOUS
  <2>2. ControlStep => resuming = "checked" \/ CheckResume
    BY DEF ControlStep, Pause, Delete, Archive, Disconnect, EnterStop, CommitStop,
           CommitStopFails, EndWait, AbandonStopped, FinishDelete, ClearArchived, FinishArchive,
           ReopenAdmission, ReopenRefused, FinishResume, RestoreDeleted, RestoreAgain,
           CheckUnarchive, FinishUnarchive, UnarchiveRefused, controls
  <2>3. UNCHANGED controls \/ UNCHANGED vars => UNCHANGED resuming
    BY DEF vars, controls
  <2>4. ~Restart
    BY DEF Restart
  <2>. QED BY <2>1, <2>2, <2>3, <2>4, NextCases
<1>2. CASE CheckResume
  <2>1. Supervised = {} /\ CanResume
    BY <1>2 DEF CheckResume, HasUnconfirmedStops
  <2>2. Unsafe = {}
    BY <2>1, CanResumeIsQuiet
  <2>3. UNCHANGED <<pc, proc, session>>
    BY <1>2 DEF CheckResume
  <2>. QED BY <1>2, <2>2, <2>3 DEF CheckResume, Unsafe
<1>3. CASE resuming = "checked"
  <2>1. session.status # "EXECUTING" /\ Unsafe = {}
    BY <1>3 DEF ResumeInv
  <2>2. session'.status # "EXECUTING"
    BY <1>3, <2>1, SessionFieldsStep DEF CheckResume, FinishResume
  <2>3. Unsafe' = {}
    <3>1. \A i \in Unsafe' : i \in Invs /\ i \in Ordinary
      BY DEF Unsafe, Ordinary
    <3>. QED BY <2>1, <3>1, UnsafeStep, OrdinaryReserve
  <2>. QED BY <2>2, <2>3
<1>. QED BY <1>1, <1>2, <1>3

(***************************************************************************)
(* Nothing becomes unsafe while admission is closed.                       *)
(***************************************************************************)
LEMMA ClosedStep ==
    ASSUME TypeOK, ReservationInv, HandleInv, [Next]_vars, lifecycle.admission = "closed"
    PROVE  Unsafe' \subseteq Unsafe /\ Unsafe' \cap Supervised' \subseteq Supervised
<1>1. Unsafe' \subseteq Unsafe
  <2>1. \A i \in Unsafe' : i \in Invs /\ i \in Ordinary
    BY DEF Unsafe, Ordinary
  <2>. QED BY <2>1, UnsafeStep, OrdinaryReserve
<1>. QED BY <1>1, SupervisedStep

(***************************************************************************)
(* A Session comes to be closed by a control that closes it, or by a       *)
(* restore, when nothing is unsafe.                                        *)
(***************************************************************************)
LEMMA ComesClosed ==
    ASSUME TypeOK, ReservationInv, HandleInv, DeleteInv, [Next]_vars, Closed'
    PROVE  \/ Closed
           \/ Unsafe' = {}
           \/ ControlStep /\ Closes /\ (Pause \/ Archive)
<1>1. Stays => Closed
  BY DEF Stays, Closed
<1>2. Restores /\ ControlStep => Unsafe' = {}
  <2>1. SUFFICES ASSUME Restores, ControlStep PROVE Unsafe' = {}
    OBVIOUS
  <2>2. Unsafe = {}
    BY <2>1, UnsafeIsReserved DEF Restores, DeleteInv
  <2>3. UNCHANGED <<pc, proc>>
    BY <2>1, ControlFrame
  <2>. QED BY <2>2, <2>3 DEF Unsafe
<1>3. ~StartsDelete /\ ~Unarchives /\ ~Reopens /\ ~Hides
  BY DEF Closed, StartsDelete, Unarchives, Reopens, Hides
<1>. QED BY <1>1, <1>2, <1>3, LifecycleNext

(***************************************************************************)
(* With pauses left out, or archiving, a Session is archived only when     *)
(* nothing is unsafe, and stays so until it is restored.                   *)
(***************************************************************************)
LEMMA ArchiveNext ==
    ASSUME TypeOK, ReservationInv, HandleInv, DeleteInv, ArchiveInv, [Next]_vars,
           ~({"pause", "archive"} \subseteq Controls)
    PROVE  ArchiveInv'
<1>1. "archive" \notin Controls => ~session'.archived
  BY SessionFieldsStep DEF ArchiveInv, FinishArchive
<1>. SUFFICES ASSUME "archive" \in Controls, Closed'
              PROVE  /\ flow'["archive"] \in {"requesting", "waiting"} =>
                            Unsafe' \cap Supervised' \subseteq seen'["archive"]
                     /\ flow'["archive"] = "stopped" \/ session'.archived => Unsafe' = {}
  BY <1>1 DEF ArchiveInv
<1>2. Closed => Unsafe' \subseteq Unsafe /\ Unsafe' \cap Supervised' \subseteq Supervised
  BY ClosedStep DEF Closed
<1>3. session'.archived => Unsafe' = {}
  <2>. SUFFICES ASSUME session'.archived PROVE Unsafe' = {}
    OBVIOUS
  <2>1. CASE session.archived
    BY <1>2, <2>1, ComesClosed DEF ArchiveInv, Pause, Archive, Visible
  <2>2. CASE ~session.archived
    <3>1. FinishArchive
      BY <2>2, SessionFieldsStep
    <3>2. Closed /\ flow["archive"] = "stopped"
      BY <2>2, <3>1 DEF FinishArchive, MarkArchived, Closed
    <3>. QED BY <1>2, <3>2 DEF ArchiveInv
  <2>. QED BY <2>1, <2>2
<1>4. CASE Unsafe' = {}
  BY <1>4
<1>5. CASE Closed
  <2>1. CASE flow'["archive"] = flow["archive"] /\ seen'["archive"] = seen["archive"]
    BY <1>2, <1>3, <1>5, <2>1 DEF ArchiveInv
  <2>2. CASE flow'["archive"] \in {"idle", "closed", "again", "deleted"}
    BY <1>3, <2>2
  <2>3. CASE flow'["archive"] = "requesting" /\ seen'["archive"] = Supervised
    BY <1>2, <1>3, <1>5, <2>3
  <2>4. CASE flow["archive"] = "requesting" /\ flow'["archive"] = "waiting"
             /\ seen'["archive"] = seen["archive"]
    BY <1>2, <1>3, <1>5, <2>4 DEF ArchiveInv
  <2>5. CASE flow["archive"] = "waiting" /\ flow'["archive"] = "stopped"
             /\ ~StopTimedOut("archive")
    <3>1. CanResume /\ (seen["archive"] = {} \/ Supervised = {})
      BY <2>5 DEF StopTimedOut
    <3>2. Unsafe \cap Supervised \subseteq seen["archive"]
      BY <1>5, <2>5 DEF ArchiveInv
    <3>3. Unsafe \cap Supervised = {}
      BY <3>1, <3>2
    <3>4. Unsafe = {}
      BY <3>1, <3>3, CanResumeIsQuiet
    <3>. QED BY <1>2, <1>5, <3>4
  <2>. QED BY <2>1, <2>2, <2>3, <2>4, <2>5, FlowStep
<1>6. CASE ControlStep /\ Closes /\ (Pause \/ Archive)
  <2>1. Archive
    BY <1>6 DEF Pause
  <2>2. flow'["archive"] = "closed"
    BY <2>1 DEF Archive, Step, TypeOK, ControlsTypeOK
  <2>. QED BY <1>3, <2>2
<1>. QED BY <1>4, <1>5, <1>6, ComesClosed

-----------------------------------------------------------------------------
(* The fence of the generation is inductive. *)

(***************************************************************************)
(* Where delete() has gone on, nothing is left from before the first       *)
(* lifecycle record but what it has seen and waits for.                    *)
(***************************************************************************)
LEMMA DeleteSeesLegacy ==
    ASSUME TypeOK, ReservationInv, DeleteInv, FenceInv, [Next]_vars, "delete" \in Controls
    PROVE  /\ flow'["delete"] \in {"requesting", "waiting"} => Legacy' \subseteq seen'["delete"]
           /\ flow'["delete"] = "stopped" => Legacy' = {}
<1>1. \A i \in Legacy' : i \in Invs
  BY DEF Legacy
<1>2. flow["delete"] \in {"requesting", "waiting", "stopped"} => Legacy' \subseteq Legacy
  <2>1. flow["delete"] \in {"requesting", "waiting", "stopped"} => lifecycle.state = "deleting"
    BY DEF DeleteInv
  <2>. QED BY <1>1, <2>1, LegacyStep
<1>3. CASE flow'["delete"] = flow["delete"] /\ seen'["delete"] = seen["delete"]
  BY <1>2, <1>3 DEF FenceInv
<1>4. CASE flow'["delete"] \in {"idle", "closed", "again", "deleted"}
  BY <1>4
<1>5. CASE UNCHANGED <<pc, proc, opOf>> /\ flow'["delete"] = "requesting"
           /\ seen'["delete"] = Supervised
  <2>1. Legacy' = Legacy /\ Legacy \subseteq Supervised
    BY <1>5 DEF Legacy, Supervised, SupervisedPc
  <2>. QED BY <1>5, <2>1
<1>6. CASE flow["delete"] = "requesting" /\ flow'["delete"] = "waiting"
           /\ seen'["delete"] = seen["delete"]
  BY <1>2, <1>6 DEF FenceInv
<1>7. CASE flow["delete"] = "waiting" /\ flow'["delete"] = "stopped" /\ ~StopTimedOut("delete")
  <2>1. seen["delete"] = {} \/ Supervised = {}
    BY <1>7 DEF StopTimedOut
  <2>2. Legacy \subseteq seen["delete"] /\ Legacy \subseteq Supervised
    BY <1>7 DEF FenceInv, Legacy, Supervised, SupervisedPc
  <2>. QED BY <1>2, <1>7, <2>1, <2>2
<1>. QED BY <1>3, <1>4, <1>5, <1>6, <1>7, FlowStep

(***************************************************************************)
(* The generation only grows, and an operation begins in the current one.  *)
(***************************************************************************)
LEMMA GenerationStep ==
    ASSUME TypeOK, FenceInv, [Next]_vars
    PROVE  /\ lifecycle'.state = "none" <=> lifecycle'.generation = 0
           /\ \A i \in Invs : opOf'[i] # NoOp => opOf'[i][2] <= lifecycle'.generation
           /\ lifecycle'.generation >= lifecycle.generation
<1>0. lifecycle.generation \in Nat /\ opOf \in [Invs -> OpIds \cup {NoOp}]
      /\ \A o \in OpIds : o[2] \in Nat
  BY DraftAssumption DEF TypeOK, DraftTypeOK, RuntimeTypeOK, Lifecycle, Generations, OpIds
<1>1. /\ lifecycle'.state = "none" <=> lifecycle'.generation = 0
      /\ lifecycle'.generation \in {lifecycle.generation, lifecycle.generation + 1}
  <2>1. lifecycle.state = "none" <=> lifecycle.generation = 0
    BY DEF FenceInv
  <2>2. CASE Stays \/ Closes \/ StartsDelete \/ Unarchives
    BY <1>0, <2>1, <2>2 DEF Stays, Closes, StartsDelete, Unarchives
  <2>3. CASE Reopens \/ Hides \/ Restores
    BY <1>0, <2>1, <2>3 DEF Reopens, Hides, Restores
  <2>. QED BY <2>2, <2>3, LifecycleNext
<1>2. ASSUME NEW i \in Invs, opOf'[i] # NoOp PROVE opOf'[i][2] <= lifecycle'.generation
  <2>1. CASE opOf'[i] = opOf[i]
    <3>1. opOf[i] \in OpIds /\ opOf[i][2] <= lifecycle.generation
      BY <1>0, <1>2, <2>1 DEF FenceInv
    <3>2. opOf[i][2] \in Nat
      BY <1>0, <3>1
    <3>. QED BY <1>0, <1>1, <2>1, <3>1, <3>2
  <2>2. CASE opOf'[i] = OpFor(BaseOf[i]) /\ UNCHANGED lifecycle
    BY <1>0, <2>2 DEF OpFor
  <2>. QED BY <2>1, <2>2, OpOfStep
<1>. QED BY <1>0, <1>1, <1>2

(***************************************************************************)
(* Without archiving, what is or may become an ordinary process of an      *)
(* active Session is of its generation.                                    *)
(***************************************************************************)
LEMMA ActiveFence ==
    ASSUME TypeOK, ReservationInv, HandleInv, DeleteInv, FenceInv, ~session.archived,
           "archive" \notin Controls, [Next]_vars, lifecycle'.state = "active"
    PROVE  /\ \A i \in Unsafe' : \/ opOf'[i][2] = lifecycle'.generation
                                 \/ opOf'[i][2] = 0 /\ lifecycle'.generation = 1
           /\ lifecycle'.generation > 1 => Legacy' = {}
<1>0. /\ lifecycle.generation \in Nat /\ opOf \in [Invs -> OpIds \cup {NoOp}]
      /\ \A o \in OpIds : o[2] \in Nat /\ NoOp \notin OpIds
  BY DraftAssumption, RuntimeAssumption
     DEF TypeOK, DraftTypeOK, RuntimeTypeOK, Lifecycle, Generations, OpIds
<1>1. \A i \in Unsafe' : i \in Invs /\ i \in Ordinary
  BY DEF Unsafe, Ordinary
<1>2. \A i \in Legacy' : i \in Invs
  BY DEF Legacy
<1>3. \A i \in Unsafe : opOf[i] \in OpIds /\ opOf[i][2] <= lifecycle.generation
  BY <1>0 DEF Unsafe, Ordinary, ReservationInv, InvocationInv, BeforeLaunch, FenceInv
<1>4. lifecycle.state = "none" <=> lifecycle.generation = 0
  BY DEF FenceInv
<1>5. ControlStep => Unsafe' = Unsafe /\ Legacy' = Legacy /\ UNCHANGED opOf
  BY ControlFrame DEF Unsafe, Legacy
<1>6. CASE lifecycle.state = "active" /\ lifecycle'.generation = lifecycle.generation
  <2>1. /\ \A i \in Unsafe : \/ opOf[i][2] = lifecycle.generation
                             \/ opOf[i][2] = 0 /\ lifecycle.generation = 1
        /\ lifecycle.generation > 1 => Legacy = {}
    BY <1>6 DEF FenceInv
  <2>2. Legacy' \subseteq Legacy
    BY <1>2, <1>4, <1>6, LegacyStep
  <2>3. ASSUME NEW i \in Unsafe'
        PROVE  \/ opOf'[i][2] = lifecycle'.generation
               \/ opOf'[i][2] = 0 /\ lifecycle'.generation = 1
    <3>1. opOf'[i] = opOf[i] /\ (i \in Unsafe \/ ReserveInvocation(i))
      BY <1>1, UnsafeStep
    <3>2. CASE i \in Unsafe
      BY <1>6, <2>1, <3>1, <3>2
    <3>3. CASE ReserveInvocation(i)
      <4>1. pc[i] = "admitted" /\ opOf[i][2] \in {0, lifecycle.generation}
        BY <1>1, <1>6, <3>3, OrdinaryReserve DEF HasLifecycle
      <4>2. opOf[i][2] = 0 => lifecycle.generation <= 1
        BY <1>0, <1>1, <2>1, <4>1 DEF Legacy
      <4>3. lifecycle.generation >= 1
        BY <1>0, <1>4, <1>6
      <4>4. opOf[i][2] = 0 => lifecycle.generation = 1
        BY <1>0, <4>2, <4>3
      <4>. QED BY <1>6, <3>1, <4>1, <4>4
    <3>. QED BY <3>1, <3>2, <3>3
  <2>. QED BY <1>6, <2>1, <2>2, <2>3
<1>7. CASE ControlStep /\ Closes /\ lifecycle.state = "none"
  <2>1. lifecycle.generation = 0 /\ lifecycle'.generation = 1
    BY <1>4, <1>7 DEF Closes
  <2>2. \A i \in Unsafe : opOf[i][2] = 0
    BY <1>0, <1>3, <2>1
  <2>. QED BY <1>5, <1>7, <2>1, <2>2
<1>8. CASE ControlStep /\ Restores
  <2>1. lifecycle.state = "deleted"
    BY <1>8 DEF Restores
  <2>2. Legacy = {} /\ Unsafe = {}
    BY <2>1, UnsafeIsReserved DEF FenceInv, DeleteInv
  <2>. QED BY <1>5, <1>8, <2>2
<1>9. CASE Stays \/ (ControlStep /\ (Closes \/ Reopens))
  <2>1. \/ lifecycle.state = "active" /\ lifecycle'.generation = lifecycle.generation
        \/ ControlStep /\ Closes /\ lifecycle.state = "none"
    BY <1>9 DEF Stays, Closes, Reopens
  <2>. QED BY <1>6, <1>7, <2>1
<1>10. ~StartsDelete /\ ~Hides /\ ~Unarchives
  BY DEF StartsDelete, Hides, Unarchives
<1>. QED BY <1>8, <1>9, <1>10, LifecycleNext

(***************************************************************************)
(* The fence is inductive.                                                 *)
(***************************************************************************)
LEMMA FenceNext ==
    ASSUME TypeOK, ReservationInv, HandleInv, DeleteInv, FenceInv,
           "archive" \notin Controls => ~session.archived, [Next]_vars
    PROVE  FenceInv'
<1>1. lifecycle'.state = "deleted" => Legacy' = {}
  <2>. SUFFICES ASSUME lifecycle'.state = "deleted" PROVE Legacy' = {}
    OBVIOUS
  <2>1. \A i \in Legacy' : i \in Invs
    BY DEF Legacy
  <2>2. CASE lifecycle.state = "deleted"
    BY <2>1, <2>2, LegacyStep DEF FenceInv
  <2>3. CASE Hides /\ FinishDelete
    <3>1. Legacy = {}
      BY <2>3 DEF FinishDelete, FenceInv
    <3>2. lifecycle.state = "deleting"
      BY <2>3 DEF Hides
    <3>. QED BY <2>1, <3>1, <3>2, LegacyStep
  <2>. QED BY <2>2, <2>3, LifecycleNext
           DEF Stays, Closes, StartsDelete, Unarchives, Reopens, Restores
<1>. QED BY <1>1, GenerationStep, ActiveFence, DeleteSeesLegacy DEF FenceInv

-----------------------------------------------------------------------------
(* The theorems. *)

AInv == HandleInv /\ FenceInv /\ ResumeInv

\* It holds initially: no invocation has been started.
LEMMA AdmissionInvInit == Init => AInv /\ ArchiveInv
<1>. SUFFICES ASSUME Init PROVE AInv /\ ArchiveInv
  OBVIOUS
<1>1. /\ \A i \in Invs : proc[i] = "none" /\ pc[i] = "idle" /\ opOf[i] = NoOp
      /\ \A o \in OpIds : ops[o].active = NoInv
      /\ lifecycle \in {NoLifecycle, NewLifecycle} /\ ~session.archived /\ resuming = "idle"
      /\ \A c \in Controls : flow[c] = "idle"
  BY DEF Init, DraftInit, RuntimeInit, AbsentOp
<1>2. Unsafe = {} /\ Legacy = {}
  BY <1>1 DEF Unsafe, Ordinary, Legacy, BeforeLaunch
<1>3. HandleInv
  BY <1>1, DraftAssumption DEF HandleInv
<1>4. FenceInv
  BY <1>1, <1>2 DEF FenceInv, NoLifecycle, NewLifecycle
<1>. QED BY <1>1, <1>2, <1>3, <1>4 DEF AInv, ResumeInv, ArchiveInv

(***************************************************************************)
(* Everything that is or may become an ordinary process of a Session is    *)
(* visible to the next stop and belongs to its generation; a resume that   *)
(* waits to reopen has found nothing of the kind.                          *)
(***************************************************************************)
THEOREM AdmissionInvariance ==
    ASSUME ~({"pause", "archive"} \subseteq Controls)
    PROVE  Spec => [](AInv /\ ArchiveInv)
<1>1. Init => AInv /\ ArchiveInv
  BY AdmissionInvInit
<1>2. IInv /\ IInv' /\ AInv /\ ArchiveInv /\ [Next]_vars => (AInv /\ ArchiveInv)'
  <2>. SUFFICES ASSUME IInv, IInv', AInv, ArchiveInv, [Next]_vars PROVE (AInv /\ ArchiveInv)'
    OBVIOUS
  <2>1. HandleInv'
    BY HandleNext DEF IInv, AInv
  <2>2. FenceInv'
    BY FenceNext DEF IInv, AInv, ArchiveInv
  <2>3. ResumeInv' /\ ArchiveInv'
    BY ResumeNext, ArchiveNext DEF IInv, AInv
  <2>. QED BY <2>1, <2>2, <2>3 DEF AInv
<1>. QED BY <1>1, <1>2, Invariance, PTL DEF Spec

(***************************************************************************)
(* A step that opens an active Session finds no ordinary process.          *)
(***************************************************************************)
LEMMA OpensQuiet ==
    ASSUME ResumeInv, ArchiveInv,
           \/ Reopens /\ ReopenAdmission
           \/ Unarchives /\ FinishUnarchive /\ Closed
    PROVE  Unsafe = {}
<1>1. CASE Reopens /\ ReopenAdmission
  BY <1>1 DEF ReopenAdmission, ResumeInv
<1>2. CASE Unarchives /\ FinishUnarchive /\ Closed
  BY <1>2 DEF Unarchives, ArchiveInv
<1>. QED BY <1>1, <1>2

(***************************************************************************)
(* resume and the restore from the archive open the closed admission of an *)
(* active Session only when no process of an ordinary operation runs,      *)
(* whatever start, stop, receipt or restart interleaves with their checks. *)
(***************************************************************************)
THEOREM ReopeningIsSafe ==
    ASSUME ~({"pause", "archive"} \subseteq Controls)
    PROVE  Spec => ReopenIsSafe
<1>1. IInv /\ AInv /\ ArchiveInv /\ [Next]_vars =>
          [lifecycle.state = "active" /\ lifecycle.admission = "closed"
           /\ lifecycle'.admission = "open" =>
               \A i \in Invs : proc[i] = "live" => BaseOf[i] \in Restricted]_vars
  <2>. SUFFICES ASSUME IInv, AInv, ArchiveInv, [Next]_vars, lifecycle.state = "active",
                       lifecycle.admission = "closed", lifecycle'.admission = "open"
                PROVE  \A i \in Invs : proc[i] = "live" => BaseOf[i] \in Restricted
    OBVIOUS
  <2>1. Closed
    BY DEF Closed
  <2>2. \/ Reopens /\ ReopenAdmission
        \/ Unarchives /\ FinishUnarchive
    BY LifecycleNext DEF IInv, Stays, Closes, StartsDelete, Hides, Restores
  <2>3. Unsafe = {}
    BY <2>1, <2>2, OpensQuiet DEF AInv
  <2>. QED BY <2>3 DEF Unsafe, Ordinary
<1>2. Spec => [](IInv /\ AInv /\ ArchiveInv)
  BY Invariance, AdmissionInvariance, PTL
<1>. QED BY <1>1, <1>2, PTL DEF Spec, ReopenIsSafe

(***************************************************************************)
(* An active Session that is never archived runs no ordinary process of an *)
(* earlier generation, whatever deletions and restores it went through.    *)
(***************************************************************************)
THEOREM GenerationIsFenced ==
    ASSUME "archive" \notin Controls
    PROVE  Spec => []GenerationFence
<1>1. AInv => GenerationFence
  BY DEF AInv, FenceInv, Unsafe, Ordinary, GenerationFence
<1>2. ~({"pause", "archive"} \subseteq Controls)
  OBVIOUS
<1>3. Spec => [](AInv /\ ArchiveInv)
  BY <1>2, AdmissionInvariance
<1>. QED BY <1>1, <1>3, PTL

-----------------------------------------------------------------------------
(* The refinement of ExecutionAdmission. *)

(***************************************************************************)
(* The refined Session opens, with no reservation and no process.          *)
(***************************************************************************)
LEMMA AdmissionInit == Init => Admission!Init
<1>. SUFFICES ASSUME Init PROVE Admission!Init
  OBVIOUS
<1>1. Gate = "open"
  BY DEF Init, DraftInit, NoLifecycle, NewLifecycle, Gate
<1>2. ActiveInvs = {} /\ Live = {}
  BY DraftAssumption DEF Init, DraftInit, RuntimeInit, AbsentOp, ActiveInvs, Live
<1>. QED BY <1>1, <1>2 DEF Admission!Init

(***************************************************************************)
(* A live process holds a reservation.                                     *)
(***************************************************************************)
LEMMA LiveIsHeld == ReservationInv => Live \subseteq ActiveInvs
BY DEF ReservationInv, InvocationInv, Live, ActiveInvs

(***************************************************************************)
(* Without a change of the lifecycle the gate stays as it is.              *)
(***************************************************************************)
LEMMA StaysGate == Stays => UNCHANGED Gate
BY DEF Stays, Gate

(***************************************************************************)
(* A step of one invocation admits, launches, ends or releases it, or is   *)
(* invisible.                                                              *)
(***************************************************************************)
LEMMA RuntimeStepAdmission ==
    ASSUME TypeOK, ReservationInv, ReservationInv', HandleInv, NEW i \in Invs, RuntimeStep(i)
    PROVE  \/ Admission!Admit(i) \/ Admission!Launch(i) \/ Admission!Release(i)
           \/ Live \cap {i} # {} /\ Admission!Exit({i})
           \/ UNCHANGED <<Gate, ActiveInvs, Live>>
<1>0. /\ proc \in [Invs -> {"none", "live", "exited"}] /\ NoInv \notin Invs
      /\ OperationInv /\ InvocationInv(i) /\ lifecycle \in Lifecycle
  BY DraftAssumption DEF TypeOK, RuntimeTypeOK, DraftTypeOK, ReservationInv
<1>1. UNCHANGED Gate
  BY OtherLifecycle, StaysGate
<1>2. CASE ReserveInvocation(i)
  <2>1. opOf[i] \in OpIds /\ UNCHANGED <<opOf, proc>> /\ i \notin ActiveInvs
    BY <1>0, <1>2 DEF ReserveInvocation, InvocationInv, BeforeReserve, ActiveInvs, handle
  <2>2. /\ ops[opOf[i]].active = NoInv
        /\ \A o \in OpIds : ops'[o].active = IF o = opOf[i] THEN i ELSE ops[o].active
    BY <1>0, <1>2, <2>1, ReserveEffect DEF ReserveInvocation
  <2>3. ActiveInvs' = ActiveInvs \cup {i}
    BY <1>0, <2>1, <2>2 DEF ActiveInvs
  <2>4. opOf[i][1] = BaseOf[i]
    BY <2>1, RuntimeAssumption DEF HandleInv
  <2>5. /\ lifecycle.state \in {"none", "active"}
        /\ BaseOf[i] \in Restricted \/ lifecycle.admission = "open"
    BY <1>2, <2>4 DEF ReserveInvocation, Reserve, CanReserve, Admits
  <2>6. Gate = "open" \/ (Gate = "closed" /\ BaseOf[i] \in Restricted)
    BY <1>0, <2>5 DEF Gate, Lifecycle
  <2>7. UNCHANGED Live
    BY <2>1 DEF Live
  <2>. QED BY <1>1, <2>1, <2>3, <2>6, <2>7 DEF Admission!Admit
<1>3. CASE Launch(i)
  <2>1. i \in ActiveInvs \ Live
    BY <1>0, <1>3 DEF Launch, InvocationInv, BeforeLaunch, ActiveInvs, Live
  <2>2. UNCHANGED ActiveInvs
    BY <1>3 DEF Launch, durable, ActiveInvs
  <2>3. Live' = Live \cup {i}
    BY <1>0, <1>3 DEF Launch, Live
  <2>. QED BY <1>1, <2>1, <2>2, <2>3 DEF Admission!Launch
<1>4. CASE ProcessExit(i)
  <2>1. i \in Live
    BY <1>4 DEF ProcessExit, Live
  <2>2. UNCHANGED ActiveInvs
    BY <1>4 DEF ProcessExit, durable, ActiveInvs
  <2>3. Live' = Live \ {i}
    BY <1>0, <1>4 DEF ProcessExit, Live
  <2>. QED BY <1>1, <2>1, <2>2, <2>3 DEF Admission!Exit
<1>5. CASE Releases(i) /\ UNCHANGED proc
  <2>1. UNCHANGED Live
    BY <1>5 DEF Live
  <2>2. \A j \in Invs \ {i} : j \in ActiveInvs' <=> j \in ActiveInvs
    BY <1>0, <1>5 DEF Releases, ActiveInvs
  <2>3. i \in ActiveInvs' => i \in ActiveInvs
    BY <1>0, <1>5 DEF Releases, ActiveInvs
  <2>4. ActiveInvs \subseteq Invs /\ ActiveInvs' \subseteq Invs
    BY DEF ActiveInvs
  <2>5. ActiveInvs' = ActiveInvs \/ (i \in ActiveInvs /\ ActiveInvs' = ActiveInvs \ {i})
    BY <2>2, <2>3, <2>4
  <2>6. i \in Live => i \in ActiveInvs'
    BY <2>1 DEF ReservationInv, InvocationInv, Live, ActiveInvs
  <2>. QED BY <1>1, <2>1, <2>5, <2>6 DEF Admission!Release
<1>. QED BY <1>2, <1>3, <1>4, <1>5, ActiveStep, ProcessStep

(***************************************************************************)
(* A control closes, reopens, removes or brings back the Session, or is    *)
(* invisible.                                                              *)
(***************************************************************************)
LEMMA ControlAdmission ==
    ASSUME TypeOK, ReservationInv, DeleteInv, ResumeInv, ArchiveInv, ControlStep
    PROVE  \/ Admission!Close \/ Admission!Reopen \/ Admission!Remove \/ Admission!BringBack
           \/ UNCHANGED <<Gate, ActiveInvs, Live>>
<1>0. lifecycle \in Lifecycle
  BY DEF TypeOK, DraftTypeOK
<1>1. UNCHANGED <<ActiveInvs, Live>>
  BY ControlFrame DEF ActiveInvs, Live
<1>2. CASE Stays
  BY <1>1, <1>2, StaysGate
<1>3. CASE Closes
  BY <1>1, <1>3 DEF Closes, Gate, Admission!Close
<1>4. CASE StartsDelete
  <2>1. Gate' = "closed" /\ Gate = lifecycle.admission
    BY <1>4 DEF StartsDelete, Gate
  <2>. QED BY <1>0, <1>1, <2>1 DEF Lifecycle, Admission!Close
<1>5. CASE (Reopens /\ ReopenAdmission) \/ (Unarchives /\ FinishUnarchive /\ Closed)
  <2>1. Unsafe = {}
    BY <1>5, OpensQuiet
  <2>2. Live \subseteq {i \in Invs : BaseOf[i] \in Restricted}
    BY <2>1 DEF Unsafe, Ordinary, Live
  <2>3. Gate = "closed" /\ Gate' = "open"
    BY <1>5 DEF Reopens, Unarchives, Closed, Gate
  <2>. QED BY <1>1, <2>2, <2>3 DEF Admission!Reopen
<1>6. CASE Unarchives /\ ~Closed
  <2>1. UNCHANGED Gate
    BY <1>0, <1>6 DEF Unarchives, Closed, Gate, Lifecycle
  <2>. QED BY <1>1, <2>1
<1>7. CASE Hides /\ FinishDelete
  <2>1. ActiveInvs = {}
    BY <1>7 DEF FinishDelete, DeleteInv
  <2>2. Live = {}
    BY <2>1, LiveIsHeld
  <2>3. Gate = "closed" /\ Gate' = "gone"
    BY <1>7 DEF Hides, Gate
  <2>. QED BY <1>1, <2>2, <2>3 DEF Admission!Remove
<1>8. CASE Restores
  BY <1>1, <1>8 DEF Restores, Gate, Admission!BringBack
<1>. QED BY <1>2, <1>3, <1>4, <1>5, <1>6, <1>7, <1>8, ControlLifecycle

(***************************************************************************)
(* The Session controls, the supervisor and the stores, with receipts,     *)
(* failed transactions and restarts in any order, implement the admission  *)
(* promise.                                                                *)
(***************************************************************************)
THEOREM AdmissionIsImplemented ==
    ASSUME ~({"pause", "archive"} \subseteq Controls)
    PROVE  Spec => ImplementsAdmission
<1>1. IInv /\ IInv' /\ AInv /\ ArchiveInv /\ [Next]_vars
          => [Admission!Next]_<<Gate, ActiveInvs, Live>>
  <2>. SUFFICES ASSUME IInv, IInv', AInv, ArchiveInv, [Next]_vars
                PROVE  Admission!Next \/ UNCHANGED <<Gate, ActiveInvs, Live>>
    OBVIOUS
  <2>1. ASSUME NEW i \in Invs, RuntimeStep(i)
        PROVE  Admission!Next \/ UNCHANGED <<Gate, ActiveInvs, Live>>
    BY <2>1, RuntimeStepAdmission DEF IInv, AInv, Admission!Next
  <2>2. ASSUME NEW o \in OpIds, ResumeOperation(o)
        PROVE  UNCHANGED <<Gate, ActiveInvs, Live>>
    <3>1. UNCHANGED Gate
      BY <2>2, OtherLifecycle, StaysGate DEF IInv
    <3>2. UNCHANGED <<opOf, proc>>
      BY <2>2 DEF ResumeOperation, runtime, handle
    <3>3. KeepsActive
      BY <2>2, <3>2, ResumeEffect DEF ResumeOperation, IInv, ReservationInv
    <3>. QED BY <3>1, <3>2, <3>3 DEF KeepsActive, ActiveInvs, Live
  <2>3. CASE Restart
    <3>1. UNCHANGED Gate
      BY <2>3, OtherLifecycle, StaysGate DEF IInv
    <3>2. UNCHANGED ActiveInvs
      BY <2>3 DEF Restart, ActiveInvs
    <3>3. Live' \subseteq Live
      BY <2>3 DEF Restart, Live
    <3>4. Live \ Live' \in SUBSET Live /\ Live' = Live \ (Live \ Live')
      BY <3>3
    <3>. QED BY <3>1, <3>2, <3>4 DEF Admission!Exit, Admission!Next
  <2>4. CASE ControlStep
    BY <2>4, ControlAdmission DEF IInv, AInv, Admission!Next
  <2>5. CASE UNCHANGED vars
    BY <2>5 DEF vars, durable, runtime, Gate, ActiveInvs, Live
  <2>. QED BY <2>1, <2>2, <2>3, <2>4, <2>5, NextCases
<1>2. Spec => [](IInv /\ AInv /\ ArchiveInv)
  BY Invariance, AdmissionInvariance, PTL
<1>. QED BY <1>1, <1>2, AdmissionInit, PTL DEF Spec, ImplementsAdmission, Admission!Spec

-----------------------------------------------------------------------------
(***************************************************************************)
(* RuntimeSwitch.  A step of it is a step of SessionsService (a runtime    *)
(* step, a control, a restart) or one of the coordinator; the steps of the *)
(* coordinator touch the Session in few ways (SwitchFrame), which keep its *)
(* invariants.  That a process of the old Runtime is never left when the   *)
(* new one takes over rests on QuietInv: a switch that was found stopped   *)
(* stays so while admission is closed.                                     *)
(***************************************************************************)

\* The steps of the coordinator and the end of the boot: none of them is a Session control.
CoordinatorStep ==
    \/ \E k \in Keys : RequestSwitch(k) \/ AdvanceAgain(k) \/ Execute(k) \/ RecoverSwitch(k)
    \/ FinishBoot

\* Applying a switch: closed admission stays closed, the generation rises.
Raises == /\ lifecycle.state = "active" /\ lifecycle.admission = "closed"
          /\ lifecycle'.state = "active" /\ lifecycle'.admission = "closed"
          /\ lifecycle'.generation = lifecycle.generation + 1

\* What a step of the coordinator may do to the Session.
SwitchFrame ==
    /\ UNCHANGED <<stopRequest, ops, pc, proc, handle, syncTries, faults, correcting,
                   seen, resuming, unarchiving>>
    /\ sync' = sync \/ PruneSync
    /\ flow' = flow \/ \E label \in FlowPc : Step("switch", label)
    /\ session' \in Session /\ session'.archived = session.archived
    /\ lifecycle' \in Lifecycle
    /\ Stays \/ Closes \/ Reopens \/ Raises

-----------------------------------------------------------------------------
(* Which steps there are, and their frames *)

LEMMA SwitchCases ==
    ASSUME SwitchNext
    PROVE  \/ SessionStep /\ Next /\ UNCHANGED switchVars
           \/ \E k \in Keys : PauseFailsSwitch(k) /\ Next
           \/ Crash /\ Next
           \/ CoordinatorStep
<1>1. SessionStep => Next
  BY Zenon DEF SessionStep, UserStep, Next
<1>2. ASSUME NEW k \in Keys, PauseFailsSwitch(k) PROVE Next
  BY <1>2, Zenon DEF PauseFailsSwitch, Next
<1>3. Crash => Next
  BY Zenon DEF Crash, Next
<1>4. QED
  BY <1>1, <1>2, <1>3, Zenon DEF SwitchNext, CoordinatorStep

\* A step that leaves the Session alone.
LEMMA QuietFrame ==
    ASSUME TypeOK, \/ UNCHANGED vars
                   \/ /\ UNCHANGED <<durable, pc, proc, handle, syncTries, faults, correcting, controls>>
                      /\ sync' = sync \/ PruneSync
    PROVE  SwitchFrame /\ Stays /\ UNCHANGED <<lifecycle, session>>
BY DEF SwitchFrame, Stays, vars, durable, runtime, handle, pending, faults, controls,
       TypeOK, DraftTypeOK

LEMMA AdvanceFrame ==
    ASSUME TypeOK, NEW k \in Keys, Advance(k)
    PROVE  SwitchFrame /\ Stays /\ UNCHANGED <<lifecycle, session>>
<1>1. sync' = sync \/ PruneSync
  BY DEF Advance
<1>2. UNCHANGED <<durable, pc, proc, handle, syncTries, faults, correcting, controls>>
  BY DEF Advance
<1>3. QED
  BY <1>1, <1>2, QuietFrame

\* The steps of execute() that reach the Session, and how.
LEMMA ExecuteFrame ==
    ASSUME TypeOK, NEW k \in Keys, Execute(k)
    PROVE  /\ SwitchFrame
           /\ Closes => StopForSwitch(k)
           /\ Raises => Apply(k)
<1> USE DEF Stays, Closes, Reopens, Raises
<1>1. CASE UNCHANGED vars
  <2>1. SwitchFrame /\ Stays
    BY <1>1, QuietFrame
  <2>2. QED
    BY <2>1 DEF TypeOK, DraftTypeOK, Lifecycle, Generations
<1>2. CASE StopForSwitch(k)
  <2>1. UNCHANGED <<session, stopRequest, ops>> /\ (Stays \/ Closes) /\ lifecycle' \in Lifecycle
    <3>1. CloseForStop
      BY <1>2 DEF StopForSwitch
    <3>2. DraftTypeOK'
      BY <3>1, LifecycleStoreType DEF TypeOK
    <3>3. QED
      BY <3>1, <3>2, LifecycleMethods DEF DraftTypeOK
  <2>2. \E label \in FlowPc : Step("switch", label)
    <3>1. Step("switch", IF session.status = "PAUSED" THEN "again" ELSE "closed")
      BY <1>2 DEF StopForSwitch
    <3>2. QED
      BY <3>1 DEF FlowPc
  <2>3. UNCHANGED <<runtime, seen, resuming, unarchiving>>
    BY <1>2 DEF StopForSwitch
  <2>4. ~Raises
    BY <2>1 DEF TypeOK, DraftTypeOK, Lifecycle, Generations
  <2>5. QED
    BY <1>2, <2>1, <2>2, <2>3, <2>4 DEF SwitchFrame, runtime, handle, pending, faults,
                                        TypeOK, DraftTypeOK
<1>3. CASE StopReturns(k)
  <2>1. \E label \in FlowPc : Step("switch", label)
    BY <1>3 DEF StopReturns, FlowPc
  <2>2. SwitchFrame /\ Stays
    BY <1>3, <2>1 DEF StopReturns, SwitchFrame, durable, TypeOK, DraftTypeOK
  <2>3. QED
    BY <2>2 DEF TypeOK, DraftTypeOK, Lifecycle, Generations
<1>4. CASE ConfirmStop(k)
  <2>1. SwitchFrame /\ Stays
    BY <1>4, QuietFrame DEF ConfirmStop
  <2>2. QED
    BY <2>1 DEF TypeOK, DraftTypeOK, Lifecycle, Generations
<1>5. CASE Apply(k)
  <2>1. /\ CanApply(k) /\ lifecycle.generation < MaxGeneration
        /\ lifecycle' = [lifecycle EXCEPT !.generation = @ + 1]
        /\ UNCHANGED <<session, stopRequest, ops, runtime, controls>>
    BY <1>5 DEF Apply, ApplySwitch
  <2>2. Raises
    BY <2>1 DEF CanApply, TypeOK, DraftTypeOK, Lifecycle
  <2>3. lifecycle' \in Lifecycle
    BY <2>1, DraftAssumption DEF TypeOK, DraftTypeOK, Lifecycle, Generations
  <2>4. QED
    BY <1>5, <2>1, <2>2, <2>3 DEF SwitchFrame, runtime, handle, pending, faults, controls,
                                  TypeOK, DraftTypeOK
<1>6. CASE ResumeSwitched(k)
  <2>1. session' = session \/ session' = Executing(session)
    BY <1>6 DEF ResumeSwitched
  <2>2. session' \in Session /\ session'.archived = session.archived
    BY <2>1 DEF Executing, TypeOK, DraftTypeOK, Session
  <2>3. /\ UNCHANGED <<lifecycle, stopRequest, ops, pc, proc, handle, syncTries, faults,
                       correcting, controls>>
        /\ PruneSync
    BY <1>6 DEF ResumeSwitched
  <2>4. SwitchFrame /\ Stays
    BY <2>2, <2>3 DEF SwitchFrame, controls, TypeOK, DraftTypeOK
  <2>5. QED
    BY <2>4 DEF TypeOK, DraftTypeOK, Lifecycle, Generations
<1>7. CASE ReopenForSwitch(k)
  <2>1. Reopen /\ UNCHANGED <<runtime, controls>>
    BY <1>7 DEF ReopenForSwitch
  <2>2. UNCHANGED <<session, stopRequest, ops>> /\ (Stays \/ Reopens)
    BY <2>1, LifecycleMethods, LifecycleStoreFrame
  <2>3. lifecycle' \in Lifecycle
    BY <2>1, LifecycleStoreType DEF TypeOK, DraftTypeOK
  <2>4. QED
    BY <2>1, <2>2, <2>3 DEF SwitchFrame, runtime, handle, pending, faults, controls,
                            TypeOK, DraftTypeOK, Lifecycle, Generations
<1>8. CASE SwitchResumed(k)
  <2>1. session' \in Session /\ session'.archived = session.archived
    BY <1>8 DEF SwitchResumed, Executing, TypeOK, DraftTypeOK, Session
  <2>2. SwitchFrame /\ Stays
    BY <1>8, <2>1 DEF SwitchResumed, SwitchFrame, runtime, handle, pending, faults, controls,
                      TypeOK, DraftTypeOK
  <2>3. QED
    BY <2>2 DEF TypeOK, DraftTypeOK, Lifecycle, Generations
<1>9. QED
  <2>1. \/ StopForSwitch(k) \/ StopReturns(k) \/ ConfirmStop(k) \/ Apply(k)
        \/ ResumeSwitched(k) \/ ReopenForSwitch(k) \/ SwitchResumed(k)
        \/ UNCHANGED vars
    BY DEF Execute, PreflightPasses, PreflightFails, MarkPreflighted, MarkStopping, StopThrows,
           RecheckPasses, RecheckFails, ApplyFails, ReopenThrows, CompleteSwitch, FailSwitch,
           Throw, Move
  <2>2. QED
    BY <2>1, <1>1, <1>2, <1>3, <1>4, <1>5, <1>6, <1>7, <1>8, Zenon

LEMMA CoordinatorFrame ==
    ASSUME TypeOK, CoordinatorStep
    PROVE  /\ SwitchFrame
           /\ Closes => \E k \in Keys : StopForSwitch(k)
           /\ Raises => \E k \in Keys : Apply(k)
<1>1. ASSUME SwitchFrame, Stays PROVE ~Closes /\ ~Raises
  BY <1>1 DEF Stays, Closes, Raises, TypeOK, DraftTypeOK, Lifecycle, Generations
<1>2. ASSUME NEW k \in Keys, RequestSwitch(k) \/ AdvanceAgain(k) PROVE SwitchFrame /\ Stays
  BY <1>2, AdvanceFrame DEF RequestSwitch, AdvanceAgain
<1>3. ASSUME NEW k \in Keys, RecoverSwitch(k) PROVE SwitchFrame /\ Stays
  BY <1>3, AdvanceFrame, QuietFrame DEF RecoverSwitch
<1>4. ASSUME FinishBoot PROVE SwitchFrame /\ Stays
  <2>1. session' \in Session /\ session'.archived = session.archived
    BY <1>4 DEF FinishBoot, TypeOK, DraftTypeOK, Session
  <2>2. QED
    BY <1>4, <2>1 DEF FinishBoot, SwitchFrame, Stays, runtime, handle, pending, faults,
                      controls, TypeOK, DraftTypeOK
<1>5. ASSUME NEW k \in Keys, Execute(k)
      PROVE  SwitchFrame /\ (Closes => StopForSwitch(k)) /\ (Raises => Apply(k))
  BY <1>5, ExecuteFrame
<1>6. QED
  BY <1>1, <1>2, <1>3, <1>4, <1>5, Zenon DEF CoordinatorStep

-----------------------------------------------------------------------------
(* The invariants of the Session under the coordinator's steps *)

LEMMA FrameType ==
    ASSUME TypeOK, SwitchFrame
    PROVE  TypeOK'
<1>1. DraftTypeOK'
  BY DEF TypeOK, DraftTypeOK, SwitchFrame
<1>2. sync' \in [Invs -> {"none", "confirmed", "unconfirmed"}]
  BY DEF SwitchFrame, PruneSync, TypeOK, RuntimeTypeOK
<1>3. RuntimeTypeOK'
  BY <1>2 DEF SwitchFrame, handle, faults, TypeOK, RuntimeTypeOK
<1>4. flow' \in [Controls -> FlowPc]
  BY DEF SwitchFrame, Step, TypeOK, ControlsTypeOK
<1>5. ControlsTypeOK'
  BY <1>4 DEF SwitchFrame, TypeOK, ControlsTypeOK
<1>6. QED
  BY <1>1, <1>3, <1>5 DEF TypeOK

\* No reservation, process or stop request moves, and no Session is deleted or restored.
LEMMA FrameInv ==
    ASSUME IInv, SwitchFrame
    PROVE  IInv'
<1>1. TypeOK'
  BY FrameType DEF IInv
<1>2. ReservationInv'
  <2>1. OperationInv'
    BY DEF IInv, ReservationInv, OperationInv, SwitchFrame, handle
  <2>2. ASSUME NEW j \in Invs PROVE InvocationInv(j)'
    <3>1. InvocationInv(j)
      BY DEF IInv, ReservationInv
    <3>2. pc'[j] = pc[j] /\ proc'[j] = proc[j] /\ opOf'[j] = opOf[j]
      BY DEF SwitchFrame, handle
    <3>3. sync'[j] \in {sync[j], "none"}
      BY DEF SwitchFrame, PruneSync
    <3>4. \A o \in OpIds : (ops'[o].active = j) <=> (ops[o].active = j)
      BY DEF SwitchFrame
    <3>5. QED
      BY <3>1, <3>2, <3>3, <3>4, OtherInvocation
  <2>3. QED
    BY <2>1, <2>2 DEF ReservationInv
<1>3. StopStep
  <2>1. KeepsActive /\ LaunchFrame
    BY DEF SwitchFrame, KeepsActive, LaunchFrame
  <2>2. QED
    BY <2>1, QuietStop DEF IInv, SwitchFrame
<1>4. DeleteInv'
  <2>1. ActiveInvs' = ActiveInvs
    BY DEF SwitchFrame, ActiveInvs
  <2>2. lifecycle'.state = lifecycle.state \/ Closes
    BY DEF SwitchFrame, Stays, Reopens, Raises
  <2>3. "delete" \in Controls => flow'["delete"] = flow["delete"]
    BY DEF SwitchFrame, Step, IInv, TypeOK, ControlsTypeOK
  <2>4. requestFailed' = requestFailed /\ stopRequest' = stopRequest
    BY DEF SwitchFrame, faults
  <2>5. CASE Closes
    BY <2>5, <2>1, <2>3, <2>4 DEF Closes, IInv, DeleteInv
  <2>6. CASE lifecycle'.state = lifecycle.state
    BY <2>6, <2>1, <2>3, <2>4 DEF IInv, DeleteInv
  <2>7. QED
    BY <2>2, <2>5, <2>6
<1>5. QED
  BY <1>1, <1>2, <1>3, <1>4 DEF IInv, StopStep

\* A pending settle is dropped only when its invocation is not live any more.
LEMMA FrameHandle ==
    ASSUME TypeOK, ReservationInv, HandleInv, SwitchFrame
    PROVE  HandleInv'
<1>1. \A o \in OpIds : ops'[o] = ops[o]
  BY DEF SwitchFrame
<1>2. ASSUME NEW i \in Internal, proc'[i] = "live"
      PROVE  (i \in Supervised \/ sync[i] # "none" \/ ops[opOf[i]].stop = "unconfirmed")'
  <2>1. i \in Invs /\ proc[i] = "live"
    BY <1>2, DraftAssumption DEF SwitchFrame
  <2>2. i \in Supervised \/ sync[i] # "none" \/ ops[opOf[i]].stop = "unconfirmed"
    BY <1>2, <2>1 DEF HandleInv
  <2>3. ~Resolved(i)
    BY <2>1 DEF ReservationInv, InvocationInv, Resolved
  <2>4. sync'[i] = sync[i]
    BY <2>1, <2>3 DEF SwitchFrame, PruneSync
  <2>5. QED
    BY <2>1, <2>2, <2>4 DEF SwitchFrame, Supervised, handle
<1>3. \A i \in Invs : opOf'[i] # NoOp => opOf'[i][1] = BaseOf[i]
  BY DEF SwitchFrame, handle, HandleInv
<1>4. QED
  BY <1>1, <1>2, <1>3, Zenon DEF HandleInv

(***************************************************************************)
(* The fence between generations stays closed, provided nothing ordinary   *)
(* runs when a switch raises the generation.                               *)
(***************************************************************************)
LEMMA FrameFence ==
    ASSUME TypeOK, ReservationInv, FenceInv, SwitchFrame, Raises => Unsafe = {} /\ Legacy = {}
    PROVE  FenceInv'
<1>1. /\ lifecycle.generation \in Nat /\ lifecycle'.generation \in Nat
      /\ \A i \in Invs : opOf[i] # NoOp => opOf[i][2] \in Nat
  BY DraftAssumption DEF SwitchFrame, TypeOK, DraftTypeOK, RuntimeTypeOK, Lifecycle, OpIds,
                         Generations
<1>2. Unsafe' = Unsafe /\ Legacy' = Legacy /\ opOf' = opOf
  BY DEF SwitchFrame, Unsafe, Ordinary, Legacy, handle
<1>3. lifecycle'.generation >= lifecycle.generation
  BY <1>1 DEF SwitchFrame, Stays, Closes, Reopens, Raises, FenceInv
<1>4. lifecycle'.state = "none" <=> lifecycle'.generation = 0
  BY <1>1 DEF SwitchFrame, Stays, Closes, Reopens, Raises, FenceInv
<1>5. \A i \in Invs : opOf'[i] # NoOp => opOf'[i][2] <= lifecycle'.generation
  BY <1>1, <1>2, <1>3 DEF FenceInv
<1>6. ASSUME lifecycle'.state = "active", "archive" \notin Controls
      PROVE  /\ \A i \in Unsafe' : \/ opOf'[i][2] = lifecycle'.generation
                                   \/ opOf'[i][2] = 0 /\ lifecycle'.generation = 1
             /\ lifecycle'.generation > 1 => Legacy' = {}
  <2>1. CASE Raises
    BY <2>1, <1>2
  <2>2. CASE lifecycle.state = "active" /\ lifecycle'.generation = lifecycle.generation
    BY <2>2, <1>2, <1>6 DEF FenceInv
  <2>3. CASE lifecycle.state = "none" /\ lifecycle'.generation = 1
    <3>1. \A i \in Invs : opOf[i] # NoOp => opOf[i][2] = 0
      BY <2>3, <1>1 DEF FenceInv
    <3>2. \A i \in Unsafe : opOf[i] # NoOp
      BY RuntimeAssumption DEF Unsafe, Ordinary, BeforeLaunch, ReservationInv, InvocationInv
    <3>3. QED
      BY <2>3, <1>2, <3>1, <3>2 DEF Unsafe, Ordinary
  <2>4. QED
    BY <1>6, <2>1, <2>2, <2>3 DEF SwitchFrame, Stays, Closes, Reopens
<1>7. lifecycle'.state = "deleted" => Legacy' = {}
  BY <1>2 DEF SwitchFrame, Stays, Closes, Reopens, Raises, FenceInv
<1>8. ASSUME "delete" \in Controls
      PROVE  /\ flow'["delete"] \in {"requesting", "waiting"} => Legacy' \subseteq seen'["delete"]
             /\ flow'["delete"] = "stopped" => Legacy' = {}
  <2>1. flow'["delete"] = flow["delete"] /\ seen' = seen
    BY <1>8 DEF SwitchFrame, Step, TypeOK, ControlsTypeOK
  <2>2. QED
    BY <1>2, <1>8, <2>1 DEF FenceInv
<1>9. QED
  BY <1>4, <1>5, <1>6, <1>7, <1>8 DEF FenceInv

-----------------------------------------------------------------------------
(* The requests and the coordinator *)

ExecOK == /\ exec \in [key : Keys \cup {NoKey}, at : ExecPc]
          /\ exec.key = NoKey <=> exec.at = "idle"

\* A request keeps its status or takes one the transition table allows.
MovesOn == \A k \in Keys :
               requests'[k].status \in {requests[k].status} \cup Successors(requests[k].status)

\* A new request, while no other is unresolved.
Opens == \E k \in Keys : /\ CanOpen(k)
                         /\ requests'[k].status = "requested"
                         /\ \A l \in Keys \ {k} : requests'[l] = requests[l]

LEMMA AwaitOK ==
    ASSUME NEW k \in Keys
    PROVE  /\ Return => ExecOK'
           /\ \A place \in ExecPc \ {"idle"} : Await(k, place) => ExecOK'
BY SwitchAssumption DEF Return, Await, Idle, ExecOK, ExecPc

LEMMA SetStatusOK ==
    ASSUME SwitchTypeOK, NEW k \in Keys, NEW next \in SwitchStatus, SetStatus(k, next),
           next \in {requests[k].status} \cup Successors(requests[k].status)
    PROVE  requests' \in [Keys -> Request] /\ MovesOn
<1>1. requests' \in [Keys -> Request]
  BY DEF SetStatus, SwitchTypeOK, Request
<1>2. \A l \in Keys : requests'[l].status = IF l = k THEN next ELSE requests[l].status
  BY DEF SetStatus, SwitchTypeOK, Request
<1>3. QED
  BY <1>1, <1>2 DEF MovesOn

LEMMA SameRequests ==
    ASSUME SwitchTypeOK, UNCHANGED requests
    PROVE  requests' \in [Keys -> Request] /\ MovesOn
BY DEF SwitchTypeOK, MovesOn

\* A transition, or the failure of a request that is not settled.
LEMMA TransitionOK ==
    ASSUME SwitchTypeOK, NEW k \in Keys, NEW next \in SwitchStatus, SetStatus(k, next),
           (\E g : CanTransition(k, next, g)) \/ (k \in Unresolved /\ next = "failed")
    PROVE  requests' \in [Keys -> Request] /\ MovesOn
<1>1. next \in {requests[k].status} \cup Successors(requests[k].status)
  <2>1. CASE \E g : CanTransition(k, next, g)
    BY <2>1 DEF CanTransition
  <2>2. CASE k \in Unresolved /\ next = "failed"
    <3>1. requests[k].status \in SwitchStatus \ {"absent", "completed", "failed"}
      BY <2>2 DEF Unresolved, Terminal, SwitchTypeOK, Request
    <3>2. QED
      BY <2>2, <3>1 DEF Successors, SwitchStatus
  <2>3. QED
    BY <2>1, <2>2
<1>2. QED
  BY <1>1, SetStatusOK

\* advance: which await a request is taken up at.
LEMMA AdvanceExec ==
    ASSUME SwitchTypeOK, NEW k \in Keys, Advance(k), requests' \in [Keys -> Request]
    PROVE  /\ ExecOK'
           /\ exec' = exec \/ exec'.at # "resuming" \/ requests'[exec'.key].status = "applying"
           /\ exec' = exec \/ exec'.at \notin {"recheck", "applying"}
                           \/ (exec'.key = k /\ exec'.at = "recheck" /\ Stopped)
<1>1. CASE UNCHANGED exec
  BY <1>1 DEF SwitchTypeOK, ExecOK
<1>2. CASE Return
  <2>1. exec'.at = "idle"
    BY <1>2 DEF Return, Idle
  <2>2. QED
    BY <1>2, <2>1, AwaitOK
<1>3. CASE Await(k, "failing")
  <2>1. exec'.at = "failing"
    BY <1>3 DEF Await
  <2>2. QED
    BY <1>3, <2>1, AwaitOK DEF ExecPc
<1>4. CASE FirstAwait(k) # "idle" /\ Await(k, FirstAwait(k))
  <2>1. exec'.key = k /\ exec'.at = FirstAwait(k)
    BY <1>4 DEF Await
  <2>2. requests'[k].status \in SwitchStatus
    BY DEF Request
  <2>3. /\ FirstAwait(k) \in ExecPc
        /\ FirstAwait(k) = "resuming" => requests'[k].status = "applying"
        /\ FirstAwait(k) = "recheck" => Stopped
        /\ FirstAwait(k) # "applying"
    <3> DEFINE status == requests'[k].status
    <3>1. status \in SwitchStatus
      BY <2>2
    <3> HIDE DEF status
    <3>2. FirstAwait(k) =
              IF ~Visible THEN "failing"
              ELSE CASE status = "requested" -> "preflight"
                     [] status = "preflighted" -> "repreflight"
                     [] status = "stopping" -> "closing"
                     [] status = "stop_confirmed" /\ Stopped -> "recheck"
                     [] status = "applying" -> IF k \in Resumes THEN "resuming" ELSE "completing"
                     [] OTHER -> "idle"
      BY DEF FirstAwait, status
    <3>3. QED
      BY <3>1, <3>2 DEF SwitchStatus, ExecPc, status
  <2>4. ExecOK'
    BY <1>4, <2>3, AwaitOK
  <2>5. QED
    BY <2>1, <2>3, <2>4
<1>5. QED
  BY <1>1, <1>2, <1>3, <1>4 DEF Advance

\* The call of resume, once per request: its intention is durable.
Dispatches(k) ==
    /\ At(k, "resuming")
    /\ requests'[k].status = "resuming"
    /\ exec'.at # "resuming"
    /\ dispatched' = [dispatched EXCEPT ![k] = IF @ < 2 THEN @ + 1 ELSE @]

\* Where the coordinator is after a step of execute().
ExecuteMoves(k) ==
    /\ exec.key = k
    /\ ExecOK'
    /\ exec'.at = "resuming" => requests'[exec'.key].status = "applying"
    /\ exec'.at = "recheck" => ConfirmStop(k) /\ exec'.key = k /\ Stopped
    /\ exec'.at = "applying" => At(k, "recheck") /\ exec'.key = k /\ UNCHANGED requests

LEMMA ExecuteStep ==
    ASSUME SwitchTypeOK, NEW k \in Keys, Execute(k)
    PROVE  /\ ExecuteMoves(k)
           /\ requests' \in [Keys -> Request]
           /\ MovesOn
           /\ UNCHANGED boot
           /\ UNCHANGED dispatched \/ Dispatches(k)
           /\ Apply(k) \/ \A l \in Keys : requests'[l].status = "applying" =>
                                              requests[l].status = "applying"
<1> DEFINE Goal == /\ ExecuteMoves(k)
                   /\ requests' \in [Keys -> Request] /\ MovesOn
                   /\ UNCHANGED boot
                   /\ UNCHANGED dispatched \/ Dispatches(k)
                   /\ Apply(k) \/ \A l \in Keys : requests'[l].status = "applying" =>
                                                      requests[l].status = "applying"
           Quiet == {"failing", "preflighted", "stopping", "closing", "halting", "confirming",
                     "reopening", "reopened", "completing"}
<1>1. ASSUME exec.key = k, Return \/ \E place \in Quiet : Await(k, place)
      PROVE  ExecuteMoves(k)
  <2>1. ExecOK'
    BY <1>1, AwaitOK DEF ExecPc
  <2>2. exec'.at \in {"idle"} \cup Quiet
    BY <1>1 DEF Return, Idle, Await
  <2>3. QED
    BY <1>1, <2>1, <2>2 DEF ExecuteMoves
<1>2. ASSUME NEW next \in SwitchStatus \ {"applying"}, SetStatus(k, next)
      PROVE  \A l \in Keys : requests'[l].status = "applying" => requests[l].status = "applying"
  BY <1>2 DEF SetStatus, SwitchTypeOK, Request
<1>3. ASSUME UNCHANGED requests
      PROVE  requests' \in [Keys -> Request] /\ MovesOn
  BY <1>3, SameRequests
<1>4. ASSUME NEW from \in ExecPc, Throw(k, from)
      PROVE  Goal
  <2>1. exec.key = k /\ Await(k, "failing") /\ UNCHANGED <<requests, boot, dispatched>>
    BY <1>4 DEF Throw, At
  <2>2. QED
    BY <2>1, <1>1, <1>3
<1>5. ASSUME PreflightPasses(k)
      PROVE  Goal
  <2>1. exec.key = k /\ UNCHANGED <<requests, boot, dispatched>>
    BY <1>5 DEF PreflightPasses, At
  <2>2. Return \/ Await(k, "preflighted") \/ Await(k, "stopping")
    BY <1>5 DEF PreflightPasses, AwaitStop
  <2>3. QED
    BY <2>1, <2>2, <1>1, <1>3
<1>6. ASSUME MarkPreflighted(k)
      PROVE  Goal
  <2>1. exec.key = k /\ UNCHANGED <<boot, dispatched>>
    BY <1>6 DEF MarkPreflighted, At
  <2>2. Return \/ Await(k, "failing") \/ Await(k, "stopping")
    BY <1>6 DEF MarkPreflighted, AwaitStop
  <2>3. \/ UNCHANGED requests
        \/ /\ CanTransition(k, "preflighted", requests[k].generation)
           /\ SetStatus(k, "preflighted")
    BY <1>6 DEF MarkPreflighted
  <2>4. QED
    BY <2>1, <2>2, <2>3, <1>1, <1>2, <1>3, TransitionOK DEF SwitchStatus
<1>7. ASSUME MarkStopping(k)
      PROVE  Goal
  <2>1. exec.key = k /\ UNCHANGED <<boot, dispatched>>
    BY <1>7 DEF MarkStopping, Move, At
  <2>2. Await(k, "failing") \/ Await(k, "closing")
    BY <1>7 DEF MarkStopping, Move
  <2>3. \/ UNCHANGED requests
        \/ /\ CanTransition(k, "stopping", requests[k].generation)
           /\ SetStatus(k, "stopping")
    BY <1>7 DEF MarkStopping, Move
  <2>4. QED
    BY <2>1, <2>2, <2>3, <1>1, <1>2, <1>3, TransitionOK DEF SwitchStatus
<1>8. ASSUME StopForSwitch(k) \/ StopThrows(k) \/ StopReturns(k)
      PROVE  Goal
  <2>1. exec.key = k /\ UNCHANGED <<requests, boot, dispatched>>
    BY <1>8 DEF StopForSwitch, StopThrows, StopReturns, At
  <2>2. Return \/ Await(k, "halting") \/ Await(k, "confirming")
    BY <1>8 DEF StopForSwitch, StopThrows, StopReturns
  <2>3. QED
    BY <2>1, <2>2, <1>1, <1>3
<1>9. ASSUME ConfirmStop(k)
      PROVE  Goal
  <2>1. exec.key = k /\ UNCHANGED <<boot, dispatched>>
    BY <1>9 DEF ConfirmStop, At
  <2>2. Return \/ Await(k, "failing") \/ (Await(k, "recheck") /\ Stopped)
    BY <1>9 DEF ConfirmStop
  <2>3. \/ UNCHANGED requests
        \/ /\ CanTransition(k, "stop_confirmed", requests[k].generation)
           /\ SetStatus(k, "stop_confirmed")
    BY <1>9 DEF ConfirmStop
  <2>4. ExecuteMoves(k)
    <3>1. CASE Await(k, "recheck") /\ Stopped
      <4>1. ExecOK'
        BY <3>1, AwaitOK DEF ExecPc
      <4>2. exec'.key = k /\ exec'.at = "recheck"
        BY <3>1 DEF Await
      <4>3. QED
        BY <1>9, <2>1, <3>1, <4>1, <4>2 DEF ExecuteMoves
    <3>2. QED
      BY <2>1, <2>2, <3>1, <1>1
  <2>5. QED
    BY <2>1, <2>3, <2>4, <1>2, <1>3, TransitionOK DEF SwitchStatus
<1>10. ASSUME RecheckPasses(k)
       PROVE  Goal
  <2>1. At(k, "recheck") /\ Await(k, "applying") /\ UNCHANGED <<requests, boot, dispatched>>
    BY <1>10 DEF RecheckPasses
  <2>2. ExecOK'
    BY <2>1, AwaitOK DEF ExecPc
  <2>3. exec.key = k /\ exec'.key = k /\ exec'.at = "applying"
    BY <2>1 DEF At, Await
  <2>4. ExecuteMoves(k)
    BY <2>1, <2>2, <2>3 DEF ExecuteMoves
  <2>5. QED
    BY <2>1, <2>4, <1>3
<1>11. ASSUME Apply(k)
       PROVE  Goal
  <2>1. /\ exec.key = k /\ UNCHANGED <<boot, dispatched>>
        /\ requests[k].status = "stop_confirmed"
        /\ lifecycle.generation < MaxGeneration
        /\ requests' = [requests EXCEPT ![k].status = "applying",
                                        ![k].generation = lifecycle.generation + 1]
    BY <1>11 DEF Apply, At, ApplySwitch, CanApply
  <2>2. lifecycle.generation + 1 \in Generations
    BY <2>1, DraftAssumption DEF SwitchTypeOK, TypeOK, DraftTypeOK, Lifecycle, Generations
  <2>3. requests' \in [Keys -> Request]
    <3>1. requests \in [Keys -> Request]
      BY DEF SwitchTypeOK
    <3>2. "applying" \in SwitchStatus
      BY DEF SwitchStatus
    <3>3. QED
      BY <2>1, <2>2, <3>1, <3>2 DEF Request
  <2>4. \A l \in Keys : requests'[l].status = IF l = k THEN "applying" ELSE requests[l].status
    BY <2>1 DEF SwitchTypeOK, Request
  <2>5. MovesOn
    <3>1. "applying" \in Successors("stop_confirmed")
      BY DEF Successors
    <3>2. QED
      BY <2>1, <2>4, <3>1 DEF MovesOn
  <2>6. Await(k, "resuming") \/ Await(k, "completing")
    BY <1>11 DEF Apply
  <2>7. ExecuteMoves(k)
    <3>1. exec'.key = k /\ exec'.at \in {"resuming", "completing"}
      BY <2>6 DEF Await
    <3>2. ExecOK'
      BY <2>6, AwaitOK DEF ExecPc
    <3>3. QED
      BY <2>1, <2>4, <3>1, <3>2 DEF ExecuteMoves
  <2>8. QED
    BY <1>11, <2>1, <2>3, <2>5, <2>7
<1>12. ASSUME ResumeSwitched(k)
       PROVE  Goal
  <2>1. At(k, "resuming") /\ exec.key = k /\ UNCHANGED boot
    BY <1>12 DEF ResumeSwitched, At
  <2>2. Await(k, "failing") \/ Await(k, "completing") \/ Await(k, "reopening")
    BY <1>12 DEF ResumeSwitched
  <2>3. \/ UNCHANGED <<requests, dispatched>>
        \/ /\ CanTransition(k, "resuming", requests[k].generation)
           /\ SetStatus(k, "resuming")
           /\ dispatched' = [dispatched EXCEPT ![k] = IF @ < 2 THEN @ + 1 ELSE @]
    BY <1>12 DEF ResumeSwitched, ResumeStatus
  <2>4. ExecuteMoves(k)
    BY <2>1, <2>2, <1>1
  <2>5. exec'.at # "resuming"
    BY <2>2 DEF Await
  <2>6. CASE UNCHANGED <<requests, dispatched>>
    BY <2>1, <2>4, <2>6, <1>3
  <2>7. CASE /\ CanTransition(k, "resuming", requests[k].generation)
             /\ SetStatus(k, "resuming")
             /\ dispatched' = [dispatched EXCEPT ![k] = IF @ < 2 THEN @ + 1 ELSE @]
    <3>1. requests'[k].status = "resuming"
      BY <2>7 DEF SetStatus, SwitchTypeOK, Request
    <3>2. Dispatches(k)
      BY <2>1, <2>5, <2>7, <3>1 DEF Dispatches
    <3>3. QED
      BY <2>1, <2>4, <2>7, <3>2, <1>2, TransitionOK DEF SwitchStatus
  <2>8. QED
    BY <2>3, <2>6, <2>7
<1>13. ASSUME ReopenForSwitch(k) \/ SwitchResumed(k)
       PROVE  Goal
  <2>1. exec.key = k /\ UNCHANGED <<requests, boot, dispatched>>
    BY <1>13 DEF ReopenForSwitch, SwitchResumed, At
  <2>2. Await(k, "reopened") \/ Await(k, "completing")
    BY <1>13 DEF ReopenForSwitch, SwitchResumed
  <2>3. QED
    BY <2>1, <2>2, <1>1, <1>3
<1>14. ASSUME CompleteSwitch(k)
       PROVE  Goal
  <2>1. exec.key = k /\ UNCHANGED <<boot, dispatched>>
    BY <1>14 DEF CompleteSwitch, At
  <2>2. Return \/ Await(k, "failing")
    BY <1>14 DEF CompleteSwitch
  <2>3. \/ UNCHANGED requests
        \/ /\ CanTransition(k, "completed", requests[k].generation)
           /\ SetStatus(k, "completed")
    BY <1>14 DEF CompleteSwitch
  <2>4. QED
    BY <2>1, <2>2, <2>3, <1>1, <1>2, <1>3, TransitionOK DEF SwitchStatus
<1>15. ASSUME FailSwitch(k)
       PROVE  Goal
  <2>1. exec.key = k /\ UNCHANGED <<boot, dispatched>> /\ Return
    BY <1>15 DEF FailSwitch, At
  <2>2. UNCHANGED requests \/ (k \in Unresolved /\ SetStatus(k, "failed"))
    BY <1>15 DEF FailSwitch
  <2>3. QED
    BY <2>1, <2>2, <1>1, <1>2, <1>3, TransitionOK DEF SwitchStatus
<1>16. Goal
  <2>1. "preflight" \in ExecPc /\ "repreflight" \in ExecPc /\ "recheck" \in ExecPc
        /\ "applying" \in ExecPc /\ "reopening" \in ExecPc
    BY DEF ExecPc
  <2>2. QED
    BY <2>1, <1>4, <1>5, <1>6, <1>7, <1>8, <1>9, <1>10, <1>11, <1>12, <1>13, <1>14, <1>15, Zenon
       DEF Execute, PreflightFails, RecheckFails, ApplyFails, ReopenThrows
<1>17. QED
  BY <1>16

\* No request becomes confirmed.
KeepsConfirmed ==
    \A k \in Keys : requests'[k].status = "stop_confirmed" => requests[k].status = "stop_confirmed"

\* The same for every step beside the controls of the Session.
ExecMoves ==
    /\ ExecOK'
    /\ exec' = exec \/ exec'.at # "resuming" \/ requests'[exec'.key].status = "applying"
    /\ \/ exec' = exec /\ KeepsConfirmed
       \/ exec'.at \notin {"recheck", "applying"}
       \/ exec'.at = "recheck" /\ Stopped /\ Stays
       \/ /\ exec'.at = "applying" /\ exec.at = "recheck" /\ exec'.key = exec.key
          /\ Stays /\ UNCHANGED requests

LEMMA RequestStep ==
    ASSUME SwitchTypeOK, NEW k \in Keys, RequestSwitch(k)
    PROVE  requests' \in [Keys -> Request] /\ (MovesOn \/ Opens)
<1>1. CASE UNCHANGED requests
  BY <1>1, SameRequests
<1>2. ASSUME CanOpen(k), NEW deferred \in BOOLEAN,
             requests' = [requests EXCEPT ![k] = [status |-> "requested",
                              generation |-> lifecycle.generation, deferred |-> deferred]]
      PROVE  requests' \in [Keys -> Request] /\ Opens
  <2>1. lifecycle.generation \in Generations
    BY DEF SwitchTypeOK, TypeOK, DraftTypeOK, Lifecycle
  <2>2. [status |-> "requested", generation |-> lifecycle.generation, deferred |-> deferred]
            \in Request
    BY <2>1 DEF Request, SwitchStatus
  <2>3. requests' \in [Keys -> Request]
    BY <1>2, <2>2 DEF SwitchTypeOK
  <2>4. requests'[k].status = "requested" /\ \A l \in Keys \ {k} : requests'[l] = requests[l]
    BY <1>2 DEF SwitchTypeOK
  <2>5. QED
    BY <1>2, <2>3, <2>4 DEF Opens
<1>3. QED
  BY <1>1, <1>2 DEF RequestSwitch

LEMMA RecoverStep ==
    ASSUME SwitchTypeOK, NEW k \in Keys, RecoverSwitch(k)
    PROVE  requests' \in [Keys -> Request] /\ MovesOn /\ (UNCHANGED exec \/ Advance(k))
           /\ KeepsConfirmed
           /\ \A l \in Keys : requests'[l].status = "applying" => requests[l].status = "applying"
<1>1. CASE UNCHANGED requests
  <2>1. UNCHANGED exec \/ Advance(k)
    BY <1>1 DEF RecoverSwitch
  <2>2. QED
    BY <1>1, <2>1, SameRequests DEF KeepsConfirmed
<1>2. CASE CanTransition(k, "failed", requests[k].generation) /\ SetStatus(k, "failed")
           /\ UNCHANGED exec
  <2>1. /\ \A l \in Keys : requests'[l].status = "applying" => requests[l].status = "applying"
        /\ KeepsConfirmed
    BY <1>2 DEF SetStatus, SwitchTypeOK, Request, KeepsConfirmed
  <2>2. QED
    BY <1>2, <2>1, TransitionOK DEF SwitchStatus
<1>3. QED
  BY <1>1, <1>2 DEF RecoverSwitch

LEMMA CoordinatorMoves ==
    ASSUME SwitchTypeOK, CoordinatorStep
    PROVE  /\ ExecMoves
           /\ requests' \in [Keys -> Request]
           /\ MovesOn \/ Opens
           /\ boot' \in {"up", "crashed", "recovered"}
           /\ UNCHANGED dispatched \/ \E k \in Keys : Dispatches(k)
           /\ \/ \E k \in Keys : Apply(k)
              \/ \A l \in Keys : requests'[l].status = "applying" => requests[l].status = "applying"
<1> DEFINE Goal == /\ ExecMoves
                   /\ requests' \in [Keys -> Request]
                   /\ MovesOn \/ Opens
                   /\ boot' \in {"up", "crashed", "recovered"}
                   /\ UNCHANGED dispatched \/ \E k \in Keys : Dispatches(k)
                   /\ \/ \E k \in Keys : Apply(k)
                      \/ \A l \in Keys : requests'[l].status = "applying" =>
                                             requests[l].status = "applying"
<1>1. TypeOK /\ boot \in {"up", "crashed", "recovered"}
  BY DEF SwitchTypeOK
<1>2. ASSUME UNCHANGED exec, KeepsConfirmed PROVE ExecMoves
  BY <1>2 DEF ExecMoves, ExecOK, SwitchTypeOK
<1>3. ASSUME NEW k \in Keys, Advance(k), requests' \in [Keys -> Request], KeepsConfirmed
      PROVE  ExecMoves
  BY <1>1, <1>3, AdvanceExec, AdvanceFrame DEF ExecMoves
<1>4. ASSUME NEW k \in Keys, RequestSwitch(k) PROVE Goal
  <2>1. requests' \in [Keys -> Request] /\ (MovesOn \/ Opens)
    BY <1>4, RequestStep
  <2>2. Advance(k) /\ UNCHANGED <<boot, dispatched>>
    BY <1>4 DEF RequestSwitch
  <2>3. /\ \A l \in Keys : requests'[l].status = "applying" => requests[l].status = "applying"
        /\ KeepsConfirmed
    BY <1>4 DEF RequestSwitch, SwitchTypeOK, Request, KeepsConfirmed
  <2>4. QED
    BY <1>1, <2>1, <2>2, <2>3, <1>3
<1>5. ASSUME NEW k \in Keys, AdvanceAgain(k) PROVE Goal
  <2>1. Advance(k) /\ UNCHANGED <<requests, boot, dispatched>>
    BY <1>5 DEF AdvanceAgain
  <2>2. requests' \in [Keys -> Request] /\ MovesOn
    BY <2>1, SameRequests
  <2>3. KeepsConfirmed
    BY <2>1 DEF KeepsConfirmed
  <2>4. QED
    BY <1>1, <2>1, <2>2, <2>3, <1>3
<1>6. ASSUME NEW k \in Keys, RecoverSwitch(k) PROVE Goal
  <2>1. boot' = "recovered" /\ UNCHANGED dispatched
    BY <1>6 DEF RecoverSwitch
  <2>2. /\ requests' \in [Keys -> Request] /\ MovesOn /\ (UNCHANGED exec \/ Advance(k))
        /\ KeepsConfirmed
        /\ \A l \in Keys : requests'[l].status = "applying" => requests[l].status = "applying"
    BY <1>6, RecoverStep
  <2>3. QED
    BY <2>1, <2>2, <1>2, <1>3
<1>7. ASSUME FinishBoot PROVE Goal
  <2>1. boot' = "up" /\ UNCHANGED <<requests, exec, dispatched>>
    BY <1>7 DEF FinishBoot
  <2>2. QED
    BY <2>1, <1>2, SameRequests DEF KeepsConfirmed
<1>8. ASSUME NEW k \in Keys, Execute(k) PROVE Goal
  <2>1. /\ ExecuteMoves(k)
        /\ requests' \in [Keys -> Request]
        /\ MovesOn
        /\ UNCHANGED boot
        /\ UNCHANGED dispatched \/ Dispatches(k)
        /\ Apply(k) \/ \A l \in Keys : requests'[l].status = "applying" =>
                                           requests[l].status = "applying"
    BY <1>8, ExecuteStep
  <2>2. exec'.at \in {"recheck", "applying"} => Stays
    <3>1. CASE exec'.at = "recheck"
      <4>1. ConfirmStop(k)
        BY <2>1, <3>1 DEF ExecuteMoves
      <4>2. QED
        BY <4>1 DEF ConfirmStop, durable, Stays
    <3>2. CASE exec'.at = "applying"
      <4>1. At(k, "recheck")
        BY <2>1, <3>2 DEF ExecuteMoves
      <4>2. UNCHANGED vars
        BY <1>8, <3>2, <4>1 DEF Execute, At, Await, Return, Idle, Throw, Move, PreflightPasses,
            PreflightFails, MarkPreflighted, MarkStopping, StopForSwitch, StopThrows,
            StopReturns, ConfirmStop, RecheckPasses, RecheckFails, Apply, ApplyFails,
            ResumeSwitched, ReopenForSwitch, ReopenThrows, SwitchResumed, CompleteSwitch,
            FailSwitch
      <4>3. QED
        BY <4>2, <1>1, QuietFrame
    <3>3. QED
      BY <3>1, <3>2
  <2>3. ExecMoves
    BY <2>1, <2>2 DEF ExecMoves, ExecuteMoves, At
  <2>4. QED
    BY <1>1, <2>1, <2>3
<1>9. QED
  BY <1>4, <1>5, <1>6, <1>7, <1>8, Zenon DEF CoordinatorStep

-----------------------------------------------------------------------------
(* One unresolved request, dispatched at most once *)

OneInv == \A k, l \in Unresolved : k = l

(***************************************************************************)
(* A request whose resume was called has its intention stored, and the     *)
(* coordinator is past the call for good.                                  *)
(***************************************************************************)
DispatchInv ==
    \A k \in Keys :
        /\ dispatched[k] <= 1
        /\ dispatched[k] # 0 => /\ requests[k].status \in {"resuming", "completed", "failed"}
                                /\ ~At(k, "resuming")

\* What the transition table says of settled requests.
LEMMA SuccessorsEffect ==
    ASSUME NEW status \in SwitchStatus
    PROVE  /\ "absent" \notin Successors(status)
           /\ status \in {"absent", "completed", "failed"} => Successors(status) = {}
           /\ status = "resuming" => Successors(status) = {"completed", "failed"}
           /\ "applying" \in Successors(status) => status = "stop_confirmed"
BY DEF Successors, SwitchStatus

LEMMA OneStep ==
    ASSUME SwitchTypeOK, OneInv, requests' \in [Keys -> Request], MovesOn \/ Opens
    PROVE  OneInv'
<1>1. CASE MovesOn
  <2>1. ASSUME NEW k \in Keys, k \notin Unresolved PROVE k \notin Unresolved'
    <3>1. requests[k].status \in SwitchStatus
      BY DEF SwitchTypeOK, Request
    <3>2. requests[k].status \in {"absent", "completed", "failed"}
      BY <2>1 DEF Unresolved, Terminal
    <3>3. requests'[k].status = requests[k].status
      BY <1>1, <3>1, <3>2, SuccessorsEffect DEF MovesOn
    <3>4. QED
      BY <3>2, <3>3 DEF Unresolved, Terminal
  <2>2. Unresolved' \subseteq Unresolved
    BY <2>1 DEF Unresolved
  <2>3. QED
    BY <2>2 DEF OneInv
<1>2. CASE Opens
  <2>1. PICK k \in Keys : CanOpen(k) /\ \A l \in Keys \ {k} : requests'[l] = requests[l]
    BY <1>2 DEF Opens
  <2>2. Unresolved' \subseteq {k}
    BY <2>1 DEF CanOpen, Unresolved
  <2>3. QED
    BY <2>2 DEF OneInv
<1>3. QED
  BY <1>1, <1>2

LEMMA DispatchStep ==
    ASSUME SwitchTypeOK, DispatchInv, requests' \in [Keys -> Request], MovesOn \/ Opens,
           exec' = exec \/ exec'.at # "resuming" \/ requests'[exec'.key].status = "applying",
           UNCHANGED dispatched \/ \E k \in Keys : Dispatches(k)
    PROVE  DispatchInv' /\ dispatched' \in [Keys -> 0 .. 2]
<1>1. dispatched \in [Keys -> 0 .. 2]
  BY DEF SwitchTypeOK
<1>2. ASSUME NEW k \in Keys, dispatched[k] # 0
      PROVE  requests'[k].status \in {"resuming", "completed", "failed"} /\ ~At(k, "resuming")'
  <2>1. requests[k].status \in {"resuming", "completed", "failed"} /\ ~At(k, "resuming")
    BY <1>2 DEF DispatchInv
  <2>2. requests'[k].status \in {"resuming", "completed", "failed"}
    <3>1. CASE MovesOn
      BY <2>1, <3>1, SuccessorsEffect DEF MovesOn, SwitchStatus
    <3>2. CASE Opens
      BY <2>1, <3>2 DEF Opens, CanOpen
    <3>3. QED
      BY <3>1, <3>2
  <2>3. ~At(k, "resuming")'
    BY <2>1, <2>2 DEF At
  <2>4. QED
    BY <2>2, <2>3
<1>3. CASE UNCHANGED dispatched
  BY <1>1, <1>2, <1>3 DEF DispatchInv
<1>4. ASSUME NEW k \in Keys, Dispatches(k)
      PROVE  DispatchInv' /\ dispatched' \in [Keys -> 0 .. 2]
  <2>1. dispatched[k] = 0
    BY <1>4 DEF Dispatches, DispatchInv
  <2>2. dispatched' = [dispatched EXCEPT ![k] = 1]
    BY <1>1, <1>4, <2>1 DEF Dispatches
  <2>3. requests'[k].status = "resuming" /\ ~At(k, "resuming")'
    BY <1>4 DEF Dispatches, At
  <2>4. QED
    BY <1>1, <1>2, <2>2, <2>3 DEF DispatchInv
<1>5. QED
  BY <1>3, <1>4

-----------------------------------------------------------------------------
(* The invariant of the composition *)

SwitchInv == SwitchTypeOK /\ IInv /\ HandleInv /\ OneInv /\ DispatchInv

LEMMA SwitchInitInv == SwitchInit => SwitchInv
<1> SUFFICES ASSUME SwitchInit PROVE SwitchInv
  OBVIOUS
<1>1. Init
  BY DEF SwitchInit
<1>2. IInv
  BY <1>1, InvInit
<1>3. HandleInv
  BY <1>1, AdmissionInvInit DEF AInv
<1>4. requests \in [Keys -> Request] /\ \A k \in Keys : requests[k].status = "absent"
  BY DraftAssumption DEF SwitchInit, Request, SwitchStatus, Generations
<1>5. exec \in [key : Keys \cup {NoKey}, at : ExecPc] /\ (exec.key = NoKey <=> exec.at = "idle")
  BY DEF SwitchInit, Idle, ExecPc
<1>6. SwitchTypeOK
  BY <1>2, <1>4, <1>5 DEF SwitchTypeOK, SwitchInit, IInv
<1>7. OneInv
  BY <1>4 DEF OneInv, Unresolved
<1>8. DispatchInv
  BY DEF SwitchInit, DispatchInv
<1>9. QED
  BY <1>2, <1>3, <1>6, <1>7, <1>8 DEF SwitchInv

LEMMA SwitchStep ==
    ASSUME SwitchInv, [SwitchNext]_allVars
    PROVE  SwitchInv'
<1> USE DEF SwitchInv
<1>1. ASSUME [Next]_vars PROVE IInv' /\ HandleInv'
  <2>1. IInv'
    BY <1>1, InvStep
  <2>2. QED
    BY <1>1, <2>1, HandleNext DEF IInv
<1>2. ASSUME IInv', HandleInv', requests' \in [Keys -> Request], MovesOn \/ Opens, ExecOK',
             boot' \in {"up", "crashed", "recovered"},
             exec' = exec \/ exec'.at # "resuming" \/ requests'[exec'.key].status = "applying",
             UNCHANGED dispatched \/ \E k \in Keys : Dispatches(k)
      PROVE  SwitchInv'
  <2>1. OneInv'
    BY <1>2, OneStep
  <2>2. DispatchInv' /\ dispatched' \in [Keys -> 0 .. 2]
    BY <1>2, DispatchStep
  <2>3. QED
    BY <1>2, <2>1, <2>2 DEF SwitchTypeOK, ExecOK, IInv
<1>3. ExecOK /\ boot \in {"up", "crashed", "recovered"}
  BY DEF SwitchTypeOK, ExecOK
<1>4. ASSUME [Next]_vars, UNCHANGED switchVars PROVE SwitchInv'
  <2>1. requests' \in [Keys -> Request] /\ MovesOn
    BY <1>4, SameRequests DEF switchVars
  <2>2. ExecOK' /\ exec' = exec /\ boot' = boot /\ dispatched' = dispatched
    BY <1>3, <1>4 DEF switchVars, ExecOK
  <2>3. QED
    BY <1>1, <1>2, <1>3, <1>4, <2>1, <2>2
<1>5. ASSUME NEW k \in Keys, PauseFailsSwitch(k), Next PROVE SwitchInv'
  <2>1. requests' \in [Keys -> Request] /\ MovesOn
    BY <1>5, TransitionOK DEF PauseFailsSwitch, SwitchStatus
  <2>2. ExecOK' /\ exec' = exec /\ boot' = boot /\ dispatched' = dispatched
    BY <1>3, <1>5 DEF PauseFailsSwitch, ExecOK
  <2>3. QED
    BY <1>1, <1>2, <1>3, <1>5, <2>1, <2>2
<1>6. ASSUME Crash, Next PROVE SwitchInv'
  <2>1. requests' \in [Keys -> Request] /\ MovesOn
    BY <1>6, SameRequests DEF Crash
  <2>2. ExecOK' /\ exec'.at # "resuming" /\ boot' = "crashed" /\ dispatched' = dispatched
    BY <1>6 DEF Crash, Idle, ExecOK, ExecPc
  <2>3. QED
    BY <1>1, <1>2, <1>6, <2>1, <2>2
<1>7. ASSUME CoordinatorStep PROVE SwitchInv'
  <2>1. SwitchFrame
    BY <1>7, CoordinatorFrame DEF SwitchTypeOK
  <2>2. IInv' /\ HandleInv'
    BY <2>1, FrameInv, FrameHandle DEF IInv
  <2>3. QED
    BY <1>2, <1>7, <2>2, CoordinatorMoves DEF ExecMoves
<1>8. CASE SwitchNext
  BY <1>8, <1>4, <1>5, <1>6, <1>7, SwitchCases
<1>9. CASE UNCHANGED allVars
  BY <1>9, <1>4 DEF allVars
<1>10. QED
  BY <1>8, <1>9

-----------------------------------------------------------------------------
(* The old Runtime has stopped *)

(***************************************************************************)
(* From the moment execute() has found the stop confirmed until it applies *)
(* the switch, nothing ordinary runs or may start while admission is       *)
(* closed: the request would have failed if a pause had closed it again.   *)
(***************************************************************************)
QuietInv ==
    \A k \in Keys :
        (At(k, "recheck") \/ At(k, "applying")) /\ requests[k].status = "stop_confirmed" /\ Closed
            => Unsafe = {} /\ Legacy = {}

\* ports.stopped: the barrier, read between two awaits.
LEMMA StoppedIsQuiet ==
    ASSUME TypeOK, ReservationInv, HandleInv, Stopped
    PROVE  Unsafe = {} /\ Legacy = {}
<1>1. Supervised = {} /\ CanResume
  BY DEF Stopped, HasUnconfirmedStops
<1>2. Unsafe = {}
  BY <1>1, CanResumeIsQuiet
<1>3. Legacy \subseteq Supervised
  BY DEF Legacy, Supervised, SupervisedPc
<1>4. QED
  BY <1>1, <1>2, <1>3

\* Of the controls users exercise beside a switch, a pause and an archive close admission.
LEMMA OnlyPauseCloses ==
    ASSUME TypeOK, SessionStep, Closes
    PROVE  (Unresolved = {} /\ Pause) \/ Archive
<1>0. lifecycle \in Lifecycle /\ ~Stays /\ lifecycle' # lifecycle
  BY DEF TypeOK, DraftTypeOK, Closes, Stays
<1>1. \A i \in Invs : ~RuntimeStep(i)
  BY <1>0, OtherLifecycle
<1>2. \A o \in OpIds : ~ResumeOperation(o)
  BY <1>0, OtherLifecycle
<1>3. ASSUME NEW c \in Controls PROVE ~CommitStop(c)
  BY <1>0 DEF CommitStop, RequestStop, SyncStopStatus, Stays, Lifecycle
<1>4. ASSUME NEW c \in Controls
      PROVE  ~(EnterStop(c) \/ CommitStopFails(c) \/ EndWait(c) \/ AbandonStopped(c))
  BY <1>0 DEF EnterStop, CommitStopFails, EndWait, AbandonStopped, durable
<1>5. ~(BeginDelete \/ MarkArchived \/ RestoreArchived \/ Reopen \/ CompleteDelete)
  BY <1>0, LifecycleMethods DEF Closes, StartsDelete, Unarchives, Reopens, Hides
<1>6. \A g : ~Restore(g)
  BY <1>0, LifecycleMethods DEF Closes, Restores
<1>7. ~(Delete \/ FinishDelete \/ FinishArchive \/ ReopenAdmission \/ RestoreDeleted)
  BY <1>5, <1>6, Zenon DEF Delete, FinishDelete, FinishArchive, ReopenAdmission, RestoreDeleted
<1>8. ~FinishUnarchive
  BY <1>0, <1>5 DEF FinishUnarchive
<1>9. ~(\/ Disconnect \/ ClearArchived \/ CheckResume \/ ReopenRefused \/ FinishResume
        \/ RestoreAgain \/ CheckUnarchive \/ UnarchiveRefused)
  BY <1>0 DEF Disconnect, ClearArchived, CheckResume, ReopenRefused, FinishResume, RestoreAgain,
              CheckUnarchive, UnarchiveRefused, durable
<1>10. QED
  BY <1>1, <1>2, <1>3, <1>4, <1>7, <1>8, <1>9, Zenon DEF SessionStep, UserStep

\* Nothing ordinary starts while the Session stays closed, whoever acts on it.
LEMMA QuietSession ==
    ASSUME IInv, HandleInv, FenceInv, ~session.archived, [Next]_vars, Closed',
           Closed => Unsafe = {} /\ Legacy = {}, ~Closes
    PROVE  Unsafe' = {} /\ Legacy' = {}
<1> USE DEF IInv
<1>1. Unsafe' = {}
  <2>1. Closed \/ Unsafe' = {}
    BY ComesClosed
  <2>2. CASE Closed
    BY <2>2, ClosedStep DEF Closed
  <2>3. QED
    BY <2>1, <2>2
<1>2. Closed \/ lifecycle.state = "deleted"
  BY LifecycleNext DEF Closed, Stays, StartsDelete, Unarchives, Reopens, Hides, Restores
<1>3. Legacy = {}
  BY <1>2 DEF FenceInv
<1>4. lifecycle.state = "active" => lifecycle.generation # 0
  BY DEF FenceInv
<1>5. Legacy' \subseteq Invs
  BY DEF Legacy
<1>6. QED
  BY <1>1, <1>2, <1>3, <1>4, <1>5, LegacyStep DEF Closed

\* What switches rely on where nobody archives the Session.
FencedInv == FenceInv /\ QuietInv /\ ~session.archived

LEMMA CoordinatorFenced ==
    ASSUME SwitchInv, FencedInv, CoordinatorStep
    PROVE  FencedInv'
<1> USE DEF SwitchInv, FencedInv, IInv
<1>1. /\ SwitchFrame
      /\ Closes => \E k \in Keys : StopForSwitch(k)
      /\ Raises => \E k \in Keys : Apply(k)
  BY CoordinatorFrame
<1>2. ASSUME NEW k \in Keys, Apply(k) PROVE Unsafe = {} /\ Legacy = {}
  BY <1>2 DEF Apply, ApplySwitch, CanApply, QuietInv, Closed
<1>3. FenceInv'
  BY <1>1, <1>2, FrameFence
<1>4. QuietInv'
  <2> SUFFICES ASSUME NEW k \in Keys, (At(k, "recheck") \/ At(k, "applying"))',
                      requests'[k].status = "stop_confirmed", Closed'
               PROVE  Unsafe' = {} /\ Legacy' = {}
    BY DEF QuietInv
  <2>1. Unsafe' = Unsafe /\ Legacy' = Legacy
    BY <1>1 DEF SwitchFrame, Unsafe, Ordinary, Legacy, handle
  <2>2. exec'.key = k /\ exec'.at \in {"recheck", "applying"}
    BY DEF At
  <2>3. ExecMoves
    BY CoordinatorMoves
  <2>4. CASE exec' = exec /\ KeepsConfirmed
    <3>1. (At(k, "recheck") \/ At(k, "applying")) /\ requests[k].status = "stop_confirmed"
      BY <2>2, <2>4 DEF At, KeepsConfirmed
    <3>2. ~Closes
      BY <1>1, <2>2, <2>4 DEF StopForSwitch, At
    <3>3. Closed
      BY <1>1, <3>2 DEF SwitchFrame, Stays, Reopens, Raises, Closed
    <3>4. QED
      BY <2>1, <3>1, <3>3 DEF QuietInv
  <2>5. CASE exec'.at = "recheck" /\ Stopped /\ Stays
    BY <2>1, <2>5, StoppedIsQuiet
  <2>6. CASE /\ exec'.at = "applying" /\ exec.at = "recheck" /\ exec'.key = exec.key
             /\ Stays /\ UNCHANGED requests
    BY <2>1, <2>2, <2>6 DEF QuietInv, At, Stays, Closed
  <2>7. QED
    BY <2>2, <2>3, <2>4, <2>5, <2>6 DEF ExecMoves
<1>5. ~session'.archived
  BY <1>1 DEF SwitchFrame
<1>6. QED
  BY <1>3, <1>4, <1>5

LEMMA FencedStep ==
    ASSUME "archive" \notin Controls, SwitchInv, FencedInv, [SwitchNext]_allVars
    PROVE  FencedInv'
<1> USE DEF SwitchInv, FencedInv, IInv
<1>1. ASSUME [Next]_vars PROVE FenceInv' /\ ~session'.archived
  <2>1. FenceInv'
    BY <1>1, FenceNext
  <2>2. ~session'.archived
    BY <1>1, SessionFieldsStep DEF FinishArchive
  <2>3. QED
    BY <2>1, <2>2
<1>2. ASSUME [Next]_vars,
             \A k \in Keys : (At(k, "recheck") \/ At(k, "applying"))'
                                 /\ requests'[k].status = "stop_confirmed" =>
                 /\ At(k, "recheck") \/ At(k, "applying")
                 /\ requests[k].status = "stop_confirmed"
                 /\ ~Closes
      PROVE  QuietInv'
  <2>1. ASSUME NEW k \in Keys, At(k, "recheck") \/ At(k, "applying"),
               requests[k].status = "stop_confirmed", Closed', ~Closes
        PROVE  Unsafe' = {} /\ Legacy' = {}
    <3>1. Closed => Unsafe = {} /\ Legacy = {}
      BY <2>1 DEF QuietInv
    <3>2. QED
      BY <1>2, <2>1, <3>1, QuietSession
  <2>2. QED
    BY <1>2, <2>1 DEF QuietInv
<1>3. ASSUME SessionStep, Next, UNCHANGED switchVars PROVE FencedInv'
  <2>1. ASSUME NEW k \in Keys, (At(k, "recheck") \/ At(k, "applying"))',
               requests'[k].status = "stop_confirmed"
        PROVE  /\ At(k, "recheck") \/ At(k, "applying")
               /\ requests[k].status = "stop_confirmed"
               /\ ~Closes
    <3>1. (At(k, "recheck") \/ At(k, "applying")) /\ requests[k].status = "stop_confirmed"
      BY <1>3, <2>1 DEF switchVars, At
    <3>2. k \in Unresolved
      BY <3>1 DEF Unresolved, Terminal
    <3>3. QED
      BY <1>3, <3>1, <3>2, OnlyPauseCloses DEF Archive
  <2>2. QED
    BY <1>1, <1>2, <1>3, <2>1
<1>4. ASSUME NEW l \in Keys, PauseFailsSwitch(l), Next PROVE FencedInv'
  <2>1. ASSUME NEW k \in Keys, requests'[k].status = "stop_confirmed" PROVE FALSE
    <3>1. /\ l \in Unresolved /\ SetStatus(l, "failed")
      BY <1>4 DEF PauseFailsSwitch
    <3>2. k # l /\ requests[k].status = "stop_confirmed"
      BY <2>1, <3>1 DEF SetStatus, SwitchTypeOK, Request
    <3>3. k \in Unresolved
      BY <3>2 DEF Unresolved, Terminal
    <3>4. QED
      BY <3>1, <3>2, <3>3 DEF OneInv
  <2>2. QED
    BY <1>1, <1>2, <1>4, <2>1
<1>5. ASSUME Crash, Next PROVE FencedInv'
  <2>1. \A k \in Keys : ~(At(k, "recheck") \/ At(k, "applying"))'
    BY <1>5 DEF Crash, Idle, At
  <2>2. QED
    BY <1>1, <1>2, <1>5, <2>1
<1>6. ASSUME UNCHANGED allVars PROVE FencedInv'
  <2>1. ~Closes
    BY <1>6 DEF allVars, vars, durable, Closes
  <2>2. \A k \in Keys : (At(k, "recheck") \/ At(k, "applying"))'
                            /\ requests'[k].status = "stop_confirmed" =>
            (At(k, "recheck") \/ At(k, "applying")) /\ requests[k].status = "stop_confirmed"
    BY <1>6 DEF allVars, switchVars, At
  <2>3. [Next]_vars
    BY <1>6 DEF allVars
  <2>4. QED
    BY <1>1, <1>2, <2>1, <2>2, <2>3
<1>7. QED
  BY <1>3, <1>4, <1>5, <1>6, SwitchCases, CoordinatorFenced

-----------------------------------------------------------------------------
(* The theorems. *)

(***************************************************************************)
(* The invariant of the Session controls survives in the composition with  *)
(* the switch coordinator, with one unresolved request at most and one     *)
(* call of resume per request.                                             *)
(***************************************************************************)
THEOREM SwitchInvariance == SwitchSpec => []SwitchInv
BY SwitchInitInv, SwitchStep, PTL DEF SwitchSpec

(***************************************************************************)
(* Every variable of the composition keeps its type.                       *)
(***************************************************************************)
THEOREM SwitchTypeCorrect == SwitchSpec => []SwitchTypeOK
<1>1. SwitchInv => SwitchTypeOK
  BY DEF SwitchInv
<1>2. QED
  BY <1>1, SwitchInvariance, PTL

(***************************************************************************)
(* A switch dispatches the Session at most once, whatever restarts and     *)
(* repeated requests come in between.                                      *)
(***************************************************************************)
THEOREM DispatchedOnce == SwitchSpec => []ResumedOnce
<1>1. SwitchInv => ResumedOnce
  BY DEF SwitchInv, DispatchInv, ResumedOnce
<1>2. QED
  BY <1>1, SwitchInvariance, PTL

(***************************************************************************)
(* The guarantees of the controls hold across switches too: reservations   *)
(* cover the live processes, an open stop request covers the reservations, *)
(* confirmed targets have ended and a deleted Session has no process.      *)
(***************************************************************************)
THEOREM SwitchKeepsControls ==
    SwitchSpec => [](LiveIsReserved /\ OpenStopCoversActive /\ ConfirmedTargetsEnded
                     /\ DeletedIsStopped)
<1>1. SwitchInv => LiveIsReserved
  BY DEF SwitchInv, IInv, ReservationInv, InvocationInv, LiveIsReserved
<1>2. SwitchInv => OpenStopCoversActive /\ ConfirmedTargetsEnded
  BY DEF SwitchInv, IInv, StopInv, ConfirmedTargetsEnded
<1>3. SwitchInv => DeletedIsStopped
  BY DEF SwitchInv, IInv, ReservationInv, InvocationInv, DeleteInv, DeletedIsStopped, ActiveInvs
<1>4. QED
  BY <1>1, <1>2, <1>3, SwitchInvariance, PTL

(***************************************************************************)
(* Without archive(), whose stop does not fail a pending switch, the fence *)
(* between the generations holds and a confirmed switch stays quiet.       *)
(***************************************************************************)
THEOREM FencedInvariance ==
    ASSUME "archive" \notin Controls
    PROVE  SwitchSpec => []FencedInv
<1>0. "archive" \notin Controls
  OBVIOUS
<1>1. SwitchInit => FencedInv
  <2>1. ASSUME SwitchInit PROVE FencedInv
    <3>1. FenceInv /\ ~session.archived
      BY <1>0, <2>1, AdmissionInvInit DEF SwitchInit, AInv, ArchiveInv
    <3>2. QuietInv
      BY <2>1 DEF SwitchInit, QuietInv
    <3>3. QED
      BY <3>1, <3>2 DEF FencedInv
  <2>2. QED
    BY <2>1
<1>2. SwitchInv /\ FencedInv /\ [SwitchNext]_allVars => FencedInv'
  BY <1>0, FencedStep
<1>3. QED
  BY <1>1, <1>2, SwitchInvariance, PTL DEF SwitchSpec

(***************************************************************************)
(* Applying a switch raises the generation only over a Session whose       *)
(* ordinary processes have ended, so the fence holds after it as well.     *)
(***************************************************************************)
THEOREM SwitchIsFenced ==
    ASSUME "archive" \notin Controls
    PROVE  SwitchSpec => []GenerationFence
<1>1. SwitchSpec => []FencedInv
  BY FencedInvariance
<1>2. SwitchInv /\ FencedInv => GenerationFence
  <2>1. ASSUME SwitchInv, FencedInv, lifecycle.state = "active", NEW i \in Invs,
               proc[i] = "live", BaseOf[i] \notin Restricted
        PROVE  opOf[i][2] = lifecycle.generation \/ (opOf[i][2] = 0 /\ lifecycle.generation = 1)
    BY <2>1 DEF FencedInv, FenceInv, Unsafe, Ordinary
  <2>2. QED
    BY <2>1 DEF GenerationFence
<1>3. QED
  BY <1>1, <1>2, SwitchInvariance, PTL

(***************************************************************************)
(* When a switch is applied, every ordinary process of the old Runtime has *)
(* ended, whatever pauses, resumes, deletes and restarts came in between.  *)
(***************************************************************************)
THEOREM AppliedStopped ==
    ASSUME "archive" \notin Controls
    PROVE  SwitchSpec => AppliedIsStopped
<1>1. SwitchSpec => []FencedInv
  BY FencedInvariance
<1>2. SwitchInv /\ FencedInv /\ [SwitchNext]_allVars =>
          [\A k \in Keys : requests[k].status = "stop_confirmed" /\ requests'[k].status = "applying"
               => \A i \in Invs : proc[i] = "live" => BaseOf[i] \in Restricted]_allVars
  <2>1. ASSUME SwitchInv, FencedInv, SwitchNext, NEW k \in Keys,
               requests[k].status = "stop_confirmed", requests'[k].status = "applying",
               NEW i \in Invs, proc[i] = "live"
        PROVE  BaseOf[i] \in Restricted
    <3>1. ~(UNCHANGED switchVars) /\ ~Crash
      BY <2>1 DEF switchVars, Crash
    <3>2. ASSUME NEW l \in Keys PROVE ~PauseFailsSwitch(l)
      BY <2>1 DEF PauseFailsSwitch, SetStatus, SwitchInv, SwitchTypeOK, Request
    <3>3. CoordinatorStep
      BY <2>1, <3>1, <3>2, SwitchCases
    <3>4. PICK l \in Keys : Apply(l)
      BY <2>1, <3>3, CoordinatorMoves DEF SwitchInv
    <3>5. Unsafe = {}
      BY <2>1, <3>4 DEF Apply, ApplySwitch, CanApply, FencedInv, QuietInv, Closed
    <3>6. QED
      BY <2>1, <3>5 DEF Unsafe, Ordinary
  <2>2. QED
    BY <2>1
<1>3. QED
  BY <1>1, <1>2, SwitchInvariance, PTL DEF SwitchSpec, AppliedIsStopped
=============================================================================
