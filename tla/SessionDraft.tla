---------------------------- MODULE SessionDraft ----------------------------
(***************************************************************************)
(* The durable state of one Session that the three execution-admission     *)
(* stores of the server share.  Every store method is one call of          *)
(* PersistenceService.mutateCollections: a synchronous callback over a     *)
(* draft, committed whole or not at all, and serialised with every other   *)
(* call.  A method is therefore one atomic action on these variables.      *)
(*                                                                         *)
(*   lifecycle    sessionLifecyclesBySession[sid]                          *)
(*   session      the fields of sessions[sid] the stores read and write    *)
(*   stopRequest  sessionStopRequestsBySession[sid].at(-1)                 *)
(*   ops          logicalOperationsBySession[sid]                          *)
(*                                                                         *)
(* Only the latest stop request is kept: every method reads at(-1), and a  *)
(* new one is pushed only after the previous one is confirmed.             *)
(***************************************************************************)
EXTENDS Naturals, FiniteSets

CONSTANTS
    Invs,           \* invocation ids, each passed to RuntimeService.start once
    Bases,          \* the operation ids callers pass to begin
    BaseOf,         \* the operation id an invocation is started for
    Restricted,     \* bases of admission class routing or response
    Local,          \* invocations run by the local bridge (they have a transport)
    Internal,       \* invocations of executionKind internal (the mock runtime)
    NoInv,          \* no activeInvocationId
    MaxAttempts,    \* operationPolicy(phase).maxAttempts
    MaxGeneration,  \* bound on the lifecycle generation
    MaxRestarts     \* bound on the number of server restarts

ASSUME DraftAssumption ==
    /\ BaseOf \in [Invs -> Bases]
    /\ Restricted \subseteq Bases
    /\ Local \subseteq Invs
    /\ Internal \subseteq Invs
    /\ NoInv \notin Invs
    /\ MaxAttempts \in Nat \ {0}
    /\ MaxGeneration \in Nat \ {0}
    /\ MaxRestarts \in Nat

VARIABLES lifecycle, session, stopRequest, ops

durable == <<lifecycle, session, stopRequest, ops>>

(***************************************************************************)
(* begin gives an operation the id its caller passes, or                   *)
(* "<id>:generation:<n>" when that id belongs to another generation, so an *)
(* operation is identified by the caller's id and its sessionGeneration.   *)
(* Generation 0 stands for a Session that has no lifecycle record yet.     *)
(***************************************************************************)
Generations == 0 .. MaxGeneration
OpIds == Bases \X Generations

\* restored: lastRestoreRequestId names a restore of the deleted Session.
Lifecycle == [ state      : {"none", "active", "deleting", "deleted"},
               admission  : {"open", "closed"},
               stopStatus : {"idle", "requested", "waiting", "confirmed"},
               generation : Generations,
               restored   : BOOLEAN ]

\* EXECUTING stands for every status outside STOPPED_SESSION_STATUSES.
Session == [ status : {"EXECUTING", "PAUSED", "INTERRUPTED"}, archived : BOOLEAN ]

\* A target state of "none" means the invocation is not a target.
StopRequest == [ status  : {"none", "waiting", "confirmed"},
                 targets : [Invs -> {"none", "waiting", "unknown", "confirmed"}] ]

\* bridged: the latest reservation was bound to a transport of the local bridge.
Operation == [ status   : {"absent", "ready", "running", "paused", "interrupted", "exhausted"},
               active   : Invs \cup {NoInv},
               stop     : {"none", "requested", "unconfirmed", "confirmed"},
               pauseReq : BOOLEAN,
               bridged  : BOOLEAN,
               owner    : 0 .. MaxRestarts,
               invs     : SUBSET Invs,
               attempts : 0 .. MaxAttempts ]

NoLifecycle == [ state |-> "none", admission |-> "open",
                 stopStatus |-> "idle", generation |-> 0, restored |-> FALSE ]

NewLifecycle == [ state |-> "active", admission |-> "open",
                  stopStatus |-> "idle", generation |-> 1, restored |-> FALSE ]

NoStopRequest == [ status |-> "none", targets |-> [i \in Invs |-> "none"] ]

AbsentOp == [ status |-> "absent", active |-> NoInv, stop |-> "none",
              pauseReq |-> FALSE, bridged |-> FALSE, owner |-> 0,
              invs |-> {}, attempts |-> 0 ]

DraftTypeOK ==
    /\ lifecycle \in Lifecycle
    /\ session \in Session
    /\ stopRequest \in StopRequest
    /\ ops \in [OpIds -> Operation]

\* A legacy Session has no lifecycle record; initialize gives a new one its first.
DraftInit ==
    /\ lifecycle \in {NoLifecycle, NewLifecycle}
    /\ session = [ status |-> "EXECUTING", archived |-> FALSE ]
    /\ stopRequest = NoStopRequest
    /\ ops = [o \in OpIds |-> AbsentOp]

-----------------------------------------------------------------------------
(* Readings of the draft shared by the stores. *)

HasLifecycle == lifecycle.state # "none"

Blockers == {i \in Invs : stopRequest.targets[i] \in {"waiting", "unknown"}}

\* latestStopStatus
LatestStopStatus == IF stopRequest.status = "none" THEN "idle" ELSE stopRequest.status

\* canResume of stopSummaryFromDraft and of SessionStopStateStore.summary
SummaryCanResume ==
    \/ stopRequest.status = "none"
    \/ stopRequest.status = "confirmed" /\ Blockers = {}

\* The lifecycle record with the stop status of request r copied into it.
SyncStopStatus(l, r) ==
    IF l.state = "none" \/ r.status = "none"
    THEN l
    ELSE [l EXCEPT !.stopStatus = r.status]

\* Mutant: evidence that comes after the target became unknown is ignored.
UpdateStopTarget_Sticky(r, i, state) ==
    IF r.status # "waiting" \/ r.targets[i] \notin {"waiting"}
    THEN r
    ELSE LET targets == [r.targets EXCEPT ![i] = state]
         IN  [ status  |-> IF \A j \in Invs : targets[j] \in {"none", "confirmed"}
                           THEN "confirmed" ELSE "waiting",
               targets |-> targets ]

\* A confirmed request never changes again, and only its targets ever do.
UpdateStopTarget(r, i, state) ==
    IF r.status # "waiting" \/ r.targets[i] = "none"
    THEN r
    ELSE LET targets == [r.targets EXCEPT ![i] = state]
         IN  [ status  |-> IF \A j \in Invs : targets[j] \in {"none", "confirmed"}
                           THEN "confirmed" ELSE "waiting",
               targets |-> targets ]

ActiveInvs == {i \in Invs : \E o \in OpIds : ops[o].active = i}
=============================================================================
