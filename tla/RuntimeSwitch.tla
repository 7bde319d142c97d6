---------------------------- MODULE RuntimeSwitch ----------------------------
(***************************************************************************)
(* Changing the Runtime of a Session while it works: RuntimeSwitchStore,   *)
(* the durable requests, and RuntimeSwitchCoordinator, which takes one of  *)
(* them through                                                            *)
(*                                                                         *)
(*   preflight -> stop -> confirm -> apply -> resume -> completed          *)
(*                                                                         *)
(* with an await at every arrow, while users pause, resume, archive and    *)
(* delete the same Session and the server restarts.  Applying a switch     *)
(* raises the lifecycle generation, so the operations of the new Runtime   *)
(* are not those of the old one and no reservation keeps them apart.       *)
(*                                                                         *)
(*   requests    runtimeSwitchRequestsBySession, by idempotency key        *)
(*   exec        the request the coordinator runs (the entry of its        *)
(*               running map) and the await its execute() is at            *)
(*   boot        the server after a crash: requests are recovered in       *)
(*               onModuleInit, work is interrupted in                      *)
(*               onApplicationBootstrap, then it listens                   *)
(*   dispatched  how often the coordinator called resume for a request     *)
(*                                                                         *)
(* Briefs, work items and Session revisions are left out: apply and        *)
(* execute may fail for a stale context at any time.                       *)
(***************************************************************************)
EXTENDS SessionsService

CONSTANTS Keys,      \* idempotency keys of the switches users ask for
          NoKey,     \* the coordinator runs nothing
          Resumes    \* keys of requests with resumeAfterSwitch

ASSUME SwitchAssumption ==
    /\ NoKey \notin Keys
    /\ Resumes \subseteq Keys

VARIABLES requests, exec, boot, dispatched

switchVars == <<requests, exec, boot, dispatched>>
allVars == <<vars, switchVars>>

SwitchStatus == {"absent", "requested", "preflighted", "stopping", "stop_confirmed",
                 "applying", "resuming", "completed", "failed"}

\* Each place is named for the await it is at: a preflight, a stop or a transaction.
ExecPc == {"idle", "preflight", "repreflight", "preflighted", "stopping", "closing", "halting",
           "confirming", "recheck", "applying", "resuming", "reopening", "reopened",
           "completing", "failing"}

Terminal(status) == status \in {"completed", "failed"}
Unresolved == {k \in Keys : requests[k].status # "absent" /\ ~Terminal(requests[k].status)}

\* deferred: timing after_step
Request == [status : SwitchStatus, generation : Generations, deferred : BOOLEAN]

SwitchTypeOK ==
    /\ TypeOK
    /\ requests \in [Keys -> Request]
    /\ exec \in [key : Keys \cup {NoKey}, at : ExecPc]
    /\ exec.key = NoKey <=> exec.at = "idle"
    /\ boot \in {"up", "crashed", "recovered"}
    /\ dispatched \in [Keys -> 0 .. 2]

Idle == [key |-> NoKey, at |-> "idle"]

SwitchInit ==
    /\ Init
    /\ requests = [k \in Keys |-> [status |-> "absent", generation |-> 0, deferred |-> FALSE]]
    /\ exec = Idle
    /\ boot = "up"
    /\ dispatched = [k \in Keys |-> 0]

-----------------------------------------------------------------------------
(* RuntimeSwitchStore *)

\* RUNTIME_SWITCH_TRANSITIONS
Successors(status) ==
    CASE status = "requested"      -> {"preflighted", "failed"}
      [] status = "preflighted"    -> {"stopping", "stop_confirmed", "failed"}
      [] status = "stopping"       -> {"stop_confirmed", "failed"}
      [] status = "stop_confirmed" -> {"applying", "failed"}
      [] status = "applying"       -> {"resuming", "completed", "failed"}
      [] status = "resuming"       -> {"completed", "failed"}
      [] OTHER                     -> {}

\* mutationRefusal; generation 0 stands for a caller that passes none.
Refused(generation) ==
    \/ lifecycle.state \in {"deleting", "deleted"}
    \/ HasLifecycle /\ generation # 0 /\ generation # lifecycle.generation

\* transition applies, or finds the request in that status already.
CanTransition(k, next, generation) ==
    /\ ~Refused(generation)
    /\ requests[k].status = next \/ next \in Successors(requests[k].status)

SetStatus(k, next) == requests' = [requests EXCEPT ![k].status = next]

\* The guards of open for a key it does not know.
CanOpen(k) ==
    /\ requests[k].status = "absent"
    /\ lifecycle.state \notin {"deleting", "deleted"}
    /\ Unresolved = {}

\* Mutant: apply does not look at the Session again.
CanApply_StopOnly(k) ==
    /\ requests[k].status = "stop_confirmed"
    /\ lifecycle.state = "active"
    /\ LatestStopStatus \in {"confirmed", "idle"}

CanApply(k) ==
    /\ requests[k].status = "stop_confirmed"
    /\ session.status = "PAUSED"
    /\ ~session.archived
    /\ lifecycle.state = "active"
    /\ lifecycle.admission = "closed"
    /\ requests[k].generation \in {0, lifecycle.generation}
    /\ LatestStopStatus \in {"confirmed", "idle"}

\* The preference, the generation and the status are written together.
ApplySwitch(k) ==
    /\ CanApply(k)
    /\ lifecycle.generation < MaxGeneration
    /\ lifecycle' = [lifecycle EXCEPT !.generation = @ + 1]
    /\ requests' = [requests EXCEPT ![k].status = "applying",
                                    ![k].generation = lifecycle.generation + 1]
    /\ UNCHANGED <<session, stopRequest, ops>>

-----------------------------------------------------------------------------
(* RuntimeSwitchCoordinator.execute *)

At(k, place) == exec.key = k /\ exec.at = place
Await(k, place) == exec' = [key |-> k, at |-> place]

\* The finally of advance removes the entry of the running map.
Return == exec' = Idle

\* ports.stopped
Stopped == ~HasUnconfirmedStops

\* The first await of execute; a Session that is gone or a stale context fails the request.
FirstAwait(k) ==
    IF ~Visible THEN "failing"
    ELSE CASE requests'[k].status = "requested" -> "preflight"
           [] requests'[k].status = "preflighted" -> "repreflight"
           [] requests'[k].status = "stopping" -> "closing"
           [] requests'[k].status = "stop_confirmed" /\ Stopped -> "recheck"
           [] requests'[k].status = "applying" -> IF k \in Resumes THEN "resuming" ELSE "completing"
           [] OTHER -> "idle"

\* advance: one execute per Session; a second caller is given the promise of the first.
Advance(k) ==
    /\ IF exec # Idle
       THEN UNCHANGED exec
       ELSE \/ FirstAwait(k) = "idle" /\ Return
            \/ FirstAwait(k) # "idle" /\ Await(k, FirstAwait(k))
            \/ Await(k, "failing")
    /\ IF exec = Idle /\ requests'[k].status = "stop_confirmed" THEN PruneSync ELSE UNCHANGED sync
    /\ UNCHANGED <<durable, pc, proc, handle, syncTries, faults, correcting, controls>>

\* request: a new key opens a request, a known one returns it; both then advance it.
RequestSwitch(k) ==
    /\ boot = "up"
    /\ Visible
    /\ \/ /\ CanOpen(k)
          /\ \E deferred \in BOOLEAN :
                requests' = [requests EXCEPT ![k] = [status     |-> "requested",
                                                     generation |-> lifecycle.generation,
                                                     deferred   |-> deferred]]
       \/ /\ k \in Unresolved
          /\ UNCHANGED requests
    /\ Advance(k)
    /\ UNCHANGED <<boot, dispatched>>

\* The 2 s timer, or the outcome of the step a deferred switch waited for.
AdvanceAgain(k) ==
    /\ boot = "up"
    /\ k \in Unresolved
    /\ exec = Idle
    /\ requests[k].status = "stopping" \/ requests[k].deferred
    /\ UNCHANGED requests
    /\ Advance(k)
    /\ UNCHANGED <<boot, dispatched>>

\* move: a transition of the request the coordinator runs; a refused one throws.
Move(k, from, next, place) ==
    /\ At(k, from)
    /\ IF CanTransition(k, next, requests[k].generation)
       THEN SetStatus(k, next) /\ Await(k, place)
       ELSE UNCHANGED requests /\ Await(k, "failing")

Throw(k, from) ==
    /\ At(k, from)
    /\ Await(k, "failing")
    /\ UNCHANGED <<vars, requests, boot, dispatched>>

\* A deferred switch of a busy Session is left for later, anything else is stopped.
AwaitStop(k) ==
    \/ (~requests[k].deferred \/ Supervised = {}) /\ Await(k, "stopping")
    \/ requests[k].deferred /\ Return

\* execute goes by the status it read before the await.
PreflightPasses(k) ==
    /\ \/ At(k, "preflight") /\ Await(k, "preflighted")
       \/ At(k, "repreflight") /\ AwaitStop(k)
    /\ UNCHANGED <<vars, requests, boot, dispatched>>

PreflightFails(k) == Throw(k, "preflight") \/ Throw(k, "repreflight")

MarkPreflighted(k) ==
    /\ At(k, "preflighted")
    /\ IF CanTransition(k, "preflighted", requests[k].generation)
       THEN SetStatus(k, "preflighted") /\ AwaitStop(k)
       ELSE UNCHANGED requests /\ Await(k, "failing")
    /\ UNCHANGED <<vars, boot, dispatched>>

MarkStopping(k) ==
    /\ Move(k, "stopping", "stopping", "closing")
    /\ UNCHANGED <<vars, boot, dispatched>>

(***************************************************************************)
(* ports.stop is SessionsService.pause for a switch: the control "switch"  *)
(* closes admission here and goes through EnterStop, CommitStop and        *)
(* EndWait like the others.  A pause that throws leaves the request in     *)
(* stopping, for a later receipt or retry.                                 *)
(***************************************************************************)
StopForSwitch(k) ==
    /\ At(k, "closing")
    /\ Visible
    /\ CloseForStop
    /\ Step("switch", IF session.status = "PAUSED" THEN "again" ELSE "closed")
    /\ Await(k, "halting")
    /\ UNCHANGED <<runtime, seen, resuming, unarchiving, requests, boot, dispatched>>

StopThrows(k) ==
    /\ At(k, "closing") \/ (At(k, "halting") /\ flow["switch"] = "idle")
    /\ Return
    /\ UNCHANGED <<vars, requests, boot, dispatched>>

StopReturns(k) ==
    /\ At(k, "halting")
    /\ flow["switch"] = "stopped"
    /\ Step("switch", "idle")
    /\ IF Stopped THEN Await(k, "confirming") ELSE Return
    /\ PruneSync
    /\ UNCHANGED <<durable, pc, proc, handle, syncTries, faults, correcting, seen, resuming,
                   unarchiving, requests, boot, dispatched>>

ConfirmStop(k) ==
    /\ At(k, "confirming")
    /\ IF ~CanTransition(k, "stop_confirmed", requests[k].generation)
       THEN UNCHANGED requests /\ Await(k, "failing")
       ELSE /\ SetStatus(k, "stop_confirmed")
            /\ IF Stopped THEN Await(k, "recheck") ELSE Return
    /\ PruneSync
    /\ UNCHANGED <<durable, pc, proc, handle, syncTries, faults, correcting, controls,
                   boot, dispatched>>

RecheckPasses(k) ==
    /\ At(k, "recheck")
    /\ Await(k, "applying")
    /\ UNCHANGED <<vars, requests, boot, dispatched>>

RecheckFails(k) == Throw(k, "recheck")

Apply(k) ==
    /\ At(k, "applying")
    /\ ApplySwitch(k)
    /\ Await(k, IF k \in Resumes THEN "resuming" ELSE "completing")
    /\ UNCHANGED <<runtime, controls, boot, dispatched>>

\* A guard of apply fails, the context is stale or the transaction fails.
ApplyFails(k) == Throw(k, "applying")

\* Mutant: resume is called before its intention is durable.
ResumeStatus_Late(k) == requests[k].status

ResumeStatus(k) == "resuming"

\* The request is resuming before ports.resume is called; a working Session is left alone.
ResumeSwitched(k) ==
    /\ At(k, "resuming")
    /\ IF ~CanTransition(k, "resuming", requests[k].generation)
       THEN UNCHANGED <<session, requests, dispatched>> /\ Await(k, "failing")
       ELSE /\ SetStatus(k, ResumeStatus(k))
            /\ dispatched' = [dispatched EXCEPT ![k] = IF @ < 2 THEN @ + 1 ELSE @]
            /\ CASE ~Visible \/ (session.status # "EXECUTING" /\ HasUnconfirmedStops)
                        -> Await(k, "failing") /\ UNCHANGED session
                 [] Visible /\ session.status = "EXECUTING"
                        -> Await(k, "completing") /\ UNCHANGED session
                 [] Visible /\ session.status # "EXECUTING" /\ ~HasUnconfirmedStops
                            /\ lifecycle.admission = "closed"
                        -> Await(k, "reopening") /\ UNCHANGED session
                 [] OTHER -> Await(k, "completing") /\ session' = Executing(session)
    /\ PruneSync
    /\ UNCHANGED <<lifecycle, stopRequest, ops, pc, proc, handle, syncTries, faults, correcting,
                   controls, boot>>

ReopenForSwitch(k) ==
    /\ At(k, "reopening")
    /\ Reopen
    /\ Await(k, "reopened")
    /\ UNCHANGED <<runtime, controls, requests, boot, dispatched>>

ReopenThrows(k) == Throw(k, "reopening")

SwitchResumed(k) ==
    /\ At(k, "reopened")
    /\ session' = Executing(session)
    /\ Await(k, "completing")
    /\ UNCHANGED <<lifecycle, stopRequest, ops, runtime, controls, requests, boot,
                   dispatched>>

CompleteSwitch(k) ==
    /\ At(k, "completing")
    /\ IF CanTransition(k, "completed", requests[k].generation)
       THEN SetStatus(k, "completed") /\ Return
       ELSE UNCHANGED requests /\ Await(k, "failing")
    /\ UNCHANGED <<vars, boot, dispatched>>

\* The catch of execute: a request that is not settled yet fails, if its transition is allowed.
FailSwitch(k) ==
    /\ At(k, "failing")
    /\ IF k \in Unresolved /\ CanTransition(k, "failed", requests[k].generation)
       THEN SetStatus(k, "failed")
       ELSE UNCHANGED requests
    /\ Return
    /\ UNCHANGED <<vars, boot, dispatched>>

Execute(k) ==
    \/ PreflightPasses(k) \/ PreflightFails(k) \/ MarkPreflighted(k) \/ MarkStopping(k)
    \/ StopForSwitch(k) \/ StopThrows(k) \/ StopReturns(k) \/ ConfirmStop(k)
    \/ RecheckPasses(k) \/ RecheckFails(k) \/ Apply(k) \/ ApplyFails(k)
    \/ ResumeSwitched(k) \/ ReopenForSwitch(k) \/ ReopenThrows(k) \/ SwitchResumed(k)
    \/ CompleteSwitch(k) \/ FailSwitch(k)

-----------------------------------------------------------------------------
(* The controls of the Session beside a switch. *)

(***************************************************************************)
(* A user's pause fails a pending switch, whatever its generation, before  *)
(* it closes admission.  The two transactions are one step: whatever runs  *)
(* between them could as well have run before the first (a reopen) or      *)
(* after the second (a move of the failed request, a new request).         *)
(***************************************************************************)
PauseFailsSwitch(k) ==
    /\ boot = "up"
    /\ k \in Unresolved
    /\ SetStatus(k, "failed")
    /\ Pause
    /\ UNCHANGED <<exec, boot, dispatched>>

UserStep ==
    \/ Unresolved = {} /\ Pause
    \/ Delete \/ Archive \/ Disconnect
    \/ FinishDelete \/ ClearArchived \/ FinishArchive
    \/ CheckResume \/ ReopenAdmission \/ ReopenRefused \/ FinishResume
    \/ RestoreDeleted \/ RestoreAgain \/ CheckUnarchive \/ FinishUnarchive \/ UnarchiveRefused

SessionStep ==
    \/ \E i \in Invs : RuntimeStep(i) /\ UNCHANGED controls
    \/ \E o \in OpIds : ResumeOperation(o) /\ UNCHANGED controls
    \/ \E c \in Controls : \/ EnterStop(c) \/ CommitStop(c) \/ CommitStopFails(c) \/ EndWait(c)
                           \/ AbandonStopped(c)
    \/ boot = "up" /\ UserStep

-----------------------------------------------------------------------------
(* A restart: onModuleInit recovers the switches, then the boot interrupts the work. *)

Crash ==
    /\ boot = "up"
    /\ Restart
    /\ session' = session
    /\ exec' = Idle
    /\ boot' = "crashed"
    /\ UNCHANGED <<requests, dispatched>>

\* recover: a resume that was called already is not called again.
RecoverSwitch(k) ==
    /\ boot = "crashed"
    /\ ~session.archived
    /\ k \in Unresolved
    /\ IF requests[k].status = "resuming"
       THEN /\ IF CanTransition(k, "failed", requests[k].generation)
               THEN SetStatus(k, "failed") ELSE UNCHANGED requests
            /\ UNCHANGED <<vars, exec>>
       ELSE UNCHANGED requests /\ Advance(k)
    /\ boot' = "recovered"
    /\ UNCHANGED dispatched

FinishBoot ==
    /\ \/ boot = "crashed" /\ (Unresolved = {} \/ session.archived)
       \/ boot = "recovered" /\ exec = Idle
    /\ boot' = "up"
    /\ session' \in {session} \cup
          {[s EXCEPT !.status = "INTERRUPTED"] :
              s \in {x \in {session} : x.status = "EXECUTING" /\ ~x.archived}}
    /\ UNCHANGED <<lifecycle, stopRequest, ops, runtime, controls, requests, exec,
                   dispatched>>

SwitchNext ==
    \/ SessionStep /\ UNCHANGED switchVars
    \/ \E k \in Keys : \/ RequestSwitch(k) \/ AdvanceAgain(k) \/ Execute(k)
                       \/ PauseFailsSwitch(k) \/ RecoverSwitch(k)
    \/ Crash \/ FinishBoot

SwitchSpec == SwitchInit /\ [][SwitchNext]_allVars

-----------------------------------------------------------------------------
(* Safety *)

(***************************************************************************)
(* The old Runtime has stopped when the new one takes the Session over: at *)
(* the moment a switch is applied no process of an ordinary operation is   *)
(* left, whatever users did between the stop and the transaction.          *)
(***************************************************************************)
AppliedIsStopped ==
    [][\A k \in Keys : requests[k].status = "stop_confirmed" /\ requests'[k].status = "applying"
           => \A i \in Invs : proc[i] = "live" => BaseOf[i] \in Restricted]_allVars

(***************************************************************************)
(* One switch dispatches the Session at most once, across restarts and     *)
(* repeated requests: the intention to resume is durable before the call.  *)
(***************************************************************************)
ResumedOnce == \A k \in Keys : dispatched[k] <= 1

-----------------------------------------------------------------------------
(* Liveness *)

ControlRuns(c) ==
    /\ EnterStop(c) \/ CommitStop(c) \/ EndWait(c)
    /\ UNCHANGED switchVars

(***************************************************************************)
(* execute() and the stopping controls run on the event loop and wait for  *)
(* transactions, preflights and a bounded stop; the timer comes every 2 s. *)
(***************************************************************************)
SwitchFairness ==
    /\ \A k \in Keys : WF_allVars(Execute(k)) /\ WF_allVars(AdvanceAgain(k))
    /\ \A c \in Controls : WF_allVars(ControlRuns(c))

FairSwitchSpec == SwitchSpec /\ SwitchFairness

(***************************************************************************)
(* A switch is not left in the queue: a request that was opened is taken   *)
(* up by the coordinator.                                                  *)
(***************************************************************************)
SwitchIsTakenUp ==
    \A k \in Keys : requests[k].status = "requested" ~> requests[k].status # "requested"
=============================================================================
