---------------------------- MODULE SessionsService ----------------------------
(***************************************************************************)
(* The Session controls of SessionsService on top of the supervisor and    *)
(* the stores, and the restart of the server.  Each control is an HTTP     *)
(* handler with awaits; any two of them interleave.                        *)
(*                                                                         *)
(*   flow      where pause, delete, archive and the workspace-disconnect   *)
(*             handler are: they share RuntimeService.cancelSessionAndWait *)
(*   seen      the supervised invocations cancelSessionAndWait read before *)
(*             it queued the stop request                                  *)
(*   resuming  where resume is                                             *)
(*   unarchiving  restoreArchived has passed its checks                    *)
(*                                                                         *)
(* One handler of each kind runs at a time.                                *)
(***************************************************************************)
EXTENDS SessionLifecycleStore, RuntimeService

CONSTANT Controls   \* the stopping controls users and devices exercise

\* switch: the pause a Runtime switch makes, see RuntimeSwitch.
ControlKinds == {"pause", "delete", "archive", "disconnect", "switch"}

ASSUME ControlsAssumption == Controls \subseteq ControlKinds

VARIABLES flow, seen, resuming, unarchiving

controls == <<flow, seen, resuming, unarchiving>>
vars == <<durable, runtime, controls>>

\* again: a pause of a Session that was PAUSED already leaves its status alone.
FlowPc == {"idle", "closed", "again", "requesting", "waiting", "stopped", "deleted"}

ControlsTypeOK ==
    /\ flow \in [Controls -> FlowPc]
    /\ seen \in [Controls -> SUBSET Invs]
    /\ resuming \in {"idle", "checked", "reopened"}
    /\ unarchiving \in BOOLEAN

TypeOK == DraftTypeOK /\ RuntimeTypeOK /\ ControlsTypeOK

Init ==
    /\ DraftInit
    /\ RuntimeInit
    /\ flow = [c \in Controls |-> "idle"]
    /\ seen = [c \in Controls |-> {}]
    /\ resuming = "idle"
    /\ unarchiving = FALSE

Step(c, label) == flow' = [flow EXCEPT ![c] = label]

\* SessionsService.get: pause and resume reach only a visible, active Session.
Visible == ~session.archived /\ lifecycle.state \in {"none", "active"}

-----------------------------------------------------------------------------
(* Closing admission: the first transaction of a stopping control. *)

\* Whatever the status: with a message still being routed every status may be paused.
Pause ==
    /\ "pause" \in Controls
    /\ flow["pause"] = "idle"
    /\ Visible
    /\ CloseForStop
    /\ Step("pause", IF session.status = "PAUSED" THEN "again" ELSE "closed")
    /\ UNCHANGED <<runtime, seen, resuming, unarchiving>>

Delete ==
    /\ "delete" \in Controls
    /\ flow["delete"] = "idle"
    /\ lifecycle.state # "deleted"
    /\ BeginDelete
    /\ Step("delete", "closed")
    /\ UNCHANGED <<runtime, seen, resuming, unarchiving>>

Archive ==
    /\ "archive" \in Controls
    /\ flow["archive"] = "idle"
    /\ lifecycle.state # "deleted"
    /\ ~session.archived
    /\ CloseForStop
    /\ Step("archive", "closed")
    /\ UNCHANGED <<runtime, seen, resuming, unarchiving>>

\* interruptForWorkspaceDisconnect closes nothing: it marks the Session interrupted.
Disconnect ==
    /\ "disconnect" \in Controls
    /\ flow["disconnect"] = "idle"
    /\ session.status = "EXECUTING"
    /\ session' = [session EXCEPT !.status = "INTERRUPTED"]
    /\ Step("disconnect", "requesting")
    /\ seen' = [seen EXCEPT !["disconnect"] = Supervised]
    /\ UNCHANGED <<lifecycle, stopRequest, ops, runtime, resuming, unarchiving>>

\* The code after that await: the status, then cancelSessionAndWait reads its handles.
EnterStop(c) ==
    /\ flow[c] \in {"closed", "again"}
    /\ session' = IF flow[c] = "again" THEN session ELSE Paused(session)
    /\ seen' = [seen EXCEPT ![c] = Supervised]
    /\ Step(c, "requesting")
    /\ UNCHANGED <<lifecycle, stopRequest, ops, runtime, resuming, unarchiving>>

-----------------------------------------------------------------------------
(* cancelSessionAndWait *)

Termination(c) == IF c \in {"disconnect", "switch"} THEN "other" ELSE "paused"

\* The stop request commits; then every handle read before is cancelled.
CommitStop(c) ==
    /\ flow[c] = "requesting"
    /\ RequestStop(seen[c])
    /\ requestFailed' = FALSE
    /\ AbortAll(seen[c], Termination(c))
    /\ Step(c, "waiting")
    /\ UNCHANGED <<pc, opOf, proc, pending, epoch, failures, correcting, seen, resuming, unarchiving>>

\* Its transaction fails: the failure is remembered and the handles are cancelled anyway.
CommitStopFails(c) ==
    /\ flow[c] = "requesting"
    /\ TransactionFails
    /\ requestFailed' = TRUE
    /\ AbortAll(seen[c], Termination(c))
    /\ Step(c, "waiting")
    /\ UNCHANGED <<durable, pc, opOf, proc, pending, epoch, correcting, seen, resuming, unarchiving>>

\* timedOut of the result: the wait is over when all handles are done or after 10 s.
StopTimedOut(c) == (seen[c] # {} /\ Supervised # {}) \/ ~CanResume

EndWait(c) ==
    /\ flow[c] = "waiting"
    /\ Step(c, IF StopTimedOut(c) \/ c \in {"pause", "disconnect"} THEN "idle" ELSE "stopped")
    /\ seen' = [seen EXCEPT ![c] = {}]
    /\ PruneSync
    /\ UNCHANGED <<durable, pc, proc, handle, syncTries, faults, correcting, resuming, unarchiving>>

-----------------------------------------------------------------------------
(* What follows a stop that did not time out. *)

\* execution.cancelAndWait timed out, a delivery runs or a cleanup failed: retry later.
AbandonStopped(c) ==
    /\ flow[c] = "stopped"
    /\ Step(c, "idle")
    /\ UNCHANGED <<durable, runtime, seen, resuming, unarchiving>>

FinishDelete ==
    /\ "delete" \in Controls
    /\ flow["delete"] = "stopped"
    /\ CompleteDelete
    /\ Step("delete", IF lifecycle'.state = "deleted" THEN "deleted" ELSE "idle")
    /\ UNCHANGED <<runtime, seen, resuming, unarchiving>>

\* After completeDelete has returned, the archived mark is cleared and saved.
ClearArchived ==
    /\ "delete" \in Controls
    /\ flow["delete"] = "deleted"
    /\ session' = [session EXCEPT !.archived = FALSE]
    /\ Step("delete", "idle")
    /\ UNCHANGED <<lifecycle, stopRequest, ops, runtime, seen, resuming, unarchiving>>

FinishArchive ==
    /\ "archive" \in Controls
    /\ flow["archive"] = "stopped"
    /\ MarkArchived
    /\ Step("archive", "idle")
    /\ UNCHANGED <<runtime, seen, resuming, unarchiving>>

-----------------------------------------------------------------------------
(* resume, restore, restoreArchived *)

Executing(s) == [s EXCEPT !.status = "EXECUTING"]

\* resume checks the barrier in memory; it only has to wait if admission is closed.
CheckResume ==
    /\ resuming = "idle"
    /\ Visible
    /\ session.status # "EXECUTING"
    /\ ~HasUnconfirmedStops
    /\ IF lifecycle.admission = "closed"
       THEN resuming' = "checked" /\ UNCHANGED session
       ELSE session' = Executing(session) /\ UNCHANGED resuming
    /\ PruneSync
    /\ UNCHANGED <<lifecycle, stopRequest, ops, pc, proc, handle, syncTries, faults, correcting,
                   flow, seen, unarchiving>>

ReopenAdmission ==
    /\ resuming = "checked"
    /\ Reopen
    /\ resuming' = "reopened"
    /\ UNCHANGED <<runtime, flow, seen, unarchiving>>

ReopenRefused ==
    /\ resuming = "checked"
    /\ resuming' = "idle"
    /\ UNCHANGED <<durable, runtime, flow, seen, unarchiving>>

FinishResume ==
    /\ resuming = "reopened"
    /\ session' = Executing(session)
    /\ resuming' = "idle"
    /\ UNCHANGED <<lifecycle, stopRequest, ops, runtime, flow, seen, unarchiving>>

RestoreDeleted ==
    /\ Restore(lifecycle.generation)
    /\ UNCHANGED <<runtime, controls>>

\* A repeated delivery of the restore request changes no lifecycle, but it pauses.
RestoreAgain ==
    /\ lifecycle.restored
    /\ session' = Paused(session)
    /\ UNCHANGED <<lifecycle, stopRequest, ops, runtime, controls>>

\* The checks of restoreArchived, before it waits for the workspace lease.
CheckUnarchive ==
    /\ ~unarchiving
    /\ session.archived
    /\ lifecycle.state = "active"
    /\ unarchiving' = TRUE
    /\ UNCHANGED <<durable, runtime, flow, seen, resuming>>

\* The status is written after the transaction, also when that found nothing to restore.
FinishUnarchive ==
    /\ unarchiving
    /\ \/ session.archived /\ RestoreArchived
       \/ ~session.archived /\ session' = Paused(session) /\ UNCHANGED <<lifecycle, stopRequest, ops>>
    /\ unarchiving' = FALSE
    /\ UNCHANGED <<runtime, flow, seen, resuming>>

UnarchiveRefused ==
    /\ unarchiving
    /\ unarchiving' = FALSE
    /\ UNCHANGED <<durable, runtime, flow, seen, resuming>>

(***************************************************************************)
(* The server process dies and boots again: memory is lost, server-side    *)
(* processes may die with it, bridge processes do not.  Boot turns running *)
(* work into a wakeable interruption, except for Sessions of the newer     *)
(* intent contract, and never starts an invocation again.                  *)
(***************************************************************************)
Restart ==
    /\ epoch < MaxRestarts
    /\ epoch' = epoch + 1
    /\ pc' = [i \in Invs |-> IF pc[i] = "idle" THEN "idle" ELSE "done"]
    /\ abort' = [i \in Invs |-> "no"]
    /\ armed' = [i \in Invs |-> FALSE]
    /\ \E died \in SUBSET ({i \in Invs : proc[i] = "live"} \ Local) :
          proc' = [i \in Invs |-> IF i \in died \/ (proc[i] = "live" /\ i \in Internal)
                                  THEN "exited" ELSE proc[i]]
    /\ sync' = [i \in Invs |-> "none"]
    /\ syncTries' = [i \in Invs |-> 0]
    /\ requestFailed' = FALSE
    /\ correcting' = {}
    /\ flow' = [c \in Controls |-> "idle"]
    /\ seen' = [c \in Controls |-> {}]
    /\ resuming' = "idle"
    /\ unarchiving' = FALSE
    /\ session' \in {session} \cup
          {[s EXCEPT !.status = "INTERRUPTED"] :
              s \in {x \in {session} : x.status = "EXECUTING" /\ ~x.archived}}
    /\ UNCHANGED <<lifecycle, stopRequest, ops, opOf, failures>>

Next ==
    \/ \E i \in Invs : RuntimeStep(i) /\ UNCHANGED controls
    \/ \E o \in OpIds : ResumeOperation(o) /\ UNCHANGED controls
    \/ Pause \/ Delete \/ Archive \/ Disconnect
    \/ \E c \in Controls : \/ EnterStop(c) \/ CommitStop(c) \/ CommitStopFails(c)
                           \/ EndWait(c) \/ AbandonStopped(c)
    \/ FinishDelete \/ ClearArchived \/ FinishArchive
    \/ CheckResume \/ ReopenAdmission \/ ReopenRefused \/ FinishResume
    \/ RestoreDeleted \/ RestoreAgain \/ CheckUnarchive \/ FinishUnarchive \/ UnarchiveRefused
    \/ Restart

Spec == Init /\ [][Next]_vars

-----------------------------------------------------------------------------
(* Safety *)

(***************************************************************************)
(* The durable reservation is committed before an adapter may start a      *)
(* process and is released only on evidence that the process ended: at any *)
(* time, across restarts and failed transactions, the operation of a live  *)
(* process names it as its active invocation.  With one activeInvocationId *)
(* per operation, an operation never has two processes.                    *)
(***************************************************************************)
LiveIsReserved ==
    \A i \in Invs : proc[i] = "live" => opOf[i] \in OpIds /\ ops[opOf[i]].active = i

(***************************************************************************)
(* While a stop request waits, every reserved invocation is one of its     *)
(* frozen targets and has not been confirmed: nothing slips in between the *)
(* request and its confirmation.                                           *)
(***************************************************************************)
OpenStopCoversActive ==
    stopRequest.status = "waiting" => ActiveInvs \subseteq Blockers

(***************************************************************************)
(* A target is confirmed only by evidence: by the adapter's result or a    *)
(* transport receipt of a process that has ended.                          *)
(***************************************************************************)
ConfirmedTargetsEnded ==
    \A i \in Invs : stopRequest.targets[i] = "confirmed" => proc[i] # "live"

(***************************************************************************)
(* completeDelete hides the Session only after every agent process that    *)
(* was working for it has ended, whatever ran concurrently with delete().  *)
(***************************************************************************)
DeletedIsStopped ==
    lifecycle.state = "deleted" => \A i \in Invs : proc[i] # "live"

(***************************************************************************)
(* Stop evidence is final: while a request waits its target set is frozen, *)
(* and a confirmed target never goes back, even if the settle of an        *)
(* unconfirmed result arrives after the receipt.                           *)
(***************************************************************************)
StopEvidenceKept ==
    [][stopRequest.status = "waiting" =>
           \A i \in Invs :
              /\ stopRequest'.targets[i] = "none" <=> stopRequest.targets[i] = "none"
              /\ stopRequest.targets[i] = "confirmed" => stopRequest'.targets[i] = "confirmed"]_vars

(***************************************************************************)
(* The closed admission of an active Session is opened only when no        *)
(* process of an ordinary operation is left; only the restricted routing   *)
(* and response operations may run while it is closed.  (A Session that is *)
(* being deleted admits nothing whatever its admission says.)              *)
(***************************************************************************)
ReopenIsSafe ==
    [][lifecycle.state = "active" /\ lifecycle.admission = "closed"
       /\ lifecycle'.admission = "open" =>
           \A i \in Invs : proc[i] = "live" => BaseOf[i] \in Restricted]_vars

(***************************************************************************)
(* An operation that a pause or an intent correction marked is not given   *)
(* another invocation until it is resumed explicitly, in whatever order    *)
(* the mark, the result, a receipt and a delayed settle arrive.            *)
(***************************************************************************)
PausedNeedsResume ==
    [][\A o \in OpIds : ops[o].pauseReq /\ ops'[o].active # ops[o].active
                            => ops'[o].active = NoInv]_vars

(***************************************************************************)
(* An active Session runs no ordinary process of an earlier generation:    *)
(* restoring it after a deletion, or switching its Runtime, fences off     *)
(* what was admitted before.  A legacy process (generation 0) may see the  *)
(* Session get its first lifecycle record, never a second generation.  The *)
(* routing and response operations, which closed admission lets in, may    *)
(* start between the last check of a switch and its application.           *)
(***************************************************************************)
GenerationFence ==
    lifecycle.state = "active" =>
        \A i \in Invs : proc[i] = "live" /\ BaseOf[i] \notin Restricted =>
            \/ opOf[i][2] = lifecycle.generation
            \/ opOf[i][2] = 0 /\ lifecycle.generation = 1
=============================================================================
