-------------------------- MODULE ExecutionService --------------------------
(***************************************************************************)
(* The pipelines that drive one confirmed Session: ExecutionService.start  *)
(* and its cancels, the queue and worker that replace the in-process path  *)
(* when BullMQ is enabled, the pipeline's phases as far as its abort       *)
(* checks tell them apart, and the Session's controls, the writebacks of   *)
(* its tasks and applyOutcome around them.                                 *)
(*                                                                         *)
(* A run is one call of start.  Inline, `slot` is the Session's entry of   *)
(* the `running` map and `deferred` the starts chained on its promise;     *)
(* with BullMQ, `slot` is its entry of `abortControllers`.  Code between   *)
(* two awaits is one step.  The lifecycle transactions a control awaits    *)
(* (SessionLifecycleStore) are single steps here; whether Runtimes have    *)
(* confirmed a stop is an outside condition, so a resume may be refused,   *)
(* and so is whether a message of the user waits in the queue: its         *)
(* planning (processNextFollowUp) is not modelled.                         *)
(***************************************************************************)
EXTENDS Naturals, FiniteSets, Sequences, SequencesExt

CONSTANTS
    RunsOf,         \* mode of the server -> the calls of start
    CallsOf,        \* mode -> the user requests in flight at once
    BullMq,         \* the modes with bullMqEnabled(); in the others runs are in process
    Workspace,      \* the modes in which tasks have changes to write back to a workspace
    NoRun,
    MaxReworks,     \* REWORK_MAX_ROUNDS
    MaxTries,       \* QUEUE_ATTEMPTS
    MaxGeneration   \* bound on deletes and restores

Modes == DOMAIN RunsOf
Runs == UNION {RunsOf[m] : m \in Modes}
Calls == UNION {CallsOf[m] : m \in Modes}

ASSUME ExecutionAssumption ==
    /\ NoRun \notin Runs
    /\ DOMAIN CallsOf = Modes
    /\ MaxReworks \in Nat
    /\ MaxTries \in Nat \ {0}
    /\ MaxGeneration \in Nat \ {0}

VARIABLES
    mode,
    runs,           \* run -> where it is, whether aborted, its generation and tries
    slot,
    deferred,       \* starts waiting for the promise of the slot's run
    session,        \* status, pauseState.previousStatus, final delivery, rework rounds, the
                    \* generation of a blocking writeback (or 0), and history: see the end
    writing,        \* the runs with a task whose writeback is under way
    lifecycle,      \* admission, deleted, generation
    calls,          \* the controls that await something
    shuttingDown

vars == <<mode, runs, slot, deferred, session, writing, lifecycle, calls, shuttingDown>>

-----------------------------------------------------------------------------
\* A pipeline checks its abort signal in "tasks", "review" and "delivery"; in
\* the others it saves what it has and no longer looks at the signal.  It is
\* "conflicted" when a task met a conflict and the tasks beside it still run.
Phases == {"tasks", "conflicted", "review", "reviewed", "delivery", "finalising", "delivered"}
Checked == {"tasks", "review", "delivery"}

Places == Phases \cup {"unused", "deferred", "queued", "ended"}

Statuses == {"EXECUTING", "REWORKING", "WAIT_USER_DECISION", "PAUSED", "INTERRUPTED",
             "COMPLETED", "FAILED", "CANCELLED", "APPLYING_CHANGES",
             "WAIT_WORKSPACE_CONFLICT_RESOLUTION"}

Live == {r \in Runs : runs[r].at \in Phases}
Unused == {r \in RunsOf[mode] : runs[r].at = "unused"}

\* Of a run that is not under way nothing but its place is kept.
Idle(place) == [ at |-> place, aborted |-> FALSE, generation |-> 0, tries |-> 0 ]

IdleCall == [ at |-> "idle", already |-> FALSE ]

\* Mutant: an execution admitted before a delete counts as current.
IsActive_AnyGeneration(g) == ~lifecycle.deleted /\ lifecycle.open

\* SessionLifecycleStore.isActive
IsActive(g) == ~lifecycle.deleted /\ lifecycle.open /\ lifecycle.generation = g

\* assertControlTransition, for the statuses of this model
MayBecome(status, next) ==
    CASE next = "PAUSED"             -> status \in {"EXECUTING", "REWORKING"}
      [] next = "WAIT_USER_DECISION" -> status \in {"EXECUTING", "REWORKING"}
      [] next = "EXECUTING"          -> status \in {"REWORKING", "WAIT_USER_DECISION", "PAUSED",
                                                    "INTERRUPTED", "FAILED"}
      [] next = "CANCELLED"          -> status \notin {"COMPLETED", "CANCELLED", "APPLYING_CHANGES",
                                                       "WAIT_WORKSPACE_CONFLICT_RESOLUTION"}

Init ==
    /\ mode \in Modes
    /\ runs = [r \in Runs |-> Idle("unused")]
    /\ slot = NoRun
    /\ deferred = <<>>
    /\ session = [ status |-> "WAIT_USER_DECISION", previous |-> "EXECUTING",
                   final |-> FALSE, reworks |-> 0, conflict |-> 0,
                   adrift |-> FALSE, handedOver |-> FALSE ]
    /\ writing = {}
    /\ lifecycle = [ open |-> TRUE, deleted |-> FALSE, generation |-> 1 ]
    /\ calls = [c \in Calls |-> IdleCall]
    /\ shuttingDown = FALSE

-----------------------------------------------------------------------------
(* start, cancel and the release of the slot, as functions of the table x  *)
(* of runs, slot and deferred starts.                                      *)

Table == [ runs |-> runs, slot |-> slot, deferred |-> deferred ]

SetTable(x) == runs' = x.runs /\ slot' = x.slot /\ deferred' = x.deferred

\* Mutant: a start that finds an aborted run is dropped.
Chained_Never(x) == FALSE

\* A start that finds an aborted run is chained on its promise.
Chained(x) == x.runs[x.slot].aborted

\* A start refused because the service shuts down reports a cancelled outcome,
\* which applyOutcome ignores; one that finds a run not aborted is dropped.
Start(x, r) ==
    LET At(place) == [x EXCEPT !.runs[r] = [ Idle(place) EXCEPT !.generation = lifecycle.generation ]]
        dropped   == [x EXCEPT !.runs[r] = Idle("ended")]
    IN  IF shuttingDown THEN dropped
        ELSE IF mode \in BullMq THEN At("queued")
        ELSE IF x.slot = NoRun THEN [At("tasks") EXCEPT !.slot = r]
        ELSE IF Chained(x)
             THEN [At("deferred") EXCEPT !.deferred = Append(@, r)]
             ELSE dropped

Cancel(x) ==
    IF x.slot = NoRun THEN x ELSE [x EXCEPT !.runs[x.slot].aborted = TRUE]

\* The release compares the controller, so a run only frees its own entry.
Release(x, r) ==
    [x EXCEPT !.runs[r] = Idle("ended"), !.slot = IF @ = r THEN NoRun ELSE @]

\* Mutant: a chained start does not look at the slot.
Refused_AtShutdown(x) == shuttingDown

\* The first of the starts chained on a promise that settles is refused when a
\* rework has taken the slot or the service shuts down.
Refused(x) == shuttingDown \/ x.slot # NoRun

\* The promise of the slot's run settles: the starts chained on it run again in
\* order, each with the generation it was called with.  The ones after the
\* first find it in the slot.
Settle(x) ==
    LET gone == Range(x.deferred)
        drop == [r \in Runs |-> IF r \in gone THEN Idle("ended") ELSE x.runs[r]]
        next == Head(x.deferred)
    IN  IF gone = {} THEN x
        ELSE IF Refused(x)
        THEN [ runs |-> drop, slot |-> x.slot, deferred |-> <<>> ]
        ELSE [ runs |-> [drop EXCEPT ![next] = [x.runs[next] EXCEPT !.at = "tasks"]], slot |-> next, deferred |-> <<>> ]

-----------------------------------------------------------------------------
(* What a pipeline reports, and what applyOutcome makes of it.             *)

\* runPipeline, runPostReview and runFinalDelivery.  What throws after the tasks
\* is reported "cancelled" once aborted; a task that throws is always "failed",
\* and does not wait for the tasks beside it.  "ask_user" stands for every
\* outcome that waits for a decision: approvals, budgets, a retried task.
Reports(r) ==
    LET aborted == runs[r].aborted
        thrown  == IF aborted THEN {"cancelled"} ELSE {"failed"}
        failed  == IF aborted THEN {"cancelled", "failed"} ELSE {"ask_user", "failed"}
    IN  CASE runs[r].at = "tasks"      -> IF r \in writing THEN {"failed"}
                                          ELSE failed \cup {"runtime_switch"}
          [] runs[r].at = "conflicted" -> IF aborted THEN failed
                                          ELSE failed \cup {"workspace_conflict"}
          [] runs[r].at = "reviewed"   -> thrown \cup {"rework", "ask_user"}
          [] runs[r].at = "delivered"  -> thrown \cup {"delivered"}
          [] runs[r].at \in {"review", "delivery"} -> thrown \cup {"ask_user"}
          [] OTHER                     -> thrown

Accepts(g, outcome) ==
    /\ IsActive(g)
    /\ session.status \notin {"CANCELLED", "COMPLETED", "PAUSED"}
    /\ session.status = "INTERRUPTED" => outcome = "delivered"
    /\ outcome # "cancelled"
    /\ session.status = "WAIT_USER_DECISION"
          => outcome \in {"ask_user", "delivered", "workspace_conflict"}

\* An outcome that leaves the status to somebody else: what is left after a stop
\* for a Runtime switch to the switch, a delivery to a queued message.
HandsOver(g, outcome) ==
    \/ outcome = "runtime_switch"
    \/ outcome = "delivered" /\ Accepts(g, outcome)

\* The statuses an accepted outcome may set.  A failure waits for the user when
\* a local Runtime lacks a capability; a conflict does what the records of all
\* the Session's writebacks ask for by now.
StatusesFor(outcome) ==
    CASE outcome = "delivered" -> {"COMPLETED"}
      [] outcome = "ask_user"  -> {"WAIT_USER_DECISION"}
      [] outcome = "rework"    -> {IF session.reworks < MaxReworks THEN "REWORKING"
                                   ELSE "WAIT_USER_DECISION"}
      [] outcome = "failed"    -> {"FAILED", "WAIT_USER_DECISION"}
      [] outcome = "workspace_conflict" ->
             {"WAIT_WORKSPACE_CONFLICT_RESOLUTION", "APPLYING_CHANGES", "EXECUTING"}

\* startRework and completeTerminalWorkspaceWritebacks start the next run.
StartsNext(status) == status \in {"REWORKING", "EXECUTING"}

SetStatus(status) ==
    session' = [session EXCEPT !.status = status,
                               !.reworks = IF status = "REWORKING" THEN @ + 1 ELSE @]

\* applyOutcome for a run of generation g, on the table x; the next run is
\* started from inside it.  A conflict that was resolved before it is reported
\* finds nothing to do and leaves the Session as it is.
ApplyOutcome(x, g, outcome) ==
    \/ /\ ~Accepts(g, outcome) /\ ~HandsOver(g, outcome)
       /\ SetTable(Settle(x)) /\ UNCHANGED session
    \/ /\ HandsOver(g, outcome)
       /\ session' = [session EXCEPT !.handedOver = TRUE]
       /\ SetTable(Settle(x))
    \/ /\ Accepts(g, outcome) /\ outcome = "workspace_conflict"
       /\ session' = [session EXCEPT !.adrift = TRUE]
       /\ SetTable(Settle(x))
    \/ /\ Accepts(g, outcome) /\ outcome # "runtime_switch"
       /\ \E status \in StatusesFor(outcome) :
             /\ SetStatus(status)
             /\ IF StartsNext(status)
                THEN \E n \in Unused : SetTable(Settle(Start(x, n)))
                ELSE SetTable(Settle(x))

-----------------------------------------------------------------------------
(* The pipeline.                                                           *)

\* A pause that waits returns when the run it waits for lets go of the slot.
Answered(r) ==
    [c \in Calls |-> IF calls[c].at = "waiting" /\ slot = r THEN IdleCall ELSE calls[c]]

\* The pipeline goes on to its next phase.  The final delivery event is written
\* between the last two.
Advance(r) ==
    /\ runs[r].at \in Phases \ {"conflicted", "delivered"}
    /\ r \notin writing
    /\ runs[r].at \in Checked => ~runs[r].aborted
    /\ LET next == CASE runs[r].at = "tasks"      -> "review"
                     [] runs[r].at = "review"     -> "reviewed"
                     [] runs[r].at = "reviewed"   -> IF session.final THEN "delivered" ELSE "delivery"
                     [] runs[r].at = "delivery"   -> "finalising"
                     [] runs[r].at = "finalising" -> "delivered"
       IN  /\ runs' = [runs EXCEPT ![r].at = next]
           /\ session' = [session EXCEPT !.final = @ \/ next = "delivered"]
    /\ UNCHANGED <<mode, slot, deferred, writing, lifecycle, calls, shuttingDown>>

\* runOneTask: a task has run and its changes are handed to enqueue.
ApplyChanges(r) ==
    /\ mode \in Workspace
    /\ runs[r].at = "tasks" /\ ~runs[r].aborted
    /\ r \notin writing
    /\ writing' = writing \cup {r}
    /\ session' = [session EXCEPT !.status = "APPLYING_CHANGES"]
    /\ UNCHANGED <<mode, runs, slot, deferred, lifecycle, calls, shuttingDown>>

\* Whether nothing would do the work of a Session that is set EXECUTING now.
Idling == ~lifecycle.open \/ slot = NoRun \/ (runs[slot].aborted /\ deferred = <<>>)

\* runOneTask once enqueue returns: it sets the status whatever became of the
\* Session meanwhile, also when the run was aborted or has ended.  The record of
\* a deleted Session fails and is dropped.
ChangesApplied(r) ==
    /\ r \in writing
    /\ writing' = writing \ {r}
    /\ \/ /\ ~lifecycle.deleted
          /\ LET next == IF session.conflict # 0 THEN "WAIT_WORKSPACE_CONFLICT_RESOLUTION"
                         ELSE IF writing' # {} THEN "APPLYING_CHANGES" ELSE "EXECUTING"
             IN  session' = [session EXCEPT !.status = next,
                                            !.adrift = @ \/ (next = "EXECUTING" /\ Idling)]
          /\ UNCHANGED runs
       \/ /\ session' = [session EXCEPT
                !.status = "WAIT_WORKSPACE_CONFLICT_RESOLUTION",
                !.conflict = IF lifecycle.deleted THEN @ ELSE lifecycle.generation]
          /\ runs' = IF runs[r].at = "tasks" THEN [runs EXCEPT ![r].at = "conflicted"] ELSE runs
    /\ UNCHANGED <<mode, slot, deferred, lifecycle, calls, shuttingDown>>

\* The in-process pipeline settles: its slot is free before the outcome is
\* applied, so a rework can start, and the chained starts follow.  When a task
\* throws, the writeback of another may outlive the pipeline.
Finish(r) ==
    /\ mode \notin BullMq
    /\ r \in Live
    /\ \E outcome \in Reports(r) : ApplyOutcome(Release(Table, r), runs[r].generation, outcome)
    /\ writing' \in {writing, writing \ {r}}
    /\ calls' = Answered(r)
    /\ UNCHANGED <<mode, lifecycle, shuttingDown>>

-----------------------------------------------------------------------------
(* The queue and its worker.                                               *)

\* enqueue rejects: onOutcome hears of a failure.
EnqueueFails(r) ==
    /\ runs[r].at = "queued" /\ runs[r].tries = 0
    /\ ApplyOutcome(Release(Table, r), runs[r].generation, "failed")
    /\ UNCHANGED <<mode, writing, lifecycle, calls, shuttingDown>>

\* processJob, up to the pipeline: a stale or stopped Session's job is skipped,
\* any other registers its controller over the one that is there.
ProcessJob(r) ==
    /\ runs[r].at = "queued"
    /\ IF \/ ~IsActive(runs[r].generation)
          \/ session.status \in {"PAUSED", "INTERRUPTED", "CANCELLED", "COMPLETED"}
       THEN runs' = [runs EXCEPT ![r] = Idle("ended")] /\ UNCHANGED slot
       ELSE /\ runs' = [runs EXCEPT ![r].at = "tasks", ![r].tries = @ + 1]
            /\ slot' = r
    /\ UNCHANGED <<mode, deferred, session, writing, lifecycle, calls, shuttingDown>>

\* The pipeline returns: its outcome is applied, then the controller released.
JobReturns(r) ==
    /\ mode \in BullMq
    /\ r \in Live
    /\ \E outcome \in Reports(r) \ {"failed"} :
           ApplyOutcome(Release(Table, r), runs[r].generation, outcome)
    /\ calls' = Answered(r)
    /\ UNCHANGED <<mode, writing, lifecycle, shuttingDown>>

\* Mutant: one try too many.
TriesLeft_OneMore(r) == runs[r].tries <= MaxTries

\* attempts: queueAttempts()
TriesLeft(r) == runs[r].tries < MaxTries

\* The pipeline throws: BullMQ runs the job again, or gives it up and nobody
\* tells the Session.  Writebacks of a job that threw are not followed.
JobThrows(r) ==
    /\ mode \in BullMq
    /\ r \in Live
    /\ "failed" \in Reports(r)
    /\ SetTable(LET x == Release(Table, r)
                IN  IF TriesLeft(r)
                    THEN [x EXCEPT !.runs[r] = [ runs[r] EXCEPT !.at = "queued", !.aborted = FALSE ]]
                    ELSE x)
    /\ writing' = writing \ {r}
    /\ calls' = Answered(r)
    /\ UNCHANGED <<mode, session, lifecycle, shuttingDown>>

-----------------------------------------------------------------------------
(* The Session's controls.                                                 *)

\* resumeWithBinding once admission is open: a failed or interrupted Session is
\* retried, or left to a queued message; a delivered one completes, a paused one
\* returns to what it was.  Nothing is awaited before resumeExecution, so it
\* finds admission open.
ResumeGo ==
    LET retried  == session.status \in {"FAILED", "INTERRUPTED"}
        paused   == session.status = "PAUSED"
        restored == paused /\ session.previous \in {"WAIT_USER_DECISION", "FAILED", "COMPLETED",
                                                    "WAIT_WORKSPACE_CONFLICT_RESOLUTION"}
        next     == IF session.final /\ ~retried THEN "COMPLETED"
                    ELSE IF restored THEN session.previous ELSE "EXECUTING"
    IN  /\ MayBecome(session.status, "EXECUTING")
        /\ \/ /\ retried
              /\ session' = [session EXCEPT !.handedOver = TRUE]
              /\ SetTable(Table)
           \/ /\ session' = [session EXCEPT !.status = next,
                                            !.previous = IF paused THEN "EXECUTING" ELSE @,
                                            !.adrift = FALSE]
              /\ IF next = "EXECUTING"
                 THEN \E r \in Unused : SetTable(Start(Table, r))
                 ELSE SetTable(Table)

Resume(c) ==
    /\ calls[c] = IdleCall
    /\ session.status \notin {"EXECUTING", "REWORKING", "COMPLETED"}
    /\ ~lifecycle.deleted
    /\ IF lifecycle.open
       THEN ResumeGo /\ UNCHANGED <<lifecycle, calls>>
       ELSE /\ calls' = [calls EXCEPT ![c].at = "reopening"]
            /\ UNCHANGED <<runs, slot, deferred, session, lifecycle>>
    /\ UNCHANGED <<mode, writing, shuttingDown>>

\* The reopen transaction commits and the resume goes on with the Session as it
\* is now, or refuses what it has become.
ResumeReopened(c) ==
    /\ calls[c].at = "reopening"
    /\ calls' = [calls EXCEPT ![c] = IdleCall]
    /\ IF lifecycle.deleted
       THEN UNCHANGED <<runs, slot, deferred, session, lifecycle>>
       ELSE /\ lifecycle' = [lifecycle EXCEPT !.open = TRUE]
            /\ IF MayBecome(session.status, "EXECUTING") /\ session.status # "REWORKING"
               THEN ResumeGo
               ELSE UNCHANGED <<runs, slot, deferred, session>>
    /\ UNCHANGED <<mode, writing, shuttingDown>>

\* pause, to its first await: it remembers whether the Session was paused.
Pause(c) ==
    /\ calls[c] = IdleCall
    /\ ~lifecycle.deleted
    /\ session.status = "PAUSED" \/ MayBecome(session.status, "PAUSED")
    /\ calls' = [calls EXCEPT ![c] = [ IdleCall EXCEPT !.at = "closing",
                                                       !.already = session.status = "PAUSED" ]]
    /\ UNCHANGED <<mode, runs, slot, deferred, session, writing, lifecycle, shuttingDown>>

\* closeForStop has committed: the status is set without reading it again, and
\* cancelAndWait aborts what holds the slot.  A pause that found the Session
\* paused sets no status, also when a resume has set it working meanwhile.
PauseCloses(c) ==
    /\ calls[c].at = "closing"
    /\ lifecycle' = [lifecycle EXCEPT !.open = FALSE]
    /\ session' = IF calls[c].already
                  THEN [session EXCEPT !.adrift = @ \/ session.status \in {"EXECUTING", "REWORKING"}]
                  ELSE [session EXCEPT !.previous = session.status, !.status = "PAUSED"]
    /\ SetTable(Cancel(Table))
    /\ calls' = [calls EXCEPT ![c] = IF slot = NoRun THEN IdleCall
                                     ELSE [ IdleCall EXCEPT !.at = "waiting" ]]
    /\ UNCHANGED <<mode, writing, shuttingDown>>

\* The ten seconds are over: the pause fails with SESSION_PAUSE_TIMEOUT.
PauseTimesOut(c) ==
    /\ calls[c].at = "waiting"
    /\ calls' = [calls EXCEPT ![c] = IdleCall]
    /\ UNCHANGED <<mode, runs, slot, deferred, session, writing, lifecycle, shuttingDown>>

\* control: to WAIT_USER_DECISION or to CANCELLED, with a cancel of the run.
Control(status) ==
    /\ ~lifecycle.deleted
    /\ MayBecome(session.status, status)
    /\ session' = [session EXCEPT !.status = status]
    /\ SetTable(Cancel(Table))
    /\ UNCHANGED <<mode, writing, lifecycle, calls, shuttingDown>>

\* resolveWorkspaceWriteback, to its await: the record must be of an admitted
\* generation.
Resolve(c) ==
    /\ calls[c] = IdleCall
    /\ IsActive(session.conflict)
    /\ calls' = [calls EXCEPT ![c].at = "resolving"]
    /\ UNCHANGED <<mode, runs, slot, deferred, session, writing, lifecycle, shuttingDown>>

\* The record was resolved: the status follows what the Session's other records
\* ask for, without a look at what it has become, and when nothing is left
\* resumeExecution starts a run, unless admission closed meanwhile.  Or the
\* record conflicts again or could not be updated.
Resolved(c) ==
    /\ calls[c].at = "resolving"
    /\ calls' = [calls EXCEPT ![c] = IdleCall]
    /\ \/ UNCHANGED session /\ SetTable(Table)
       \/ /\ ~lifecycle.deleted
          /\ \E status \in {"WAIT_WORKSPACE_CONFLICT_RESOLUTION", "APPLYING_CHANGES"} :
                session' = [session EXCEPT !.status = status]
          /\ SetTable(Table)
       \/ /\ ~lifecycle.deleted
          /\ session' = [session EXCEPT !.status = "EXECUTING", !.conflict = 0,
                                        !.adrift = @ \/ ~lifecycle.open]
          /\ IF lifecycle.open
             THEN \E r \in Unused : SetTable(Start(Table, r))
             ELSE SetTable(Table)
    /\ UNCHANGED <<mode, writing, lifecycle, shuttingDown>>

\* restartExecutionWithUpdatedContext: a message changes what the tasks still
\* to run should do, so the run is superseded and a new one started.
Restart ==
    /\ session.status = "EXECUTING"
    /\ mode \notin BullMq /\ slot # NoRun
    /\ runs[slot].at \in {"tasks", "conflicted"}
    /\ \E r \in Unused : SetTable(Start(Cancel(Table), r))
    /\ UNCHANGED <<mode, session, writing, lifecycle, calls, shuttingDown>>

\* interruptForWorkspaceDisconnect
Interrupt ==
    /\ session.status \in {"EXECUTING", "REWORKING"}
    /\ session' = [session EXCEPT !.status = "INTERRUPTED"]
    /\ SetTable(Cancel(Table))
    /\ UNCHANGED <<mode, writing, lifecycle, calls, shuttingDown>>

\* delete and restore, as far as a pipeline sees them.
Delete ==
    /\ ~lifecycle.deleted
    /\ lifecycle.generation < MaxGeneration
    /\ lifecycle' = [ open |-> FALSE, deleted |-> TRUE, generation |-> lifecycle.generation + 1 ]
    /\ session' = [session EXCEPT !.status = "PAUSED"]
    /\ SetTable(Cancel(Table))
    /\ UNCHANGED <<mode, writing, calls, shuttingDown>>

\* A delete does not complete while an operation of a writeback is under way.  It
\* withdraws the conflicts that have a draft; another that blocks goes on to.
Restore ==
    /\ lifecycle.deleted
    /\ lifecycle.generation < MaxGeneration
    /\ writing = {} /\ \A c \in Calls : calls[c].at # "resolving"
    /\ lifecycle' = [ open |-> FALSE, deleted |-> FALSE, generation |-> lifecycle.generation + 1 ]
    /\ \E conflict \in {0, session.conflict} :
          session' = [session EXCEPT !.status = "PAUSED", !.conflict = conflict]
    /\ UNCHANGED <<mode, runs, slot, deferred, writing, calls, shuttingDown>>

\* beforeApplicationShutdown: every pipeline is aborted, no other starts.
Shutdown ==
    /\ ~shuttingDown
    /\ shuttingDown' = TRUE
    /\ SetTable(Cancel(Table))
    /\ UNCHANGED <<mode, session, writing, lifecycle, calls>>

Next ==
    \/ \E r \in Runs : Advance(r) \/ ApplyChanges(r) \/ ChangesApplied(r) \/ Finish(r)
                       \/ EnqueueFails(r) \/ ProcessJob(r) \/ JobReturns(r) \/ JobThrows(r)
    \/ \E c \in CallsOf[mode] : Resume(c) \/ ResumeReopened(c) \/ Pause(c) \/ PauseCloses(c)
                               \/ PauseTimesOut(c) \/ Resolve(c) \/ Resolved(c)
    \/ \E status \in {"WAIT_USER_DECISION", "CANCELLED"} : Control(status)
    \/ Restart \/ Interrupt \/ Delete \/ Restore \/ Shutdown

Spec == Init /\ [][Next]_vars

-----------------------------------------------------------------------------
Run == [ at : Places, aborted : BOOLEAN, generation : 0..MaxGeneration, tries : 0..MaxTries ]
Tables == [ runs : [Runs -> Run], slot : Runs \cup {NoRun}, deferred : Seq(Runs) ]
Session == [ status : Statuses, previous : Statuses, final : BOOLEAN,
             reworks : 0..MaxReworks, conflict : 0..MaxGeneration,
             adrift : BOOLEAN, handedOver : BOOLEAN ]
Lifecycle == [ open : BOOLEAN, deleted : BOOLEAN, generation : 1..MaxGeneration ]
Call == [ at : {"idle", "reopening", "closing", "waiting", "resolving"}, already : BOOLEAN ]

(***************************************************************************)
(* Every status is one of the statuses above, and neither the rework       *)
(* rounds nor the tries of a job exceed their limits.                      *)
(***************************************************************************)
TypeOK ==
    /\ mode \in Modes
    /\ Table \in Tables
    /\ session \in Session
    /\ writing \in SUBSET Runs
    /\ lifecycle \in Lifecycle
    /\ calls \in [Calls -> Call]
    /\ shuttingDown \in BOOLEAN

(***************************************************************************)
(* In process, a Session has at most one pipeline, and the entry of        *)
(* `running` that isRunning, cancel and start look at is that pipeline's:  *)
(* no order of cancels, chained starts and reworks started from an outcome *)
(* leaves a pipeline without an entry or an entry without a pipeline.      *)
(***************************************************************************)
OnePipeline ==
    mode \notin BullMq => Live = IF slot = NoRun THEN {} ELSE {slot}

(***************************************************************************)
(* A Session that shows EXECUTING or REWORKING to its user has a pipeline: *)
(* a start that is dropped because another run holds the slot, or chained  *)
(* behind an aborted one, is always made up for.                           *)
(* This is so until one of the following leaves the Session `adrift`, from *)
(* which only a resume recovers it:                                        *)
(*   - a pause of a paused Session that a resume overtakes aborts the run  *)
(*     and changes no status;                                              *)
(*   - a writeback or a resolution sets EXECUTING in a Session that was    *)
(*     stopped while it went on, or whose run has failed;                  *)
(*   - a conflict is resolved before its run reports it: the start of the  *)
(*     resolution was dropped, and applyOutcome finds nothing to do.       *)
(* Excepted are also Sessions whose work was `handedOver` to the planning  *)
(* of a queued message or to a Runtime switch: EXECUTING then stays, with  *)
(* no pipeline, until these set a status.  And Sessions that were deleted: *)
(* a chained start may hold the slot of the restored one.                  *)
(***************************************************************************)
ActiveIsDriven ==
    ( /\ mode \notin BullMq
      /\ session.status \in {"EXECUTING", "REWORKING"}
      /\ ~session.adrift /\ ~session.handedOver
      /\ lifecycle.generation = 1
      /\ ~shuttingDown )
    => Live # {}

(***************************************************************************)
(* A pipeline or a job from before a delete never decides the status of    *)
(* the restored Session, even when it ends after the Session was resumed   *)
(* and executes again.                                                     *)
(***************************************************************************)
StaleIsSilent ==
    [][\A r \in Runs :
         (r \in Live /\ runs'[r].at = "ended" /\ runs[r].generation # lifecycle.generation)
         => session'.status = session.status]_vars
=============================================================================
