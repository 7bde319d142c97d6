--------------------------- MODULE WorkflowRuntime ---------------------------
(***************************************************************************)
(* The workflow runtime of one Session: a published workflow, its run, the *)
(* node runs it appends, the decision points at which it parks, and the    *)
(* Session's controls, recovery and outcome handling around it.            *)
(*                                                                         *)
(* A command of the runtime is serialized per run and awaits nothing       *)
(* outside the process, so it is one step; only start() awaits, while it   *)
(* captures the file baseline.  Executions are the in-process ones of      *)
(* ExecutionService.  Helpers map a state record x to the next one.        *)
(***************************************************************************)
EXTENDS Naturals, Sequences, FiniteSets, FiniteSetsExt

CONSTANTS
    Kinds,                  \* the published nodes in order: "agent", "human", "robot"
    MaxRevisionAttempts,    \* maxRevisionAttempts of the robot nodes
    MaxReworks,             \* REWORK_MAX_ROUNDS
    MaxNodeRuns             \* bound on the node runs of a behaviour

Nodes == DOMAIN Kinds
Agents == {n \in Nodes : Kinds[n] = "agent"}

\* assertPublishable: every confirmation has an Agent before it.
ASSUME WorkflowAssumption ==
    /\ Kinds \in Seq({"agent", "human", "robot"})
    /\ Len(Kinds) > 0
    /\ \A n \in Nodes \ Agents : \E a \in Agents : a < n
    /\ {MaxRevisionAttempts, MaxReworks, MaxNodeRuns} \subseteq Nat

VARIABLES
    run,            \* the WorkflowRun: status, current node, pending decision, whether its card
                    \* is open, and whether the node run's substitution card was ever opened
    nodeRuns,       \* its node runs, oldest first, each with its task
    context,        \* is there a RuntimeContext? (memory only)
    slot,           \* what the Session's execution works on, and why it was aborted
    superseded,     \* supersededNodeRunIds
    session,        \* status, admission, pauseState, final delivery, rework rounds, holds
    starting,       \* start() captures the file baseline
    pausing         \* pause() awaits the lifecycle transaction

vars == <<run, nodeRuns, context, slot, superseded, session, starting, pausing>>

-----------------------------------------------------------------------------
Terminal == {"completed", "failed", "cancelled"}
Idle == [ work |-> "idle", nodeRun |-> 0, abort |-> "no" ]
NoRun == [ status |-> "none", at |-> 0, parked |-> "no", card |-> FALSE, asked |-> FALSE ]

State == [ run |-> run, nodes |-> nodeRuns, context |-> context, slot |-> slot,
           superseded |-> superseded, session |-> session ]

Become(x) ==
    /\ run' = x.run
    /\ nodeRuns' = x.nodes
    /\ context' = x.context
    /\ slot' = x.slot
    /\ superseded' = x.superseded
    /\ session' = x.session

Init ==
    /\ run = NoRun
    /\ nodeRuns = <<>>
    /\ context = FALSE
    /\ slot = Idle
    /\ superseded = {}
    /\ session = [ status |-> "WAIT_WORKFLOW_SELECT", open |-> TRUE, previous |-> "EXECUTING",
                   delivered |-> FALSE, reworks |-> 0, conflict |-> 0 ]
    /\ starting = FALSE
    /\ pausing = FALSE

Ended(x) == x.run.status \in Terminal
Live(x) == x.run.status \in {"running", "waiting_human"}
Busy(x) == x.slot.work # "idle"
SetStatus(x, s) == [x EXCEPT !.session.status = s]

\* The last node run of node n, or 0.
LastRun(x, n) == Max({0} \cup {i \in DOMAIN x.nodes : x.nodes[i].node = n})
Attempt(x, i) == Cardinality({j \in 1..i : x.nodes[j].node = x.nodes[i].node})

\* applyWorkflowRuntimeUpdate: the Session follows the run unless its own
\* status outranks it.
Project(x) ==
    IF ~x.session.open \/ x.session.status \in {"COMPLETED", "FAILED", "CANCELLED", "PAUSED", "INTERRUPTED"}
    THEN x
    ELSE SetStatus(x, CASE x.run.status = "waiting_human" -> IF x.run.parked = "no" THEN "WAIT_WORKFLOW_STEP_CONFIRM"
                                                                                  ELSE "WAIT_USER_DECISION"
                        [] x.run.status = "failed"    -> "FAILED"
                        [] x.run.status = "cancelled" -> "CANCELLED"
                        [] OTHER                      -> "EXECUTING")

\* The abort reason given first is the one the pipeline reports.
Abort(x, why) == IF Busy(x) /\ x.slot.abort = "no" THEN [x EXCEPT !.slot.abort = why] ELSE x

\* scheduleTaskExecution.  No command of the runtime gets here while an execution
\* is under way; deferring a start behind an aborted one is in ExecutionService.
Launch(x, i) == IF Busy(x) THEN x ELSE [x EXCEPT !.slot = [ work |-> "node", nodeRun |-> i, abort |-> "no" ]]

-----------------------------------------------------------------------------
(* Activating, advancing and finishing.                                    *)

AppendRun(x, by, status, task) ==
    [x EXCEPT !.nodes = Append(@, [ node |-> x.run.at, by |-> by, status |-> status, task |-> task ])]

ActivateHuman(x) ==
    Project([AppendRun(x, "human", "waiting", "none") EXCEPT !.run.status = "waiting_human"])

\* Without a context activateAgent and activateRobot throw before they append.
Activate(x) ==
    IF Ended(x) THEN x
    ELSE IF Kinds[x.run.at] = "human" THEN ActivateHuman(x)
    ELSE IF ~x.context THEN x
    ELSE Launch(AppendRun(x, Kinds[x.run.at], "running", "open"), Len(x.nodes) + 1)

GoTo(x, n) == Activate(Project([x EXCEPT !.run = [ NoRun EXCEPT !.status = "running", !.at = n ]]))

\* Mutant: the node run that failed is left running.
FailNode_Nothing(x) == x

\* Mutant: the last node run of the current node fails, whatever became of it.
FailNode_Last(x) ==
    LET i == LastRun(x, x.run.at)
    IN  IF i = 0 THEN x ELSE [x EXCEPT !.nodes[i].status = "failed"]

FailNode(x) ==
    LET running == {i \in DOMAIN x.nodes : x.nodes[i].node = x.run.at /\ x.nodes[i].status = "running"}
    IN  IF running = {} THEN x ELSE [x EXCEPT !.nodes[Max(running)].status = "failed"]

\* Mutant: the run keeps its status.
Finish_KeepsStatus(x, status) ==
    IF Ended(x) THEN x ELSE Project([x EXCEPT !.run = [ NoRun EXCEPT !.status = x.run.status ]])

\* On failure `at` stands for failure.nodeId, from which a resume goes on.
Finish(x, status) ==
    IF Ended(x) THEN x
    ELSE IF status = "failed"
    THEN Project([FailNode(x) EXCEPT !.run = [ NoRun EXCEPT !.status = "failed", !.at = x.run.at ]])
    ELSE Project([x EXCEPT !.run = [ NoRun EXCEPT !.status = status ]])

\* startPostReview throws without a context.
Advance(x, n) ==
    IF n + 1 \in Nodes THEN GoTo(x, n + 1)
    ELSE LET y == Finish(x, "completed")
         IN  IF y.context THEN [y EXCEPT !.slot = [ Idle EXCEPT !.work = "review" ]] ELSE y

\* revisePreviousAgent without a target; linear edges make the nearest Agent the target.
ReworkTarget(n) == Max({a \in Agents : a < n})

\* checkpointInterruptedExecution: its projection is applied at once.
Checkpoint(x) ==
    IF Ended(x) \/ x.run.parked # "no" \/ x.run.status = "none" THEN x
    ELSE LET y == FailNode(x)
             i == LastRun(x, x.run.at)
             z == IF i = 0 \/ y.nodes[i].task = "none" THEN y ELSE [y EXCEPT !.nodes[i].task = "ended"]
         IN  Project([z EXCEPT !.run.status = "failed", !.run.asked = FALSE])

\* A task that is completed, failed or cancelled is "ended".
EndedTask(task) == task \in {"none", "ended"}

SetUnfinished(x, task) ==
    [x EXCEPT !.nodes = [i \in DOMAIN x.nodes |->
        IF EndedTask(x.nodes[i].task) THEN x.nodes[i] ELSE [x.nodes[i] EXCEPT !.task = task]]]

\* markSessionInterrupted
Interrupt(x) == SetStatus(SetUnfinished(Checkpoint(x), "waiting"), "INTERRUPTED")

-----------------------------------------------------------------------------
(* Parking and resuming.                                                   *)

\* Mutant: a resume does not ask whether a decision is due.
AwaitsDecision_Never(x) == FALSE

\* awaitsAgentSubstitution or awaitsUpstreamRerun
AwaitsDecision(x) ==
    /\ Live(x)
    /\ \/ x.run.parked # "no"
       \/ LET i == LastRun(x, x.run.at)
          IN  i # 0 /\ x.nodes[i].status \in {"running", "waiting"} /\ x.nodes[i].task = "blocked"

\* parkForUpstreamRerun; the node run stays running.
ParkForUpstream(x) ==
    Project([x EXCEPT !.run.status = "waiting_human", !.run.parked = "upstream", !.run.card = TRUE])

\* requestAgentSubstitution.  The card is keyed by the task and written once,
\* so one that was answered before is not opened again.
ParkForSubstitution(x, i) ==
    Project([x EXCEPT !.nodes[i].status = "waiting", !.run.status = "waiting_human",
                      !.run.parked = "substitution", !.run.card = ~x.run.asked, !.run.asked = TRUE])

\* closeParkedNodeRun
CloseParked(x, i) ==
    [x EXCEPT !.nodes[i].status = "revision_requested",
              !.nodes[i].task = "ended"]

\* resumeExecution of the Session and resumeCurrentExecution of the runtime; a
\* resume that finds nothing to drive fails the Session.
Redrive(x) ==
    LET Fail(y) == SetStatus(y, "FAILED")
        y == [x EXCEPT !.context = TRUE]
        i == LastRun(y, y.run.at)
    IN  IF ~x.session.open THEN x
        ELSE IF Busy(x) \/ AwaitsDecision(x) THEN Fail(x)
        ELSE IF y.run.status = "failed" THEN GoTo(FailNode(y), y.run.at)
        ELSE IF Ended(y) \/ i = 0 THEN Fail(y)
        ELSE IF y.nodes[i].status # "running" \/ y.nodes[i].task = "none" THEN Fail(y)
        ELSE Launch([y EXCEPT !.nodes[i].task = "open"], i)

\* reworkLastAgentNode
ReworkLastAgent(x) ==
    LET last == Max({i \in DOMAIN x.nodes : x.nodes[i].by = "agent"})
    IN  GoTo([x EXCEPT !.context = TRUE], x.nodes[last].node)

-----------------------------------------------------------------------------
(* Starting.                                                               *)

\* confirmWorkflow up to captureBaseline
Start ==
    /\ session.status = "WAIT_WORKFLOW_SELECT"
    /\ session.open
    /\ run.status = "none"
    /\ run' = [ NoRun EXCEPT !.status = "running", !.at = 1 ]
    /\ context' = TRUE
    /\ starting' = TRUE
    /\ UNCHANGED <<nodeRuns, slot, superseded, session, pausing>>

\* The rest of it.  The caller then sets EXECUTING whatever happened meanwhile.
StartDone ==
    /\ starting
    /\ starting' = FALSE
    /\ Become(SetStatus(Activate(Project(State)), "EXECUTING"))
    /\ UNCHANGED pausing

\* A request repeated after a crash finds the run by its idempotency key.
StartAgain ==
    /\ session.status = "WAIT_WORKFLOW_SELECT"
    /\ run.status # "none"
    /\ ~starting
    /\ Become(SetStatus(State, "EXECUTING"))
    /\ UNCHANGED <<starting, pausing>>

-----------------------------------------------------------------------------
(* Outcomes of executions.                                                 *)

\* applyOutcome heeds an outcome of an open Session that has not been ended,
\* paused or interrupted.
Heeds(x) == x.session.open /\ x.session.status \notin {"CANCELLED", "COMPLETED", "PAUSED", "INTERRUPTED"}

\* handleExecutionOutcome accepts the outcome of a node run that still runs.
Accepts(x, i) == x.session.open /\ ~Ended(x) /\ x.nodes[i].status = "running"

\* Mutant: an answer that cannot be read lets the run go on.
RobotResult_InvalidPasses(x, i, result) ==
    IF result \in {"approve", "invalid"}
    THEN Advance([x EXCEPT !.nodes[i].status = IF result = "approve" THEN "approved" ELSE "failed"], x.nodes[i].node)
    ELSE Finish([x EXCEPT !.nodes[i].status = "failed"], "failed")

\* handleRobotResult
RobotResult(x, i, result) ==
    LET Mark(status) == [x EXCEPT !.nodes[i].status = status]
    IN  CASE result = "approve" -> Advance(Mark("approved"), x.nodes[i].node)
          [] result = "reject"  -> Finish(Mark("failed"), "failed")
          [] result = "invalid" -> ActivateHuman(Mark("failed"))
          [] result = "revise"  -> IF Attempt(x, i) > MaxRevisionAttempts
                                   THEN ActivateHuman(Mark("revision_requested"))
                                   ELSE GoTo(Mark("revision_requested"), ReworkTarget(x.run.at))

\* completeExecutedNode; what an Agent reports is no robot result.
CompleteNode(x, i) ==
    IF x.nodes[i].by = "robot" THEN RobotResult(x, i, "invalid")
    ELSE Advance([x EXCEPT !.nodes[i].status = "completed"], x.nodes[i].node)

\* Mutant: the superseded node run is not scheduled again.
CancelledOutcome_Forgets(x, i) ==
    IF i \in x.superseded THEN [x EXCEPT !.superseded = @ \ {i}] ELSE Finish(x, "cancelled")

\* A cancelled outcome other than a pause's: a superseded node run is scheduled again.
CancelledOutcome(x, i) ==
    IF i \in x.superseded
    THEN Launch([x EXCEPT !.superseded = @ \ {i}, !.nodes[i].task = "open"], i)
    ELSE Finish(x, "cancelled")

\* applyOutcome of ask_user
AskUser(x) == IF Heeds(x) THEN Checkpoint(SetStatus(x, "WAIT_USER_DECISION")) ELSE x

\* An Agent that declines parks the run; of a robot node only the Session waits.
Declined(x, i) ==
    IF ~Heeds(x) THEN x
    ELSE LET y == SetStatus(x, "WAIT_USER_DECISION")
         IN  IF x.nodes[i].by = "agent" THEN ParkForSubstitution(y, i) ELSE y

UpstreamIncomplete(x, i) ==
    IF \E a \in Agents : a < x.nodes[i].node THEN ParkForUpstream(x) ELSE AskUser(x)

\* What the pipeline of node run i leaves of its task, by how it ends.
TaskAfter(end) ==
    CASE end \in {"upstream", "approval", "conflict"} -> "waiting"
      [] end = "declined"                             -> "blocked"
      [] end \in {"crashed", "switched"}              -> "open"
      [] OTHER                                        -> "ended"

Ends(by) ==
    {"declined", "askUser", "approval", "failed", "crashed", "switched"} \cup
    (IF by = "agent" THEN {"completed", "upstream", "conflict"} ELSE {"approve", "revise", "reject", "invalid"})

\* A conflicted writeback is recorded, with the Session's status, by the pipeline itself.
Hold(x, i, end) ==
    IF end = "conflict"
    THEN SetStatus([x EXCEPT !.session.conflict = i], "WAIT_WORKSPACE_CONFLICT_RESOLUTION")
    ELSE x

HandleOutcome(x, i, end) ==
    CASE end = "completed"                                -> CompleteNode(x, i)
      [] end \in {"approve", "revise", "reject", "invalid"} -> RobotResult(x, i, end)
      [] end = "switched"                                 -> CancelledOutcome(x, i)
      [] end = "upstream"                                 -> UpstreamIncomplete(x, i)
      [] end = "declined"                                 -> Declined(x, i)
      [] end = "askUser"                                  -> AskUser(x)
      [] end = "approval"                                 -> IF Heeds(x) THEN SetStatus(x, "WAIT_USER_DECISION") ELSE x
      [] end = "conflict"                                 -> x
      [] end \in {"failed", "crashed"}                    -> Finish(x, "failed")

NodeOutcome ==
    /\ slot.work = "node"
    /\ slot.abort = "no"
    /\ LET i == slot.nodeRun
       IN  \E end \in Ends(nodeRuns[i].by) :
              LET x == Hold([State EXCEPT !.slot = Idle, !.nodes[i].task = TaskAfter(end)], i, end)
              IN  Become(IF Accepts(x, i) THEN HandleOutcome(x, i, end) ELSE x)
    /\ UNCHANGED <<starting, pausing>>

\* An aborted pipeline reports its abort, whether or not its task got done.
NodeAborted ==
    /\ slot.work = "node"
    /\ slot.abort # "no"
    /\ LET i == slot.nodeRun
       IN  \E task \in {nodeRuns[i].task, "ended"} :
              LET x == [State EXCEPT !.slot = Idle, !.nodes[i].task = task]
              IN  Become(IF Accepts(x, i) /\ slot.abort # "pause" THEN CancelledOutcome(x, i) ELSE x)
    /\ UNCHANGED <<starting, pausing>>

\* startRework, after the outcome's event has been counted.
Rework(x) ==
    LET y == [SetStatus(x, "REWORKING") EXCEPT !.session.reworks = @ + 1]
    IN  IF y.session.reworks > MaxReworks THEN SetStatus(y, "WAIT_USER_DECISION") ELSE ReworkLastAgent(y)

\* The Post Review drives what is left of the workflow's tasks first; a task it
\* completes is no step the Session knows, so the user is asked.
ReviewOutcome ==
    /\ slot.work = "review"
    /\ LET x == [State EXCEPT !.slot = Idle]
           left == {i \in DOMAIN nodeRuns : ~EndedTask(nodeRuns[i].task)}
           Apply(y) == Become(IF Heeds(x) THEN y ELSE x)
       IN  \/ /\ slot.abort # "no"
              /\ Become(x)
           \/ /\ slot.abort = "no"
              /\ left # {}
              /\ LET y == SetUnfinished(x, "ended")
                 IN  Become(IF Heeds(x) THEN SetStatus(y, "WAIT_USER_DECISION") ELSE y)
           \/ /\ left = {}
              /\ LET y == [x EXCEPT !.session.delivered = TRUE]
                 IN  Become(IF Heeds(x) \/ (session.open /\ session.status = "INTERRUPTED")
                            THEN SetStatus(y, "COMPLETED") ELSE y)
           \/ /\ slot.abort = "no"
              /\ left = {}
              /\ \/ Apply(SetStatus(x, "WAIT_USER_DECISION"))
                 \/ Apply(IF session.status = "WAIT_USER_DECISION" THEN x ELSE Rework(x))
           \/ /\ slot.abort = "no"
              /\ Apply(IF session.status = "WAIT_USER_DECISION" THEN x ELSE SetStatus(x, "FAILED"))
    /\ UNCHANGED <<starting, pausing>>

-----------------------------------------------------------------------------
(* Decisions of the user.                                                  *)

\* decideHuman.  Clients send the revision of the run their card was made for,
\* so only the gate opened last can be decided.
DecideHuman ==
    LET i == Len(nodeRuns)
        Mark(status) == [State EXCEPT !.nodes[i].status = status]
    IN  /\ run.status = "waiting_human"
        /\ run.parked # "upstream"
        /\ nodeRuns[i].by = "human"
        /\ nodeRuns[i].status = "waiting"
        /\ \/ Become(Advance(Mark("approved"), nodeRuns[i].node))
           \/ Become(GoTo(Mark("revision_requested"), ReworkTarget(run.at)))
           \/ Become(Finish(Mark("completed"), "cancelled"))
        /\ UNCHANGED <<starting, pausing>>

CanSubstitute ==
    /\ session.status = "WAIT_USER_DECISION"
    /\ run.parked = "substitution"
    /\ run.card
    /\ slot = Idle

\* resolveWorkflowAgentSubstitution; the node run and its task are used again.
Substitute ==
    LET i == LastRun(State, run.at)
    IN  /\ CanSubstitute
        /\ context
        /\ Become(SetStatus(Launch([State EXCEPT !.run.status = "running", !.run.parked = "no", !.run.card = FALSE,
                                                 !.nodes[i].status = "running", !.nodes[i].task = "open"], i),
                            "EXECUTING"))
        /\ UNCHANGED <<starting, pausing>>

\* A command that throws for want of a context leaves the Session's status to
\* the projections it has made.
ThenExecuting(x, needsContext) == IF needsContext /\ ~context THEN x ELSE SetStatus(x, "EXECUTING")

\* resolveWorkflowAgentSkip
Skip ==
    LET i == LastRun(State, run.at)
        next == run.at + 1
        x == [State EXCEPT !.run = [ NoRun EXCEPT !.status = "running", !.at = run.at ],
                           !.nodes[i].status = "skipped", !.nodes[i].task = "ended"]
    IN  /\ CanSubstitute
        /\ Become(ThenExecuting(Advance(x, run.at), next \notin Nodes \/ Kinds[next] # "human"))
        /\ UNCHANGED <<starting, pausing>>

\* resolveWorkflowUpstreamRerun: back to an earlier Agent, or the parked node again.
AnswerUpstream ==
    LET i == LastRun(State, run.at)
    IN  /\ run.parked = "upstream"
        /\ run.card
        /\ slot = Idle
        /\ \E n \in {a \in Agents : a < run.at} \cup {run.at} :
              Become(ThenExecuting(GoTo(CloseParked(State, i), n), TRUE))
        /\ UNCHANGED <<starting, pausing>>

\* acceptExecutionOutcome
AcceptOutcome(x) ==
    LET running == {i \in DOMAIN x.nodes : x.nodes[i].status = "running"}
        i == Max(running)
    IN  IF Ended(x) \/ running = {} THEN x
        ELSE IF Accepts(x, i) THEN CompleteNode(x, i) ELSE x

\* resolveWorkspaceWriteback: apply or abandon, or let the Agent try again.
ResolveConflict ==
    LET i == session.conflict
        x == SetStatus([State EXCEPT !.session.conflict = 0], "EXECUTING")
    IN  /\ i # 0
        /\ \/ Become(IF nodeRuns[i].task = "waiting"
                     THEN AcceptOutcome([x EXCEPT !.nodes[i].task = "ended"])
                     ELSE Redrive(x))
           \/ Become(Redrive([x EXCEPT !.nodes[i].task = "open"]))
        /\ UNCHANGED <<starting, pausing>>

-----------------------------------------------------------------------------
(* Controls of the Session.                                                *)

\* restartExecutionWithUpdatedContext and rescheduleCurrentExecution
Reschedule ==
    LET i == LastRun(State, run.at)
    IN  /\ session.status = "EXECUTING"
        /\ Busy(State)
        /\ Live(State)
        /\ i # 0
        /\ nodeRuns[i].status = "running"
        /\ nodeRuns[i].task # "none"
        /\ Become([Abort(State, "superseded") EXCEPT !.superseded = @ \cup {i}])
        /\ UNCHANGED <<starting, pausing>>

PauseBegin ==
    /\ session.status \in {"EXECUTING", "REWORKING"}
    /\ ~pausing
    /\ pausing' = TRUE
    /\ UNCHANGED <<run, nodeRuns, context, slot, superseded, session, starting>>

\* The status is not looked at again once the admission is closed.
PauseCommit ==
    /\ pausing
    /\ pausing' = FALSE
    /\ Become(Abort([State EXCEPT !.session.open = FALSE, !.session.previous = session.status,
                                  !.session.status = "PAUSED"], "pause"))
    /\ UNCHANGED starting

\* resumeWithBinding, without a binding: reopen first, then by status.
Resume ==
    LET x == [State EXCEPT !.session.open = TRUE]
        Execute == IF session.delivered THEN SetStatus(x, "COMPLETED") ELSE Redrive(SetStatus(x, "EXECUTING"))
        Back == IF ~session.delivered /\ session.previous \in
                       {"WAIT_WORKFLOW_STEP_CONFIRM", "WAIT_USER_DECISION", "COMPLETED", "FAILED",
                        "WAIT_WORKSPACE_CONFLICT_RESOLUTION"}
                THEN SetStatus(x, session.previous) ELSE Execute
    IN  /\ session.status \notin {"EXECUTING", "REWORKING", "COMPLETED", "WAIT_WORKFLOW_SELECT"}
        /\ CASE session.status = "WAIT_USER_DECISION" -> Become(IF AwaitsDecision(State) THEN x ELSE Execute)
             [] session.status \in {"FAILED", "INTERRUPTED"} -> Become(Redrive(SetStatus(x, "EXECUTING")))
             [] session.status = "PAUSED" -> Become([Back EXCEPT !.session.previous = "EXECUTING"])
             [] session.status = "WAIT_WORKFLOW_STEP_CONFIRM" ->
                    Become(IF \E i \in DOMAIN nodeRuns : nodeRuns[i].status = "waiting" THEN x ELSE Execute)
             [] OTHER -> Become(x)
        /\ UNCHANGED <<starting, pausing>>

\* control with CANCELLED, and WorkflowRuntimeService.cancel
Cancel ==
    /\ session.status \notin {"COMPLETED", "CANCELLED", "WAIT_WORKSPACE_CONFLICT_RESOLUTION"}
    /\ LET x == Abort(SetStatus(State, "CANCELLED"), "cancel")
       IN  Become(IF ~Live(x) THEN x ELSE Finish(SetUnfinished(x, "ended"), "cancelled"))
    /\ UNCHANGED <<starting, pausing>>

\* interruptForWorkspaceDisconnect
Disconnect ==
    /\ session.status \in {"EXECUTING", "REWORKING"}
    /\ Become(Abort(Interrupt(State), "disconnect"))
    /\ UNCHANGED <<starting, pausing>>

\* The boot reconciliation keeps a substitution card only of a Session that
\* waits for a decision, and checkpoints a run whose card it does not keep.
Reconcile(x) ==
    LET s == x.session.status
        i == LastRun(x, x.run.at)
        robotCard == Live(x) /\ i # 0 /\ x.nodes[i].by = "robot" /\ x.nodes[i].task = "blocked"
        kept == (x.run.parked = "substitution" /\ x.run.card) \/ robotCard
    IN  CASE s \in {"FAILED", "INTERRUPTED"}            -> [x EXCEPT !.run.card = FALSE]
          [] s = "WAIT_USER_DECISION" /\ ~kept          -> Checkpoint([x EXCEPT !.run.card = FALSE])
          [] OTHER                                      -> x

\* A crash and the boot after it: memory is lost, work of the old process is
\* interrupted, and nothing is started.
Restart ==
    /\ LET x == [State EXCEPT !.context = FALSE, !.slot = Idle, !.superseded = {}]
       IN  Become(Reconcile(IF session.status \in {"EXECUTING", "REWORKING"} THEN Interrupt(x) ELSE x))
    /\ starting' = FALSE
    /\ pausing' = FALSE

-----------------------------------------------------------------------------
Next ==
    /\ \/ Start \/ StartDone \/ StartAgain
       \/ NodeOutcome \/ NodeAborted \/ ReviewOutcome
       \/ DecideHuman \/ Substitute \/ Skip \/ AnswerUpstream \/ ResolveConflict
       \/ Reschedule \/ PauseBegin \/ PauseCommit \/ Resume \/ Cancel \/ Disconnect \/ Restart
    /\ Len(nodeRuns') <= MaxNodeRuns

Spec == Init /\ [][Next]_vars

-----------------------------------------------------------------------------
(* Properties.                                                             *)

Statuses == {"WAIT_WORKFLOW_SELECT", "EXECUTING", "REWORKING", "WAIT_WORKFLOW_STEP_CONFIRM", "WAIT_USER_DECISION",
             "WAIT_WORKSPACE_CONFLICT_RESOLUTION", "PAUSED", "INTERRUPTED", "FAILED", "CANCELLED", "COMPLETED"}

NodeRun == [ node : Nodes, by : {"agent", "human", "robot"},
             status : {"running", "waiting", "completed", "approved", "revision_requested", "skipped", "failed"},
             task : {"none", "open", "waiting", "blocked", "ended"} ]

\* The run, its node runs and the Session's record have the shapes of
\* WorkflowRun, WorkflowNodeRun and SessionDetail, and every index is one.
TypeOK ==
    /\ run \in [ status : {"none", "running", "waiting_human"} \cup Terminal, at : Nodes \cup {0},
                 parked : {"no", "substitution", "upstream"}, card : BOOLEAN, asked : BOOLEAN ]
    /\ nodeRuns \in Seq(NodeRun)
    /\ context \in BOOLEAN
    /\ slot \in [ work : {"idle", "node", "review"}, nodeRun : DOMAIN nodeRuns \cup {0},
                  abort : {"no", "pause", "superseded", "cancel", "disconnect"} ]
    /\ superseded \subseteq DOMAIN nodeRuns
    /\ session \in [ status : Statuses, open : BOOLEAN, previous : Statuses, delivered : BOOLEAN,
                     reworks : 0..(MaxReworks + 1), conflict : DOMAIN nodeRuns \cup {0} ]
    /\ starting \in BOOLEAN
    /\ pausing \in BOOLEAN
    /\ Live(State) => run.at \in Nodes

\* A live run has at most one node run under way and it is one of its current
\* node, whatever pauses, disconnects, restarts and late outcomes have crossed:
\* resumeCurrentExecution never leaves an older attempt running.
OneRunningNode ==
    Live(State) => \A i, j \in DOMAIN nodeRuns :
        nodeRuns[i].status = "running" /\ nodeRuns[j].status = "running" => i = j /\ nodeRuns[i].node = run.at

\* Every gate before node n was approved, and after the last attempt of every
\* Agent before it.
Cleared(n) ==
    \A g \in Nodes \ Agents : g < n =>
        LET last == LastRun(State, g)
        IN  /\ last # 0
            /\ nodeRuns[last].status = "approved"
            /\ \A a \in Agents : a < g => LastRun(State, a) < last

\* No node is under way and no run completes behind a gate that has not
\* approved the latest work before it: revisions, upstream reruns, reworks,
\* skips and recoveries all walk through the gates again (advanceAfterNode).
WorkIsApproved ==
    /\ Live(State) => Cleared(run.at)
    /\ run.status = "completed" => Cleared(Len(Kinds) + 1)

\* While a run is parked on a declined or incomplete node nothing executes:
\* neither a resume nor a recovery starts a Runtime behind the user's decision
\* (awaitsAgentSubstitution, awaitsUpstreamRerun).
ParkedIsQuiet == run.parked # "no" => run.status = "waiting_human" /\ slot = Idle

\* A running run of a Session that shows EXECUTING has an execution driving it,
\* unless a restart took its context.
RunningIsDriven ==
    run.status = "running" /\ session.status = "EXECUTING" /\ session.open /\ context => Busy(State)

\* A node run that has ended keeps its status: the outcome of a pipeline that
\* was paused, disconnected or replaced never rewrites the history.
HistoryIsKept ==
    [][\A i \in DOMAIN nodeRuns :
          nodeRuns[i].status \notin {"running", "waiting"} => nodeRuns'[i].status = nodeRuns[i].status]_vars
=============================================================================
