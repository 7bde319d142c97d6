# Verification of the agent platform's server core

The platform lets users open *Sessions* in which agents work on a code base. An
agent runs as a process: on the server, or on a user's machine behind the *local
bridge*. Its work is driven by an execution pipeline or a workflow, written back into
a workspace that several Sessions share or delivered to GitHub, and shown to users
as a stream of events. Users may pause, resume, archive, delete and restore a Session
at any moment, change its Runtime, edit the same files, and the server may crash.

What must never happen: work that goes on in a Session its user has stopped, a
step of work run by two processes at once, a user's edit overwritten, unvalidated
changes pushed, an unreviewed head merged, a gate passed without approval, an event
shown that was never stored. This project models the parts of the server that are
responsible for these, checks them with TLC and proves the central ones with TLAPS.

## 1. Inventory

| Component | State | Operations | Interacts with | Module |
|---|---|---|---|---|
| session lifecycle store | state, admission, stop status, generation | `beginDelete`, `closeForStop`, `markArchived`, `restoreArchived`, `reopen`, `completeDelete`, `restore` | written by the controls, read by every admission check | `SessionLifecycleStore` |
| stop request store | frozen targets and their evidence | `requestWithEvent`, `summary` | scans the operations | `SessionStopStateStore` |
| logical operation store | active invocation, attempts, stop state, pause mark | `begin`, `reserve`, `settle`, `resume`, `requestIntentStop`, `confirmTransportReceipt` | reads lifecycle and stop request | `LogicalOperationStore` |
| runtime supervisor | supervised invocations, timers, pending syncs (memory) | `start`, `cancelSessionAndWait`, `getStopSummary`, `reconcilePendingStopStates` | the stores, the processes | `RuntimeService` |
| session controls, boot recovery, local connection | Session status, archive mark, handlers in flight | `pause`, `resume`, `delete`, `restore`, `archive`, disconnect, boot, receipts | all of the above | `SessionsService` |
| runtime switch | durable switch requests, running coordinator | `open`, `transition`, `apply`, `advance`, `recover` | pauses, rebinds and resumes through the controls | `RuntimeSwitch` |
| execution service and queue | `running` map, chained starts, jobs, abort controllers | `start`, `cancel`, `cancelAndWait`, job retries, outcomes | controls, orchestrator phases | `ExecutionService` |
| workflow runtime | run, node runs, parked decisions, context (memory) | `start`, `decideHuman`, `cancel`, substitution, skip, rerun, rework, resume, outcomes | execution service, controls, recovery, tasks | `WorkflowRuntime` |
| delivery | delivery record, worktree, conflict view; branches and pull requests on GitHub | validate, publish, refresh, merge, complete a conflict | orchestrator records candidates; others act on GitHub | `DeliveryCoordinator` |
| events and outbox | rows, outbox records, memory, SSE subject | `create`, `acceptCommitted`, outbox recovery, `list`, `stream` | persistence queue | `EventsService` |
| web event store | shown events, cursor, buffer, backfill | connect, retry, reconcile, receipts | the stream and `list` | `EventStore` |
| workspace writeback | records, queue per workspace, conflict drafts, the files | `enqueue`, apply (merge, validate, snapshot, write, roll back), resolve, `clearSessionDrafts` | users edit the same files; delete of a Session | `WorkspaceWriteback` |
| three-way merge | none | `mergeWorkspaceText` | called by the writeback | `ThreeWayMerge` |
| persistence | collections, one queue of transactions | `mutateCollections` | every store | steps of the modules |
| orchestrator, message routing, worktrees, file revisions, budgets, context, tools, code hosts, command line, web and desktop | their own | see `PROJECT.json` | use the components above | not modelled, or at their edges only |

What is hard here:

* **Concurrency.** Handlers are asynchronous functions on one event loop: between
  any two awaits every other handler, timer and callback may run. Users, other
  Sessions, other people on GitHub and other programs in the workspace run besides.
* **Failure.** A transaction may fail after the process it reports on has ended; a
  batch of file writes may fail in the middle.
* **Ordering.** Results, late results, delayed syncs, receipts, frames, pages and
  outcomes of superseded work arrive in any order.
* **Timeouts.** A stop is given 15 s, a control waits 10 s, a device's answer may come
  after the server gave it up; each races the result.
* **Crashes.** Memory is lost; bridge processes, files, GitHub and the browser go on.

`PROJECT.json` lists the hazards at their lines with the properties aimed at them.

What makes each component correct:

* lifecycle, stop and operation stores with the supervisor: a live process owns its
  reservation, stop evidence is final, admission reopens only with evidence, a deleted
  Session has no process, the generation fences off everything from before;
* runtime switch: the old Runtime is stopped when the new one takes over, and the
  Session is resumed once;
* execution service: one pipeline, and one whenever the Session shows that it works;
* workflow: one node at a time, and no work behind a gate that has not approved it;
* delivery: what is pushed was validated, what is merged was reviewed;
* events: what is shown is stored, what is marked was published, reconnecting is complete;
* writeback: no line of anybody else is lost, a conflict leaves nothing behind, what is
  reported as applied is there.

## 2. Modules

```
SessionDraft                      durable state, types, shared readings
  |-- SessionLifecycleStore       transactions of the lifecycle store
  |-- SessionStopStateStore       the stop request
  |-- LogicalOperationStore       reservations and evidence
        |
RuntimeService                    supervisor in one server process
SessionsService                   controls, restart, Next, Spec, safety properties
  |-- SessionsLiveness            fairness and liveness
  |     |-- SessionsAdmission     refinement mapping to ExecutionAdmission (abstract)
  |           |-- MCSessions
  |-- RuntimeSwitch               the switch, composed with all of the above -- MCSwitch
        |-- SessionsProofs        theorems (with SessionsAdmission)

ExecutionService -- MCExecution, ExecutionServiceProofs
EventsService -- EventStore -- MCEvents, EventStoreProofs
DeliveryCoordinator -- MCDelivery, DeliveryProofs
WorkflowRuntime -- MCWorkflow, WorkflowProofs
ThreeWayMerge -- MCMerge, MergeProofs, MCMergeProofs (both)
  |-- WorkspaceWriteback -- MCWriteback, WritebackProofs (with MergeProofs)
```

**SessionDraft.** `lifecycle`, `session`, `stopRequest` and `ops` are the four
collections the stores share. Each store method is one `mutateCollections` call
over a synchronous callback, so it is one atomic step; the operators of the three
store modules are these callbacks. An operation is named by the id its caller
passes and the generation it was begun in, which is what `<id>:generation:<n>`
encodes. Generation 0 is a Session without lifecycle record.

**RuntimeService.** `pc[i]` is where `start()` of invocation `i` is:

| `pc` | in `start()` |
|---|---|
| `starting` | registered, waiting for `begin` |
| `begun`, `admitted` | before and after the first barrier check; `reserve` is queued |
| `reserved`, `cleared` | before and after the second check; budgets and the intent are checked |
| `running` | the race of the result and the stop timer |
| `ended`, `timedOut`, `flagged` | on the way to `finally`: with evidence, without it, with a result that itself says `stopUnconfirmed` |
| `tombstone` | released without evidence, the late-result callback pending |
| `done` | released |

`proc[i]` is the process itself, which the server never reads: the properties
compare what the server believes with it. `sync` is `pendingStopStateSync`,
`epoch` the restart count that stands for `ownerId`.

**SessionsService.** `flow[c]` is where a stopping control is. `pause`, `delete`,
`archive`, the disconnect and the stop of a Runtime switch share
`cancelSessionAndWait`, hence the shared actions `EnterStop`, `CommitStop`,
`CommitStopFails` and `EndWait`. `seen[c]` is the snapshot of the supervised
invocations that is read before the stop request is queued. `resume` and
`restoreArchived` have a place between their checks and their transaction. `Restart`
is a crash followed by `onApplicationBootstrap`.

**ExecutionAdmission** is what the whole promises: a Session that is open, closed or
gone, and per invocation whether it is reserved and whether a process runs. A process
starts under a reservation, a reservation is given up only with evidence of the end,
a closed Session opens with no ordinary process left, a deleted one has none.
**SessionsAdmission** maps the state of `SessionsService` to it;
`ImplementsAdmission` is `Admission!Spec`.

**RuntimeSwitch.** `requests` is the durable collection by idempotency key, `exec` the
coordinator's running entry and the await its `execute()` is at, `boot` the phases of a
server after a crash. Its steps and those of the controls, the supervisor and the
bridge interleave.

**ExecutionService.** A run is one call of `start`. Inline, `slot` is the Session's
entry of the `running` map and `deferred` the starts chained on its promise; with
BullMQ, `slot` is its entry of `abortControllers`. The pipeline is reduced to the phases
its abort checks tell apart, and one for a run with a task that met a conflict. `writing`
holds the runs with a task whose changes are being written back: `runOneTask` sets the
status of the Session before and after (`ApplyChanges`, `ChangesApplied`).
`session.conflict` is the generation of a writeback that blocks the Session until a user
resolves it (`Resolve`, `Resolved`). Two history variables mark what
`ActiveIsDriven` excepts: `handedOver`, once the work of the Session was left to
the planning of a queued message or to a Runtime switch, and `adrift`, from a status that
was set with nothing left to do the work to the next resume.

**WorkflowRuntime.** A state record `x` is taken through the helpers of the service
(`Activate`, `Advance`, `Finish`, `Checkpoint`, `Redrive`...), which are synchronous
under one serialized command; an action is one command, control or outcome.

**DeliveryCoordinator.** The record in memory and the one a crash would leave, the
requests behind the running operation, the worktree, the commits, branches and pull
requests. A tree is the set of changes it carries. A device may still carry out what
the server has given up (`late`).

**EventsService** and **EventStore.** Rows, outbox, the FIFO of writes with its
answers, memory, the SSE response, and one browser tab with its stream, backfill
and buffer.

**WorkspaceWriteback.** `files` is the workspace, `record` the stored record with
its conflict view, `queue` the tail of the workspace with the running operation at its
head, `job` the place of `apply` and `applyServerLocalChangeSet`: `prepare`, `merge`,
`validate`, `snapshot`, then `check` and `write` for each change, `rollback`,
`capture`, `succeed`, `fail`. The changes of an operation are named by their positions in
the change set, from which the merge drops those that have nothing left to do; `written`
holds the positions of those that are done. A hash stands for its content. `touched` and `late` are
history variables for the properties.

**ThreeWayMerge.** The diff, the overlap rule and the splices of `mergeWorkspaceText`
over lines that may lack their final newline.

Every definition that models code is mapped to its lines in `PROJECT.json`. Definitions
named `X_...` with the comment "Mutant" are wrong versions of `X` that a property
is known to catch.

### Abstractions

* One Session in each module (two in the writeback), one server process at a time.
* A handler's synchronous prologue and its first transaction are one action.
* Transactions are atomic. In the admission modules they commit in any order; the code
  queues them (`persistence.service.ts`, `mutateCollections`), so the model allows more.
* The Session object in memory and its row are one record, except in the delivery
  model, where a crash falls back to the last record written.
* Time is a choice: a timer that is armed may fire, a deadline may have passed.
* Budget, circuit and intent checks that refuse something are refusals that may happen.
* Prompts, texts, revisions, metrics and audit events are left out.
* In the writeback, reads of several files are one step, because an outside edit is
  of one file and commutes with reads of the others; comparing a file with what was
  written and restoring it (rollback) is one step too.

## 3. Runs

Each run is the smallest instance in which the cases it is about happen.

| Run | Instance | Checks |
|---|---|---|
| `MCPause` | two attempts of one operation, one on the bridge and subject to intent correction, pause and resume | `TypeOK`, `StopEvidenceKept`, `ReopenIsSafe`, `PausedNeedsResume` |
| `MCRestart` | an ordinary bridge invocation and a restricted internal one, disconnect and resume, one failed transaction, one restart | `LiveIsReserved`, `ConfirmedTargetsEnded`, `OpenStopCoversActive` |
| `MCDelete` | archive, archive restore, delete and restore up to generation 3, one restart | `DeletedIsStopped`, `ImplementsAdmission` |
| `MCStop` | two bridge invocations, disconnect, fairness | `ArmedIsReleased`, `StopIsConfirmed` |
| `MCSwitch` | one invocation, pause and a switch that resumes, one restart | `ResumedOnce`, `GenerationFence`, `AppliedIsStopped` |
| `MCExecution` | three starts in process; two starts whose tasks write back, two controls or resolutions at once; two jobs of two tries; one rework, up to generation 3 | `TypeOK`, `OnePipeline`, `ActiveIsDriven`, `StaleIsSilent` |
| `MCEvents` | two events, two boots, one refused write, one dropped stream, one receipt or reconcile, claims of one record | `TypeOK`, `SentIsStored`, `MarkedIsPublished`, `ReconnectIsComplete` |
| `MCDelivery` | two candidates, two rounds, three requests, one of them waiting, one merge click, one step of somebody else, one crash | `TypeOK`, `PushedIsValidated`, `MergedIsReviewed`, `InFlightIsDriven` |
| `MCWorkflow` | work, robot gate, work, human gate; one revision, one rework, five node runs | `TypeOK`, `OneRunningNode`, `WorkIsApproved`, `ParkedIsQuiet`, `RunningIsDriven`, `HistoryIsKept` |
| `MCWriteback` | two Sessions that change different lines of a file and create the same new one, one of them deletes a third; one outside edit, one fault (failed update, failed write, crash or pause) | `TypeOK`, `EditsAreKept`, `ConflictLeavesNoTrace`, `AppliedIsComplete`, `InFlightIsDriven`, `DeletedWritesNothing` |
| `MCMerge` | every base, current text and candidate of up to three lines over two words, with and without a final newline, and a size limit some of them pass | `SidesAgree`, `EditsAdd` |
| `MCSwitchQueued` | no invocation, two keys, pause and switch, fairness; a violation, see below | `SwitchIsTakenUp` |

What they show; most of it is proved as well (section 5):

* `ReopenIsSafe`, `AppliedIsStopped`: no ordinary process is left when the pause of an
  active Session is lifted or a switch applied, whatever came between the check and the
  transaction.
* `ImplementsAdmission`: every step of controls, supervisor, bridge and restart is a
  step of the abstract promise or leaves it alone.
* `ResumedOnce`: the intention to resume is durable before the call, so that neither
  a restart nor a repeated request dispatches the Session twice.
* `OnePipeline`, `ActiveIsDriven`, `StaleIsSilent`: chained starts, reworks from an
  outcome and cancels never leave an entry without a pipeline, a pipeline without an
  entry or a Session that shows work nobody does; a run from before a delete decides
  nothing. `ActiveIsDriven` is about Sessions that were never deleted (observation 4). It
  excepts a Session whose work was handed to a queued message or a Runtime switch, and,
  until the next resume, one left adrift in one of three ways (observation 3): a resume overtook
  a pause, a writeback or a resolution ended after the Session was stopped or its run had
  failed, or a conflict was resolved before its run reported it.
* `ReconnectIsComplete`: a connected tab has every stored event or is about to get
  it; for the coordinator on its own (see observation 8).
* `MergedIsReviewed`, `PushedIsValidated`: also when a device acts late, somebody pushes
  in between, or the server crashed between two remote calls.
* `WorkIsApproved`: revisions, upstream reruns, reworks, skips and recoveries all walk
  through the gates again.
* `EditsAreKept`: a line of a user or another Session disappears only if a user
  decided so for exactly that content. The property excludes two windows: an edit between
  the last check of a file and its write, which the code cannot close with plain files
  (`late`), and a snapshot that differs from the content the late check accepts
  (`SnapshotIsOther`, observation 16).
* `AppliedIsComplete`: also when a retry meets the half of itself that a crash left.
* `SidesAgree`: the order in which two Sessions write back does not decide the result.

Bounds. Two invocations are what it takes for one to be superseded by another. One
failed transaction and one restart can fall at any place; the theorems hold for any
number. `MaxSyncAttempts` is 1 instead of 5, so that exhaustion is reached by one
failure; `MaxCells` is 12 instead of 4,000,000 for the same reason. Generation 3 is one
delete and its restore, or two archive restores. Three starts let one be chained while
another is started from an outcome; with writebacks two are enough for a run and what the
resolution of its conflict starts. The `mode` of a behaviour chooses between these
instances; the theorems hold for any such choice. Five node runs let every command
of the workflow happen once after a full pass; the second rework, which meets its limit,
needs a sixth and is out of reach. `ClaimLimit` 1 makes the outbox leave records for
the next boot. In the writeback the edit and the fault can fall between any two steps,
which is enough to have a rollback meet an edited file.

`CHECK_DEADLOCK FALSE` stands where the system may really come to rest: everything
done, bounds used up, or a Session waiting for an unknown process for ever, which is
what the code wants (it fails closed).

### A disagreement with a document

`MCSwitchQueued` violates `SwitchIsTakenUp` under fairness: `advance()` returns the
promise already running for the Session, whatever request it belongs to
(`runtime-switch-coordinator.ts:50`). When a pause fails that request, a new one is
accepted, gets the old promise, and nobody advances it afterwards. `PROJECT.json`
quotes the text it contradicts.

## 4. Fairness

`ServerFairness`: an await whose transaction or timer is done resumes. The event loop
guarantees that; weak fairness of the disjunction of the steps of one invocation is
enough, because the steps lie at different places. It ends no process and assumes no
deadline: `checkBudget` does not cancel on the deadline alone.

`StopFairness`, only for `StopIsConfirmed`: a process that was told to end ends, and
the bridge repeats the receipt of an ended process. `cancelSessionAndWait` tells
bridge processes again (`retryUnconfirmedStops`). Without it a stop may rightly stay
unconfirmed. `StopIsConfirmed` is about bridge invocations: the stop timer of a
server-side one may fire after its result has arrived, while `start()` still awaits the
bookkeeping; it is then settled as unconfirmed and nothing confirms it later.

`SwitchFairness`: the coordinator's `execute()`, its timer and the stopping controls
go on; each waits only for transactions, preflights and a bounded stop.

## 5. Proofs

The theorems hold for any sets of invocations, runs, events, candidates, Sessions and
files, any published workflow, and any bounds. They assume what each module says of its
constants (its `ASSUME`), which is only what the constants are, and where a row says so
a restriction that an observation of section 6 explains. Each proof module begins with
its inductive invariant, has a lemma per group of actions, and ends with the theorems.

| Module | Theorem | States |
|---|---|---|
| `SessionsProofs` | `TypeCorrect` | `TypeOK` |
| | `ReservationHeld` | `LiveIsReserved` |
| | `Invariance` | the inductive invariant `IInv` |
| | `StopCovers` | `OpenStopCoversActive` |
| | `StopConfirmation` | `ConfirmedTargetsEnded` |
| | `DeletionIsComplete` | `DeletedIsStopped` |
| | `EvidenceIsFinal` | `StopEvidenceKept` |
| | `PauseIsKept` | `PausedNeedsResume` |
| | `AdmissionInvariance` | the invariants `AInv` and `ArchiveInv`, pause and archive apart |
| | `ReopeningIsSafe` | `ReopenIsSafe`, pause and archive apart |
| | `GenerationIsFenced` | `GenerationFence`, without archive |
| | `AdmissionIsImplemented` | `ImplementsAdmission`, pause and archive apart |
| | `SwitchInvariance` | the inductive invariant `SwitchInv` |
| | `DispatchedOnce` | `ResumedOnce` |
| | `SwitchKeepsControls` | `LiveIsReserved`, `OpenStopCoversActive`, `ConfirmedTargetsEnded`, `DeletedIsStopped` of the composition |
| | `SwitchIsFenced` | `GenerationFence` of the composition, without archive |
| | `AppliedStopped` | `AppliedIsStopped`, without archive |
| `ExecutionServiceProofs` | `Invariance`, `TypeCorrect` | `IInv`, `TypeOK` |
| | `PipelineIsUnique` | `OnePipeline` |
| | `WorkIsDriven` | `ActiveIsDriven` |
| | `StaleRunsAreSilent` | `StaleIsSilent` |
| `EventStoreProofs` | `Invariance`, `TypeCorrect` | `IInv`, `TypeOK` |
| | `OnlyStoredIsSent` | `SentIsStored` |
| | `OnlyPublishedIsMarked` | `MarkedIsPublished` |
| | `ReconnectLosesNothing` | `ReconnectIsComplete` |
| `DeliveryProofs` | `Invariance`, `TypeCorrect` | `IInv`, `TypeOK` |
| | `OnlyValidatedIsPushed` | `PushedIsValidated` |
| | `OnlyReviewedIsMerged` | `MergedIsReviewed` |
| | `WorkIsDriven` | `InFlightIsDriven` |
| `MergeProofs` | `MergeType` | texts merge into a text |
| | `MergeSymmetric` | the sides can be exchanged |
| | `MergeAdds` | each line as often as the two sides have it, shared edits once |
| | `MergeKeepsEdits` | no added line is lost and none invented, where lines end with a newline |
| `MCMergeProofs` | `SidesAgreeAlways` | `SidesAgree` |
| | `EditsAddAlways` | `EditsAdd` |
| `WritebackProofs` | `WritebackInvariance`, `RecordsTypeCorrect` | `WritebackInv`, `RecordsOK` |
| | `TypeCorrect` | `TypeOK` |
| | `ConflictsLeaveNoTrace` | `ConflictLeavesNoTrace` |
| | `InFlightAreDriven` | `InFlightIsDriven` |
| | `DeletedWriteNothing` | `DeletedWritesNothing` |
| | `LineInvariance` | the inductive invariant `LineInv`, for texts of whole lines (observation 15) |
| | `EditsKept` | `EditsAreKept`, for texts of whole lines |
| | `AppliedAreComplete` | `AppliedIsComplete`, for texts of whole lines and without empty new files (observation 17) |
| `WorkflowProofs` | `Invariance`, `TypeCorrect` | `IInv`, `TypeOK` |
| | `OneRunning` | `OneRunningNode` |
| | `Approved` | `WorkIsApproved` |
| | `ParkedQuietly` | `ParkedIsQuiet` |
| | `Driving` | `RunningIsDriven` |
| | `HistoryKept` | `HistoryIsKept` |

### Session controls

`IInv` is the conjunction of

* `TypeOK`;
* `ReservationInv`: per invocation, what its place in `start()`, its process and the
  durable reservation say of each other. `LiveIsReserved` alone is not inductive: it
  does not say that `ended` means the process is over, that a confirmed pending sync
  is backed by an exit, or that an invocation which was never reserved has no
  process. With these, every release of a reservation rests on an exit;
* `StopInv`: an open request has a blocker, covers every reservation, and a confirmed
  target has no process and is at a place from which it gets none;
* `DeleteInv`: while a Session is deleting nothing is admitted, so once a control has
  seen its stop confirmed nothing is reserved any more; a deleted Session has no
  reservation at all. With `ReservationInv` it therefore has no process.

Only `reserve` makes an invocation active (`OnlyReserveActivates`), and its guard
refuses a waiting request and a Session that is not active; this is the heart of
`StopCovers` and of `DeletionIsComplete`.

### The admission promise

The refinement needs four more facts. `HandleInv`: a reservation is running or its stop
is unconfirmed, so that a confirmed barrier means that nothing is reserved. `FenceInv`:
no operation is of a later generation than the Session, what may still become a process
of an active Session is of its generation, and nothing from before the first lifecycle
record survives a delete. `ResumeInv`: a resume that has passed its checks is still right
when its transaction commits, because closed admission lets nothing new in.
`ArchiveInv`: an archive that has seen its stop confirmed archives a quiet Session.
Then every step of the controls, the supervisor, the bridge and a restart maps to one
step of `ExecutionAdmission` or to none. `ArchiveInv` is false when pause and archive
run in one Session (observation 1), hence the hypothesis.

### The runtime switch

A step of the composition is one of `SessionsService` or one of the coordinator, and the
coordinator touches the Session in few ways: it may close the admission, raise the
generation while it is closed, and resume. `SwitchFrame` says so, and `IInv`,
`HandleInv` and `FenceInv` survive it, so the theorems about the controls hold of
the composition. `OneInv`: at most one request of a Session is unresolved. `DispatchInv`:
a request that was dispatched is `resuming` or settled and its coordinator is past the
call, which no restart undoes because the intention is durable. `QuietInv`: what the
coordinator found stopped stays so while the admission is closed.

### Execution

The table of runs (`running` map, chained starts, jobs) is changed by `start`, `cancel`,
`release` and `settle` only; `TableInv` is shown for these operators once and every
action is a composition of them. It adds to `OnePipeline` that a chained start waits for
an entry and was not aborted, that a queued job has a try left, and that the queue and the
chained starts exclude each other. `ActiveIsDriven` needs besides that a Session
which works is open, so that an outcome can start nothing in a paused one, and that an
aborted run in the slot has a start chained behind it. An outcome that sets REWORKING or
EXECUTING starts the next run in the slot it has just freed; a writeback
that sets EXECUTING finds such a slot or leaves the Session adrift; one that hands the
work over says so.

### Events

The server's part (`ProcessInv`, `BirthInv`, `StoredInv`) follows an event from its write to
the row, the memory and the outbox: what dies with the process, what a settled write
entitles it to, what a claim may hold. The client's part is about a tab and the
coordinator on their own, as `ReconnectIsComplete` is. Its heart is `FollowInv`: what the
tab has, page and buffer included, is closed under the order of the log: with an event
it has every earlier one, and a row it does not have is in a frame, in the buffer or
in the write that is about to be answered. `ReconnectIsComplete` alone says
nothing about a tab that is still connecting, where all of the work is done.

### Delivery

`Good` records name only validated trees, and commits whose tree was validated; what an
operation, running or given up on a device, may still push or merge is tied to such a
record and to a click (`Operations`). Commits, validated trees, conflicts and clicks only
grow (`Grows`), so that what was good stays good while others push in between. `DrivenInv`:
a record in flight belongs to the running operation and has its version, so
that its failure parks it.

### Three-way merge

The definitions are recursive functions over texts. The prover knows nothing of such a
function until its equation is shown to have a solution, and has no induction scheme that
takes a predicate; `Induction` states induction for sets of naturals instead, and
`Recursion` derives from it that an equation whose right side looks only at arguments of a
smaller measure has a solution. Both are proved from the well-foundedness of the
naturals, and the equations of `Walk`, `Splice` and `Join` follow.

`Path` says that the walk goes through both texts to their ends, keeping only lines that
they have in common. Nothing else is needed of the walk: the proofs use no property
of the longest common subsequence, so a worse diff would be as safe. From it the hunks
of one side lie apart with a kept line between them (`HunksSeparate`), and putting them all into
the base gives the side's text back (`SpliceOfHunks`). `HunksAdd` counts a line in
what four sets of hunks make of the base: those of either side, all, and the shared;
from the end of the base to its start, hunk by hunk. `OverlapsIs` shows the rule of `overlaps`
to be symmetric, hence `MergeSymmetric`. A line without newline runs into the next
one, which `EditsAdd` excludes by its effect: `JoinWithoutRun` shows that a joined text
without a longer line is the spliced one.

### Writeback

`TraceInv` is the part that takes thought: while an operation writes, every file of its
snapshot was written by it, is as the snapshot has it, or was touched by somebody else;
so the rollback, which restores what was written unless it was touched, leaves the
files that are neither as they were. `JobInv` says what is known at each place of `apply`,
`QueueInv` that no operation of a closed Session waits.

The two properties about lines hold where every line ends with a newline (`WholeLines`):
a last line without one runs into what a merge puts behind it, so neither it nor the line behind is
found again. They need `LineInv`, which says what an operation carries. Before the merge each
change is the Session's own, or one forced over the file as it was, or one decided over
what the conflict editor showed (`Carries`); a change that is missing was left out by the user
(`LeftOut`). After the merge it brings what the Session changed, keeps the lines of
others that its expected file has, and has no other lines of others (`Brings`); the first
part is where `MergeKeepsEdits` comes in. What is written or left out is `Settled`, and
stays so until somebody edits the file, as a change set names a file once. The
user's decisions are part of the record, and the record could change while its
operation waits: `SubmitInv` shows that it does not, since a record in the queue is in flight,
no command takes one in flight, and so none is in the queue twice. A write then keeps
others' lines because the file is as the change expects it; a rollback because what was
written has only the lines that the expected file had, and the snapshot is that file.
The last step fails for one history, observation 16, which `EditsAreKept` names
(`SnapshotIsOther`).

### Workflow

The helpers of the service map state records, so the invariant is a predicate of records
too, and every helper has a lemma that says what it makes of one. `CoreInv` concerns the
workflow alone: only the newest node run can be under way and only at the current node
(`LiveInv`), an execution works on it or has been aborted (`SlotInv`), a parked run has
none and its node run is the newest (`ParkInv`), an ended run has nothing under way
(`EndInv`). `Clear` is `Cleared` without maxima; it survives appending a node run of
the current node and going back, and grows by one node when a gate approves. `SessionInv`
relates the run to the Session: without it a resume, a conflict's resolution or a rework
could find a run that it drives twice. `AwaitInv` is about the two places that await
something, the capture of the baseline and the pause. Every action is shown to be
`Driven`: the invariant again, the history kept, and no way back to a Session that has
not chosen its workflow or is paused. The proof holds for any published list of nodes
that `assertPublishable` accepts.

### Only model-checked

Liveness (`ArmedIsReleased`, `StopIsConfirmed`) and `SwitchIsTakenUp`: fairness is out of the
prover's reach. Every other property of the runs that are expected to pass is stated by a theorem.

## 6. Observations

Met while modelling, confirmed on the model or by reading the code back, and kept
out of the properties. Paths are under `apps/server/src/modules/` unless they say more.

Admission

1. `reopen` never reads `archivedAt` (`runtimes/session-lifecycle-store.ts:206`), so a
   resume that races an archive opens the admission of an archived Session, although
   the comment at line 135 says it "is closed until the archive is restored". A process
   may then live in an archived Session, and the restore raises the generation under it.
   The refinement and `ReopenIsSafe` are therefore checked and proved without archive
   against pause, `GenerationFence` without archive.
2. A control takes a supervised invocation without reservation as a stop target
   (`session-stop-state-store.ts:45`); if its reservation is then refused nothing confirms
   the target. `restoreArchived` may remove the mark of a Session whose delete began
   while it waited (`sessions/sessions.service.ts:1885`). A crash between `completeDelete`
   and the write at 1744-1746 leaves a Session deleted and archived. An abort between the
   last check and the launch arms no stop timer (`runtimes/runtime.service.ts:366`).
   The model runs one resume at a time: `reopen` compares the latest stop status only
   (`runtimes/session-lifecycle-store.ts:206`), so of two concurrent resumes with a pause
   between them the second may reopen after the first has let work in.

Execution

3. A pause that waited writes PAUSED over a Session cancelled meanwhile
   (`sessions.service.ts:6297`), past the transition table at 7160; `pause` that finds
   PAUSED may answer `alreadyPaused` while a resume goes on (6273), and then aborts the
   run of a Session that shows EXECUTING. A writeback that ends late sets EXECUTING over a
   pause or a cancel (`orchestrator/orchestrator.service.ts:2521`), and so does the
   resolution of a conflict (`sessions.service.ts:937`). A conflict resolved while the tasks
   beside it still run has its start dropped; when the run then reports it no task waits any more
   (5690) and the Session stays EXECUTING with nothing running. A delivery with a
   queued message also stays EXECUTING (5707): `scheduleFollowUpPlanning` (5331) only plans, and
   `processNextFollowUp` may return early (5382).
4. A chained start is not checked again when it runs; after delete and restore it can hold
   the slot of the restored Session. With BullMQ a second job of a Session replaces the
   abort controller of the first (`queue/execution.queue.ts:42`), and a job whose tries
   are used up leaves the Session EXECUTING (`queue/execution.worker.ts:55`). A failed
   writeback without conflict draft is not withdrawn by a delete
   (`workspaces/workspace-writeback.service.ts:76`): it blocks the restored Session, and
   its generation is no longer admitted, so that it cannot be resolved (224).

Workflow

5. The context that activates nodes lives in memory: after a restart at a gate an
   approval leaves the run running with no node, and pause and resume then fail it.
   Boot also expires the card of an upstream rerun (`sessions.service.ts:1016`).
6. The substitution card is keyed by the task and written once
   (`sessions.service.ts:5774`): a second decline of the same node parks the run without
   a card, although the comment at 6149 says the card must stay resolvable. An after-step
   Runtime switch cancels the workflow (`orchestrator/orchestrator.service.ts:1924`).
   Skipping into a human gate shows EXECUTING instead of the wait.
7. A cancel during the capture of the baseline is overwritten with EXECUTING
   (`sessions.service.ts:4741`). A late capability grant resets the task of a finished
   node and restarts work, also in a cancelled Session (8395).

Events

8. When the stream opens while a reconcile of the page is pending, it shares that
   answer, which predates the subscription (`apps/web/src/stores/event.ts:792`): an event
   published in between is in neither. A receipt moves the cursor past events not yet
   seen (779), and a failed reconcile drops the buffer (824). SN-AC06 of
   `docs/product/session-navigation-performance-spec-v1.md:78` asks that catching up misses nothing.
9. `acceptCommitted` may put events into memory out of row order
   (`events/events.service.ts:85`).

Delivery

10. `refreshUnlocked` derives `merge_ready` from the pull request alone
    (`delivery/delivery-coordinator.ts:460`) and writes it over the state of a newer
    candidate: the old head is offered for merge and the candidate can no longer be
    validated.
11. Boot parks the deliveries of active Sessions only (line 68): an archived Session with
    one in flight stays so, and then cannot be deleted. `blocked` without validation has
    no way on in the panel. Retrying a publish after a closed pull request pushes an
    empty commit. Follow-up candidates are integrated from the base and drop changes
    others pushed to the branch.

Writeback

12. The draft holds the conflicts of the latest attempt only, and
    `applyConfirmedConflict` submits the original changes of the other files again. If one
    file overlaps (found by the merge) and another already exists (found by the
    validation), resolving one brings the other back: the two alternate and the record
    can never be applied. On an instance with these two conflicts TLC finds no
    behaviour in which both Sessions are applied.
13. Merging a merged text again can repeat an insertion: base `a`, current empty, candidate
    `a b` gives `b`; the retry gives `b b`. A crash in the middle of a batch followed by
    the "Retry merge to continue" of the recovery does exactly this. In the same
    situation the record's own create and delete come back as conflicts.
14. The last update of an operation is returned, not awaited
    (`workspaces/workspace-writeback.service.ts:332`, 335, 350): when it fails the `catch`
    does not see it and the record stays in flight until a restart.
15. A write that fails half way is not in `appliedStates`, so the rollback leaves its file
    as it is, possibly truncated. What is written while the Session is being deleted is
    recorded as failed. A current text without final newline runs into the line that
    the candidate appends.
16. The rollback restores the snapshot, and the snapshot is taken after the batch was
    validated (`workspaces/workspace-apply-change-set.ts:73`): it can be another content
    than the one the late check accepts. A user who deletes a merged line before the
    snapshots and puts it back before the late check loses it when a later file of the batch fails.
    It takes three edits of one file and an error; TLC finds it with `MaxEdits` 3.
17. `inspectWorkspaceFile` gives a missing file the content `''`
    (`workspaces/workspace-writeback.service.ts:553`), so `applyConfirmedConflict` takes an
    empty new file of the Session for done (line 462) where the file is missing: the record
    is applied and the file is not there.

Runtime switch

18. `archive` does not fail a pending switch as `pause` does (`sessions.service.ts:6282`).
    With archive and switch together TLC violates `AppliedIsStopped`. In the code that
    takes a stop request of the archive that fails on top: `archive` (1781-1794) sets
    PAUSED in memory and queues its request in the same tick. The theorems about the
    switch leave archive out.

## 7. Not modelled

The repository has about 138,000 lines of implementation, most of them prompts,
adapters of Runtimes, SQL mappings, contracts, catalogues and user interface, which hold
little control that a model checker could examine. The map covers the concurrent core;
the rest is listed with its reason in `PROJECT.json`. In the modelled components these
are left out:

* admission: `retryWithBinding`, graceful shutdown, `reserveCorrection`, isolated test
  attempts, workspace leases, `hasUnconfirmedStops` of the local connection (an extra
  reason to refuse);
* execution: crashes of worker processes, Redis, the planning of queued messages
  (`processNextFollowUp`), capability grants, input budgets beyond the wait they cause,
  retries of a brief, workflow Sessions (they are in `WorkflowRuntime`), more than one
  writeback of a run at a time, writebacks that outlive a queued job;
* workflow: capability grants, input budgets, bindings of the newer intent contract,
  BullMQ mode, APPLYING_CHANGES, `recover`, graph rework edges;
* delivery: archived Sessions, writing a conflict's resolution file by file;
* events: usage views, projections into the page, leases beyond one claim;
* writeback: moves (a server_local change set has none), the local bridge provider,
  source bindings of intents, archived Sessions, hand-written resolutions other than
  one of the two versions.

## 8. Plan

1. `GenerationFence` and the refinement with archive, from a mapping that leaves an
   archived Session open while a resume races it (observation 1).
2. Next components: file revisions and their iterations, input budgets, the local bridge
   protocol, intent correction.
