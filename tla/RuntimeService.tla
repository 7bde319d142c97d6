---------------------------- MODULE RuntimeService ----------------------------
(***************************************************************************)
(* RuntimeService: the supervisor of invocations inside one server         *)
(* process.  start() registers the invocation and runs                     *)
(*                                                                         *)
(*   begin -> barrier, abort -> reserve -> barrier, abort -> budgets ->    *)
(*   launch -> result or stop timer -> settle -> unregister                *)
(*                                                                         *)
(* with an await between any two of these, so each arrow is an action.     *)
(*                                                                         *)
(*   pc       where start() of the invocation is                           *)
(*   opOf     input.operation.id                                           *)
(*   abort    the termination its AbortController holds                    *)
(*   armed    the 15 s stop timer is set                                   *)
(*   proc     the agent process itself, which the server only hears from   *)
(*   sync     pendingStopStateSync: a settle whose transaction failed      *)
(*   syncTries, requestFailed, epoch, failures                             *)
(*            attempts of that sync; stopRequestFailures; the number of    *)
(*            restarts (ownerId); transactions that failed so far          *)
(*   correcting  intent stops that are marked and still have to cancel     *)
(***************************************************************************)
EXTENDS SessionStopStateStore, LogicalOperationStore

CONSTANTS NoOp,            \* no operation yet
          Corrected,       \* invocations an intent correction may stop
          MaxSyncAttempts, \* attempts of one pending sync: five in the code
          MaxFailures      \* bound on the number of failed transactions

ASSUME RuntimeAssumption ==
    /\ NoOp \notin OpIds
    /\ Corrected \subseteq Invs
    /\ MaxSyncAttempts \in Nat \ {0}
    /\ MaxFailures \in Nat

VARIABLES pc, opOf, abort, armed, proc, sync, syncTries, requestFailed, epoch, failures,
          correcting

handle == <<opOf, abort, armed>>
pending == <<sync, syncTries>>
faults == <<requestFailed, epoch, failures>>
runtime == <<pc, proc, handle, pending, faults, correcting>>

(***************************************************************************)
(* timedOut: the stop timer resolved the race, the late-result callback is *)
(* still pending; flagged: the result itself says stopUnconfirmed;         *)
(* tombstone: settled unconfirmed with the callback still pending.         *)
(***************************************************************************)
SupervisedPc == {"starting", "begun", "admitted", "reserved", "cleared", "running",
                 "ended", "timedOut", "flagged"}
Pc == SupervisedPc \cup {"idle", "tombstone", "done"}

RuntimeTypeOK ==
    /\ pc \in [Invs -> Pc]
    /\ opOf \in [Invs -> OpIds \cup {NoOp}]
    /\ abort \in [Invs -> {"no", "paused", "other"}]
    /\ armed \in [Invs -> BOOLEAN]
    /\ proc \in [Invs -> {"none", "live", "exited"}]
    /\ sync \in [Invs -> {"none", "confirmed", "unconfirmed"}]
    /\ syncTries \in [Invs -> 0 .. MaxSyncAttempts]
    /\ requestFailed \in BOOLEAN
    /\ epoch \in 0 .. MaxRestarts
    /\ failures \in 0 .. MaxFailures
    /\ correcting \subseteq Corrected

RuntimeInit ==
    /\ pc = [i \in Invs |-> "idle"]
    /\ opOf = [i \in Invs |-> NoOp]
    /\ abort = [i \in Invs |-> "no"]
    /\ armed = [i \in Invs |-> FALSE]
    /\ proc = [i \in Invs |-> "none"]
    /\ sync = [i \in Invs |-> "none"]
    /\ syncTries = [i \in Invs |-> 0]
    /\ requestFailed = FALSE
    /\ epoch = 0
    /\ failures = 0
    /\ correcting = {}

Supervised == {i \in Invs : pc[i] \in SupervisedPc}

-----------------------------------------------------------------------------
(* The stop barrier. *)

\* pruneResolvedPendingStopStates drops what other evidence has settled already.
Resolved(i) == /\ opOf[i] # NoOp
               /\ ops[opOf[i]].stop = "confirmed"
               /\ ops[opOf[i]].active # i
PruneSync == sync' = [i \in Invs |-> IF Resolved(i) THEN "none" ELSE sync[i]]
PendingSync == {i \in Invs : sync[i] # "none" /\ ~Resolved(i)}

UnknownOperations ==
    {o \in OpIds : \/ ops[o].stop = "unconfirmed"
                   \/ /\ ops[o].status = "running"
                      /\ ops[o].active \notin Internal
                      /\ ops[o].active \notin Supervised}

(***************************************************************************)
(* canResume of getStopSummary.  A supervised invocation is a blocker only *)
(* of a request that is waiting, and such a request has blockers already:  *)
(* with a confirmed request and nothing else pending the method reports    *)
(* "idle", so supervised invocations do not change the answer.             *)
(***************************************************************************)
CanResume ==
    /\ SummaryCanResume
    /\ PendingSync = {}
    /\ UnknownOperations = {}
    /\ ~requestFailed

\* Mutant: resume looks at the supervised handles only.
HasUnconfirmedStops_HandlesOnly == Supervised # {}

HasUnconfirmedStops == Supervised # {} \/ ~CanResume

-----------------------------------------------------------------------------
(* start() *)

Goto(i, label) == pc' = [pc EXCEPT ![i] = label]

Start(i) ==
    /\ pc[i] = "idle"
    /\ Goto(i, "starting")
    /\ UNCHANGED <<durable, proc, handle, pending, faults, correcting>>

Begin(i) ==
    /\ pc[i] = "starting"
    /\ BeginOp(BaseOf[i])
    /\ opOf' = [opOf EXCEPT ![i] = OpFor(BaseOf[i])]
    /\ Goto(i, "begun")
    /\ UNCHANGED <<proc, abort, armed, pending, faults, correcting>>

\* assertStopBarrierAllowsStart and the abort check that follow an await.
PassBarrier(i, from, to, refused) ==
    /\ pc[i] = from
    /\ Goto(i, IF CanResume /\ abort[i] = "no" THEN to ELSE refused)
    /\ PruneSync
    /\ UNCHANGED <<durable, proc, handle, syncTries, faults, correcting>>

CheckBeforeReserve(i) == PassBarrier(i, "begun", "admitted", "done")

ReserveInvocation(i) ==
    /\ pc[i] = "admitted"
    /\ Reserve(opOf[i], i, epoch)
    /\ Goto(i, "reserved")
    /\ UNCHANGED <<proc, handle, pending, faults, correcting>>

(***************************************************************************)
(* begin or reserve throws: a guard fails, the deadline has passed, the    *)
(* intent is stale or the transaction fails.  Nothing was reserved, so     *)
(* finally unregisters the invocation and settles nothing.                 *)
(***************************************************************************)
RefuseStart(i) ==
    /\ pc[i] \in {"starting", "admitted"}
    /\ Goto(i, "done")
    /\ UNCHANGED <<durable, proc, handle, pending, faults, correcting>>

CheckBeforeLaunch(i) == PassBarrier(i, "reserved", "cleared", "ended")

\* An open provider circuit, a budget refusal or a stale intent after the checks.
RefuseLaunch(i) ==
    /\ pc[i] = "cleared"
    /\ Goto(i, "ended")
    /\ UNCHANGED <<durable, proc, handle, pending, faults, correcting>>

\* startUnsupervised: by now the signal may be aborted, and stop() has already run.
Launch(i) ==
    /\ pc[i] = "cleared"
    /\ Goto(i, "running")
    /\ proc' = [proc EXCEPT ![i] = "live"]
    /\ UNCHANGED <<durable, handle, pending, faults, correcting>>

\* The abort listener fires once; it arms the timer only if there is an adapter handle.
AbortAll(invocations, kind) ==
    LET aborting == {i \in invocations : abort[i] = "no" /\ pc[i] \in SupervisedPc}
    IN  /\ abort' = [i \in Invs |-> IF i \in aborting THEN kind ELSE abort[i]]
        /\ armed' = [i \in Invs |-> armed[i] \/ (i \in aborting /\ proc[i] # "none")]

\* The caller's signal, the operation budget or failed bookkeeping aborts one invocation.
Abort(i) ==
    /\ pc[i] \in SupervisedPc
    /\ abort[i] = "no"
    /\ AbortAll({i}, "other")
    /\ UNCHANGED <<durable, pc, proc, opOf, pending, faults, correcting>>

\* cancelIntentExecutionsAndWait: mark the exact invocation, then cancel its handle.
StopIntent(i) ==
    /\ i \in Corrected \ correcting
    /\ RequestIntentStop({i})
    /\ correcting' = correcting \cup {i}
    /\ UNCHANGED <<pc, proc, handle, pending, faults>>

CancelIntent(i) ==
    /\ i \in correcting
    /\ AbortAll({i}, "other")
    /\ correcting' = correcting \ {i}
    /\ UNCHANGED <<durable, pc, opOf, proc, pending, faults>>

\* The agent process ends by itself or because it was cancelled.
ProcessExit(i) ==
    /\ proc[i] = "live"
    /\ proc' = [proc EXCEPT ![i] = "exited"]
    /\ UNCHANGED <<durable, pc, handle, pending, faults, correcting>>

\* underlying.result resolves: the process exit receipt.
Result(i) ==
    /\ pc[i] = "running"
    /\ proc[i] = "exited"
    /\ Goto(i, "ended")
    /\ UNCHANGED <<durable, proc, handle, pending, faults, correcting>>

\* The local bridge answers without knowing whether the process ended (a disconnect).
UnconfirmedResult(i) ==
    /\ pc[i] = "running"
    /\ i \in Local
    /\ Goto(i, "flagged")
    /\ UNCHANGED <<durable, proc, handle, pending, faults, correcting>>

\* The timer is cleared only in finally, so it may also fire while an ended invocation
\* waits for its bookkeeping: that one is settled unconfirmed, its callback already spent.
StopTimer(i) ==
    /\ pc[i] \in {"running", "ended"}
    /\ armed[i]
    /\ Goto(i, IF pc[i] = "running" THEN "timedOut" ELSE "flagged")
    /\ UNCHANGED <<durable, proc, handle, pending, faults, correcting>>

-----------------------------------------------------------------------------
(* finally: settle, or register the settle for later, then unregister. *)

\* Mutant: the stop timer counts as evidence that the process ended.
Evidence_Timer(i) == IF pc[i] \in {"ended", "timedOut"} THEN "confirmed" ELSE "unconfirmed"

\* Mutant: finally leaves the invocation registered.
AfterSettle_Registered(i) == pc[i]

Evidence(i) == IF pc[i] = "ended" THEN "confirmed" ELSE "unconfirmed"

\* The pause argument of settle: the invocation was aborted by a user's stop.
PauseRequested(i) == abort[i] = "paused"

AfterSettle(i) == IF pc[i] = "timedOut" THEN "tombstone" ELSE "done"

SettleInvocation(i) ==
    /\ pc[i] \in {"ended", "timedOut", "flagged"}
    /\ \E left \in BOOLEAN :
          Settle(opOf[i], i, Evidence(i), PauseRequested(i), left)
    /\ Goto(i, AfterSettle(i))
    /\ UNCHANGED <<proc, handle, pending, faults, correcting>>

TransactionFails ==
    /\ failures < MaxFailures
    /\ failures' = failures + 1

SettleFails(i) ==
    /\ pc[i] \in {"ended", "timedOut", "flagged"}
    /\ TransactionFails
    /\ sync' = [sync EXCEPT ![i] = Evidence(i)]
    /\ Goto(i, AfterSettle(i))
    /\ UNCHANGED <<durable, proc, handle, syncTries, requestFailed, epoch, correcting>>

\* reconcilePendingStopStates takes every pending item, an exhausted one too, when the
\* timer of an item that is not exhausted fires.
SyncTimer == \E j \in Invs : sync[j] # "none" /\ syncTries[j] < MaxSyncAttempts

Reconcile(i) ==
    /\ sync[i] # "none"
    /\ SyncTimer
    /\ \E left \in BOOLEAN : Settle(opOf[i], i, sync[i], PauseRequested(i), left)
    /\ sync' = [sync EXCEPT ![i] = "none"]
    /\ UNCHANGED <<pc, proc, handle, syncTries, faults, correcting>>

ReconcileFails(i) ==
    /\ sync[i] # "none"
    /\ SyncTimer
    /\ TransactionFails
    /\ syncTries' = [syncTries EXCEPT ![i] = IF @ < MaxSyncAttempts THEN @ + 1 ELSE @]
    /\ UNCHANGED <<durable, pc, proc, handle, sync, requestFailed, epoch, correcting>>

\* The late result releases the tombstone, before or after finally has settled it.
AfterLate(i) == IF pc[i] = "timedOut" THEN "flagged" ELSE "done"

LateResult(i) ==
    /\ pc[i] \in {"timedOut", "tombstone"}
    /\ proc[i] = "exited"
    /\ \E left \in BOOLEAN : Settle(opOf[i], i, "confirmed", PauseRequested(i), left)
    /\ Goto(i, AfterLate(i))
    /\ UNCHANGED <<proc, handle, pending, faults, correcting>>

\* A late result that is itself unconfirmed releases nothing.
LateUnconfirmedResult(i) ==
    /\ pc[i] \in {"timedOut", "tombstone"}
    /\ i \in Local
    /\ Goto(i, AfterLate(i))
    /\ UNCHANGED <<durable, proc, handle, pending, faults, correcting>>

\* A late settle that fails is dropped: the callback swallows the error.
LateResultFails(i) ==
    /\ pc[i] \in {"timedOut", "tombstone"}
    /\ proc[i] = "exited"
    /\ TransactionFails
    /\ Goto(i, AfterLate(i))
    /\ UNCHANGED <<durable, proc, handle, pending, requestFailed, epoch, correcting>>

\* The bridge repeats the stop receipt of an ended process, across restarts too.
Receipt(i) ==
    /\ i \in Local
    /\ proc[i] = "exited"
    /\ \E left \in BOOLEAN : ConfirmTransportReceipt(i, left)
    /\ UNCHANGED runtime

\* The orchestrator takes up an operation that a stop had paused.
ResumeOperation(o) ==
    /\ ResumeOp(o)
    /\ UNCHANGED runtime

RuntimeStep(i) ==
    \/ Start(i) \/ Begin(i) \/ CheckBeforeReserve(i) \/ ReserveInvocation(i)
    \/ RefuseStart(i) \/ CheckBeforeLaunch(i) \/ RefuseLaunch(i) \/ Launch(i)
    \/ Abort(i) \/ StopIntent(i) \/ CancelIntent(i) \/ ProcessExit(i) \/ Result(i)
    \/ UnconfirmedResult(i) \/ StopTimer(i) \/ SettleInvocation(i) \/ SettleFails(i)
    \/ Reconcile(i) \/ ReconcileFails(i) \/ LateResult(i) \/ LateUnconfirmedResult(i)
    \/ LateResultFails(i) \/ Receipt(i)
=============================================================================
