-------------------------- MODULE SessionsLiveness --------------------------
(***************************************************************************)
(* What must eventually happen, and the fairness it rests on.              *)
(***************************************************************************)
EXTENDS SessionsService

(***************************************************************************)
(* start() runs on the event loop: an await whose transaction or timer is  *)
(* done resumes.  The steps of one invocation lie at different places, so  *)
(* weak fairness of their disjunction moves each of them on.  A process    *)
(* that never ends makes Result wait for ever; nothing here ends it.       *)
(***************************************************************************)
ServerStep(i) ==
    \/ Begin(i) \/ RefuseStart(i) \/ CheckBeforeReserve(i) \/ ReserveInvocation(i)
    \/ CheckBeforeLaunch(i) \/ RefuseLaunch(i) \/ Launch(i)
    \/ Result(i) \/ StopTimer(i) \/ SettleInvocation(i) \/ LateResult(i)

ServerFairness == \A i \in Invs : WF_vars(ServerStep(i) /\ UNCHANGED controls)

FairSpec == Spec /\ ServerFairness

(***************************************************************************)
(* The environment of a stop that goes well: a process that was told to    *)
(* end does end, and the local bridge repeats the receipt of an ended one. *)
(* A bridge process is told again by every cancelSessionAndWait            *)
(* (retryUnconfirmedStops), so an open stop request reaches it even after  *)
(* the invocation is no longer supervised.                                 *)
(***************************************************************************)
Cancelled(i) ==
    \/ abort[i] # "no"
    \/ i \in Local /\ pc[i] = "done" /\ stopRequest.status = "waiting"

StopFairness ==
    \A i \in Invs : /\ WF_vars(Cancelled(i) /\ ProcessExit(i) /\ UNCHANGED controls)
                    /\ WF_vars(Receipt(i) /\ UNCHANGED controls)

(***************************************************************************)
(* An invocation whose stop timer was armed leaves the supervisor even if  *)
(* its process never ends.                                                 *)
(***************************************************************************)
ArmedIsReleased == \A i \in Invs : armed[i] ~> i \notin Supervised

(***************************************************************************)
(* In that environment a stop request that waits only for reserved         *)
(* invocations, all of them told to end, is confirmed: late results and    *)
(* receipts reach it.                                                      *)
(***************************************************************************)
StopIsConfirmed ==
    StopFairness =>
        (stopRequest.status = "waiting" /\ (\A i \in Blockers : i \in ActiveInvs /\ Cancelled(i))
             ~> stopRequest.status = "confirmed")
=============================================================================
