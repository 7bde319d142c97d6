-------------------------- MODULE SessionsAdmission --------------------------
(***************************************************************************)
(* SessionsService, with its stores, its supervisor and its restarts,      *)
(* implements ExecutionAdmission.                                          *)
(***************************************************************************)
EXTENDS SessionsService

Gate ==
    CASE lifecycle.state = "deleted"           -> "gone"
      [] lifecycle.state = "deleting"          -> "closed"
      [] lifecycle.state \in {"none", "active"} -> lifecycle.admission

Live == {i \in Invs : proc[i] = "live"}

Admission == INSTANCE ExecutionAdmission
    WITH Exempt <- {i \in Invs : BaseOf[i] \in Restricted},
         gate <- Gate, held <- ActiveInvs, live <- Live

(***************************************************************************)
(* Every step of the controls, the supervisor, the bridge and a restart is *)
(* a step of the admission promise or leaves it alone: whatever they do    *)
(* concurrently, a process runs under its reservation until there is       *)
(* evidence of its end, a closed Session opens with no ordinary process    *)
(* left, and a deleted Session has none.                                   *)
(***************************************************************************)
ImplementsAdmission == Admission!Spec
=============================================================================
