------------------------- MODULE ExecutionAdmission -------------------------
(***************************************************************************)
(* What the stores and the supervisor promise together about the agent     *)
(* processes of one Session, without stop requests, operations, timers,    *)
(* receipts or restarts:                                                   *)
(*                                                                         *)
(*   gate   whether new work is admitted: open, closed, or gone when the   *)
(*          Session is deleted                                             *)
(*   held   the invocations that hold a durable reservation                *)
(*   live   the invocations whose process runs                             *)
(*                                                                         *)
(* A process runs only under a reservation, a reservation outlives its     *)
(* process, a closed gate opens only when no ordinary process is left and  *)
(* a Session goes only when no process is left.                            *)
(***************************************************************************)
CONSTANTS Invs, Exempt   \* Exempt: admitted through a closed gate too

VARIABLES gate, held, live

Init == gate = "open" /\ held = {} /\ live = {}

Admit(i) ==
    /\ i \notin held
    /\ gate = "open" \/ (gate = "closed" /\ i \in Exempt)
    /\ held' = held \cup {i}
    /\ UNCHANGED <<gate, live>>

Launch(i) ==
    /\ i \in held \ live
    /\ live' = live \cup {i}
    /\ UNCHANGED <<gate, held>>

\* Several processes end at once when the server that runs them dies.
Exit(ended) ==
    /\ live' = live \ ended
    /\ UNCHANGED <<gate, held>>

Release(i) ==
    /\ i \in held \ live
    /\ held' = held \ {i}
    /\ UNCHANGED <<gate, live>>

Close ==
    /\ gate = "open"
    /\ gate' = "closed"
    /\ UNCHANGED <<held, live>>

Reopen ==
    /\ gate = "closed"
    /\ live \subseteq Exempt
    /\ gate' = "open"
    /\ UNCHANGED <<held, live>>

Remove ==
    /\ gate = "closed"
    /\ live = {}
    /\ gate' = "gone"
    /\ UNCHANGED <<held, live>>

BringBack ==
    /\ gate = "gone"
    /\ gate' = "closed"
    /\ UNCHANGED <<held, live>>

Next ==
    \/ \E i \in Invs : Admit(i) \/ Launch(i) \/ Release(i)
    \/ \E ended \in SUBSET live : Exit(ended)
    \/ Close \/ Reopen \/ Remove \/ BringBack

Spec == Init /\ [][Next]_<<gate, held, live>>
=============================================================================
