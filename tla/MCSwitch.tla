------------------------------ MODULE MCSwitch ------------------------------
(***************************************************************************)
(* Small instances of RuntimeSwitch for TLC.                               *)
(***************************************************************************)
EXTENDS RuntimeSwitch, SessionsAdmission

CONSTANTS i1, i2, a, k1, k2

\* The invocations are attempts of one task, before and after the switch.
OneOp == [i \in Invs |-> a]
=============================================================================
