----------------------------- MODULE MCSessions -----------------------------
(***************************************************************************)
(* Small instances of SessionsService for TLC.                             *)
(***************************************************************************)
EXTENDS SessionsLiveness, SessionsAdmission

CONSTANTS i1, i2, i3, a, b

\* Attempts of one operation, or one attempt each of two operations.
OneOp == [i \in Invs |-> a]
TwoOps == [i \in Invs |-> IF i = i1 THEN a ELSE b]
=============================================================================
