------------------------------ MODULE MCEvents ------------------------------
(* Small instances of EventStore for TLC. *)
EXTENDS EventStore, TLC

CONSTANTS e1, e2, e3

Symmetric == Permutations(Events)
=============================================================================
