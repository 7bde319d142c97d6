------------------------------ MODULE MCDelivery ------------------------------
(* Small instances of DeliveryCoordinator. *)
EXTENDS DeliveryCoordinator, TLC

\* Every candidate comes from a task of its own.
OwnTask == [c \in Candidates |-> c]

Symmetric == Permutations(Candidates)
=============================================================================
