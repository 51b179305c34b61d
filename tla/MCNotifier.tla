------------------------------ MODULE MCNotifier ------------------------------
(* Instances of Notifier for TLC. *)
EXTENDS Notifier

CONSTANTS b1, b2, p1, agg, bad

OnePartition == [m \in Aggregates |-> p1]
=============================================================================
