------------------------------ MODULE MCAggregator ------------------------------
(* Instances of Aggregator for TLC. *)
EXTENDS Aggregator

CONSTANTS c1, c2, p1, m0, m1, m2, bad

OnePartition == [m \in Messages |-> p1]

\* m0 and m1 are a tick apart, m2 two ticks after m0.
MeasuredAt == [m \in Valid |-> CASE m = m0 -> 0 [] m = m1 -> 1 [] OTHER -> 2]
=============================================================================
