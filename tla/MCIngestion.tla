------------------------------ MODULE MCIngestion ------------------------------
(* Instances of Ingestion for TLC. *)
EXTENDS Ingestion

CONSTANTS c1, c2, p1, p2, r1, r2, bad

OnePartition  == [m \in Messages |-> p1]
TwoPartitions == [m \in Messages |-> IF m = r2 THEN p2 ELSE p1]
=============================================================================
