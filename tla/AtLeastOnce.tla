------------------------------ MODULE AtLeastOnce ------------------------------
(***************************************************************************)
(* What a stage of the pipeline promises of each partition it reads: the   *)
(* records come out in order, none is skipped, and the stage forgets only  *)
(* what has come out (fetch -> handle -> commit, pkg/kafkax/consumer.go).  *)
(* How often a record comes out is not promised.                           *)
(***************************************************************************)
EXTENDS Integers

CONSTANT Partitions

VARIABLES
  produced,   \* records appended to the partition
  delivered,  \* how many of them, counted from the first, have come out
  acked       \* how many the stage will not read again

vars == <<produced, delivered, acked>>

Init ==
  /\ produced = [p \in Partitions |-> 0]
  /\ delivered = [p \in Partitions |-> 0]
  /\ acked = [p \in Partitions |-> 0]

Produce(p) ==
  /\ produced' = [produced EXCEPT ![p] = @ + 1]
  /\ UNCHANGED <<delivered, acked>>

\* Only the next record can come out for the first time.
Deliver(p) ==
  /\ delivered[p] < produced[p]
  /\ delivered' = [delivered EXCEPT ![p] = @ + 1]
  /\ UNCHANGED <<produced, acked>>

\* The stage may fall back to an earlier record, never run ahead of the output.
Acknowledge(p) ==
  /\ \E n \in 1..delivered[p] : acked' = [acked EXCEPT ![p] = n]
  /\ UNCHANGED <<produced, delivered>>

Next == \E p \in Partitions : Produce(p) \/ Deliver(p) \/ Acknowledge(p)

Safe == Init /\ [][Next]_vars

Spec == Safe /\ \A p \in Partitions : WF_vars(Deliver(p))
=============================================================================
