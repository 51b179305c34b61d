------------------------------ MODULE MCServices ------------------------------
(* Instances of Services for TLC. *)
EXTENDS Services, TLC

CONSTANTS gw, tel, sim, ing1, ing2, agg, ntf

TheProgram ==
  [i \in Processes |->
     CASE i = gw -> "gateway" [] i = tel -> "telemetry" [] i = sim -> "simulator"
       [] i \in {ing1, ing2} -> "ingestion" [] i = agg -> "aggregator" [] i = ntf -> "notifier"]
=============================================================================
