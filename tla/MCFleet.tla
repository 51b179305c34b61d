-------------------------------- MODULE MCFleet --------------------------------
(* Instances of Fleet for TLC. *)
EXTENDS Fleet, TLC

CONSTANTS s1, s2, q1, q2

Symmetric == Permutations(Clients) \cup Permutations(Ids)
=============================================================================
