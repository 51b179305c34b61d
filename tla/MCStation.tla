------------------------------- MODULE MCStation -------------------------------
(* An instance of Station for TLC. *)
EXTENDS Station

CONSTANTS budapest, atlantic

\* On, inside and outside the bounds of Validate and of the drift.
Starts == {-5000, 2137, 6000, 6001}
=============================================================================
