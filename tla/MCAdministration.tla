-------------------------- MODULE MCAdministration ---------------------------
(***************************************************************************)
(* Instances of Administration for TLC: two administrators, two routes.    *)
(***************************************************************************)
EXTENDS Administration

CONSTANTS q1, q2

=============================================================================
