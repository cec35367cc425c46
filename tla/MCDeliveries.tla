---------------------------- MODULE MCDeliveries -----------------------------
(***************************************************************************)
(* Instances of Deliveries for TLC.                                        *)
(***************************************************************************)
EXTENDS Deliveries

CONSTANTS e1, e2, w1, w2

=============================================================================
