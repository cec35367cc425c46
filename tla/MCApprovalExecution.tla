------------------------- MODULE MCApprovalExecution -------------------------
(***************************************************************************)
(* Instances of ApprovalExecution for TLC: x0, x1 and x2 are one sensitive *)
(* request of alice, sent three times; z is the same request by bob; y is  *)
(* another request of alice, which needs no approval.                      *)
(***************************************************************************)
EXTENDS ApprovalExecution, TLC

CONSTANTS x0, x1, x2, y, z, alice, bob, X, Y,
          a, b, k, l, d, e

WhoCalls   == [c \in Calls |-> IF c = z THEN bob ELSE alice]
HashOfCall == [c \in Calls |-> IF c = y THEN Y ELSE X]

=============================================================================
