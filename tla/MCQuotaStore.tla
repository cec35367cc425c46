---------------------------- MODULE MCQuotaStore ----------------------------
(***************************************************************************)
(* Instances of QuotaStore for TLC: JWT requests j1 and j2, requests a1    *)
(* and a2 of the virtual key ka, of which three are made: both of the key, *)
(* or both with a JWT.  The tenant has a plan or none, which differ in the *)
(* lock that orders all owners; midnight passes for one with a plan.       *)
(***************************************************************************)
EXTENDS QuotaStore

CONSTANTS j1, j2, a1, a2, ka

OwnerByRequest ==
  [q \in Requests |-> IF q \in {j1, j2} THEN Jwt ELSE ka]

UnitCost == [q \in Requests |-> 1]
MixedCost == [q \in Requests |-> IF q = j2 THEN 2 ELSE 1]
LimitOne == [o \in Owners |-> 1]
LimitTwo == [o \in Owners |-> 2]

-----------------------------------------------------------------------------
(* Init, with a request that was refused before.                           *)
Starts(absent) ==
  /\ phase = [q \in Requests |-> IF q = absent THEN "denied" ELSE "new"]
  /\ seen = [q \in Requests |-> 0]
  /\ today = Zero /\ month = Zero /\ events = Zero /\ pending = Zero
  /\ expired = {} /\ listed = {} /\ revoked = {}
  /\ days = 0
  /\ excess = Zero /\ skew = Zero

Quota ==
  /\ managed \in BOOLEAN
  /\ \E absent \in IF managed THEN {j2} ELSE {j2, a2} : Starts(absent)
  /\ [][Next /\ (managed \/ ~NewDay)]_vars
  /\ \A q \in Requests : WF_vars(ReserveStep(q))

=============================================================================
