----------------------------- MODULE Allowlists ------------------------------
(***************************************************************************)
(* The lists and limits that gateway-policy (crates/gateway-policy) and    *)
(* the MCP policies (crates/gateway-mcp/src/policy.rs) combine in the same *)
(* way.  An empty allowlist allows everything; a limit that is not there   *)
(* is None.                                                                *)
(***************************************************************************)
EXTENDS Integers

CONSTANT None

ASSUME NoneAssumption == None \notin Nat

(* Mutant: an empty list allows nothing.                                   *)
IntersectPlain(left, right) == left \intersect right

(* intersect_allowlists and intersect.                                     *)
Intersect(left, right) ==
  IF left = {} THEN right
  ELSE IF right = {} THEN left
  ELSE left \intersect right

(* Mutant: limits add up.                                                  *)
LowerIsSum(left, right) ==
  IF left = None THEN right ELSE IF right = None THEN left ELSE left + right

(* min_opt and minimum.                                                    *)
Lower(left, right) ==
  IF left = None THEN right
  ELSE IF right = None THEN left
  ELSE IF left <= right THEN left ELSE right

Within(amount, limit) == limit # None => amount <= limit

Admits(allowed, denied, item) ==
  item \notin denied /\ (allowed = {} \/ item \in allowed)

(* Do the lists, other than the empty ones, have an item in common?        *)
Compatible(lists) ==
  \E item \in UNION lists : \A list \in lists : list = {} \/ item \in list

=============================================================================
