---------------------------- MODULE ModelPolicy ------------------------------
(***************************************************************************)
(* The policy of an inference request: PolicyResolver::resolve             *)
(* (stores/store-postgres/src/v03.rs) folds the policies of the scopes of  *)
(* a principal, from global to Virtual Key, into one with restrict_with    *)
(* (crates/gateway-policy/src/lib.rs), and authorize decides with it.      *)
(* Rows come from two tables, policies and then admin_resources; several   *)
(* rows of one scope are possible.  A state is a step of the loop.         *)
(***************************************************************************)
EXTENDS Allowlists, Sequences

CONSTANTS
  Models, Operations,
  Amounts,   \* output tokens a request may ask for
  Policies,  \* the rows there may be
  MaxRows    \* bound of the model

Policy ==
  [allowed : SUBSET Models, denied : SUBSET Models,
   operations : SUBSET Operations, tokens : Amounts \union {None}]

ASSUME ModelPolicyAssumption ==
  /\ Amounts \subseteq Nat
  /\ Policies \subseteq Policy

VARIABLES
  rest,     \* rows still to be folded
  policy,   \* what the rows so far amount to
  applied   \* the rows so far

vars == <<rest, policy, applied>>

Default == [allowed |-> {}, denied |-> {}, operations |-> {}, tokens |-> None]

Init ==
  /\ rest \in UNION {[1 .. n -> Policies] : n \in 0 .. MaxRows}
  /\ policy = Default
  /\ applied = {}

RestrictWith(p, c) ==
  [allowed    |-> Intersect(p.allowed, c.allowed),
   denied     |-> p.denied \union c.denied,
   operations |-> Intersect(p.operations, c.operations),
   tokens     |-> Lower(p.tokens, c.tokens)]

Apply ==
  /\ rest # << >>
  /\ policy' = RestrictWith(policy, Head(rest))
  /\ applied' = applied \union {Head(rest)}
  /\ rest' = Tail(rest)

Next == Apply

Spec == Init /\ [][Next]_vars

-----------------------------------------------------------------------------
Authorize(p, model, operation, tokens) ==
  /\ Admits(p.allowed, p.denied, model)
  /\ Admits(p.operations, {}, operation)
  /\ Within(tokens, p.tokens)

(* Lists of the rows so far contradict each other.                         *)
Consistent ==
  /\ Compatible({p.allowed : p \in applied} \union {Models})
  /\ Compatible({p.operations : p \in applied} \union {Operations})

(* Every variable has its type.                                            *)
TypeOK ==
  /\ policy \in Policy
  /\ rest \in Seq(Policies) /\ applied \subseteq Policies

(* restrict_with: as long as the allowlists of the scopes have an entry in *)
(* common, a request is authorized exactly if every scope, taken alone,    *)
(* authorizes it, whatever the order of the scopes and however many rows a *)
(* scope has.                                                              *)
EveryScopeDecides ==
  Consistent =>
    \A m \in Models, o \in Operations, t \in Amounts :
      Authorize(policy, m, o, t) <=> \A p \in applied : Authorize(p, m, o, t)

(* What a scope denies by name, or limits, stays so, whatever the scopes   *)
(* after it say.                                                           *)
DenialsAndLimitsStay ==
  \A p \in applied, m \in Models, o \in Operations, t \in Amounts :
    m \in p.denied \/ ~Within(t, p.tokens) => ~Authorize(policy, m, o, t)

-----------------------------------------------------------------------------
(* What the tests and the documentation say and the code does not do.      *)

(* gateway-policy/src/lib.rs:126, child_policy_only_restricts_parent: a    *)
(* scope authorizes nothing that the scopes above it refuse.               *)
ChildOnlyRestrictsParent ==
  [][\A m \in Models, o \in Operations, t \in Amounts :
       Authorize(policy', m, o, t) => Authorize(policy, m, o, t)]_vars

=============================================================================
