------------------------------ MODULE McpPolicy ------------------------------
(***************************************************************************)
(* The policy of an MCP call: resolved_policy                              *)
(* (stores/store-postgres/src/v03.rs) folds the policies bound to the      *)
(* scopes of a principal with McpPolicy::restrict_with                     *)
(* (crates/gateway-mcp/src/policy.rs) and adjusts the result to the plan   *)
(* of the tenant; invoke (crates/gateway-mcp/src/invocation.rs) decides    *)
(* with it whether a tool may run, at once or after approval.              *)
(*                                                                         *)
(* The lists of servers behave like those of tools and are left out, and   *)
(* of the seven limits there is one.  An argument restriction names one    *)
(* JSON pointer, which every call has a value at.                          *)
(***************************************************************************)
EXTENDS Allowlists, Sequences, FiniteSets

CONSTANTS
  Tools,
  RiskOf,    \* what classify_tool makes of each tool
  Values,    \* of the restricted argument
  Limits,    \* values of the limit
  Policies,  \* the rows there may be
  Plans,     \* rows of tenant_plan_profiles; None: there is none
  MaxRows    \* bound of the model

Actions == {"allow", "warn", "redact", "require_approval", "block"}
Risks   == {"read_only", "mutating", "unknown", "destructive", "privileged"}

Policy ==
  [allowed : SUBSET Tools, denied : SUBSET Tools,
   actions : [Tools -> Actions \union {None}],
   risks : [Tools -> Risks \union {None}],
   arguments : [Tools -> (SUBSET Values) \union {None}],
   limit : Limits \union {None},
   mutating : Actions \union {None}]

McpPolicyAssumption ==
  /\ None \notin Actions \union Risks
  /\ Policies \subseteq Policy

VARIABLES
  rest, policy, applied,  \* as in ModelPolicy
  plan,
  phase   \* "fold", then "resolved"

vars == <<rest, policy, applied, plan, phase>>

Everywhere(x) == [t \in Tools |-> x]

Default ==
  [allowed |-> {}, denied |-> {}, actions |-> Everywhere(None),
   risks |-> Everywhere(None), arguments |-> Everywhere(None),
   limit |-> None, mutating |-> None]

Init ==
  /\ rest \in UNION {[1 .. n -> Policies] : n \in 0 .. MaxRows}
  /\ policy = Default /\ applied = {}
  /\ plan \in Plans
  /\ phase = "fold"

-----------------------------------------------------------------------------
ActionPriority == <<"allow", "warn", "redact", "require_approval", "block">>
RiskPriority   ==
  <<"read_only", "mutating", "unknown", "destructive", "privileged">>

Rank(order, x) == CHOOSE i \in DOMAIN order : order[i] = x

(* The entry of higher priority; there may be none on either side.         *)
Stricter(order, x, y) ==
  IF x = None THEN y
  ELSE IF y = None THEN x
  ELSE IF Rank(order, y) > Rank(order, x) THEN y ELSE x

Merge(order, f, g) == [t \in Tools |-> Stricter(order, f[t], g[t])]

RestrictWith(p, c) ==
  [allowed   |-> Intersect(p.allowed, c.allowed),
   denied    |-> p.denied \union c.denied,
   actions   |-> Merge(ActionPriority, p.actions, c.actions),
   risks     |-> Merge(RiskPriority, p.risks, c.risks),
   \* the map of a tool's pointers is extended: the child's entry stays
   arguments |-> [t \in Tools |->
     IF c.arguments[t] = None THEN p.arguments[t] ELSE c.arguments[t]],
   limit     |-> Lower(p.limit, c.limit),
   mutating  |-> Stricter(ActionPriority, p.mutating, c.mutating)]

Apply ==
  /\ rest # << >>
  /\ policy' = RestrictWith(policy, Head(rest))
  /\ applied' = applied \union {Head(rest)}
  /\ rest' = Tail(rest)
  /\ UNCHANGED <<plan, phase>>

BlockInstead(a) == IF a = "require_approval" THEN "block" ELSE a

(* Plans without human approval.                                           *)
Adjust(p) ==
  [p EXCEPT !.actions = [t \in Tools |-> BlockInstead(p.actions[t])],
            !.mutating = IF p.mutating = None THEN "block"
                         ELSE BlockInstead(p.mutating)]

Resolve ==
  /\ phase = "fold" /\ rest = << >>
  /\ policy' = IF plan \in {"pro", None} THEN policy ELSE Adjust(policy)
  /\ phase' = "resolved"
  /\ UNCHANGED <<rest, applied, plan>>

Next == Apply \/ Resolve

Spec == Init /\ [][Next]_vars

-----------------------------------------------------------------------------
Authorize(p, tool, value) ==
  /\ Admits(p.allowed, p.denied, tool)
  /\ p.arguments[tool] # None => value \in p.arguments[tool]

Risk(tool) == IF policy.risks[tool] # None THEN policy.risks[tool]
              ELSE RiskOf[tool]

(* Mutant: an unknown risk is taken for a mutating one.                    *)
ActionUnknownIsMutating(tool) ==
  IF policy.actions[tool] # None THEN policy.actions[tool]
  ELSE CASE Risk(tool) = "read_only" -> "allow"
         [] Risk(tool) \in {"mutating", "unknown"} ->
              IF policy.mutating # None THEN policy.mutating
              ELSE "require_approval"
         [] OTHER -> "require_approval"

Action(tool) ==
  IF policy.actions[tool] # None THEN policy.actions[tool]
  ELSE CASE Risk(tool) = "read_only" -> "allow"
         [] Risk(tool) = "mutating"  ->
              IF policy.mutating # None THEN policy.mutating
              ELSE "require_approval"
         [] OTHER -> "require_approval"

(* What invoke does with the call, inspection aside.                       *)
Verdict(tool, value) ==
  IF ~Authorize(policy, tool, value) THEN "denied"
  ELSE IF Action(tool) = "require_approval" THEN "approval"
  ELSE "run"

-----------------------------------------------------------------------------
(* action: whatever the scopes say of mutating tools and whatever the plan *)
(* is, a tool that is destructive, privileged or of unknown risk, and that *)
(* no scope names, does not run without approval.                          *)
SensitiveToolsNeedApproval ==
  \A t \in Tools, v \in Values :
    /\ RiskOf[t] \in {"unknown", "destructive", "privileged"}
    /\ \A p \in applied : p.actions[t] = None /\ p.risks[t] = None
    => Verdict(t, v) # "run"

=============================================================================
