-------------------------- MODULE SecurityInspection --------------------------
(***************************************************************************)
(* The inspection of one request: SecurityEnforcer::assess and inspect     *)
(* (crates/gateway-security/src/service.rs) with the resolution of the     *)
(* policy (stores/store-postgres/src/security_store.rs), as the inference  *)
(* pipeline (inspect_messages and the like in crates/gateway-core) and MCP *)
(* invocation call it.                                                     *)
(*                                                                         *)
(* A request is a sequence of parts: the instructions, tools and messages  *)
(* on their way to the model and the output on its way back, or the        *)
(* arguments of a tool and its result.  Each part is inspected on its own, *)
(* under the policy that the database has at that moment; administrators   *)
(* and the plan of the tenant may change it in between.  What inspectors   *)
(* find is a choice; a finding is a kind (category and severity) and the   *)
(* spans of its evidence.                                                  *)
(***************************************************************************)
EXTENDS Redaction, FiniteSets

CONSTANTS
  Kinds,
  Recommended,  \* the action that inspectors recommend for each kind
  Findings,     \* sets of findings that the inspectors may return
  Policies,     \* the rules an administrator may store
  Tiers,        \* of tenant_plan_profiles; None: there is no profile
  Requests,     \* sequences of parts
  None,
  MaxRows, MaxEdits    \* bounds of the model

Actions == <<"allow", "warn", "redact", "require_approval", "block">>
Priority(a) == CHOOSE i \in DOMAIN Actions : Actions[i] = a

Stages == {"llm_input", "llm_output", "mcp_arguments", "mcp_result"}

Policy ==
  [enabled : BOOLEAN, fail_open : BOOLEAN, stages : SUBSET Stages,
   create_incidents : BOOLEAN, maximum_content_bytes : Nat,
   actions : [Kinds -> Range(Actions) \union {None}]]

InspectionAssumption ==
  /\ None \notin Range(Actions) \union {"free", "core", "pro"}
  /\ Recommended \in [Kinds -> Range(Actions)]
  /\ \A found \in Findings : \A f \in found : f.kind \in Kinds
  /\ Policies \subseteq Policy

VARIABLES
  bound,      \* rules of the policies bound to scopes of the principal
  tier, edits,
  \* the request
  request,
  streamed,   \* is the output of the model streamed?
  guarded,    \* did output_security find that it is to be inspected?
  pc,
  rest,       \* policies that resolve_security_hierarchy has still to fold
  applied,    \* and those it has folded
  policy,
  decision,
  passed,     \* what has been handed on, part by part
  \* PostgreSQL
  stored,     \* findings
  events,     \* security events
  incidents   \* parts of the request that have an incident

config == <<bound, tier, edits>>
rows   == <<stored, events, incidents>>
given  == <<request, streamed>>
vars   == <<config, given, guarded, pc, rest, applied, policy, decision, passed, rows>>

Default ==
  [enabled |-> TRUE, fail_open |-> FALSE, stages |-> Stages \ {"llm_output"},
   create_incidents |-> TRUE, maximum_content_bytes |-> Length,
   actions |-> [k \in Kinds |-> None]]

NoDecision == [action |-> "allow", findings |-> {}, failed |-> FALSE]

Init ==
  /\ bound \in UNION {[1 .. n -> Policies] : n \in 0 .. MaxRows}
  /\ tier \in Tiers /\ edits = 0
  /\ request \in Requests /\ guarded = FALSE
  /\ streamed \in (IF "llm_output" \in Range(request) THEN BOOLEAN ELSE {FALSE})
  /\ pc = "policies"
  /\ rest = << >> /\ applied = {} /\ policy = Default
  /\ decision = NoDecision
  /\ passed = << >>
  /\ stored = {} /\ events = {} /\ incidents = {}

Index == Len(passed) + 1
Part  == request[Index]

-----------------------------------------------------------------------------
(* resolved_security_policy.                                               *)

(* Mutant: the child's entry replaces that of the parent.                  *)
ChildEntry(x, y) == IF y = None THEN x ELSE y

(* An entry the parent lacks counts as "allow".                            *)
StricterEntry(x, y) ==
  IF y = None THEN x
  ELSE IF x = None \/ Priority(y) > Priority(x) THEN y ELSE x

RestrictWith(p, c) ==
  [enabled   |-> p.enabled \/ c.enabled,
   fail_open |-> p.fail_open /\ c.fail_open,
   stages    |-> p.stages \union c.stages,
   create_incidents |-> p.create_incidents \/ c.create_incidents,
   maximum_content_bytes |->
     IF c.maximum_content_bytes < p.maximum_content_bytes
     THEN c.maximum_content_bytes ELSE p.maximum_content_bytes,
   actions |-> [k \in Kinds |-> StricterEntry(p.actions[k], c.actions[k])]]

ReadPolicies ==
  /\ pc = "policies"
  /\ rest' = bound /\ applied' = {} /\ policy' = Default
  /\ pc' = "fold"
  /\ UNCHANGED <<config, given, guarded, decision, passed, rows>>

(* resolve_security_hierarchy starts with the first policy, not with the   *)
(* default, which is for principals without one.                           *)
Fold ==
  /\ pc = "fold" /\ rest # << >>
  /\ policy' = IF applied = {} THEN Head(rest) ELSE RestrictWith(policy, Head(rest))
  /\ applied' = applied \union {Head(rest)}
  /\ rest' = Tail(rest)
  /\ UNCHANGED <<config, given, guarded, pc, decision, passed, rows>>

BlockInstead(a) == IF a = "require_approval" THEN "block" ELSE a
FixedWarnActions == [k \in Kinds |-> "warn"]

(* apply_managed_plan_security.                                            *)
ApplyPlan(p, t) ==
  CASE t \in {"pro", None} -> p
    [] t = "core" ->
         [p EXCEPT !.enabled = TRUE,
                   !.stages = (@ \union {"llm_input", "mcp_arguments"})
                                \ {"llm_output", "mcp_result"},
                   !.create_incidents = FALSE,
                   !.actions = [k \in Kinds |-> BlockInstead(p.actions[k])]]
    [] OTHER ->
         [p EXCEPT !.enabled = TRUE, !.fail_open = TRUE, !.stages = {"llm_input"},
                   !.create_incidents = FALSE,
                   !.actions = FixedWarnActions]

(* The part goes on.                                                       *)
HandOn(text, p, d) ==
  /\ passed' = Append(passed, [text |-> text, policy |-> p, decision |-> d])
  /\ pc' = IF Index = Len(request) THEN "done" ELSE "policies"

(* output_security: before a stream is opened, the policy of that moment   *)
(* says whether its output will be held back and inspected at the end.     *)
Probing == streamed /\ Part = "llm_output" /\ ~guarded

(* assess goes no further if the stage is not to be inspected.             *)
ReadTier ==
  /\ pc = "fold" /\ rest = << >>
  /\ LET p == ApplyPlan(policy, tier)
     IN /\ policy' = p
        /\ IF Part \notin p.stages THEN HandOn(Text, p, NoDecision) /\ UNCHANGED guarded
           ELSE /\ pc' = IF Probing THEN "policies" ELSE "inspect"
                /\ guarded' = (guarded \/ Probing)
                /\ UNCHANGED passed
  /\ UNCHANGED <<config, given, rest, applied, decision, rows>>

-----------------------------------------------------------------------------
Action(p, k) == IF p.actions[k] = None THEN Recommended[k] ELSE p.actions[k]

Highest(as) == CHOOSE a \in as : \A b \in as : Priority(b) <= Priority(a)

Decide(p, found, failed) ==
  [action |-> IF failed THEN IF p.fail_open THEN "warn" ELSE "block"
              ELSE Highest({"allow"} \union {Action(p, f.kind) : f \in found}),
   findings |-> found, failed |-> failed]

(* SecurityPipeline::inspect: the findings of the inspectors that did not  *)
(* fail.  A text that is too long is not looked at, and counts as failed.  *)
Inspect(found, failed) ==
  /\ pc = "inspect"
  /\ decision' = IF ~policy.enabled THEN NoDecision
                 ELSE IF Length > policy.maximum_content_bytes THEN Decide(policy, {}, TRUE)
                 ELSE Decide(policy, found, failed)
  /\ pc' = "findings"
  /\ UNCHANGED <<config, given, guarded, rest, applied, policy, passed, rows>>

(* insert_findings, one transaction.                                       *)
InsertFindings ==
  /\ pc = "findings"
  /\ stored' = stored \union ({Index} \X decision.findings)
  /\ pc' = "event"
  /\ UNCHANGED <<config, given, guarded, rest, applied, policy, decision, passed,
                 events, incidents>>

(* insert_security_event; its key is the request, the stage and the action *)
InsertEvent ==
  /\ pc = "event"
  /\ events' = events \union {<<Index, decision.action>>}
  /\ pc' = "incident"
  /\ UNCHANGED <<config, given, guarded, rest, applied, policy, decision, passed,
                 stored, incidents>>

Severe(d) == d.action \in {"block", "require_approval"}

(* IncidentService::create, for the worst of the findings, if there is any *)
CreateIncident ==
  /\ pc = "incident"
  /\ incidents' = IF policy.create_incidents /\ Severe(decision) /\ decision.findings # {}
                  THEN incidents \union {Index} ELSE incidents
  /\ pc' = "act"
  /\ UNCHANGED <<config, given, guarded, rest, applied, policy, decision, passed,
                 stored, events>>

(* A statement fails, before or after it took effect: whoever asked for    *)
(* the inspection gives the request up, whatever fail_open says.           *)
StoreFails ==
  /\ pc \in {"policies", "fold", "findings", "event", "incident"}
  /\ pc' = "failed"
  /\ UNCHANGED <<config, given, guarded, rest, applied, policy, decision, passed, rows>>

-----------------------------------------------------------------------------
Spans == UNION {f.spans : f \in decision.findings}

(* Mutant: only what is to be redacted by itself.                          *)
RedactedByAction ==
  LET spans == UNION {f.spans : f \in {g \in decision.findings :
                                        Action(policy, g.kind) = "redact"}}
  IN IF Part \in {"mcp_arguments", "mcp_result"} THEN RedactJson(spans)
     ELSE {RedactText(spans)}

(* redact, for the evidence of all findings whatever their action was.     *)
Redacted == IF Part \in {"mcp_arguments", "mcp_result"} THEN RedactJson(Spans)
            ELSE {RedactText(Spans)}

Refused ==
  \/ decision.action = "block"
  \/ decision.action = "require_approval" /\ Part # "mcp_arguments"

Refuse ==
  /\ pc = "act" /\ Refused
  /\ pc' = "refused"
  /\ UNCHANGED <<config, given, guarded, rest, applied, policy, decision, passed, rows>>

(* Arguments that require approval wait for it (ApprovalExecution); then   *)
(* they go on as they are.                                                 *)
AskApproval ==
  /\ pc = "act" /\ ~Refused /\ decision.action = "require_approval"
  /\ pc' = "approval"
  /\ UNCHANGED <<config, given, guarded, rest, applied, policy, decision, passed, rows>>

Approved ==
  /\ pc = "approval"
  /\ HandOn(Text, policy, decision)
  /\ UNCHANGED <<config, given, guarded, rest, applied, policy, decision, rows>>

Pass ==
  /\ pc = "act" /\ ~Refused /\ decision.action # "require_approval"
  /\ \E text \in (IF decision.action = "redact" THEN Redacted ELSE {Text}) :
       HandOn(text, policy, decision)
  /\ UNCHANGED <<config, given, guarded, rest, applied, policy, decision, rows>>

(* A redacted tool, format or result that has no longer its type.          *)
NotParsed ==
  /\ pc = "act" /\ decision.action = "redact"
  /\ pc' = "failed"
  /\ UNCHANGED <<config, given, guarded, rest, applied, policy, decision, passed, rows>>

-----------------------------------------------------------------------------
(* Administrators (crates/gateway-server/src/v03.rs) and the plan.         *)

Approves(p) == \E k \in Kinds : p.actions[k] = "require_approval"

Required(p) ==
  {"custom_security_policy"}
    \union (IF "llm_output" \in p.stages \/ p.create_incidents
            THEN {"output_inspection"} ELSE {})
    \union (IF "mcp_result" \in p.stages THEN {"mcp_result_inspection"} ELSE {})
    \union (IF Approves(p) THEN {"human_approval"} ELSE {})

(* A tenant without a profile has all features.                            *)
FeatureEnabled(f) ==
  \/ tier \in {"pro", None}
  \/ tier = "core" /\ f = "custom_security_policy"

(* require_plan_feature, for one after the other.                          *)
Entitled(p) == \A f \in Required(p) : FeatureEnabled(f)

Edit == edits < MaxEdits /\ edits' = edits + 1

(* insert_security_policy: the scope gives it its place among the others.  *)
CreatePolicy(p) ==
  /\ Edit /\ Entitled(p)
  /\ \E i \in 1 .. Len(bound) + 1 : bound' = InsertAt(bound, i, p)
  /\ UNCHANGED <<tier, given, guarded, pc, rest, applied, policy, decision, passed, rows>>

(* update_security_policy, rules and binding in one transaction.           *)
UpdatePolicy(i, p) ==
  /\ Edit /\ Entitled(p)
  /\ bound' = ReplaceAt(bound, i, p)
  /\ UNCHANGED <<tier, given, guarded, pc, rest, applied, policy, decision, passed, rows>>

DeletePolicy(i) ==
  /\ Edit
  /\ bound' = RemoveAt(bound, i)
  /\ UNCHANGED <<tier, given, guarded, pc, rest, applied, policy, decision, passed, rows>>

(* The billing adapter writes the profile, or valid_until passes.          *)
ChangePlan(t) ==
  /\ Edit /\ t # tier /\ None \notin {t, tier}
  /\ tier' = t
  /\ UNCHANGED <<bound, given, guarded, pc, rest, applied, policy, decision, passed, rows>>

Administer ==
  \/ \E p \in Policies : CreatePolicy(p)
  \/ \E i \in DOMAIN bound, p \in Policies : UpdatePolicy(i, p)
  \/ \E i \in DOMAIN bound : DeletePolicy(i)
  \/ \E t \in Tiers : ChangePlan(t)

-----------------------------------------------------------------------------
Resolve == ReadPolicies \/ Fold \/ ReadTier

Assess ==
  \/ \E found \in Findings, failed \in BOOLEAN : Inspect(found, failed)
  \/ InsertFindings \/ InsertEvent \/ CreateIncident

Answer == Refuse \/ AskApproval \/ Approved \/ Pass \/ NotParsed

Next == Resolve \/ Assess \/ Answer \/ StoreFails \/ Administer

Spec == Init /\ [][Next]_vars

-----------------------------------------------------------------------------
(* restrict_with: a finding of a kind that a scope names, or that no scope *)
(* names, is dealt with at least as severely as that scope alone would     *)
(* have it; and so are inspectors that fail.                               *)
Names(p, f) == p.actions[f.kind] # None \/ \A r \in applied : r.actions[f.kind] = None

EveryScopeIsHeeded ==
  pc = "fold" =>
    \A p \in applied :
      /\ p.stages \subseteq policy.stages
      /\ p.enabled => policy.enabled
      /\ \A found \in Findings, failed \in BOOLEAN :
           (\A f \in found : Names(p, f)) =>
             Priority(Decide(policy, found, failed).action)
               >= Priority(Decide(p, found, failed).action)

(* assess and inspect: what is handed on of an inspected part has its      *)
(* findings stored, nothing in it was to be blocked, and of what was to be *)
(* redacted nothing is left, however policies, plans and stores behave     *)
(* while the request is under way.  (Approved arguments go on unredacted,  *)
(* and a number in JSON is not redacted: see README.md.)                   *)
Visible(i, n) == request[i] \in {"llm_input", "llm_output"} \/ Leaf[n] # 0

PassedIsInspected ==
  \A i \in DOMAIN passed :
    LET p == passed[i].policy
        d == passed[i].decision
    IN /\ {i} \X d.findings \subseteq stored
       /\ d.failed => p.fail_open
       /\ ~d.failed => \A f \in d.findings :
            /\ Action(p, f.kind) # "block"
            /\ Action(p, f.kind) = "require_approval" => request[i] = "mcp_arguments"
            /\ d.action = "redact" =>
                 \A s \in f.spans, n \in 1 .. Length :
                   Covers(s, n) /\ Visible(i, n) => n \notin Range(passed[i].text)

(* What it needs of the redaction: of the evidence, nothing is left in a   *)
(* text, and nothing that JSON has in a string is left in JSON.            *)
Evidence(found) == UNION {f.spans : f \in found}

HidesAll(spans) ==
  \A s \in spans, n \in 1 .. Length : Covers(s, n) =>
    /\ n \notin Range(RedactText(spans))
    /\ Leaf[n] # 0 => \A text \in RedactJson(spans) : n \notin Range(text)

RedactionHides == \A found \in Findings : HidesAll(Evidence(found))

(* docs/v03-security-gateway.md:35, "A child policy can tighten but cannot *)
(* weaken a parent.": the whole hierarchy treats no finding more leniently *)
(* than one of its policies alone.                                         *)
ChildCannotWeaken ==
  pc = "fold" => \A p \in applied, k \in Kinds :
    Priority(Action(policy, k)) >= Priority(Action(p, k))

=============================================================================
