------------------------------ MODULE Admission ------------------------------
(***************************************************************************)
(* What admits a request: who sends it (Admittance), the policy of an      *)
(* inference request (ModelPolicy), the policy of an MCP call (McpPolicy), *)
(* the inspection of what either carries (SecurityInspection), and the     *)
(* counters in Redis that both pass (QuotaCounters).  They read no table   *)
(* and no key of each other.                                               *)
(***************************************************************************)
EXTENDS ModelPolicy

-----------------------------------------------------------------------------
(* MCP policies.                                                           *)

CONSTANTS Tools, RiskOf, Values, Limits, ToolPolicies, Plans, ToolRowsAtMost

VARIABLES toolRest, toolPolicy, toolApplied, plan, toolPhase

toolVars == <<toolRest, toolPolicy, toolApplied, plan, toolPhase>>

Mcp == INSTANCE McpPolicy WITH
  Policies <- ToolPolicies, MaxRows <- ToolRowsAtMost, rest <- toolRest,
  policy <- toolPolicy, applied <- toolApplied, phase <- toolPhase

ASSUME ToolAssumption == Mcp!McpPolicyAssumption

-----------------------------------------------------------------------------
(* Counters.                                                               *)

CONSTANTS
  Calls, Counters, Windows, Uses, Limit, WindowLength, WindowTtl, SlotTtl,
  Deadline, Punctual

VARIABLES now, value, ttl, phase, age, granted, counted, lost

counterVars == <<now, value, ttl, phase, age, granted, counted, lost>>

Redis == INSTANCE QuotaCounters WITH Length <- WindowLength

ASSUME CounterAssumption == Redis!CountersAssumption

-----------------------------------------------------------------------------
(* Inspection.                                                             *)

CONSTANTS
  Kinds, Recommended, Findings, SecurityPolicies, Tiers, Requests,
  SecurityRowsAtMost, MaxEdits, TextLength, Leaf

VARIABLES bound, tier, edits, request, streamed, guarded, stage, unfolded,
          folded, rules, decision, passed, stored, events, incidents

inspectionVars == <<bound, tier, edits, request, streamed, guarded, stage, unfolded,
                    folded, rules, decision, passed, stored, events, incidents>>

Security == INSTANCE SecurityInspection WITH
  Policies <- SecurityPolicies, MaxRows <- SecurityRowsAtMost,
  Length <- TextLength, pc <- stage, rest <- unfolded, applied <- folded,
  policy <- rules

ASSUME SecurityAssumption == Security!InspectionAssumption

-----------------------------------------------------------------------------
(* Authentication.                                                         *)

CONSTANTS Kids, Tenants, Projects, OwnerOf, AdminRole, TokenRoles, Callers, CacheTtl

VARIABLES issuer, withdrawn, cache, open, key, tenants, caller

callerVars == <<issuer, withdrawn, cache, open, key, tenants, caller>>

Front == INSTANCE Admittance WITH
  Requests <- Callers, Ttl <- CacheTtl, request <- caller

ASSUME FrontAssumption == Front!AdmittanceAssumption

-----------------------------------------------------------------------------
(* The properties of the parts.                                            *)
SensitiveToolsNeedApproval == Mcp!SensitiveToolsNeedApproval
LimitsHold == Redis!LimitsHold
LostSlotsComeBack == Redis!LostSlotsComeBack
EveryScopeIsHeeded == Security!EveryScopeIsHeeded
PassedIsInspected == Security!PassedIsInspected
ChildCannotWeaken == Security!ChildCannotWeaken
RotatedKeyIsForgotten == Front!RotatedKeyIsForgotten
ScopeIsBound == Front!ScopeIsBound
NewKeyIsLearnt == Front!NewKeyIsLearnt

=============================================================================
