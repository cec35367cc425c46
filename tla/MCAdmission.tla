----------------------------- MODULE MCAdmission -----------------------------
(***************************************************************************)
(* Instances of Admission for TLC.  The parts share nothing, so a          *)
(* behaviour runs one of them and the others rest.                         *)
(***************************************************************************)
EXTENDS Admission, MCModelPolicy, FiniteSets, TLC

VARIABLE part    \* which of them runs

-----------------------------------------------------------------------------
(* MCP policies: write is a mutating tool, drop an unknown one.            *)

CONSTANTS write, drop, v1, v2

ToolRow(a, d, action, args, mutating) ==
  [allowed |-> a, denied |-> d,
   actions |-> (write :> action @@ drop :> None),
   risks |-> (write :> None @@ drop :> None),
   arguments |-> (write :> args @@ drop :> None),
   limit |-> None, mutating |-> mutating]

ToolRows ==
  {ToolRow(a, d, None, args, None) :
     a \in SUBSET {write, drop}, d \in {{}, {drop}}, args \in {None, {v1}, {v2}}}
    \union
  {ToolRow({}, {}, action, None, mutating) :
     action \in {None, "allow", "require_approval", "block"},
     mutating \in {None, "allow", "require_approval"}}
    \union
  {[ToolRow({}, {}, None, None, None) EXCEPT !.risks[drop] = r] :
     r \in {"read_only", "mutating"}}
    \union
  {[ToolRow({}, {}, None, None, None) EXCEPT !.limit = n] : n \in {1, 2}}

ToolRisks == (write :> "mutating" @@ drop :> "unknown")
PlanRows  == {"free", "pro", None}

-----------------------------------------------------------------------------
(* Counters: an MCP call lists the calls of its principal per minute, the  *)
(* slot of the server and the slot of the tool.  c1 and c2 call one tool   *)
(* of the server, c3, which may be late, another.  The policies of c1 and  *)
(* of the others differ in their limits for the principal and the server   *)
(* and in the time to live.                                                *)

CONSTANTS c1, c2, c3, rpm, server, tool, other

Lists == (c1 :> <<rpm, server, tool>> @@ c2 :> <<rpm, server, tool>> @@
          c3 :> <<rpm, server, other>>)

Limited(perMinute, ofServer) ==
  (rpm :> perMinute @@ server :> ofServer @@ tool :> 1 @@ other :> 1)

CounterLimits == (c1 :> Limited(3, 1) @@ c2 :> Limited(2, 2) @@ c3 :> Limited(2, 2))
SlotTtls  == (c1 :> 3 @@ c2 :> 2 @@ c3 :> 2)
Deadlines == (c1 :> 2 @@ c2 :> 1 @@ c3 :> 1)

-----------------------------------------------------------------------------
(* Inspection: texts of four positions, of which JSON has the first two in *)
(* one string, the third in another and the fourth in a number.            *)

Inputs == {"llm_input", "mcp_arguments"}
Every  == Inputs \union {"llm_output", "mcp_result"}

Acts(secret, mail) == ("secret" :> secret @@ "mail" :> mail)

Rules(on, failOpen, stages, create, bytes, actions) ==
  [enabled |-> on, fail_open |-> failOpen, stages |-> stages,
   create_incidents |-> create, maximum_content_bytes |-> bytes, actions |-> actions]

SecurityRules ==
  {Rules(TRUE, TRUE, Inputs, FALSE, 4, Acts("require_approval", None)),
   Rules(TRUE, FALSE, Every, TRUE, 4, Acts("redact", "warn")),
   Rules(FALSE, FALSE, Inputs, TRUE, 3, Acts(None, "block"))}

Finding(kind, spans) == [kind |-> kind, spans |-> spans]

FoundSets ==
  {{}, {Finding("mail", {<<0, 2>>, <<3, 4>>})},
   {Finding("secret", {<<0, 2>>, <<1, 3>>}), Finding("mail", {<<3, 4>>})}}

BlockOrRedact == Acts("block", "redact")
TwoParts == {<<"llm_input", "llm_output">>, <<"mcp_arguments", "mcp_result">>}
Strings  == <<1, 1, 2, 0>>

\* PassedIsInspectedHolds (AdmissionProofs) has RedactionHides for a
\* hypothesis.
AllSpans == {s \in (0 .. TextLength) \X (0 .. TextLength) : s[1] < s[2]}

ASSUME RedactionIsComplete ==
  /\ Security!RedactionHides
  /\ \A spans \in SUBSET AllSpans :
       Cardinality(spans) <= 2 => Security!HidesAll(spans)

-----------------------------------------------------------------------------
(* Authentication.  "tokens": two requests whose tokens are checked with   *)
(* the cached signing keys while the issuer rotates them.  "scopes": one   *)
(* request with every credential, endpoint, header and door, while what it *)
(* depends on goes away.  Both projects are t's; u has none.               *)

CONSTANTS k1, p1, p2, t, u

ProjectsOfT == (p1 :> t @@ p2 :> t)
SomeRoles   == {{}, {"owner"}, {"engineer"}, {"viewer", AdminRole}}

Present(q) ==
  \/ /\ part = "tokens"
     /\ \E cred \in Front!Credentials :
          /\ cred.method = "jwt" /\ cred.roles = {} /\ cred.tenant = t
          /\ Front!Arrive(q, cred, None, None, "inference")
  \/ /\ part = "scopes" /\ q = "a"
     /\ \E cred \in Front!Credentials, endpoint, header \in {p1, p2, None},
           door \in Front!Doors : Front!Arrive(q, cred, endpoint, header, door)

Authenticate ==
  \/ \E q \in Callers : Present(q) \/ Front!Handle(q)
  \/ part = "tokens" /\ Front!Rotation
  \/ part = "scopes" /\ Front!Outside

-----------------------------------------------------------------------------
allVars == <<part, vars, toolVars, counterVars, inspectionVars, callerVars>>

Start ==
  /\ part \in {"models", "tools", "counters", "inspection", "tokens", "scopes"}
  /\ IF part = "models" THEN Init ELSE rest = << >> /\ policy = Default /\ applied = {}
  /\ IF part = "tools" THEN Mcp!Init
     ELSE /\ toolRest = << >> /\ toolPolicy = Mcp!Default /\ toolApplied = {}
          /\ plan = None /\ toolPhase = "fold"
  /\ Redis!Init /\ Front!Init
  /\ IF part = "inspection" THEN Security!Init
     ELSE /\ bound = << >> /\ tier = None /\ edits = 0
          /\ request = << >> /\ streamed = FALSE /\ guarded = FALSE
          /\ stage = "done" /\ unfolded = << >> /\ folded = {}
          /\ rules = Security!Default /\ decision = Security!NoDecision
          /\ passed = << >> /\ stored = {} /\ events = {} /\ incidents = {}

Move ==
  \/ /\ part = "models" /\ Next
     /\ UNCHANGED <<part, toolVars, counterVars, inspectionVars, callerVars>>
  \/ /\ part = "tools" /\ Mcp!Next
     /\ UNCHANGED <<part, vars, counterVars, inspectionVars, callerVars>>
  \/ /\ part = "counters" /\ Redis!Next
     /\ UNCHANGED <<part, vars, toolVars, inspectionVars, callerVars>>
  \/ /\ part = "inspection" /\ Security!Next
     /\ UNCHANGED <<part, vars, toolVars, counterVars, callerVars>>
  \/ /\ part \in {"tokens", "scopes"} /\ Authenticate
     /\ UNCHANGED <<part, vars, toolVars, counterVars, inspectionVars>>

AdmissionSpec ==
  Start /\ [][Move]_allVars /\ (part = "counters" => Redis!Fairness)

=============================================================================
