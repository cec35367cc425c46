------------------------------ MODULE McpGateway ------------------------------
(***************************************************************************)
(* What the gateway keeps of MCP servers: the registry with its sessions   *)
(* and tools (McpRegistry), the pipe to a child process below it           *)
(* (StdioTransport), and the handlers above it that create and change      *)
(* servers and the other resources of a plan (PlanResources).  The         *)
(* transport knows nothing of the registry, and the handlers see it as a   *)
(* row.                                                                    *)
(***************************************************************************)
EXTENDS McpRegistry, Sequences

CONSTANTS StdioCalls, NoCall, MaxLines

VARIABLES child, holder, nextId, asked, lines, pc, id, answer

stdioVars == <<child, holder, nextId, asked, lines, pc, id, answer>>

Stdio == INSTANCE StdioTransport WITH Calls <- StdioCalls

ASSUME StdioAssumption == Stdio!TransportAssumption

-----------------------------------------------------------------------------
CONSTANTS Resources, Requests, Limit, None

VARIABLES kind, resource, secrets, suspended, request, wanted, crowd, beyond, late, muddled, clean

planVars == <<kind, resource, secrets, suspended, request, wanted, crowd, beyond, late, muddled, clean>>

Plan == INSTANCE PlanResources WITH rows <- resource, asked <- wanted

ASSUME PlanAssumption == Plan!ResourcesAssumption

-----------------------------------------------------------------------------
(* The properties of the parts.                                            *)
AnswersMatch == Stdio!AnswersMatch
PlanCapacityHolds == Plan!PlanCapacityHolds
ChangesAreKept == Plan!ChangesAreKept

=============================================================================
