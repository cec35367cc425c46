---------------------------- MODULE MCMcpRegistry ----------------------------
(***************************************************************************)
(* Instances for TLC of the MCP registry, of the stdio transport below it  *)
(* and of the handlers above it.  "sessions": tool calls while the server  *)
(* is updated or deleted.  "tools": refreshes of the tool list while tools *)
(* are annotated and the server is deleted.  "stdio": requests to a child  *)
(* process.  "plan": servers, patterns or keys under a plan's limit.  Tool *)
(* calls leave the tool list alone, annotations leave sessions alone, the  *)
(* transport knows nothing of either, and the handlers see the registry as *)
(* a row, so a behaviour runs one of the four.                             *)
(***************************************************************************)
EXTENDS McpGateway

VARIABLE part

allVars == <<part, vars, stdioVars, planVars>>

Start ==
  /\ part \in {"sessions", "tools", "stdio", "plan"}
  /\ Init /\ Stdio!Init /\ Plan!Init
  /\ part # "plan" => kind = "keys" /\ Plan!Counted = {}

Invoke ==
  /\ part = "sessions"
  /\ \/ \E c \in Calls : FindServer(c, "invoke") \/ Proceed(c)
     \/ BeginChange("update") \/ BeginChange("delete") \/ Change
  /\ UNCHANGED <<part, stdioVars, planVars>>

Refresh ==
  /\ part = "tools"
  /\ \/ \E c \in Calls : FindServer(c, "refresh") \/ Proceed(c)
     \/ \E t \in Tools : Annotate(t)
     \/ BeginChange("delete") \/ Change \/ CacheExpires
  /\ UNCHANGED <<part, stdioVars, planVars>>

Request(c) == part = "stdio" /\ Stdio!Request(c) /\ UNCHANGED <<part, vars, planVars>>

Initialize == part = "stdio" /\ Stdio!Initialize /\ UNCHANGED <<part, vars, planVars>>

Child ==
  /\ part = "stdio"
  /\ \/ \E c \in StdioCalls : Stdio!Dropped(c)
     \/ \E q \in asked : Stdio!Answer(q) \/ Stdio!Garble(q)
     \/ Stdio!Notify \/ Stdio!Shutdown
  /\ UNCHANGED <<part, vars, planVars>>

Administer == part = "plan" /\ Plan!Next /\ UNCHANGED <<part, vars, stdioVars>>

Move == Initialize \/ Administer \/ Invoke \/ Refresh \/ (\E c \in StdioCalls : Request(c)) \/ Child

Registry ==
  /\ Start /\ [][Move]_allVars
  /\ WF_allVars(Initialize)
  /\ \A c \in StdioCalls : WF_allVars(Request(c))

(* RequestsEnd, where the transport runs.                                  *)
StdioRequestsEnd == part = "stdio" => Stdio!RequestsEnd

=============================================================================
