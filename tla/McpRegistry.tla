----------------------------- MODULE McpRegistry -----------------------------
(***************************************************************************)
(* One MCP server as McpRegistry sees it (crates/gateway-mcp registry.rs,  *)
(* session.rs, cache.rs), with its row and tools in PostgreSQL (store-     *)
(* postgres v03.rs) and the transport to it (mcp-transport-http): calls    *)
(* that share a session, refreshes of the tool list, and an administrator  *)
(* who updates or deletes the server and annotates its tools.              *)
(*                                                                         *)
(* A server's configuration is its version; a session is opened with the   *)
(* configuration that the call has read, and never expires by itself.      *)
(***************************************************************************)
EXTENDS Naturals, FiniteSets

CONSTANTS
  Tools,
  Calls,
  MaxVersion,   \* bound: updates of the server
  MaxSessions   \* bound: sessions that are opened

VARIABLES
  \* PostgreSQL
  server,     \* mcp_servers: the version of the live row, or 0
  known,      \* mcp_tools: tools that have a row
  active,     \* those with active = true
  annotated,  \* those whose annotations are the administrator's
  \* the gateway process
  session,    \* SessionManager: the session of the server, or none
  cache,      \* ToolCache: the listings younger than the ttl, at most one
  call,
  change,     \* what the administrator's update or delete is doing
  \* the transports
  opened,     \* sessions that were opened
  closed,     \* sessions that were shut down
  \* for the properties: whether the session was opened across a change
  overlapped

rows     == <<server, known, active, annotated>>
process  == <<session, cache, call, change>>
remote   == <<opened, closed>>
vars == <<rows, process, remote, overlapped>>

NoSession == [id |-> 0, version |-> 0]
NoCache == {}
Idle == [stage |-> "idle"]

Init ==
  /\ server = 1 /\ known = {} /\ active = {} /\ annotated = {}
  /\ session = NoSession /\ cache = NoCache
  /\ call = [c \in Calls |-> Idle] /\ change = "none"
  /\ opened = 0 /\ closed = {}
  /\ overlapped = FALSE

At(c, stage) == call[c].stage = stage
Go(c, next) == call' = [call EXCEPT ![c] = next]

-----------------------------------------------------------------------------
(* Calls: invoke and refresh.                                              *)

(* server_for: ServerNotFound when there is no row.                        *)
FindServer(c, op) ==
  /\ At(c, "idle") /\ server # 0
  /\ Go(c, [stage |-> "session", op |-> op, version |-> server])
  /\ UNCHANGED <<rows, session, cache, change, remote, overlapped>>

(* session: sessions.get; a session has no expires_at.                     *)
ShareSession(c) ==
  /\ At(c, "session") /\ session # NoSession
  /\ Go(c, [stage |-> call[c].op, session |-> session.id])
  /\ UNCHANGED <<rows, session, cache, change, remote, overlapped>>

(* None: resolver.resolve and transport.initialize.                        *)
OpenSession(c) ==
  /\ At(c, "session") /\ session = NoSession /\ opened < MaxSessions
  /\ opened' = opened + 1
  /\ Go(c, [stage |-> "insert", op |-> call[c].op, version |-> call[c].version,
            session |-> opened'])
  /\ UNCHANGED <<rows, session, cache, change, closed, overlapped>>

(* sessions.insert: the last of two replaces the first.                    *)
InsertSession(c) ==
  /\ At(c, "insert")
  /\ session' = [id |-> call[c].session, version |-> call[c].version]
  /\ overlapped' = (change \in {"write", "erase"} \/ call[c].version # server)
  /\ Go(c, [stage |-> call[c].op, session |-> call[c].session])
  /\ UNCHANGED <<rows, cache, change, remote>>

(* transport.invoke_tool: an error once the session was shut down.  Either *)
(* way the session stays where it is.                                      *)
InvokeTool(c) ==
  /\ At(c, "invoke")
  /\ Go(c, Idle)
  /\ UNCHANGED <<rows, session, cache, change, remote, overlapped>>

(* transport.list_tools; the server may offer other tools at any time.     *)
ListTools(c, offered) ==
  /\ At(c, "refresh") /\ call[c].session \notin closed
  /\ Go(c, [stage |-> "listed", tools |-> offered])
  /\ UNCHANGED <<rows, session, cache, change, remote, overlapped>>

Replacing == {c \in Calls : At(c, "replace")}
ListedTo(set) == UNION {call[c].tools : c \in set}

(* Mutant: tools that are no longer listed stay active.                    *)
DeactivatedNone(c) == active

(* replace_tools: UPDATE mcp_tools SET active=false, which leaves alone    *)
(* rows that another transaction has not committed yet.                    *)
StartReplace(c) ==
  /\ At(c, "listed")
  /\ call' = [d \in Calls |->
       CASE d = c -> [stage |-> "replace", tools |-> call[c].tools, seen |-> known,
                      beside |-> ListedTo(Replacing)]
         [] d \in Replacing -> [call[d] EXCEPT !.beside = @ \union call[c].tools]
         [] OTHER -> call[d]]
  /\ UNCHANGED <<rows, session, cache, change, remote, overlapped>>

Deactivated(c) == active \ call[c].seen

(* INSERT ... ON CONFLICT DO UPDATE of every listed tool, with what the    *)
(* server says of it, and the commit; refused once the server is gone.     *)
CommitReplace(c) ==
  /\ At(c, "replace")
  /\ IF server = 0
     THEN UNCHANGED rows /\ Go(c, Idle)
     ELSE /\ known' = known \union call[c].tools
          /\ active' = Deactivated(c) \union call[c].tools
          /\ annotated' = annotated \ call[c].tools
          /\ UNCHANGED server
          /\ Go(c, [stage |-> "cache", tools |-> call[c].tools])
  /\ UNCHANGED <<session, cache, change, remote, overlapped>>

(* cache.put.                                                              *)
PutCache(c) ==
  /\ At(c, "cache")
  /\ cache' = {call[c].tools}
  /\ Go(c, Idle)
  /\ UNCHANGED <<rows, session, change, remote, overlapped>>

(* An error of the transport, of validate_tools or of the database, or a   *)
(* client that disconnects.                                                *)
CallEnds(c) ==
  /\ ~At(c, "idle")
  /\ Go(c, Idle)
  /\ UNCHANGED <<rows, session, cache, change, remote, overlapped>>

-----------------------------------------------------------------------------
(* The administrator: update, delete and update_tool_annotations.          *)

(* cache.invalidate.                                                       *)
BeginChange(what) ==
  /\ change = "none" /\ server \in 1..(MaxVersion - 1)
  /\ cache' = NoCache
  /\ change' = what
  /\ UNCHANGED <<rows, session, call, remote, overlapped>>

(* Mutant: the session is kept.                                            *)
KeepSession ==
  /\ change \in {"update", "delete"}
  /\ change' = IF change = "update" THEN "write" ELSE "erase"
  /\ UNCHANGED <<rows, session, cache, call, remote, overlapped>>

(* sessions.remove, and shutdown of the transport.                         *)
RemoveSession ==
  /\ change \in {"update", "delete"}
  /\ session' = NoSession
  /\ closed' = IF session = NoSession THEN closed ELSE closed \union {session.id}
  /\ change' = IF change = "update" THEN "write" ELSE "erase"
  /\ overlapped' = FALSE
  /\ UNCHANGED <<rows, cache, call, opened>>

(* update_server, or delete_server with its tools (ON DELETE CASCADE).     *)
WriteServer ==
  /\ change \in {"write", "erase"}
  /\ IF change = "write"
     THEN server' = server + 1 /\ UNCHANGED <<known, active, annotated>>
     ELSE server' = 0 /\ known' = {} /\ active' = {} /\ annotated' = {}
  /\ change' = "none"
  /\ UNCHANGED <<session, cache, call, remote, overlapped>>

(* The database refuses (mcp_invocations refers to the server), or the     *)
(* request dies.                                                           *)
ChangeFails ==
  /\ change # "none"
  /\ change' = "none"
  /\ UNCHANGED <<rows, session, cache, call, remote, overlapped>>

(* update_tool_annotations of an active tool.                              *)
Annotate(t) ==
  /\ t \in active
  /\ annotated' = annotated \union {t}
  /\ UNCHANGED <<server, known, active, process, remote, overlapped>>

-----------------------------------------------------------------------------
CacheExpires ==
  /\ cache # NoCache
  /\ cache' = NoCache
  /\ UNCHANGED <<rows, session, call, change, remote, overlapped>>

Proceed(c) ==
  \/ ShareSession(c) \/ OpenSession(c) \/ InsertSession(c)
  \/ InvokeTool(c) \/ (\E tools \in SUBSET Tools : ListTools(c, tools))
  \/ StartReplace(c) \/ CommitReplace(c) \/ PutCache(c) \/ CallEnds(c)

Change == RemoveSession \/ WriteServer \/ ChangeFails

Next ==
  \/ \E c \in Calls : FindServer(c, "invoke") \/ FindServer(c, "refresh") \/ Proceed(c)
  \/ BeginChange("update") \/ BeginChange("delete") \/ Change
  \/ \E t \in Tools : Annotate(t)
  \/ CacheExpires

Spec == Init /\ [][Next]_vars

-----------------------------------------------------------------------------
(* The session that calls share was opened with the server's present       *)
(* configuration, unless it was being opened while an update of the server *)
(* went on: update drops the session before it writes the row.             *)
SessionsAreCurrent ==
  (session # NoSession /\ server # 0 /\ change = "none" /\ ~overlapped) =>
    session.version = server

(* A refresh leaves every tool active that the server listed to it, and no *)
(* other, but for what the server listed to a refresh whose transaction    *)
(* ran beside it: in whatever order the statements of the two interleave,  *)
(* no tool is lost, and none stays that neither of them was told of.       *)
RefreshReplacesTools ==
  [][\A c \in Calls :
       (At(c, "replace") /\ call'[c].stage = "cache") =>
         /\ call[c].tools \subseteq active'
         /\ active' \subseteq call[c].tools \union call[c].beside]_vars

(* "Administrator annotations win": as long as a tool is there, what an    *)
(* administrator said of it stays.                                         *)
AdministratorAnnotationsWin ==
  [][annotated \intersect active' \subseteq annotated']_vars

=============================================================================
