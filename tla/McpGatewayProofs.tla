--------------------------- MODULE McpGatewayProofs ---------------------------
(***************************************************************************)
(* Theorems about the MCP registry, the pipe to a child process and the    *)
(* resources of a plan, each of its own specification.                     *)
(*                                                                         *)
(* Registry: an update drops the session before it writes the row          *)
(* (SessionInv), and a refresh has seen every tool that is active, or that *)
(* was listed beside it (BesideOrSeen).  Transport: an id is asked once, so only the     *)
(* caller that asked can be answered under it.  Plan: a secret has one     *)
(* place (NewIsFresh, RowsApart), what is about to be deleted is in no row *)
(* (OldIsUnused), and there is room for those that passed the check, but   *)
(* for the ones that passed it at once (RoomInv).  The exceptions are the ghosts of PlanResources.             *)
(***************************************************************************)
EXTENDS McpGateway, FiniteSetTheorems, TLAPS

-----------------------------------------------------------------------------
(* The registry.                                                           *)

Ops == {"invoke", "refresh"}

CallState ==
  [stage : {"idle"}]
    \cup [stage : {"session"}, op : Ops, version : Nat]
    \cup [stage : {"insert"}, op : Ops, version : Nat, session : Nat]
    \cup [stage : Ops, session : Nat]
    \cup [stage : {"listed", "cache"}, tools : SUBSET Tools]
    \cup [stage : {"replace"}, tools : SUBSET Tools, seen : SUBSET Tools,
         beside : SUBSET Tools]

RegistryTypeOK ==
  /\ server \in Nat
  /\ active \subseteq known /\ known \subseteq Tools
  /\ session \in [id : Nat, version : Nat]
  /\ call \in [Calls -> CallState]
  /\ change \in {"none", "update", "delete", "write", "erase"}
  /\ opened \in Nat
  /\ overlapped \in BOOLEAN

(* An update or a delete writes the row only once the session is gone, and *)
(* a session that comes back meanwhile is marked.                          *)
SessionInv ==
  /\ change \in {"write", "erase"} => session = NoSession \/ overlapped
  /\ (session # NoSession /\ server # 0 /\ ~overlapped) => session.version = server

(* What a refresh has not deactivated was listed beside it, by one that    *)
(* has committed, or is to be.                                             *)
BesideOrSeen ==
  \A c \in Replacing :
    /\ active \subseteq call[c].seen \cup call[c].beside
    /\ \A d \in Replacing \ {c} : call[d].tools \subseteq call[c].beside

RegistryInv == RegistryTypeOK /\ SessionInv /\ BesideOrSeen

LEMMA RegistryStarts ==
  ASSUME Init
  PROVE  RegistryInv
BY DEF Init, RegistryInv, RegistryTypeOK, SessionInv, BesideOrSeen, NoSession, NoCache,
       Idle, CallState, At, Replacing

(* A step of one call that does not begin a replacement.                   *)
LEMMA GoKeeps ==
  ASSUME RegistryInv, NEW c \in Calls, NEW next \in CallState, Go(c, next),
         next.stage # "replace",
         active' \subseteq active \/ (At(c, "replace") /\ active' \subseteq active \cup call[c].tools)
  PROVE  call' \in [Calls -> CallState] /\ BesideOrSeen'
<1> USE DEF RegistryInv, RegistryTypeOK
<1>1. call' \in [Calls -> CallState] /\ call'[c] = next
      /\ \A d \in Calls \ {c} : call'[d] = call[d]
  BY DEF Go
<1>2. \A d \in Replacing' : d # c /\ d \in Replacing /\ call'[d] = call[d]
  BY <1>1 DEF Replacing, At
<1>3. ASSUME NEW d \in Replacing'
      PROVE  /\ active' \subseteq call'[d].seen \cup call'[d].beside
             /\ \A e \in Replacing' \ {d} : call'[e].tools \subseteq call'[d].beside
  <2>1. /\ active \subseteq call[d].seen \cup call[d].beside
        /\ \A e \in Replacing \ {d} : call[e].tools \subseteq call[d].beside
    BY <1>2, <1>3 DEF BesideOrSeen
  <2>2. At(c, "replace") => call[c].tools \subseteq call[d].beside
    BY <1>2, <1>3, <2>1 DEF Replacing
  <2> QED BY <1>2, <1>3, <2>1, <2>2
<1> QED BY <1>1, <1>3 DEF BesideOrSeen

LEMMA CallsKeep ==
  ASSUME RegistryInv, NEW c \in Calls,
         FindServer(c, "invoke") \/ FindServer(c, "refresh") \/ Proceed(c)
  PROVE  RegistryInv'
<1> USE DEF RegistryInv, RegistryTypeOK, rows, process, remote
<1>0. call[c] \in CallState
  OBVIOUS
<1>1. ASSUME NEW next \in CallState, Go(c, next), next.stage # "replace",
             UNCHANGED <<rows, session, change, overlapped>>, opened' \in Nat
      PROVE  RegistryInv'
  <2>1. call' \in [Calls -> CallState] /\ BesideOrSeen'
    BY <1>1, GoKeeps
  <2> QED BY <1>1, <2>1 DEF SessionInv
<1>2. ASSUME NEW op \in Ops, FindServer(c, op)
      PROVE  RegistryInv'
  <2> DEFINE next == [stage |-> "session", op |-> op, version |-> server]
  <2>1. next \in CallState /\ next.stage # "replace"
    BY DEF CallState, Ops
  <2> QED BY <1>1, <1>2, <2>1 DEF FindServer
<1>3. CASE ShareSession(c)
  <2> DEFINE next == [stage |-> call[c].op, session |-> session.id]
  <2>1. call[c].op \in Ops
    BY <1>0, <1>3 DEF CallState, ShareSession, At, Ops
  <2>2. next \in CallState /\ next.stage # "replace"
    BY <2>1 DEF CallState, Ops
  <2> QED BY <1>1, <1>3, <2>2 DEF ShareSession
<1>4. CASE OpenSession(c)
  <2> DEFINE next == [stage |-> "insert", op |-> call[c].op, version |-> call[c].version,
                      session |-> opened']
  <2>1. call[c].op \in Ops /\ call[c].version \in Nat /\ opened' \in Nat
    BY <1>0, <1>4 DEF CallState, OpenSession, At, Ops
  <2>2. next \in CallState /\ next.stage # "replace"
    BY <2>1 DEF CallState
  <2> QED BY <1>1, <1>4, <2>1, <2>2 DEF OpenSession
<1>5. CASE InsertSession(c)
  <2> DEFINE next == [stage |-> call[c].op, session |-> call[c].session]
  <2>1. call[c].op \in Ops /\ call[c].version \in Nat /\ call[c].session \in Nat
    BY <1>0, <1>5 DEF CallState, InsertSession, At, Ops
  <2>2. next \in CallState /\ next.stage # "replace"
    BY <2>1 DEF CallState, Ops
  <2>3. call' \in [Calls -> CallState] /\ BesideOrSeen'
    BY <1>5, <2>2, GoKeeps DEF InsertSession
  <2>4. /\ session' = [id |-> call[c].session, version |-> call[c].version]
        /\ overlapped' = (change \in {"write", "erase"} \/ call[c].version # server)
        /\ UNCHANGED <<rows, change, opened>>
    BY <1>5 DEF InsertSession
  <2>5. SessionInv'
    BY <2>4 DEF SessionInv
  <2>6. RegistryTypeOK'
    BY <2>1, <2>3, <2>4
  <2> QED BY <2>3, <2>5, <2>6
<1>6. CASE InvokeTool(c) \/ CallEnds(c)
  <2>1. Idle \in CallState /\ Idle.stage # "replace"
    BY DEF CallState, Idle
  <2>2. Go(c, Idle) /\ UNCHANGED <<rows, session, change, remote, overlapped>>
    BY <1>6 DEF InvokeTool, CallEnds
  <2> QED BY <1>1, <2>1, <2>2
<1>7. ASSUME NEW tools \in SUBSET Tools, ListTools(c, tools)
      PROVE  RegistryInv'
  <2> DEFINE next == [stage |-> "listed", tools |-> tools]
  <2>1. next \in CallState /\ next.stage # "replace"
    BY DEF CallState
  <2> QED BY <1>1, <1>7, <2>1 DEF ListTools
<1>8. CASE StartReplace(c)
  <2> DEFINE mine == [stage |-> "replace", tools |-> call[c].tools, seen |-> known,
                      beside |-> ListedTo(Replacing)]
             other(d) == [call[d] EXCEPT !.beside = @ \cup call[c].tools]
  <2>1. \A d \in Replacing :
          /\ call[d].stage = "replace" /\ call[d].tools \in SUBSET Tools
          /\ call[d].seen \in SUBSET Tools /\ call[d].beside \in SUBSET Tools
          /\ call[d] \in [stage : {"replace"}, tools : SUBSET Tools, seen : SUBSET Tools,
                          beside : SUBSET Tools]
    BY DEF Replacing, At, CallState, Ops
  <2>2. call[c].tools \in SUBSET Tools /\ call[c].stage # "replace"
    BY <1>0, <1>8 DEF CallState, StartReplace, At, Ops
  <2>3. ListedTo(Replacing) \subseteq Tools
    BY <2>1 DEF ListedTo
  <2>4. mine \in CallState
    BY <2>2, <2>3 DEF CallState
  <2>5. \A d \in Replacing :
          /\ other(d) \in CallState /\ other(d).stage = "replace"
          /\ other(d).tools = call[d].tools /\ other(d).seen = call[d].seen
          /\ other(d).beside = call[d].beside \cup call[c].tools
    <3> SUFFICES ASSUME NEW d \in Replacing
                 PROVE  /\ other(d) \in CallState /\ other(d).stage = "replace"
                        /\ other(d).tools = call[d].tools /\ other(d).seen = call[d].seen
                        /\ other(d).beside = call[d].beside \cup call[c].tools
      OBVIOUS
    <3>1. call[d].beside \cup call[c].tools \in SUBSET Tools
      BY <2>1, <2>2
    <3> QED BY <2>1, <3>1 DEF CallState
  <2>6. call' = [d \in Calls |-> CASE d = c -> mine
                                  [] d \in Replacing -> other(d)
                                  [] OTHER -> call[d]]
    BY <1>8 DEF StartReplace
  <2>7. c \notin Replacing /\ Replacing \subseteq Calls
    BY <2>2 DEF Replacing, At
  <2> HIDE DEF mine, other
  <2>8. /\ call'[c] = mine
        /\ \A d \in Replacing : call'[d] = other(d)
        /\ \A d \in Calls : d # c /\ d \notin Replacing => call'[d] = call[d]
    BY <2>6, <2>7
  <2>9. call' \in [Calls -> CallState]
    BY <2>4, <2>5, <2>6, <2>7
  <2>10. /\ mine.stage = "replace" /\ mine.tools = call[c].tools
         /\ mine.seen = known /\ mine.beside = ListedTo(Replacing)
    BY DEF mine
  <2>11. Replacing' = Replacing \cup {c}
    BY <2>1, <2>5, <2>7, <2>8, <2>10 DEF Replacing, At
  <2>12. ASSUME NEW d \in Replacing'
         PROVE  /\ active \subseteq call'[d].seen \cup call'[d].beside
                /\ \A e \in Replacing' \ {d} : call'[e].tools \subseteq call'[d].beside
    <3>1. CASE d = c
      <4>1. \A e \in Replacing : call'[e].tools = call[e].tools
        BY <2>5, <2>8
      <4>2. \A e \in Replacing : call[e].tools \subseteq ListedTo(Replacing)
        BY DEF ListedTo
      <4> QED BY <2>8, <2>10, <2>11, <3>1, <4>1, <4>2
    <3>2. CASE d \in Replacing
      <4>1. /\ active \subseteq call[d].seen \cup call[d].beside
            /\ \A e \in Replacing \ {d} : call[e].tools \subseteq call[d].beside
        BY <3>2 DEF BesideOrSeen
      <4>2. \A e \in Replacing : call'[e].tools = call[e].tools
        BY <2>5, <2>8
      <4>3. call'[d].seen = call[d].seen /\ call'[d].beside = call[d].beside \cup call[c].tools
        BY <2>5, <2>8, <3>2
      <4>4. call'[c].tools = call[c].tools
        BY <2>8, <2>10
      <4> QED BY <2>11, <4>1, <4>2, <4>3, <4>4
    <3> QED BY <2>11, <2>12, <3>1, <3>2
  <2>13. UNCHANGED <<rows, session, change, opened, overlapped>>
    BY <1>8 DEF StartReplace
  <2>14. BesideOrSeen'
    BY <2>12, <2>13 DEF BesideOrSeen
  <2>15. SessionInv'
    BY <2>13 DEF SessionInv
  <2> QED BY <2>9, <2>13, <2>14, <2>15
<1>9. CASE CommitReplace(c)
  <2>1. At(c, "replace") /\ call[c].tools \in SUBSET Tools
    BY <1>0, <1>9 DEF CommitReplace, At, CallState, Ops
  <2>2. active' \subseteq active \cup call[c].tools
    BY <1>9 DEF CommitReplace, Deactivated
  <2> DEFINE next == IF server = 0 THEN Idle ELSE [stage |-> "cache", tools |-> call[c].tools]
  <2>3. next \in CallState /\ next.stage # "replace"
    BY <2>1 DEF CallState, Idle
  <2>4. call' \in [Calls -> CallState] /\ BesideOrSeen'
    BY <1>9, <2>1, <2>2, <2>3, GoKeeps DEF CommitReplace
  <2>5. active' \subseteq known' /\ known' \subseteq Tools
    BY <1>9, <2>1 DEF CommitReplace, Deactivated
  <2> QED BY <1>9, <2>4, <2>5 DEF CommitReplace, SessionInv
<1>10. CASE PutCache(c)
  <2>1. Idle \in CallState /\ Idle.stage # "replace"
    BY DEF CallState, Idle
  <2>2. Go(c, Idle) /\ UNCHANGED <<rows, session, change, remote, overlapped>>
    BY <1>10 DEF PutCache
  <2> QED BY <1>1, <2>1, <2>2
<1> QED BY <1>2, <1>3, <1>4, <1>5, <1>6, <1>7, <1>8, <1>9, <1>10 DEF Proceed, Ops

LEMMA ChangesKeep ==
  ASSUME RegistryInv,
         \/ BeginChange("update") \/ BeginChange("delete") \/ Change
         \/ \E t \in Tools : Annotate(t)
         \/ CacheExpires
         \/ UNCHANGED vars
  PROVE  RegistryInv'
<1> USE DEF RegistryInv, RegistryTypeOK, rows, process, remote, vars
<1>1. call' = call
  BY DEF BeginChange, Change, RemoveSession, WriteServer, ChangeFails, Annotate, CacheExpires
<1>2. active' \subseteq active
  BY DEF BeginChange, Change, RemoveSession, WriteServer, ChangeFails, Annotate, CacheExpires
<1>3. BesideOrSeen'
  BY <1>1, <1>2 DEF BesideOrSeen, At, Replacing
<1>4. RegistryTypeOK'
  <2>1. CASE RemoveSession
    BY <1>1, <2>1 DEF RemoveSession, NoSession
  <2>2. CASE WriteServer
    BY <1>1, <2>2 DEF WriteServer
  <2>3. CASE \/ BeginChange("update") \/ BeginChange("delete") \/ ChangeFails
            \/ (\E t \in Tools : Annotate(t)) \/ CacheExpires \/ UNCHANGED vars
    BY <1>1, <2>3 DEF BeginChange, ChangeFails, Annotate, CacheExpires
  <2> QED BY <2>1, <2>2, <2>3 DEF Change
<1>5. SessionInv'
  <2>1. CASE RemoveSession
    BY <2>1 DEF RemoveSession, SessionInv
  <2>2. CASE WriteServer
    BY <2>2 DEF WriteServer, SessionInv
  <2>3. CASE \/ BeginChange("update") \/ BeginChange("delete") \/ ChangeFails
            \/ (\E t \in Tools : Annotate(t)) \/ CacheExpires \/ UNCHANGED vars
    BY <2>3 DEF BeginChange, ChangeFails, Annotate, CacheExpires, SessionInv
  <2> QED BY <2>1, <2>2, <2>3 DEF Change
<1> QED BY <1>3, <1>4, <1>5

LEMMA RegistryNext ==
  ASSUME RegistryInv, [Next]_vars
  PROVE  RegistryInv'
BY CallsKeep, ChangesKeep DEF Next

(* The inductive invariant of the registry: an update or a delete writes   *)
(* the row only after the session is gone, and a session that comes back   *)
(* meanwhile is marked.                                                    *)
THEOREM RegistryInvariant == Spec => []RegistryInv
<1>1. RegistryInv /\ UNCHANGED vars => RegistryInv'
  BY RegistryNext
<1> QED BY RegistryStarts, RegistryNext, PTL DEF Spec

(* McpRegistry::update and delete against session: for any number of calls *)
(* and changes, the session that calls share has the present               *)
(* configuration, unless it was opened while a change went on.             *)
THEOREM SessionsAreCurrentHolds == Spec => []SessionsAreCurrent
<1>1. RegistryInv => SessionsAreCurrent
  BY DEF RegistryInv, SessionInv, SessionsAreCurrent
<1> QED BY <1>1, RegistryInvariant, PTL

(* replace_tools: however many refreshes overlap, each leaves active what  *)
(* the server listed to it and nothing that was listed to none of them.    *)
THEOREM RefreshReplacesToolsHolds == Spec => RefreshReplacesTools
<1> DEFINE Replaces ==
      \A c \in Calls : (At(c, "replace") /\ call'[c].stage = "cache") =>
        /\ call[c].tools \subseteq active'
        /\ active' \subseteq call[c].tools \cup call[c].beside
<1>1. ASSUME RegistryInv, Next PROVE Replaces
  <2> SUFFICES ASSUME NEW c \in Calls, At(c, "replace"), call'[c].stage = "cache"
               PROVE  /\ call[c].tools \subseteq active'
                      /\ active' \subseteq call[c].tools \cup call[c].beside
    OBVIOUS
  <2>1. active \subseteq call[c].seen \cup call[c].beside
    BY <1>1 DEF RegistryInv, BesideOrSeen, Replacing
  <2>2. CommitReplace(c)
    <3>1. call'[c].stage # call[c].stage /\ call[c].stage = "replace"
      BY DEF At
    <3>2. call \in [Calls -> CallState]
      BY <1>1 DEF RegistryInv, RegistryTypeOK
    <3>3. PICK d \in Calls :
            FindServer(d, "invoke") \/ FindServer(d, "refresh") \/ Proceed(d)
      BY <1>1, <3>1 DEF Next, BeginChange, Change, RemoveSession, WriteServer,
           ChangeFails, Annotate, CacheExpires, process
    <3>4. d = c
      <4>1. CASE StartReplace(d)
        <5>1. d # c => call'[c] = [call[c] EXCEPT !.beside = @ \cup call[d].tools]
          BY <3>1, <4>1 DEF StartReplace, Replacing, At
        <5>2. [call[c] EXCEPT !.beside = @ \cup call[d].tools].stage = call[c].stage
          BY <3>1, <3>2 DEF CallState, Ops
        <5> QED BY <3>1, <5>1, <5>2
      <4>2. CASE ~StartReplace(d)
        <5>1. \E next : Go(d, next)
          BY <3>3, <4>2 DEF FindServer, Proceed, ShareSession, OpenSession, InsertSession,
               InvokeTool, ListTools, CommitReplace, PutCache, CallEnds
        <5> QED BY <3>1, <3>2, <5>1 DEF Go
      <4> QED BY <4>1, <4>2
    <3>5. ~CallEnds(c)
      BY <3>1, <3>2 DEF CallEnds, Go, Idle
    <3> QED BY <3>1, <3>3, <3>4, <3>5 DEF FindServer, Proceed, ShareSession, OpenSession,
              InsertSession, InvokeTool, ListTools, StartReplace, PutCache, At
  <2>3. CASE server = 0
    <3>1. Go(c, Idle) /\ call \in [Calls -> CallState]
      BY <1>1, <2>2, <2>3 DEF CommitReplace, RegistryInv, RegistryTypeOK
    <3> QED BY <3>1 DEF Go, Idle
  <2>4. CASE server # 0
    <3>1. active' = (active \ call[c].seen) \cup call[c].tools
      BY <2>2, <2>4 DEF CommitReplace, Deactivated
    <3> QED BY <2>1, <3>1
  <2> QED BY <2>3, <2>4
<1>2. RegistryInv /\ [Next]_vars => [Replaces]_vars
  BY <1>1
<1> QED BY <1>2, RegistryInvariant, PTL DEF Spec, RefreshReplacesTools

-----------------------------------------------------------------------------
(* The pipe to a child process.                                            *)

Line ==
  [kind : {"answer"}, id : Nat, for : StdioCalls] \cup [kind : {"note", "broken"}]

TransportTypeOK ==
  /\ nextId \in Nat \ {0}
  /\ asked \subseteq [id : Nat, for : StdioCalls]
  /\ lines \in Seq(Line)
  /\ pc \in [StdioCalls -> {"start", "write", "read", "done"}]
  /\ id \in [StdioCalls -> Nat]
  /\ answer \in [StdioCalls -> StdioCalls \cup {NoCall}]

(* An id is written once, by one call, and never the next one.             *)
IdsAreFresh ==
  /\ \A c \in StdioCalls : id[c] < nextId
  /\ \A c \in StdioCalls : pc[c] \in {"start", "write"} => id[c] = 0
  /\ \A c, d \in StdioCalls : id[c] # 0 /\ id[c] = id[d] => c = d

(* What the child was asked, and what it answers, has the id of its call.  *)
OwnId(x) == x.id # 0 /\ x.id = id[x.for]

IdsAreKept ==
  /\ \A q \in asked : OwnId(q)
  /\ \A i \in 1 .. Len(lines) : lines[i].kind = "answer" => OwnId(lines[i])

TransportInv == TransportTypeOK /\ IdsAreFresh /\ IdsAreKept /\ AnswersMatch

LEMMA TransportStarts ==
  ASSUME Stdio!Init
  PROVE  TransportInv
BY DEF Stdio!Init, TransportInv, TransportTypeOK, IdsAreFresh, IdsAreKept, AnswersMatch,
       Stdio!AnswersMatch

(* A call that ends without an answer, or with its own.                    *)
LEMMA FinishKeeps ==
  ASSUME TransportInv, NEW c \in StdioCalls, NEW for \in {c, NoCall}, Stdio!Finish(c, for),
         UNCHANGED <<nextId, asked, id>>, lines' \in Seq(Line),
         \A i \in 1 .. Len(lines') : lines'[i].kind = "answer" => OwnId(lines'[i])
  PROVE  TransportInv'
<1> USE DEF TransportInv, TransportTypeOK
<1>1. TransportTypeOK'
  BY DEF Stdio!Finish
<1>2. IdsAreFresh'
  BY DEF Stdio!Finish, IdsAreFresh
<1>3. IdsAreKept'
  BY DEF IdsAreKept, OwnId
<1>4. AnswersMatch'
  BY DEF Stdio!Finish, AnswersMatch, Stdio!AnswersMatch
<1> QED BY <1>1, <1>2, <1>3, <1>4

LEMMA TransportNext ==
  ASSUME TransportInv, [Stdio!Next]_(Stdio!vars)
  PROVE  TransportInv'
<1> USE DEF TransportInv, TransportTypeOK
<1>0. /\ lines # << >> => Head(lines) \in Line /\ Tail(lines) \in Seq(Line)
      /\ \A i \in 1 .. Len(lines) : lines[i].kind = "answer" => OwnId(lines[i])
      /\ lines # << >> =>
           /\ Head(lines).kind = "answer" => OwnId(Head(lines))
           /\ \A i \in 1 .. Len(Tail(lines)) :
                Tail(lines)[i].kind = "answer" => OwnId(Tail(lines)[i])
  <2>1. \A i \in 1 .. Len(lines) : lines[i].kind = "answer" => OwnId(lines[i])
    BY DEF IdsAreKept
  <2>2. ASSUME lines # << >>
        PROVE  /\ Head(lines) \in Line /\ Tail(lines) \in Seq(Line)
               /\ Len(lines) \in Nat \ {0} /\ Head(lines) = lines[1]
               /\ Len(Tail(lines)) = Len(lines) - 1
               /\ \A i \in 1 .. Len(Tail(lines)) : Tail(lines)[i] = lines[i + 1]
    BY <2>2
  <2> QED BY <2>1, <2>2
<1>1. ASSUME NEW c \in StdioCalls, Stdio!Lock(c)
      PROVE  TransportInv'
  <2>1. CASE child = "running"
    BY <1>1, <2>1 DEF Stdio!Lock, IdsAreFresh, IdsAreKept, OwnId, AnswersMatch,
         Stdio!AnswersMatch
  <2>2. CASE child # "running"
    BY <1>0, <1>1, <2>2, FinishKeeps DEF Stdio!Lock
  <2> QED BY <2>1, <2>2
<1>2. ASSUME NEW c \in StdioCalls, Stdio!Write(c)
      PROVE  TransportInv'
  <2>1. /\ id[c] = 0 /\ nextId' = nextId + 1
        /\ id' = [id EXCEPT ![c] = nextId] /\ pc' = [pc EXCEPT ![c] = "read"]
        /\ asked' = asked \cup {[id |-> nextId, for |-> c]}
        /\ UNCHANGED <<lines, answer>>
    BY <1>2 DEF Stdio!Write, IdsAreFresh
  <2>2. TransportTypeOK' /\ AnswersMatch'
    BY <2>1 DEF AnswersMatch, Stdio!AnswersMatch
  <2>3. IdsAreFresh'
    BY <2>1 DEF IdsAreFresh
  <2>4. \A d \in StdioCalls : id[d] # 0 => id'[d] = id[d]
    BY <2>1
  <2>5. \A i \in 1 .. Len(lines) : lines[i].kind = "answer" =>
          lines[i].id # 0 /\ lines[i].id = id'[lines[i].for]
    <3> SUFFICES ASSUME NEW i \in 1 .. Len(lines), lines[i].kind = "answer"
                 PROVE  lines[i].id # 0 /\ lines[i].id = id'[lines[i].for]
      OBVIOUS
    <3>1. lines[i] \in Line /\ OwnId(lines[i])
      BY <1>0
    <3> QED BY <2>4, <3>1 DEF OwnId, Line
  <2>6. \A q \in asked' : q.id # 0 /\ q.id = id'[q.for]
    BY <2>1, <2>4 DEF IdsAreKept, OwnId
  <2>7. IdsAreKept'
    BY <2>1, <2>5, <2>6 DEF IdsAreKept, OwnId
  <2> QED BY <2>2, <2>3, <2>7
<1>3. ASSUME NEW c \in StdioCalls, Stdio!ReadLine(c)
      PROVE  TransportInv'
  <2> DEFINE line == Head(lines)
  <2>1. /\ lines # << >> /\ lines' = Tail(lines) /\ UNCHANGED <<nextId, asked, id>>
        /\ line \in Line /\ lines' \in Seq(Line)
        /\ \A i \in 1 .. Len(lines') : lines'[i].kind = "answer" => OwnId(lines'[i])
    BY <1>0, <1>3 DEF Stdio!ReadLine
  <2>2. CASE line.kind = "broken"
    <3>1. Stdio!Finish(c, NoCall)
      BY <1>3, <2>2 DEF Stdio!ReadLine
    <3> QED BY <2>1, <3>1, FinishKeeps
  <2>3. CASE line.kind = "answer" /\ line.id = id[c]
    <3>1. Stdio!Finish(c, line.for)
      BY <1>3, <2>3 DEF Stdio!ReadLine
    <3>2. OwnId(line) /\ line.for \in StdioCalls
      BY <1>0, <2>1, <2>3 DEF Line
    <3>3. line.for = c
      BY <2>3, <3>2 DEF OwnId, IdsAreFresh
    <3> QED BY <2>1, <3>1, <3>3, FinishKeeps
  <2>4. CASE line.kind # "broken" /\ ~(line.kind = "answer" /\ line.id = id[c])
    <3>1. UNCHANGED <<pc, answer>>
      BY <1>3, <2>4 DEF Stdio!ReadLine
    <3>2. IdsAreKept'
      BY <2>1 DEF IdsAreKept, OwnId
    <3> QED BY <2>1, <3>1, <3>2 DEF IdsAreFresh, AnswersMatch, Stdio!AnswersMatch
  <2> QED BY <2>2, <2>3, <2>4
<1>4. ASSUME NEW c \in StdioCalls, Stdio!GiveUp(c) \/ Stdio!Dropped(c)
      PROVE  TransportInv'
  BY <1>0, <1>4, FinishKeeps DEF Stdio!GiveUp, Stdio!Dropped
<1>5. CASE Stdio!Shutdown
  BY <1>5 DEF Stdio!Shutdown, IdsAreFresh, IdsAreKept, AnswersMatch, Stdio!AnswersMatch
<1>6. ASSUME NEW line \in Line, line.kind = "answer" => OwnId(line), Stdio!Say(line),
             asked' \subseteq asked
      PROVE  TransportInv'
  <2>1. /\ lines' = Append(lines, line) /\ UNCHANGED <<nextId, pc, id, answer>>
        /\ lines' \in Seq(Line) /\ Len(lines') = Len(lines) + 1
        /\ \A i \in 1 .. Len(lines) : lines'[i] = lines[i]
        /\ lines'[Len(lines) + 1] = line
    BY <1>6 DEF Stdio!Say
  <2>2. \A i \in 1 .. Len(lines') : lines'[i].kind = "answer" => OwnId(lines'[i])
    <3> SUFFICES ASSUME NEW i \in 1 .. Len(lines')
                 PROVE  lines'[i].kind = "answer" => OwnId(lines'[i])
      OBVIOUS
    <3>1. i \in 1 .. Len(lines) \/ i = Len(lines) + 1
      BY <2>1
    <3> QED BY <1>0, <1>6, <2>1, <3>1
  <2>3. IdsAreKept'
    BY <1>6, <2>1, <2>2 DEF IdsAreKept, OwnId
  <2> QED BY <1>6, <2>1, <2>3 DEF IdsAreFresh, AnswersMatch, Stdio!AnswersMatch
<1>7. CASE \/ \E q \in asked : Stdio!Answer(q) \/ Stdio!Garble(q)
           \/ Stdio!Notify
  <2>1. ASSUME NEW q \in asked, Stdio!Answer(q)
        PROVE  TransportInv'
    <3> DEFINE line == [kind |-> "answer", id |-> q.id, for |-> q.for]
    <3>1. line \in Line /\ OwnId(line)
      BY DEF Line, IdsAreKept, OwnId
    <3> QED BY <1>6, <2>1, <3>1 DEF Stdio!Answer
  <2>2. ASSUME NEW q \in asked, Stdio!Garble(q)
        PROVE  TransportInv'
    <3>1. [kind |-> "broken"] \in Line /\ [kind |-> "broken"].kind # "answer"
      BY DEF Line
    <3> QED BY <1>6, <2>2, <3>1 DEF Stdio!Garble
  <2>3. CASE Stdio!Notify
    <3>1. [kind |-> "note"] \in Line /\ [kind |-> "note"].kind # "answer"
      BY DEF Line
    <3> QED BY <1>6, <2>3, <3>1 DEF Stdio!Notify
  <2> QED BY <1>7, <2>1, <2>2, <2>3
<1>8. CASE Stdio!Initialize \/ UNCHANGED Stdio!vars
  BY <1>8 DEF Stdio!Initialize, Stdio!vars, IdsAreFresh, IdsAreKept, OwnId, AnswersMatch,
       Stdio!AnswersMatch
<1> QED BY <1>1, <1>2, <1>3, <1>4, <1>5, <1>7, <1>8 DEF Stdio!Next, Stdio!Request

(* StdioMcpTransport::request: for any number of calls that give up, are   *)
(* dropped or answered late, a call returns the answer to its own request  *)
(* or none, because no id is used twice and answers keep theirs.           *)
THEOREM AnswersMatchHolds == Stdio!Spec => []AnswersMatch
<1>1. TransportInv /\ UNCHANGED Stdio!vars => TransportInv'
  BY TransportNext
<1>2. TransportInv => AnswersMatch
  BY DEF TransportInv
<1> QED BY <1>2, TransportStarts, TransportNext, PTL DEF Stdio!Spec

-----------------------------------------------------------------------------
(* Resources under a plan.                                                 *)

(* A reference is tagged with its slot.                                    *)
RefMap ==
  {f \in [Plan!Slots -> Plan!Refs \cup {None}] :
     \A s \in Plan!Slots : f[s] # None => f[s] \in (Resources \cup Requests) \X {s}}

Row ==
  [state : {"none", "live", "gone"}, enabled : BOOLEAN, version : Nat, refs : RefMap]

Job ==
  [at : {"secret", "write"}, op : {"create", "update", "delete"}, r : Resources,
   seen : Row, give : SUBSET Plan!Slots, new : RefMap, enabled : SUBSET BOOLEAN]

Purge == [at : {"purge"}, old : SUBSET Plan!Refs]

PlanTypeOK ==
  /\ kind \in {"servers", "patterns", "keys"}
  /\ resource \in [Resources -> Row]
  /\ secrets \subseteq Plan!Refs
  /\ suspended \subseteq Resources
  /\ request \in [Requests -> Job \cup Purge \cup {Plan!Idle, [at |-> "done"]}]
  /\ wanted \in [Resources -> BOOLEAN]
  /\ crowd \in Nat \ {0}
  /\ beyond \subseteq Resources
  /\ late \subseteq Requests /\ muddled \subseteq Resources
  /\ clean \in BOOLEAN

Busy(q)    == request[q].at \in {"secret", "write"}
Purging(q) == request[q].at = "purge"
Creates(q) == Busy(q) /\ request[q].op = "create"
Changes(q) == Busy(q) /\ request[q].op # "create"

RefsIn(f) == {f[s] : s \in Plan!Slots} \ {None}
Held(r)   == RefsIn(resource[r].refs)
Seen(q)   == RefsIn(request[q].seen.refs)
New(q)    == RefsIn(request[q].new)

(* What the kind and the operation leave out.                              *)
Fits(j, k) ==
  /\ k # "servers" => j.new = Plan!NoRefs /\ j.give = {}
  /\ k = "keys" => j.op = "create"
  /\ k = "patterns" => j.enabled # {}
  /\ j.op = "create" => j.seen = Plan!Absent
  /\ j.op = "delete" => j.new = Plan!NoRefs /\ j.give = {} /\ j.enabled = {FALSE}

JobsFit == \A q \in Requests : Busy(q) => Fits(request[q], kind)

RowsFit ==
  \A r \in Resources :
    kind # "servers" \/ ~Plan!Live(r) => resource[r].refs = Plan!NoRefs

(* A row that is to be inserted is nobody else's business.                 *)
CreatesAlone ==
  \A q \in Requests : Creates(q) =>
    /\ resource[request[q].r] = Plan!Absent
    /\ \A p \in Requests \ {q} : Busy(p) => request[p].r # request[q].r

(* A secret that a request has stored is known to it alone.                *)
NewIsOwn ==
  \A q \in Requests : Busy(q) =>
    \A s \in Plan!Slots : request[q].new[s] \in {None, <<q, s>>}

NewIsFresh ==
  \A q \in Requests, s \in Plan!Slots :
    (Busy(q) \/ Plan!At(q, "idle")) =>
      /\ \A r \in Resources : <<q, s>> \notin Held(r)
      /\ \A p \in Requests : Busy(p) => <<q, s>> \notin Seen(p)
      /\ \A p \in Requests : Purging(p) => <<q, s>> \notin request[p].old

(* What was ever seen of a row is of no other row.                         *)
RowsApart ==
  /\ \A r, t \in Resources : r # t => Held(r) \cap Held(t) = {}
  /\ \A q \in Requests, t \in Resources :
       Busy(q) /\ request[q].r # t => Seen(q) \cap Held(t) = {}
  /\ \A p, q \in Requests :
       Busy(p) /\ Busy(q) /\ request[p].r # request[q].r => Seen(p) \cap Seen(q) = {}

(* A request that is not late has seen the row as it is.                   *)
SeenIsHeld ==
  \A q \in Requests : Changes(q) /\ q \notin late =>
    /\ resource[request[q].r].refs = request[q].seen.refs
    /\ request[q].enabled = {} => resource[request[q].r].enabled = request[q].seen.enabled

VersionsTell ==
  \A q \in Requests : Changes(q) /\ kind = "patterns" =>
    /\ request[q].seen.version <= resource[request[q].r].version
    /\ q \in late => request[q].seen.version < resource[request[q].r].version

(* What is about to be deleted is not in use.                              *)
OldIsUnused ==
  \A q \in Requests, r \in Resources \ muddled :
    Purging(q) => request[q].old \cap Held(r) = {}

AllStored ==
  /\ \A r \in Resources \ muddled : Held(r) \subseteq secrets
  /\ \A q \in Requests : Busy(q) => New(q) \subseteq secrets

EnabledAsAsked ==
  /\ \A r \in Resources \ muddled : Plan!Live(r) => resource[r].enabled = wanted[r]
  /\ kind = "patterns" => muddled = {}

(* A secret is in a row, or somebody who will put it there or delete it    *)
(* knows it.                                                               *)
NothingLeft ==
  clean =>
    \A x \in secrets :
      \/ \E r \in Resources : x \in Held(r)
      \/ \E q \in Requests : Busy(q) /\ x \in New(q)
      \/ \E q \in Requests : Purging(q) /\ x \in request[q].old

SecretInv ==
  /\ JobsFit /\ RowsFit /\ CreatesAlone /\ NewIsOwn /\ NewIsFresh /\ RowsApart
  /\ SeenIsHeld /\ VersionsTell /\ OldIsUnused /\ AllStored /\ EnabledAsAsked /\ NothingLeft

(* Every request that is about to fill the plan still has its room, but    *)
(* for those that were there at once with another.                         *)
RoomInv ==
  /\ Cardinality(Plan!Filling) <= crowd
  /\ Cardinality(Plan!Counted \ beyond) + Cardinality(Plan!Filling) < Limit + crowd

PlanInv == PlanTypeOK /\ SecretInv /\ RoomInv

LEMMA SameFiniteSets ==
  ASSUME NEW S
  PROVE  /\ Plan!IsFiniteSet(S) <=> IsFiniteSet(S)
         /\ Plan!Cardinality(S) = Cardinality(S)
<1>1. Plan!IsFiniteSet(S) <=> IsFiniteSet(S)
  BY Zenon DEF Plan!IsFiniteSet, IsFiniteSet
<1>2. Plan!Cardinality(S) = Cardinality(S)
  BY Zenon DEF Plan!Cardinality, Cardinality
<1> QED BY <1>1, <1>2

LEMMA PlanStarts ==
  ASSUME Plan!ResourcesAssumption, Plan!Init
  PROVE  PlanInv
<1> USE DEF Plan!ResourcesAssumption, Plan!Refs
<1>1. /\ kind \in {"servers", "patterns", "keys"}
      /\ secrets = Plan!RefsOf(Resources) /\ suspended = {}
      /\ request = [q \in Requests |-> Plan!Idle]
      /\ wanted = [r \in Resources |-> resource[r].enabled]
      /\ crowd = 1 /\ beyond = {} /\ late = {} /\ muddled = {} /\ clean = TRUE
      /\ Cardinality(Plan!Counted) <= Limit
      /\ \A r \in Resources : resource[r] \in Plan!Start(r)
      /\ resource = [r \in Resources |-> resource[r]]
  BY SameFiniteSets DEF Plan!Init
<1>2. \A r \in Resources :
        /\ resource[r] \in Row
        /\ Held(r) \subseteq {<<r, s>> : s \in Plan!Slots}
        /\ kind # "servers" \/ ~Plan!Live(r) => resource[r].refs = Plan!NoRefs
  <2> SUFFICES ASSUME NEW r \in Resources
               PROVE  /\ resource[r] \in Row
                      /\ Held(r) \subseteq {<<r, s>> : s \in Plan!Slots}
                      /\ kind # "servers" \/ ~Plan!Live(r) => resource[r].refs = Plan!NoRefs
    OBVIOUS
  <2>1. Plan!NoRefs \in RefMap /\ RefsIn(Plan!NoRefs) = {}
    BY DEF Plan!NoRefs, RefMap, RefsIn
  <2> DEFINE own == [s \in Plan!Slots |-> <<r, s>>]
  <2>2. own \in RefMap /\ RefsIn(own) \subseteq {<<r, s>> : s \in Plan!Slots}
    BY DEF RefMap, RefsIn
  <2>3. resource[r] \in Plan!Start(r)
    BY <1>1
  <2> HIDE DEF own
  <2>4. CASE resource[r] = Plan!Absent
    BY <2>1, <2>4 DEF Plan!Absent, Row, Held, Plan!Live
  <2>5. CASE resource[r] = [state |-> "live", enabled |-> TRUE, version |-> 1,
                            refs |-> IF kind = "servers" THEN own ELSE Plan!NoRefs]
    BY <2>1, <2>2, <2>5 DEF Row, Held, Plan!Live
  <2> QED BY <2>3, <2>4, <2>5 DEF Plan!Start, own
<1>3. \A q \in Requests : ~Busy(q) /\ ~Purging(q) /\ ~Creates(q) /\ ~Changes(q)
  BY <1>1 DEF Busy, Purging, Creates, Changes, Plan!Idle
<1>4. secrets \subseteq Plan!Refs /\ \A x : x \in secrets <=> \E r \in Resources : x \in Held(r)
  <2>1. \A r \in Resources : Held(r) \subseteq Plan!Refs
    BY <1>2
  <2>2. \A x : x \in secrets <=> \E r \in Resources : x \in Held(r)
    BY <1>1 DEF Plan!RefsOf, Held, RefsIn
  <2> QED BY <2>1, <2>2
<1>5. PlanTypeOK
  <2>1. resource \in [Resources -> Row]
    BY <1>1, <1>2
  <2>2. wanted \in [Resources -> BOOLEAN]
    BY <1>1, <1>2 DEF Row
  <2> QED BY <1>1, <1>4, <2>1, <2>2 DEF PlanTypeOK
<1>6. JobsFit /\ CreatesAlone /\ NewIsOwn /\ SeenIsHeld /\ VersionsTell /\ OldIsUnused
  BY <1>3 DEF JobsFit, CreatesAlone, NewIsOwn, SeenIsHeld, VersionsTell, OldIsUnused
<1>7. NewIsFresh /\ RowsApart
  <2>1. \A q \in Requests, r \in Resources, s \in Plan!Slots : <<q, s>> \notin Held(r)
    BY <1>2
  <2>2. \A r, t \in Resources : r # t => Held(r) \cap Held(t) = {}
    <3> SUFFICES ASSUME NEW r \in Resources, NEW t \in Resources, r # t,
                        NEW x \in Held(r), x \in Held(t)
                 PROVE  FALSE
      OBVIOUS
    <3>1. PICK s \in Plan!Slots : x = <<r, s>>
      BY <1>2
    <3>2. PICK s2 \in Plan!Slots : x = <<t, s2>>
      BY <1>2
    <3> QED BY <3>1, <3>2
  <2>3. NewIsFresh
    BY <1>3, <2>1 DEF NewIsFresh
  <2> QED BY <1>3, <2>2, <2>3 DEF RowsApart
<1>8. RowsFit /\ AllStored /\ EnabledAsAsked /\ NothingLeft
  BY <1>1, <1>2, <1>3, <1>4 DEF RowsFit, AllStored, EnabledAsAsked, NothingLeft
<1>9. RoomInv
  <2>1. Plan!Filling = {}
    BY <1>1 DEF Plan!Filling, Plan!At, Plan!Idle
  <2>2. IsFiniteSet(Plan!Counted) /\ Limit \in Nat
    BY SameFiniteSets, FS_Subset DEF Plan!Counted
  <2>3. Cardinality(Plan!Counted) \in Nat /\ Cardinality(Plan!Filling) = 0
    BY <2>1, <2>2, FS_CardinalityType, FS_EmptySet
  <2>4. Plan!Counted \ beyond = Plan!Counted
    BY <1>1
  <2> QED BY <1>1, <2>2, <2>3, <2>4 DEF RoomInv
<1> QED BY <1>5, <1>6, <1>7, <1>8, <1>9 DEF PlanInv, SecretInv

(* The forms a request takes.                                              *)
LEMMA Forms ==
  ASSUME PlanTypeOK, NEW q \in Requests
  PROVE  /\ Busy(q) <=> request[q] \in Job
         /\ Purging(q) <=> request[q] \in Purge
         /\ ~Busy(q) /\ ~Purging(q) <=>
              request[q] = Plan!Idle \/ request[q] = [at |-> "done"]
         /\ \A r : Plan!About(q, r) <=> Busy(q) /\ request[q].r = r
         /\ Busy(q) => /\ request[q].r \in Resources
                       /\ Seen(q) \subseteq Plan!Refs /\ New(q) \subseteq Plan!Refs
<1> USE DEF PlanTypeOK, Busy, Purging
<1>1. request[q] \in Job \cup Purge \cup {Plan!Idle, [at |-> "done"]}
  OBVIOUS
<1>2. CASE request[q] \in Job
  BY <1>2 DEF Job, Purge, Plan!Idle, Plan!About, Row, RefMap, Seen, New, RefsIn
<1>3. CASE request[q] \in Purge
  BY <1>3 DEF Job, Purge, Plan!Idle, Plan!About
<1>4. CASE request[q] = Plan!Idle
  BY <1>4 DEF Job, Purge, Plan!Idle, Plan!About
<1>5. CASE request[q] = [at |-> "done"]
  BY <1>5 DEF Job, Purge, Plan!Idle, Plan!About
<1> QED BY <1>1, <1>2, <1>3, <1>4, <1>5

LEMMA HeldAreRefs ==
  ASSUME PlanTypeOK, NEW r \in Resources
  PROVE  Held(r) \subseteq Plan!Refs /\ resource[r].refs \in RefMap
BY DEF PlanTypeOK, Row, Held, RefsIn, RefMap

(* What a step does to the request of q alone.                             *)
Becomes(q, next) ==
  /\ request' = [request EXCEPT ![q] = next]
  /\ next \in Job \cup Purge \cup {Plan!Idle, [at |-> "done"]}
  /\ crowd' \in Nat \ {0}
  /\ UNCHANGED <<kind, resource, suspended, wanted, beyond, muddled>>

LEMMA OthersStay ==
  ASSUME PlanTypeOK, NEW q \in Requests, NEW next,
         request' = [request EXCEPT ![q] = next],
         next \in Job \cup Purge \cup {Plan!Idle, [at |-> "done"]}
  PROVE  /\ request' \in [Requests -> Job \cup Purge \cup {Plan!Idle, [at |-> "done"]}]
         /\ request'[q] = next
         /\ \A p \in Requests \ {q} :
              /\ request'[p] = request[p]
              /\ (Busy(p)' <=> Busy(p)) /\ (Purging(p)' <=> Purging(p))
              /\ (Creates(p)' <=> Creates(p)) /\ (Changes(p)' <=> Changes(p))
              /\ Seen(p)' = Seen(p) /\ New(p)' = New(p)
              /\ (Plan!At(p, "idle")' <=> Plan!At(p, "idle"))
BY DEF PlanTypeOK, Busy, Purging, Creates, Changes, Seen, New, Plan!At

(* A request ends and leaves nothing, or the ghost says so.                *)
LEMMA Stops ==
  ASSUME PlanTypeOK, SecretInv, NEW q \in Requests, Becomes(q, [at |-> "done"]),
         UNCHANGED secrets, late' \subseteq Requests, late' \ {q} = late \ {q},
         clean' \in BOOLEAN,
         clean' => /\ clean
                   /\ Busy(q) => New(q) = {}
                   /\ Purging(q) => request[q].old = {}
  PROVE  PlanTypeOK' /\ SecretInv'
<1> DEFINE next == [at |-> "done"]
<1>1. /\ request'[q] = next
      /\ ~Busy(q)' /\ ~Purging(q)' /\ ~Creates(q)' /\ ~Changes(q)'
      /\ ~Plan!At(q, "idle")'
  <2>1. request'[q] = next
    BY DEF Becomes, PlanTypeOK
  <2> QED BY <2>1 DEF Busy, Purging, Creates, Changes, Plan!At
<1>2. /\ request' \in [Requests -> Job \cup Purge \cup {Plan!Idle, [at |-> "done"]}]
      /\ \A p \in Requests \ {q} :
           /\ request'[p] = request[p]
           /\ (Busy(p)' <=> Busy(p)) /\ (Purging(p)' <=> Purging(p))
           /\ (Creates(p)' <=> Creates(p)) /\ (Changes(p)' <=> Changes(p))
           /\ Seen(p)' = Seen(p) /\ New(p)' = New(p)
           /\ (Plan!At(p, "idle")' <=> Plan!At(p, "idle"))
  BY OthersStay DEF Becomes
<1>3. \A r \in Resources : Held(r)' = Held(r) /\ (Plan!Live(r)' <=> Plan!Live(r))
  BY DEF Becomes, Held, Plan!Live
<1>4. PlanTypeOK'
  BY <1>2 DEF PlanTypeOK, Becomes
<1>0. UNCHANGED <<kind, resource, suspended, wanted, beyond, muddled, secrets>>
  BY DEF Becomes
<1> USE DEF SecretInv
<1>5. JobsFit' /\ RowsFit' /\ NewIsOwn'
  <2>1. \A p \in Requests : Busy(p)' => p # q /\ Busy(p) /\ request'[p] = request[p]
    BY <1>1, <1>2
  <2>2. JobsFit'
    <3>1. JobsFit /\ kind' = kind
      BY <1>0
    <3> QED BY ONLY <2>1, <3>1 DEF JobsFit
  <2>3. RowsFit'
    BY <1>0 DEF RowsFit, Plan!Live
  <2>4. NewIsOwn'
    BY <2>1 DEF NewIsOwn
  <2> QED BY <2>2, <2>3, <2>4
<1>6. CreatesAlone'
  <2> SUFFICES ASSUME NEW p \in Requests, Creates(p)'
               PROVE  /\ resource'[request'[p].r] = Plan!Absent
                      /\ \A o \in Requests \ {p} : Busy(o)' => request'[o].r # request'[p].r
    BY DEF CreatesAlone
  <2>1. p # q /\ Creates(p) /\ request'[p] = request[p]
    BY <1>1, <1>2
  <2>2. /\ resource[request[p].r] = Plan!Absent
        /\ \A o \in Requests \ {p} : Busy(o) => request[o].r # request[p].r
    BY <2>1 DEF CreatesAlone
  <2>3. resource'[request'[p].r] = Plan!Absent
    BY <1>0, <2>1, <2>2
  <2>4. ASSUME NEW o \in Requests \ {p}, Busy(o)' PROVE request'[o].r # request'[p].r
    <3>1. o # q /\ Busy(o) /\ request'[o] = request[o]
      BY <1>1, <1>2, <2>4
    <3> QED BY <2>1, <2>2, <3>1
  <2> QED BY <2>3, <2>4
<1>7. NewIsFresh'
  <2> SUFFICES ASSUME NEW p \in Requests, NEW s \in Plan!Slots,
                      Busy(p)' \/ Plan!At(p, "idle")'
               PROVE  /\ \A r \in Resources : <<p, s>> \notin Held(r)'
                      /\ \A o \in Requests : Busy(o)' => <<p, s>> \notin Seen(o)'
                      /\ \A o \in Requests : Purging(o)' => <<p, s>> \notin request'[o].old
    BY DEF NewIsFresh
  <2>1. Busy(p) \/ Plan!At(p, "idle")
    BY <1>1, <1>2
  <2>2. /\ \A r \in Resources : <<p, s>> \notin Held(r)
        /\ \A o \in Requests : Busy(o) => <<p, s>> \notin Seen(o)
        /\ \A o \in Requests : Purging(o) => <<p, s>> \notin request[o].old
    BY <2>1 DEF NewIsFresh
  <2> QED BY <1>1, <1>2, <1>3, <2>2
<1>8. RowsApart'
  BY <1>1, <1>2, <1>3 DEF RowsApart
<1>9. SeenIsHeld' /\ VersionsTell'
  BY <1>0, <1>1, <1>2 DEF SeenIsHeld, VersionsTell
<1>10. OldIsUnused' /\ AllStored' /\ EnabledAsAsked'
  BY <1>0, <1>1, <1>2, <1>3 DEF OldIsUnused, AllStored, EnabledAsAsked
<1>11. NothingLeft'
  BY <1>0, <1>1, <1>2, <1>3 DEF NothingLeft
<1> QED BY <1>4, <1>5, <1>6, <1>7, <1>8, <1>9, <1>10, <1>11

(* A request stores secrets, or goes on to its write.                      *)
LEMMA Moves ==
  ASSUME PlanTypeOK, SecretInv, NEW q \in Requests, NEW next \in Job, Busy(q),
         Becomes(q, next),
         next.op = request[q].op, next.r = request[q].r, next.seen = request[q].seen,
         next.enabled = request[q].enabled, Fits(next, kind),
         \A s \in Plan!Slots : next.new[s] \in {request[q].new[s], <<q, s>>},
         secrets' = secrets \cup RefsIn(next.new), UNCHANGED <<late, clean>>
  PROVE  PlanTypeOK' /\ SecretInv'
<1>0. UNCHANGED <<kind, resource, suspended, wanted, beyond, muddled>>
  BY DEF Becomes
<1>1. /\ request' \in [Requests -> Job \cup Purge \cup {Plan!Idle, [at |-> "done"]}]
      /\ request'[q] = next
      /\ \A p \in Requests \ {q} :
           /\ request'[p] = request[p]
           /\ (Busy(p)' <=> Busy(p)) /\ (Purging(p)' <=> Purging(p))
           /\ (Creates(p)' <=> Creates(p)) /\ (Changes(p)' <=> Changes(p))
           /\ Seen(p)' = Seen(p) /\ New(p)' = New(p)
           /\ (Plan!At(p, "idle")' <=> Plan!At(p, "idle"))
  BY OthersStay DEF Becomes
<1>2. next.at \in {"secret", "write"} /\ next.new \in RefMap
  BY DEF Job
<1>3. /\ Busy(q)' /\ ~Purging(q)' /\ ~Purging(q) /\ ~Plan!At(q, "idle")'
      /\ (Creates(q)' <=> Creates(q)) /\ (Changes(q)' <=> Changes(q))
      /\ Seen(q)' = Seen(q) /\ New(q)' = RefsIn(next.new)
  BY <1>1, <1>2 DEF Busy, Purging, Creates, Changes, Seen, New, Plan!At
<1>4. \A r \in Resources : Held(r)' = Held(r) /\ (Plan!Live(r)' <=> Plan!Live(r))
  BY <1>0 DEF Held, Plan!Live
<1>5. PlanTypeOK'
  <2>1. secrets' \subseteq Plan!Refs
    BY <1>2 DEF PlanTypeOK, RefsIn, RefMap
  <2> QED BY <1>0, <1>1, <2>1 DEF PlanTypeOK, Becomes
<1> USE DEF SecretInv
<1>6. \A p \in Requests :
        /\ (Busy(p)' <=> Busy(p)) /\ (Creates(p)' <=> Creates(p)) /\ (Changes(p)' <=> Changes(p))
        /\ (Purging(p)' <=> Purging(p))
        /\ Busy(p) \/ Plan!At(p, "idle")' => Busy(p) \/ Plan!At(p, "idle")
        /\ Busy(p) => /\ request'[p].r = request[p].r /\ request'[p].seen = request[p].seen
                      /\ request'[p].enabled = request[p].enabled
                      /\ Seen(p)' = Seen(p)
        /\ ~Busy(p) => request'[p] = request[p]
  <2> TAKE p \in Requests
  <2>1. CASE p = q
    BY <1>1, <1>3, <2>1
  <2>2. CASE p # q
    BY <1>1, <2>2
  <2> QED BY <2>1, <2>2
<1>7. JobsFit' /\ RowsFit'
  BY <1>0, <1>1, <1>6 DEF JobsFit, RowsFit, Plan!Live
<1>8. NewIsOwn'
  <2>1. \A s \in Plan!Slots : next.new[s] \in {None, <<q, s>>}
    BY DEF NewIsOwn
  <2> QED BY <1>1, <1>6, <2>1 DEF NewIsOwn
<1>9. CreatesAlone'
  <2> SUFFICES ASSUME NEW p \in Requests, Creates(p)'
               PROVE  /\ resource'[request'[p].r] = Plan!Absent
                      /\ \A o \in Requests \ {p} : Busy(o)' => request'[o].r # request'[p].r
    BY DEF CreatesAlone
  <2>1. Creates(p) /\ request'[p].r = request[p].r
    BY <1>6 DEF Creates
  <2>2. /\ resource[request[p].r] = Plan!Absent
        /\ \A o \in Requests \ {p} : Busy(o) => request[o].r # request[p].r
    BY <2>1 DEF CreatesAlone
  <2> QED BY <1>0, <1>6, <2>1, <2>2
<1>10. NewIsFresh'
  <2> SUFFICES ASSUME NEW p \in Requests, NEW s \in Plan!Slots,
                      Busy(p)' \/ Plan!At(p, "idle")'
               PROVE  /\ \A r \in Resources : <<p, s>> \notin Held(r)'
                      /\ \A o \in Requests : Busy(o)' => <<p, s>> \notin Seen(o)'
                      /\ \A o \in Requests : Purging(o)' => <<p, s>> \notin request'[o].old
    BY DEF NewIsFresh
  <2>1. Busy(p) \/ Plan!At(p, "idle")
    BY <1>6
  <2>2. /\ \A r \in Resources : <<p, s>> \notin Held(r)
        /\ \A o \in Requests : Busy(o) => <<p, s>> \notin Seen(o)
        /\ \A o \in Requests : Purging(o) => <<p, s>> \notin request[o].old
    BY <2>1 DEF NewIsFresh
  <2> QED BY <1>1, <1>3, <1>4, <1>6, <2>2
<1>11. RowsApart'
  BY <1>4, <1>6 DEF RowsApart
<1>12. SeenIsHeld' /\ VersionsTell'
  <2>1. \A p \in Requests : Changes(p)' => Changes(p) /\ Busy(p)
    BY <1>6 DEF Changes
  <2> QED BY <1>0, <1>6, <2>1 DEF SeenIsHeld, VersionsTell
<1>13. OldIsUnused' /\ EnabledAsAsked'
  BY <1>0, <1>1, <1>3, <1>4 DEF OldIsUnused, EnabledAsAsked
<1>14. AllStored'
  BY <1>0, <1>1, <1>3, <1>4 DEF AllStored
<1>15. NothingLeft'
  <2>1. New(q) \subseteq New(q)'
    BY <1>3 DEF New, RefsIn, NewIsOwn
  <2> SUFFICES ASSUME clean, NEW x \in secrets'
               PROVE  \/ \E r \in Resources : x \in Held(r)'
                      \/ \E p \in Requests : Busy(p)' /\ x \in New(p)'
                      \/ \E p \in Requests : Purging(p)' /\ x \in request'[p].old
    BY <1>0 DEF NothingLeft
  <2>2. CASE x \in secrets
    <3>1. \/ \E r \in Resources : x \in Held(r)
          \/ \E p \in Requests : Busy(p) /\ x \in New(p)
          \/ \E p \in Requests : Purging(p) /\ x \in request[p].old
      BY <2>2 DEF NothingLeft
    <3> QED BY <1>1, <1>3, <1>4, <2>1, <3>1
  <2>3. CASE x \in RefsIn(next.new)
    BY <1>3, <2>3
  <2> QED BY <2>2, <2>3
<1> QED BY <1>5, <1>7, <1>8, <1>9, <1>10, <1>11, <1>12, <1>13, <1>14, <1>15

(* A request begins: it has read its row, or nobody knows it.              *)
LEMMA Starts ==
  ASSUME PlanTypeOK, SecretInv, NEW q \in Requests, NEW next \in Job, Plan!At(q, "idle"),
         Becomes(q, next), Fits(next, kind), next.new = Plan!NoRefs,
         UNCHANGED <<secrets, clean>>, late' \subseteq Requests, late' \ {q} = late \ {q},
         next.op = "create" =>
           /\ resource[next.r] = Plan!Absent
           /\ \A p \in Requests : Busy(p) => request[p].r # next.r,
         next.op # "create" =>
           /\ resource[next.r] # Plan!Absent
           /\ next.seen.refs = resource[next.r].refs
           /\ next.seen.version = resource[next.r].version
           /\ q \notin late' /\ next.enabled = {} => resource[next.r].enabled = next.seen.enabled
           /\ kind = "patterns" => q \notin late'
  PROVE  PlanTypeOK' /\ SecretInv'
<1>0. UNCHANGED <<kind, resource, suspended, wanted, beyond, muddled>>
  BY DEF Becomes
<1>1. /\ request' \in [Requests -> Job \cup Purge \cup {Plan!Idle, [at |-> "done"]}]
      /\ request'[q] = next
      /\ \A p \in Requests \ {q} :
           /\ request'[p] = request[p]
           /\ (Busy(p)' <=> Busy(p)) /\ (Purging(p)' <=> Purging(p))
           /\ (Creates(p)' <=> Creates(p)) /\ (Changes(p)' <=> Changes(p))
           /\ Seen(p)' = Seen(p) /\ New(p)' = New(p)
           /\ (Plan!At(p, "idle")' <=> Plan!At(p, "idle"))
  BY OthersStay DEF Becomes
<1>2. next.at \in {"secret", "write"} /\ next.r \in Resources
  BY DEF Job
<1>3. /\ Busy(q)' /\ ~Busy(q) /\ ~Purging(q)' /\ ~Purging(q)
      /\ Seen(q)' = RefsIn(next.seen.refs) /\ New(q)' = RefsIn(next.new)
      /\ Creates(q)' <=> next.op = "create"
      /\ Changes(q)' <=> next.op # "create"
  BY <1>1, <1>2 DEF Busy, Purging, Creates, Changes, Seen, New, Plan!At
<1>4. \A r \in Resources : Held(r)' = Held(r) /\ (Plan!Live(r)' <=> Plan!Live(r))
  BY <1>0 DEF Held, Plan!Live
<1>5. New(q)' = {}
  BY <1>3 DEF RefsIn, Plan!NoRefs
<1>6. Seen(q)' \subseteq Held(next.r)
  <2>1. CASE next.op = "create"
    BY <1>3, <2>1 DEF Fits, RefsIn, Plan!Absent, Plan!NoRefs
  <2>2. CASE next.op # "create"
    BY <1>3, <2>2 DEF Held
  <2> QED BY <2>1, <2>2
<1>7. PlanTypeOK'
  BY <1>0, <1>1 DEF PlanTypeOK, Becomes
<1> USE DEF SecretInv
<1>8. JobsFit' /\ RowsFit' /\ NewIsOwn'
  <2>1. JobsFit'
    BY <1>0, <1>1 DEF JobsFit
  <2>2. RowsFit'
    BY <1>0 DEF RowsFit, Plan!Live
  <2>3. \A s \in Plan!Slots : next.new[s] = None
    BY DEF Plan!NoRefs
  <2>4. NewIsOwn'
    BY <1>1, <2>3 DEF NewIsOwn
  <2> QED BY <2>1, <2>2, <2>4
<1>9. CreatesAlone'
  <2> SUFFICES ASSUME NEW p \in Requests, Creates(p)', NEW o \in Requests \ {p}, Busy(o)'
               PROVE  /\ resource'[request'[p].r] = Plan!Absent
                      /\ request'[o].r # request'[p].r
    <3>1. ASSUME NEW p \in Requests, Creates(p)'
          PROVE  resource'[request'[p].r] = Plan!Absent
      <4>1. CASE p = q
        BY <1>0, <1>1, <1>3, <3>1, <4>1
      <4>2. CASE p # q
        BY <1>0, <1>1, <3>1, <4>2 DEF CreatesAlone
      <4> QED BY <4>1, <4>2
    <3> QED BY <3>1 DEF CreatesAlone
  <2>1. CASE p = q
    BY <1>0, <1>1, <1>3, <2>1
  <2>2. CASE p # q
    <3>1. /\ Creates(p) /\ resource[request[p].r] = Plan!Absent
          /\ request'[p] = request[p]
          /\ \A b \in Requests \ {p} : Busy(b) => request[b].r # request[p].r
      BY <1>1, <2>2 DEF CreatesAlone
    <3>2. CASE o = q
      <4>1. Busy(p)
        BY <3>1 DEF Creates
      <4> QED BY <1>0, <1>1, <3>1, <3>2, <4>1
    <3>3. CASE o # q
      BY <1>0, <1>1, <3>1, <3>3
    <3> QED BY <3>2, <3>3
  <2> QED BY <2>1, <2>2
<1>10. NewIsFresh'
  <2> SUFFICES ASSUME NEW p \in Requests, NEW s \in Plan!Slots,
                      Busy(p)' \/ Plan!At(p, "idle")'
               PROVE  /\ \A r \in Resources : <<p, s>> \notin Held(r)'
                      /\ \A o \in Requests : Busy(o)' => <<p, s>> \notin Seen(o)'
                      /\ \A o \in Requests : Purging(o)' => <<p, s>> \notin request'[o].old
    BY DEF NewIsFresh
  <2>1. Busy(p) \/ Plan!At(p, "idle")
    BY <1>1
  <2>2. /\ \A r \in Resources : <<p, s>> \notin Held(r)
        /\ \A o \in Requests : Busy(o) => <<p, s>> \notin Seen(o)
        /\ \A o \in Requests : Purging(o) => <<p, s>> \notin request[o].old
    BY <2>1 DEF NewIsFresh
  <2> QED BY <1>1, <1>2, <1>3, <1>4, <1>6, <2>2
<1>11. RowsApart'
  <2>1. \A r, t \in Resources : r # t => Held(r)' \cap Held(t)' = {}
    BY <1>4 DEF RowsApart
  <2>2. ASSUME NEW p \in Requests, NEW t \in Resources, Busy(p)', request'[p].r # t
        PROVE  Seen(p)' \cap Held(t)' = {}
    <3>1. CASE p = q
      BY <1>1, <1>2, <1>4, <1>6, <2>2, <3>1 DEF RowsApart
    <3>2. CASE p # q
      BY <1>1, <1>4, <2>2, <3>2 DEF RowsApart
    <3> QED BY <3>1, <3>2
  <2>3. ASSUME NEW p \in Requests, NEW o \in Requests, Busy(p)', Busy(o)', p # q,
               request'[p].r # request'[o].r
        PROVE  Seen(p)' \cap Seen(o)' = {}
    <3>1. CASE o = q
      BY <1>1, <1>2, <1>6, <2>3, <3>1 DEF RowsApart
    <3>2. CASE o # q
      BY <1>1, <2>3, <3>2 DEF RowsApart
    <3> QED BY <3>1, <3>2
  <2>4. ASSUME NEW p \in Requests, NEW o \in Requests, Busy(p)', Busy(o)',
               request'[p].r # request'[o].r
        PROVE  Seen(p)' \cap Seen(o)' = {}
    <3>1. CASE p # q
      BY <2>3, <2>4, <3>1
    <3>2. CASE o # q
      BY <2>3, <2>4, <3>2
    <3>3. CASE p = q /\ o = q
      BY <2>4, <3>3
    <3> QED BY <3>1, <3>2, <3>3
  <2> QED BY <2>1, <2>2, <2>4 DEF RowsApart
<1>12. SeenIsHeld'
  <2> SUFFICES ASSUME NEW p \in Requests, Changes(p)', p \notin late'
               PROVE  /\ resource'[request'[p].r].refs = request'[p].seen.refs
                      /\ request'[p].enabled = {} =>
                           resource'[request'[p].r].enabled = request'[p].seen.enabled
    BY DEF SeenIsHeld
  <2>1. CASE p = q
    BY <1>0, <1>1, <1>3, <2>1
  <2>2. CASE p # q
    BY <1>0, <1>1, <2>2 DEF SeenIsHeld
  <2> QED BY <2>1, <2>2
<1>13. VersionsTell'
  <2> SUFFICES ASSUME NEW p \in Requests, Changes(p)', kind = "patterns"
               PROVE  /\ request'[p].seen.version <= resource'[request'[p].r].version
                      /\ p \in late' =>
                           request'[p].seen.version < resource'[request'[p].r].version
    BY <1>0 DEF VersionsTell
  <2>1. CASE p = q
    <3>1. resource[next.r].version \in Nat
      BY <1>2 DEF PlanTypeOK, Row
    <3> QED BY <1>0, <1>1, <1>3, <2>1, <3>1
  <2>2. CASE p # q
    BY <1>0, <1>1, <2>2 DEF VersionsTell
  <2> QED BY <2>1, <2>2
<1>14. OldIsUnused' /\ EnabledAsAsked' /\ AllStored'
  <2>1. OldIsUnused'
    BY <1>0, <1>1, <1>3, <1>4 DEF OldIsUnused
  <2>2. EnabledAsAsked'
    BY <1>0, <1>4 DEF EnabledAsAsked
  <2>3. AllStored'
    BY <1>0, <1>1, <1>4, <1>5 DEF AllStored
  <2> QED BY <2>1, <2>2, <2>3
<1>15. NothingLeft'
  <2> SUFFICES ASSUME clean, NEW x \in secrets
               PROVE  \/ \E r \in Resources : x \in Held(r)'
                      \/ \E p \in Requests : Busy(p)' /\ x \in New(p)'
                      \/ \E p \in Requests : Purging(p)' /\ x \in request'[p].old
    BY <1>0 DEF NothingLeft
  <2>1. \/ \E r \in Resources : x \in Held(r)
        \/ \E p \in Requests : Busy(p) /\ x \in New(p)
        \/ \E p \in Requests : Purging(p) /\ x \in request[p].old
    BY DEF NothingLeft
  <2> QED BY <1>1, <1>3, <1>4, <2>1
<1> QED BY <1>7, <1>8, <1>9, <1>10, <1>11, <1>12, <1>13, <1>14, <1>15

(* A secret is deleted, or its deletion fails.                             *)
LEMMA Deletes ==
  ASSUME PlanTypeOK, SecretInv, NEW q \in Requests, Purging(q), NEW x \in request[q].old,
         Becomes(q, [at |-> "purge", old |-> request[q].old \ {x}]),
         secrets' \in {secrets, secrets \ {x}},
         clean' \in BOOLEAN, clean' => clean /\ secrets' # secrets,
         UNCHANGED late
  PROVE  PlanTypeOK' /\ SecretInv'
<1> DEFINE next == [at |-> "purge", old |-> request[q].old \ {x}]
<1>0. UNCHANGED <<kind, resource, suspended, wanted, beyond, muddled>>
  BY DEF Becomes
<1>1. /\ request' \in [Requests -> Job \cup Purge \cup {Plan!Idle, [at |-> "done"]}]
      /\ request'[q] = next
      /\ \A p \in Requests \ {q} :
           /\ request'[p] = request[p]
           /\ (Busy(p)' <=> Busy(p)) /\ (Purging(p)' <=> Purging(p))
           /\ (Creates(p)' <=> Creates(p)) /\ (Changes(p)' <=> Changes(p))
           /\ Seen(p)' = Seen(p) /\ New(p)' = New(p)
           /\ (Plan!At(p, "idle")' <=> Plan!At(p, "idle"))
  BY OthersStay DEF Becomes
<1>2. /\ ~Busy(q)' /\ ~Busy(q) /\ Purging(q)' /\ ~Creates(q)' /\ ~Changes(q)'
      /\ ~Plan!At(q, "idle")'
  BY <1>1 DEF Busy, Purging, Creates, Changes, Plan!At
<1>3. request'[q].old = request[q].old \ {x}
  BY <1>1
<1>4. \A r \in Resources : Held(r)' = Held(r) /\ (Plan!Live(r)' <=> Plan!Live(r))
  BY <1>0 DEF Held, Plan!Live
<1>5. \A p \in Requests : Busy(p)' => p # q /\ Busy(p) /\ request'[p] = request[p]
  BY <1>1, <1>2
<1>6. PlanTypeOK'
  BY <1>0, <1>1 DEF PlanTypeOK, Becomes
<1> HIDE DEF next
<1> USE DEF SecretInv
<1>7. JobsFit' /\ RowsFit' /\ NewIsOwn'
  <2>1. JobsFit'
    BY <1>0, <1>5 DEF JobsFit
  <2>2. RowsFit'
    BY <1>0 DEF RowsFit, Plan!Live
  <2>3. NewIsOwn'
    BY <1>5 DEF NewIsOwn
  <2> QED BY <2>1, <2>2, <2>3
<1>8. CreatesAlone'
  <2> SUFFICES ASSUME NEW p \in Requests, Creates(p)'
               PROVE  /\ resource'[request'[p].r] = Plan!Absent
                      /\ \A o \in Requests \ {p} : Busy(o)' => request'[o].r # request'[p].r
    BY DEF CreatesAlone
  <2>1. Creates(p) /\ request'[p] = request[p]
    BY <1>1, <1>2
  <2>2. /\ resource[request[p].r] = Plan!Absent
        /\ \A o \in Requests \ {p} : Busy(o) => request[o].r # request[p].r
    BY <2>1 DEF CreatesAlone
  <2> QED BY <1>0, <1>5, <2>1, <2>2
<1>9. NewIsFresh'
  <2> SUFFICES ASSUME NEW p \in Requests, NEW s \in Plan!Slots,
                      Busy(p)' \/ Plan!At(p, "idle")'
               PROVE  /\ \A r \in Resources : <<p, s>> \notin Held(r)'
                      /\ \A o \in Requests : Busy(o)' => <<p, s>> \notin Seen(o)'
                      /\ \A o \in Requests : Purging(o)' => <<p, s>> \notin request'[o].old
    BY DEF NewIsFresh
  <2>1. Busy(p) \/ Plan!At(p, "idle")
    BY <1>1, <1>2
  <2>2. /\ \A r \in Resources : <<p, s>> \notin Held(r)
        /\ \A o \in Requests : Busy(o) => <<p, s>> \notin Seen(o)
        /\ \A o \in Requests : Purging(o) => <<p, s>> \notin request[o].old
    BY <2>1 DEF NewIsFresh
  <2> QED BY <1>1, <1>2, <1>3, <1>4, <2>2
<1>10. RowsApart'
  BY <1>1, <1>4, <1>5 DEF RowsApart
<1>11. SeenIsHeld' /\ VersionsTell'
  BY <1>0, <1>1, <1>2 DEF SeenIsHeld, VersionsTell
<1>12. OldIsUnused' /\ EnabledAsAsked'
  BY <1>0, <1>1, <1>3, <1>4 DEF OldIsUnused, EnabledAsAsked
<1>13. AllStored'
  <2>1. ASSUME NEW r \in Resources \ muddled PROVE Held(r)' \subseteq secrets'
    <3>1. x \notin Held(r) /\ Held(r) \subseteq secrets
      BY DEF OldIsUnused, AllStored
    <3> QED BY <1>4, <3>1
  <2>2. ASSUME NEW p \in Requests, Busy(p)' PROVE New(p)' \subseteq secrets'
    <3>1. p # q /\ Busy(p) /\ New(p)' = New(p)
      BY <1>1, <1>5, <2>2
    <3>2. New(p) \subseteq {<<p, s>> : s \in Plan!Slots}
      BY <3>1 DEF NewIsOwn, New, RefsIn
    <3>3. \A s \in Plan!Slots : <<p, s>> \notin request[q].old
      BY <3>1 DEF NewIsFresh
    <3>4. x \notin New(p) /\ New(p) \subseteq secrets
      BY <3>1, <3>2, <3>3 DEF AllStored
    <3> QED BY <3>1, <3>4
  <2> QED BY <1>0, <2>1, <2>2 DEF AllStored
<1>14. NothingLeft'
  <2> SUFFICES ASSUME clean', NEW y \in secrets'
               PROVE  \/ \E r \in Resources : y \in Held(r)'
                      \/ \E p \in Requests : Busy(p)' /\ y \in New(p)'
                      \/ \E p \in Requests : Purging(p)' /\ y \in request'[p].old
    BY <1>0 DEF NothingLeft
  <2>1. y \in secrets /\ y # x
    OBVIOUS
  <2>2. \/ \E r \in Resources : y \in Held(r)
        \/ \E p \in Requests : Busy(p) /\ y \in New(p)
        \/ \E p \in Requests : Purging(p) /\ y \in request[p].old
    BY <2>1 DEF NothingLeft
  <2> QED BY <1>1, <1>2, <1>3, <1>4, <2>1, <2>2
<1> QED BY <1>6, <1>7, <1>8, <1>9, <1>10, <1>11, <1>12, <1>13, <1>14

(* What a request writes, and what it means for the others.               *)
Rewrites(q, r, row, next) ==
  /\ request' = [request EXCEPT ![q] = next]
  /\ resource' = [resource EXCEPT ![r] = row]
  /\ UNCHANGED <<kind, secrets, suspended>>
  /\ wanted' \in [Resources -> BOOLEAN]
  /\ \A t \in Resources \ {r} : wanted'[t] = wanted[t]
  /\ late' \subseteq Requests
  /\ \/ \A p \in Requests \ {q} : Busy(p) /\ request[p].r = r => p \in late'
     \/ row = resource[r] /\ late' = late
  /\ \A p \in Requests \ {q} :
       Changes(p) /\ request[p].r # r => (p \in late' <=> p \in late)
  /\ crowd' = crowd /\ beyond' \subseteq Resources
  /\ muddled' \in {muddled, muddled \cup {r}, muddled \ {r}}
  /\ clean' \in BOOLEAN
  /\ RefsIn(row.refs) \subseteq New(q) \cup Seen(q) \cup Held(r)
  /\ kind # "servers" \/ row.state # "live" => row.refs = Plan!NoRefs
  /\ kind = "patterns" =>
       muddled' = {} /\ (Changes(q) => resource[r].version < row.version)
  /\ next \in Purge => next.old \subseteq Seen(q)
  /\ next \in Purge /\ r \notin muddled' => next.old \cap RefsIn(row.refs) = {}
  /\ r \notin muddled' =>
       \/ RefsIn(row.refs) \subseteq New(q)
       \/ r \notin muddled /\ RefsIn(row.refs) \subseteq New(q) \cup Held(r)
  /\ r \notin muddled' /\ row.state = "live" => row.enabled = wanted'[r]
  /\ clean' =>
       /\ clean
       /\ \A x \in Held(r) \cup New(q) :
            x \in RefsIn(row.refs) \/ (next \in Purge /\ x \in next.old)

(* A request writes its row.                                               *)
LEMMA Writes ==
  ASSUME PlanTypeOK, SecretInv, NEW q \in Requests, Busy(q),
         NEW r, r = request[q].r, NEW row \in Row, NEW next \in Purge \cup {[at |-> "done"]},
         Rewrites(q, r, row, next)
  PROVE  PlanTypeOK' /\ SecretInv'
<1> USE DEF Rewrites
<1> DEFINE refs == RefsIn(row.refs)
<1>0. /\ next \in Job \cup Purge \cup {Plan!Idle, [at |-> "done"]}
      /\ next.at \in {"purge", "done"}
      /\ next.at = "purge" <=> next \in Purge
      /\ r \in Resources
  BY Forms DEF Purge
<1>1. /\ request' \in [Requests -> Job \cup Purge \cup {Plan!Idle, [at |-> "done"]}]
      /\ request'[q] = next
      /\ \A p \in Requests \ {q} :
           /\ request'[p] = request[p]
           /\ (Busy(p)' <=> Busy(p)) /\ (Purging(p)' <=> Purging(p))
           /\ (Creates(p)' <=> Creates(p)) /\ (Changes(p)' <=> Changes(p))
           /\ Seen(p)' = Seen(p) /\ New(p)' = New(p)
           /\ (Plan!At(p, "idle")' <=> Plan!At(p, "idle"))
  BY <1>0, OthersStay
<1>2. /\ ~Busy(q)' /\ ~Creates(q)' /\ ~Changes(q)' /\ ~Plan!At(q, "idle")'
      /\ Purging(q)' <=> next \in Purge
      /\ ~Purging(q)
  BY <1>0, <1>1 DEF Busy, Purging, Creates, Changes, Plan!At
<1>3. \A p \in Requests : Busy(p)' => p # q /\ Busy(p) /\ request'[p] = request[p]
  BY <1>1, <1>2
<1>4. /\ resource'[r] = row /\ Held(r)' = refs
      /\ \A t \in Resources \ {r} : resource'[t] = resource[t] /\ Held(t)' = Held(t)
  BY <1>0 DEF PlanTypeOK, Held
<1>5. PlanTypeOK'
  BY <1>0, <1>1 DEF PlanTypeOK
<1> USE DEF SecretInv
<1>6. /\ New(q) \subseteq {<<q, s>> : s \in Plan!Slots}
      /\ \A t \in Resources : New(q) \cap Held(t) = {}
      /\ \A p \in Requests : Busy(p) => New(q) \cap Seen(p) = {}
      /\ \A p \in Requests : Purging(p) => New(q) \cap request[p].old = {}
  <2>1. New(q) \subseteq {<<q, s>> : s \in Plan!Slots}
    BY DEF NewIsOwn, New, RefsIn
  <2> QED BY <2>1 DEF NewIsFresh
<1>7. \A p \in Requests \ {q} : Creates(p) => request[p].r # r
  BY DEF CreatesAlone
<1> HIDE DEF refs
<1>8. JobsFit' /\ RowsFit' /\ NewIsOwn'
  <2>1. JobsFit'
    BY <1>3 DEF JobsFit
  <2>2. RowsFit'
    BY <1>4 DEF RowsFit, Plan!Live
  <2>3. NewIsOwn'
    BY <1>3 DEF NewIsOwn
  <2> QED BY <2>1, <2>2, <2>3
<1>9. CreatesAlone'
  <2> SUFFICES ASSUME NEW p \in Requests, Creates(p)'
               PROVE  /\ resource'[request'[p].r] = Plan!Absent
                      /\ \A o \in Requests \ {p} : Busy(o)' => request'[o].r # request'[p].r
    BY DEF CreatesAlone
  <2>1. /\ Creates(p) /\ request'[p] = request[p] /\ request[p].r # r
        /\ request[p].r \in Resources
    BY <1>1, <1>2, <1>7, Forms DEF Creates
  <2>2. /\ resource[request[p].r] = Plan!Absent
        /\ \A o \in Requests \ {p} : Busy(o) => request[o].r # request[p].r
    BY <2>1 DEF CreatesAlone
  <2> QED BY <1>3, <1>4, <2>1, <2>2
<1>10. NewIsFresh'
  <2> SUFFICES ASSUME NEW p \in Requests, NEW s \in Plan!Slots,
                      Busy(p)' \/ Plan!At(p, "idle")'
               PROVE  /\ \A t \in Resources : <<p, s>> \notin Held(t)'
                      /\ \A o \in Requests : Busy(o)' => <<p, s>> \notin Seen(o)'
                      /\ \A o \in Requests : Purging(o)' => <<p, s>> \notin request'[o].old
    BY DEF NewIsFresh
  <2>1. p # q /\ (Busy(p) \/ Plan!At(p, "idle"))
    BY <1>1, <1>2
  <2>2. /\ \A t \in Resources : <<p, s>> \notin Held(t)
        /\ \A o \in Requests : Busy(o) => <<p, s>> \notin Seen(o)
        /\ \A o \in Requests : Purging(o) => <<p, s>> \notin request[o].old
    BY <2>1 DEF NewIsFresh
  <2>3. <<p, s>> \notin refs
    <3>1. <<p, s>> \notin New(q)
      BY <1>6, <2>1
    <3> QED BY <1>0, <2>2, <3>1 DEF refs
  <2> QED BY <1>1, <1>2, <1>3, <1>4, <2>2, <2>3
<1>11. \A t \in Resources \ {r} : refs \cap Held(t) = {}
  BY <1>0, <1>6 DEF refs, RowsApart
<1>12. \A p \in Requests : Busy(p) /\ request[p].r # r => Seen(p) \cap refs = {}
  BY <1>0, <1>6 DEF refs, RowsApart
<1>13. RowsApart'
  <2>1. ASSUME NEW s \in Resources, NEW t \in Resources, s # t
        PROVE  Held(s)' \cap Held(t)' = {}
    BY <1>4, <1>11, <2>1 DEF RowsApart
  <2>2. ASSUME NEW p \in Requests, NEW t \in Resources, Busy(p)', request'[p].r # t
        PROVE  Seen(p)' \cap Held(t)' = {}
    BY <1>1, <1>3, <1>4, <1>12, <2>2 DEF RowsApart
  <2>3. ASSUME NEW p \in Requests, NEW o \in Requests, Busy(p)', Busy(o)',
               request'[p].r # request'[o].r
        PROVE  Seen(p)' \cap Seen(o)' = {}
    BY <1>1, <1>3, <2>3 DEF RowsApart
  <2> QED BY <2>1, <2>2, <2>3 DEF RowsApart
<1>14. SeenIsHeld'
  <2> SUFFICES ASSUME NEW p \in Requests, Changes(p)', p \notin late'
               PROVE  /\ resource'[request'[p].r].refs = request'[p].seen.refs
                      /\ request'[p].enabled = {} =>
                           resource'[request'[p].r].enabled = request'[p].seen.enabled
    BY DEF SeenIsHeld
  <2>1. p # q /\ Changes(p) /\ Busy(p) /\ request'[p] = request[p]
    BY <1>1, <1>2 DEF Changes
  <2>2. request[p].r \in Resources
    BY <2>1, Forms
  <2>3. request[p].r # r \/ (row = resource[r] /\ late' = late)
    BY <2>1
  <2>4. resource'[request[p].r] = resource[request[p].r] /\ p \notin late
    BY <1>4, <2>1, <2>2, <2>3
  <2> QED BY <2>1, <2>4 DEF SeenIsHeld
<1>15. VersionsTell'
  <2> SUFFICES ASSUME NEW p \in Requests, Changes(p)', kind = "patterns"
               PROVE  /\ request'[p].seen.version <= resource'[request'[p].r].version
                      /\ p \in late' =>
                           request'[p].seen.version < resource'[request'[p].r].version
    BY DEF VersionsTell
  <2>1. p # q /\ Changes(p) /\ Busy(p) /\ request'[p] = request[p]
    BY <1>1, <1>2 DEF Changes
  <2>2. /\ request[p].seen.version <= resource[request[p].r].version
        /\ p \in late => request[p].seen.version < resource[request[p].r].version
    BY <2>1 DEF VersionsTell
  <2>3. request[p].r \in Resources
    BY <2>1, Forms
  <2>4. CASE request[p].r = r /\ ~(row = resource[r] /\ late' = late)
    <3>1. Changes(q)
      BY <2>1, <2>4 DEF CreatesAlone, Creates, Changes
    <3>2. resource[r].version < row.version
      BY <3>1
    <3>3. resource[r].version \in Nat /\ row.version \in Nat /\ request[p].seen.version \in Nat
      <4>1. request[p] \in Job
        BY <2>1, Forms
      <4> QED BY <1>0, <4>1 DEF PlanTypeOK, Row, Job
    <3> QED BY <1>4, <2>1, <2>2, <2>4, <3>2, <3>3
  <2>5. CASE request[p].r # r \/ (row = resource[r] /\ late' = late)
    <3>1. resource'[request[p].r] = resource[request[p].r] /\ (p \in late' <=> p \in late)
      BY <1>4, <2>1, <2>3, <2>5
    <3> QED BY <2>1, <2>2, <3>1
  <2> QED BY <2>4, <2>5
<1>16. OldIsUnused'
  <2> SUFFICES ASSUME NEW p \in Requests, NEW t \in Resources \ muddled', Purging(p)'
               PROVE  request'[p].old \cap Held(t)' = {}
    BY DEF OldIsUnused
  <2>1. CASE p = q
    <3>1. next \in Purge /\ request'[p].old = next.old
      BY <1>1, <1>2, <2>1
    <3>2. CASE t = r
      BY <1>4, <3>1, <3>2 DEF refs
    <3>3. CASE t # r
      <4>1. Seen(q) \cap Held(t) = {}
        BY <3>3 DEF RowsApart
      <4> QED BY <1>4, <3>1, <3>3, <4>1
    <3> QED BY <3>2, <3>3
  <2>2. CASE p # q
    <3>1. Purging(p) /\ request'[p].old = request[p].old
      BY <1>1, <2>2
    <3>2. t \notin muddled => request[p].old \cap Held(t) = {}
      BY <3>1 DEF OldIsUnused
    <3>3. CASE t = r
      <4>1. \/ refs \subseteq New(q)
            \/ r \notin muddled /\ refs \subseteq New(q) \cup Held(r)
        BY <3>3 DEF refs
      <4> QED BY <1>4, <1>6, <3>1, <3>2, <3>3, <4>1
    <3>4. CASE t # r
      BY <1>4, <3>1, <3>2, <3>4
    <3> QED BY <3>3, <3>4
  <2> QED BY <2>1, <2>2
<1>17. EnabledAsAsked'
  <2>1. ASSUME NEW t \in Resources \ muddled', Plan!Live(t)'
        PROVE  resource'[t].enabled = wanted'[t]
    <3>1. CASE t = r
      BY <1>4, <2>1, <3>1 DEF Plan!Live
    <3>2. CASE t # r
      BY <1>4, <2>1, <3>2 DEF Plan!Live, EnabledAsAsked
    <3> QED BY <3>1, <3>2
  <2> QED BY <2>1 DEF EnabledAsAsked
<1>18. AllStored'
  <2>1. ASSUME NEW t \in Resources \ muddled' PROVE Held(t)' \subseteq secrets
    <3>1. (t \notin muddled => Held(t) \subseteq secrets) /\ New(q) \subseteq secrets
      BY DEF AllStored
    <3>2. CASE t = r
      <4>1. \/ refs \subseteq New(q)
            \/ r \notin muddled /\ refs \subseteq New(q) \cup Held(r)
        BY <3>2 DEF refs
      <4> QED BY <1>4, <3>1, <3>2, <4>1
    <3>3. CASE t # r
      BY <1>4, <3>1, <3>3
    <3> QED BY <3>2, <3>3
  <2>2. ASSUME NEW p \in Requests, Busy(p)' PROVE New(p)' \subseteq secrets
    BY <1>1, <1>3, <2>2 DEF AllStored
  <2> QED BY <2>1, <2>2 DEF AllStored
<1>19. NothingLeft'
  <2> SUFFICES ASSUME clean', NEW x \in secrets
               PROVE  \/ \E t \in Resources : x \in Held(t)'
                      \/ \E p \in Requests : Busy(p)' /\ x \in New(p)'
                      \/ \E p \in Requests : Purging(p)' /\ x \in request'[p].old
    BY DEF NothingLeft
  <2>1. clean
    OBVIOUS
  <2>2. \/ \E t \in Resources : x \in Held(t)
        \/ \E p \in Requests : Busy(p) /\ x \in New(p)
        \/ \E p \in Requests : Purging(p) /\ x \in request[p].old
    BY <2>1 DEF NothingLeft
  <2>3. CASE x \in Held(r) \cup New(q)
    <3>1. x \in refs \/ (next \in Purge /\ x \in next.old)
      BY <2>3 DEF refs
    <3> QED BY <1>0, <1>1, <1>2, <1>4, <3>1
  <2>4. CASE x \notin Held(r) \cup New(q)
    <3>1. CASE \E t \in Resources : x \in Held(t)
      BY <1>4, <2>4, <3>1
    <3>2. CASE \E p \in Requests : Busy(p) /\ x \in New(p)
      BY <1>1, <2>4, <3>2
    <3>3. CASE \E p \in Requests : Purging(p) /\ x \in request[p].old
      BY <1>1, <1>2, <3>3
    <3> QED BY <2>2, <3>1, <3>2, <3>3
  <2> QED BY <2>3, <2>4
<1> QED BY <1>5, <1>8, <1>9, <1>10, <1>13, <1>14, <1>15, <1>16, <1>17, <1>18, <1>19

-----------------------------------------------------------------------------
(* The actions, one after the other.                                       *)

LEMMA JobOf ==
  ASSUME PlanTypeOK, NEW q \in Requests, Busy(q)
  PROVE  /\ request[q] \in Job /\ request[q].r \in Resources
         /\ resource[request[q].r] \in Row /\ request[q].seen \in Row
         /\ request[q].seen.refs \in RefMap /\ request[q].new \in RefMap
         /\ resource[request[q].r].refs \in RefMap
         /\ request[q].at \in {"secret", "write"}
BY Forms DEF PlanTypeOK, Job, Row

LEMMA FillingIsFinite ==
  /\ IsFiniteSet(Plan!Filling) /\ IsFiniteSet(Plan!Filling')
  /\ Plan!Cardinality(Plan!Filling) \in Nat /\ Plan!Cardinality(Plan!Filling') \in Nat
<1>1. IsFiniteSet(Requests)
  BY PlanAssumption, SameFiniteSets DEF Plan!ResourcesAssumption
<1>2. Plan!Filling \subseteq Requests /\ Plan!Filling' \subseteq Requests
  BY DEF Plan!Filling
<1> QED BY <1>1, <1>2, FS_Subset, FS_CardinalityType, SameFiniteSets

LEMMA BeginKeeps ==
  ASSUME PlanTypeOK, SecretInv, NEW q \in Requests, NEW r \in Resources,
         NEW enabled \in BOOLEAN, NEW give \in SUBSET Plan!Slots,
         kind # "servers" => give = {}, Plan!Begin(q, r, enabled, give)
  PROVE  PlanTypeOK' /\ SecretInv'
<1> DEFINE next == [at |-> "secret", op |-> "create", r |-> r, seen |-> Plan!Absent,
                    give |-> give, new |-> Plan!NoRefs, enabled |-> {enabled}]
<1>1. /\ Plan!At(q, "idle") /\ resource[r] = Plan!Absent
      /\ \A p \in Requests : ~Plan!About(p, r)
      /\ late' = late \ {q}
      /\ crowd' = IF Plan!Cardinality(Plan!Filling') > crowd
                     THEN Plan!Cardinality(Plan!Filling') ELSE crowd
      /\ UNCHANGED <<kind, resource, secrets, suspended, wanted, beyond, muddled, clean>>
      /\ \/ request' = [request EXCEPT ![q] = next]
         \/ request' = [request EXCEPT ![q] = [at |-> "done"]]
  BY DEF Plan!Begin, Plan!Go, Plan!Done
<1>2. /\ ~Busy(q) /\ ~Purging(q) /\ late' \subseteq Requests /\ late' \ {q} = late \ {q}
      /\ clean' \in BOOLEAN
  BY <1>1 DEF Busy, Purging, Plan!At, PlanTypeOK
<1>0. crowd' \in Nat \ {0}
  <2>1. Plan!Cardinality(Plan!Filling') \in Nat
    BY FillingIsFinite
  <2> QED BY <1>1, <2>1 DEF PlanTypeOK
<1>3. CASE request' = [request EXCEPT ![q] = [at |-> "done"]]
  <2>1. Becomes(q, [at |-> "done"])
    BY <1>0, <1>1, <1>3 DEF Becomes
  <2> QED BY <1>1, <1>2, <2>1, Stops
<1>4. CASE request' = [request EXCEPT ![q] = next]
  <2>1. Plan!NoRefs \in RefMap
    BY DEF Plan!NoRefs, RefMap
  <2>2. Plan!Absent \in Row
    BY <2>1 DEF Plan!Absent, Row
  <2>3. next \in Job
    BY <2>1, <2>2 DEF Job
  <2>4. Becomes(q, next)
    BY <1>0, <1>1, <1>4, <2>3 DEF Becomes
  <2>5. Fits(next, kind)
    BY DEF Fits
  <2>6. \A p \in Requests : Busy(p) => request[p].r # r
    BY <1>1, Forms
  <2>7. next.op = "create" /\ next.r = r /\ next.new = Plan!NoRefs
    OBVIOUS
  <2> HIDE DEF next
  <2> QED BY <1>1, <1>2, <2>3, <2>4, <2>5, <2>6, <2>7, Starts
<1> QED BY <1>1, <1>3, <1>4

LEMMA BeginChangeKeeps ==
  ASSUME PlanTypeOK, SecretInv, NEW q \in Requests, NEW r \in Resources,
         NEW op \in {"update", "delete"}, NEW enabled \in SUBSET BOOLEAN,
         NEW give \in SUBSET Plan!Slots, Plan!BeginChange(q, r, op, enabled, give)
  PROVE  PlanTypeOK' /\ SecretInv'
<1> DEFINE next == [at |-> IF op = "delete" THEN "write" ELSE "secret", op |-> op, r |-> r,
                    seen |-> Plan!Effective(r), give |-> give, new |-> Plan!NoRefs,
                    enabled |-> enabled]
<1>1. /\ Plan!At(q, "idle") /\ kind # "keys" /\ Plan!Live(r)
      /\ kind = "patterns" => give = {} /\ enabled # {}
      /\ op = "delete" => give = {} /\ enabled = {FALSE}
      /\ late' = IF r \in suspended /\ enabled = {} THEN late \cup {q} ELSE late \ {q}
      /\ UNCHANGED <<kind, resource, secrets, suspended, wanted, crowd, beyond, muddled, clean>>
      /\ request' = [request EXCEPT ![q] = next]
  BY DEF Plan!BeginChange, Plan!Go
<1>2. resource[r] \in Row /\ late \subseteq Requests /\ kind \in {"servers", "patterns", "keys"}
  BY DEF PlanTypeOK
<1>3. late' \subseteq Requests /\ late' \ {q} = late \ {q}
  BY <1>1, <1>2
<1>4. /\ Plan!Effective(r) \in Row
      /\ Plan!Effective(r).refs = resource[r].refs
      /\ Plan!Effective(r).version = resource[r].version
      /\ r \notin suspended => Plan!Effective(r).enabled = resource[r].enabled
  <2> PICK b \in BOOLEAN : b <=> (resource[r].enabled /\ r \notin suspended)
    OBVIOUS
  <2>1. Plan!Effective(r) = [resource[r] EXCEPT !.enabled = b]
    BY <1>2 DEF Plan!Effective, Row
  <2>2. r \notin suspended => b = resource[r].enabled
    BY <1>2 DEF Row
  <2> QED BY <1>2, <2>1, <2>2 DEF Row
<1>5. next \in Job
  <2>1. Plan!NoRefs \in RefMap
    BY DEF Plan!NoRefs, RefMap
  <2> QED BY <1>4, <2>1 DEF Job
<1>6. Becomes(q, next)
  BY <1>1, <1>5 DEF Becomes, PlanTypeOK
<1>7. Fits(next, kind)
  BY <1>1, <1>2 DEF Fits
<1>8. resource[r] # Plan!Absent
  BY <1>1 DEF Plan!Live, Plan!Absent
<1>9. /\ next.op = op /\ next.r = r /\ next.new = Plan!NoRefs
      /\ next.seen = Plan!Effective(r) /\ next.enabled = enabled
  OBVIOUS
<1> HIDE DEF next
<1>10. q \notin late' /\ next.enabled = {} => resource[r].enabled = next.seen.enabled
  BY <1>1, <1>4, <1>9
<1>11. kind = "patterns" => q \notin late'
  BY <1>1
<1> QED BY <1>1, <1>3, <1>4, <1>5, <1>6, <1>7, <1>8, <1>9, <1>10, <1>11, Starts

LEMMA StoreKeeps ==
  ASSUME PlanTypeOK, SecretInv, NEW q \in Requests, Plan!StoreSecret(q)
  PROVE  PlanTypeOK' /\ SecretInv'
<1> DEFINE s == Plan!NextSlot(q)
           job == request[q]
           next == [job EXCEPT !.give = @ \ {s}, !.new[s] = <<q, s>>]
<1>1. /\ job.at = "secret" /\ job.give # {}
      /\ secrets' = secrets \cup {<<q, s>>}
      /\ request' = [request EXCEPT ![q] = next]
      /\ UNCHANGED <<kind, resource, suspended, wanted, crowd, beyond, late, muddled, clean>>
  BY DEF Plan!StoreSecret, Plan!Go, Plan!At, Plan!ghosts
<1>2. Busy(q) /\ s \in Plan!Slots
  BY <1>1 DEF Busy, Plan!NextSlot, Plan!Slots
<1>3. job \in Job /\ job.new \in RefMap
  BY <1>2, JobOf
<1>4. Fits(job, kind)
  BY <1>2 DEF SecretInv, JobsFit
<1> HIDE DEF s, job
<1> DEFINE new == [job.new EXCEPT ![s] = <<q, s>>]
<1>5. /\ new \in RefMap /\ new[s] = <<q, s>>
      /\ \A t \in Plan!Slots \ {s} : new[t] = job.new[t]
  BY <1>2, <1>3 DEF RefMap, Plan!Refs
<1>6. <<q, s>> # None
  BY <1>2, PlanAssumption DEF Plan!ResourcesAssumption, Plan!Refs
<1>7. RefsIn(new) \subseteq RefsIn(job.new) \cup {<<q, s>>} /\ <<q, s>> \in RefsIn(new)
  BY <1>2, <1>5, <1>6 DEF RefsIn
<1>8. RefsIn(job.new) \subseteq secrets
  BY <1>2 DEF SecretInv, AllStored, New, job
<1>9. secrets' = secrets \cup RefsIn(new)
  BY <1>1, <1>7, <1>8
<1> HIDE DEF new
<1>10. /\ next \in Job /\ next.new = new /\ next.op = job.op /\ next.r = job.r
       /\ next.seen = job.seen /\ next.enabled = job.enabled /\ next.give = job.give \ {s}
  <2>1. next = [job EXCEPT !.give = job.give \ {s}, !.new = new]
    BY <1>3 DEF Job, new
  <2> HIDE DEF next
  <2> QED BY <1>3, <1>5, <2>1 DEF Job
<1>11. Fits(next, kind)
  BY <1>1, <1>4, <1>10 DEF Fits
<1> HIDE DEF next
<1>12. Becomes(q, next)
  BY <1>1, <1>10 DEF Becomes, PlanTypeOK
<1>13. \A t \in Plan!Slots : next.new[t] \in {job.new[t], <<q, t>>}
  BY <1>5, <1>10
<1> QED BY <1>1, <1>2, <1>9, <1>10, <1>11, <1>12, <1>13, Moves DEF job

LEMMA StoredKeeps ==
  ASSUME PlanTypeOK, SecretInv, NEW q \in Requests, Plan!SecretsStored(q)
  PROVE  PlanTypeOK' /\ SecretInv'
<1> DEFINE next == [request[q] EXCEPT !.at = "write"]
<1>1. /\ request[q].at = "secret"
      /\ request' = [request EXCEPT ![q] = next]
      /\ UNCHANGED <<kind, resource, secrets, suspended, wanted, crowd, beyond, late, muddled, clean>>
  BY DEF Plan!SecretsStored, Plan!On, Plan!Go, Plan!At, Plan!ghosts
<1>2. Busy(q)
  BY <1>1 DEF Busy
<1>3. request[q] \in Job
  BY <1>2, JobOf
<1>4. Fits(request[q], kind) /\ New(q) \subseteq secrets
  BY <1>2 DEF SecretInv, JobsFit, AllStored
<1>5. /\ next \in Job /\ next.new = request[q].new /\ next.op = request[q].op
      /\ next.r = request[q].r /\ next.seen = request[q].seen
      /\ next.enabled = request[q].enabled /\ next.give = request[q].give
  BY <1>3 DEF Job
<1> HIDE DEF next
<1>6. Fits(next, kind)
  BY <1>4, <1>5 DEF Fits
<1>7. secrets' = secrets \cup RefsIn(next.new)
  BY <1>1, <1>4, <1>5 DEF New
<1>8. Becomes(q, next)
  BY <1>1, <1>5 DEF Becomes, PlanTypeOK
<1> QED BY <1>1, <1>2, <1>5, <1>6, <1>7, <1>8, Moves

LEMMA DeleteSecretKeeps ==
  ASSUME PlanTypeOK, SecretInv, NEW q \in Requests, Plan!DeleteSecret(q)
  PROVE  PlanTypeOK' /\ SecretInv'
<1>1. request[q].at = "purge"
  BY DEF Plan!DeleteSecret, Plan!At
<1>2. Purging(q)
  BY <1>1 DEF Purging
<1>3. request[q] \in Purge
  BY <1>2, Forms
<1>4. PICK x \in request[q].old :
        /\ secrets' \in {secrets, secrets \ {x}}
        /\ clean' = (clean /\ secrets' # secrets)
        /\ request' = [request EXCEPT ![q] = [request[q] EXCEPT !.old = @ \ {x}]]
  BY DEF Plan!DeleteSecret, Plan!Go
<1>5. UNCHANGED <<kind, resource, suspended, wanted, crowd, beyond, late, muddled>>
  BY DEF Plan!DeleteSecret
<1> DEFINE next == [at |-> "purge", old |-> request[q].old \ {x}]
<1>6. [request[q] EXCEPT !.old = @ \ {x}] = next /\ next \in Purge
  BY <1>3 DEF Purge
<1>7. Becomes(q, next)
  BY <1>4, <1>5, <1>6 DEF Becomes, PlanTypeOK
<1>8. clean' \in BOOLEAN /\ (clean' => clean /\ secrets' # secrets)
  BY <1>4
<1> QED BY <1>2, <1>4, <1>5, <1>7, <1>8, Deletes

LEMMA PurgedKeeps ==
  ASSUME PlanTypeOK, SecretInv, NEW q \in Requests, Plan!Purged(q)
  PROVE  PlanTypeOK' /\ SecretInv'
<1>1. request[q].at = "purge" /\ request[q].old = {} /\ Becomes(q, [at |-> "done"])
      /\ UNCHANGED <<secrets, late, clean>>
  BY DEF Plan!Purged, Plan!At, Plan!Done, Plan!Go, Plan!ghosts, Becomes, PlanTypeOK
<1>2. ~Busy(q) /\ late' \subseteq Requests /\ late' \ {q} = late \ {q} /\ clean' \in BOOLEAN
  BY <1>1 DEF Busy, PlanTypeOK
<1> QED BY <1>1, <1>2, Stops

LEMMA EndsKeeps ==
  ASSUME PlanTypeOK, SecretInv, NEW q \in Requests, Plan!Ends(q)
  PROVE  PlanTypeOK' /\ SecretInv'
<1>1. Becomes(q, [at |-> "done"]) /\ UNCHANGED <<secrets, late>> /\ clean' = FALSE
  BY DEF Plan!Ends, Plan!Done, Plan!Go, Becomes, PlanTypeOK
<1>2. late' \subseteq Requests /\ late' \ {q} = late \ {q}
  BY <1>1 DEF PlanTypeOK
<1> QED BY <1>1, <1>2, Stops

(* Who is late after a write of r.                                         *)
LEMMA LateAfter ==
  ASSUME PlanTypeOK, NEW q \in Requests, NEW r, NEW row, Plan!Write(q, r, row)
  PROVE  /\ late' \subseteq Requests
         /\ \A p \in Requests \ {q} : Busy(p) /\ request[p].r = r => p \in late'
         /\ \A p \in Requests \ {q} :
              Changes(p) /\ request[p].r # r => (p \in late' <=> p \in late)
<1>1. late' = (late \cup {p \in Requests : Plan!About(p, r)}) \ {q}
  BY DEF Plan!Write
<1>2. late \subseteq Requests
  BY DEF PlanTypeOK
<1>3. \A p \in Requests : Plan!About(p, r) <=> Busy(p) /\ request[p].r = r
  BY Forms
<1> QED BY <1>1, <1>2, <1>3

LEMMA InsertKeeps ==
  ASSUME PlanTypeOK, SecretInv, NEW q \in Requests, Plan!InsertRow(q)
  PROVE  PlanTypeOK' /\ SecretInv'
<1> DEFINE r == request[q].r
           next == [at |-> "done"]
<1> PICK e \in BOOLEAN : e <=> (TRUE \in request[q].enabled)
  OBVIOUS
<1> DEFINE row == [state |-> "live", enabled |-> e, version |-> 1, refs |-> request[q].new]
<1>1. /\ request[q].at = "write" /\ request[q].op = "create"
      /\ Plan!Write(q, r, row)
      /\ wanted' = [wanted EXCEPT ![r] = e]
      /\ request' = [request EXCEPT ![q] = next]
      /\ UNCHANGED <<kind, secrets, suspended, crowd, beyond, muddled, clean>>
  BY DEF Plan!InsertRow, Plan!At, Plan!Done, Plan!Go
<1>2. Busy(q) /\ Creates(q) /\ ~Changes(q)
  BY <1>1 DEF Busy, Creates, Changes
<1>3. r \in Resources /\ request[q].new \in RefMap /\ Fits(request[q], kind)
  BY <1>2, JobOf DEF SecretInv, JobsFit
<1>4. resource[r] = Plan!Absent /\ Held(r) = {}
  <2>1. resource[r] = Plan!Absent
    BY <1>2 DEF SecretInv, CreatesAlone
  <2>2. resource[r].refs = Plan!NoRefs
    BY <2>1 DEF Plan!Absent
  <2>3. RefsIn(Plan!NoRefs) = {}
    BY DEF RefsIn, Plan!NoRefs
  <2> QED BY <2>1, <2>2, <2>3 DEF Held
<1>5. /\ row \in Row /\ row.refs = request[q].new /\ row.state = "live" /\ row.enabled = e
      /\ RefsIn(row.refs) = New(q)
  BY <1>3 DEF Row, New
<1>6. wanted' \in [Resources -> BOOLEAN] /\ wanted'[r] = e
      /\ \A t \in Resources \ {r} : wanted'[t] = wanted[t]
  BY <1>1, <1>3 DEF PlanTypeOK
<1>7. crowd' = crowd /\ beyond' \subseteq Resources /\ muddled' = muddled /\ clean' \in BOOLEAN
  BY <1>1, <1>3 DEF PlanTypeOK
<1>8. resource' = [resource EXCEPT ![r] = row]
  BY <1>1 DEF Plan!Write
<1>9. kind # "servers" \/ row.state # "live" => row.refs = Plan!NoRefs
  BY <1>3, <1>5 DEF Fits
<1>10. kind = "patterns" => muddled' = {}
  BY <1>7 DEF SecretInv, EnabledAsAsked
<1>11. next \notin Purge
  BY DEF Purge
<1> HIDE DEF row, r, next
<1>12. /\ late' \subseteq Requests
       /\ \A p \in Requests \ {q} : Busy(p) /\ request[p].r = r => p \in late'
       /\ \A p \in Requests \ {q} :
            Changes(p) /\ request[p].r # r => (p \in late' <=> p \in late)
  BY <1>1, LateAfter
<1>14. next \in Purge \cup {[at |-> "done"]}
  BY DEF next
<1>15. r = request[q].r
  BY DEF r
<1>16. UNCHANGED <<kind, secrets, suspended>> /\ clean' = clean
       /\ request' = [request EXCEPT ![q] = next]
  BY <1>1
<1>17. clean' =>
         /\ clean
         /\ \A x \in Held(r) \cup New(q) :
              x \in RefsIn(row.refs) \/ (next \in Purge /\ x \in next.old)
  BY <1>4, <1>5, <1>16
<1>18. /\ RefsIn(row.refs) \subseteq New(q) \cup Seen(q) \cup Held(r)
       /\ RefsIn(row.refs) \subseteq New(q)
       /\ row.enabled = wanted'[r]
  BY <1>5, <1>6, <1>7
<1>20. /\ kind = "patterns" => muddled' = {} /\ (Changes(q) => resource[r].version < row.version)
       /\ next \in Purge => next.old \subseteq Seen(q)
       /\ next \in Purge /\ r \notin muddled' => next.old \cap RefsIn(row.refs) = {}
       /\ r \notin muddled' /\ row.state = "live" => row.enabled = wanted'[r]
  BY <1>2, <1>10, <1>11, <1>18
<1>21. Rewrites(q, r, row, next)
  BY <1>5, <1>6, <1>7, <1>8, <1>9, <1>12, <1>16, <1>17, <1>18, <1>20 DEF Rewrites
<1> QED BY <1>2, <1>5, <1>14, <1>15, <1>21, Writes

(* The row that an update of a server leaves, and what it deletes.         *)
LEMMA NewRefsAre ==
  ASSUME PlanTypeOK, SecretInv, NEW q \in Requests, Busy(q)
  PROVE  /\ Plan!NewRefs(q) \in RefMap
         /\ RefsIn(Plan!NewRefs(q)) \subseteq New(q) \cup Seen(q)
         /\ New(q) \subseteq RefsIn(Plan!NewRefs(q))
         /\ Plan!Superseded(q) \subseteq Seen(q)
         /\ Seen(q) \subseteq RefsIn(Plan!NewRefs(q)) \cup Plan!Superseded(q)
         /\ Plan!Superseded(q) \cap RefsIn(Plan!NewRefs(q)) = {}
<1> DEFINE new == request[q].new
           seen == request[q].seen.refs
           refs == Plan!NewRefs(q)
           old == Plan!Superseded(q)
<1>1. new \in RefMap /\ seen \in RefMap
  BY JobOf
<1>2. /\ \A s \in Plan!Slots : refs[s] = IF new[s] = None THEN seen[s] ELSE new[s]
      /\ refs = [s \in Plan!Slots |-> refs[s]]
      /\ \A x : x \in old <=> \E s \in Plan!Slots : new[s] # None /\ x = seen[s] /\ x # None
  BY DEF Plan!NewRefs, Plan!Superseded
<1>3. \A x : x \in New(q) <=> \E s \in Plan!Slots : x = new[s] /\ x # None
  BY DEF New, RefsIn
<1>4. \A x : x \in Seen(q) <=> \E s \in Plan!Slots : x = seen[s] /\ x # None
  BY DEF Seen, RefsIn
<1>5. \A x : x \in RefsIn(refs) <=> \E s \in Plan!Slots : x = refs[s] /\ x # None
  BY DEF RefsIn
<1>6. New(q) \cap Seen(q) = {}
  <2>1. \A s \in Plan!Slots : new[s] # None => new[s] = <<q, s>> /\ <<q, s>> \notin Seen(q)
    BY DEF SecretInv, NewIsOwn, NewIsFresh
  <2> QED BY <1>3, <2>1
<1> HIDE DEF new, seen, refs, old
<1>7. refs \in RefMap
  BY <1>1, <1>2 DEF RefMap
<1>8. old \cap RefsIn(refs) = {}
  <2> SUFFICES ASSUME NEW x \in old, x \in RefsIn(refs) PROVE FALSE
    OBVIOUS
  <2>1. PICK s \in Plan!Slots : new[s] # None /\ x = seen[s] /\ x # None
    BY <1>2
  <2>2. PICK t \in Plan!Slots : x = refs[t] /\ x # None
    BY <1>5
  <2>3. x \notin New(q)
    BY <1>4, <1>6, <2>1
  <2>4. new[t] = None /\ x = seen[t]
    BY <1>2, <1>3, <2>2, <2>3
  <2>5. PICK a \in Resources \cup Requests : x = <<a, s>>
    BY <1>1, <2>1 DEF RefMap
  <2>6. PICK b \in Resources \cup Requests : x = <<b, t>>
    BY <1>1, <2>2, <2>4 DEF RefMap
  <2>7. s = t
    BY <2>5, <2>6
  <2> QED BY <2>1, <2>4, <2>7
<1>9. RefsIn(refs) \subseteq New(q) \cup Seen(q)
  BY <1>2, <1>3, <1>4, <1>5
<1>10. New(q) \subseteq RefsIn(refs)
  BY <1>2, <1>3, <1>5
<1>11. old \subseteq Seen(q) /\ Seen(q) \subseteq RefsIn(refs) \cup old
  BY <1>2, <1>4, <1>5
<1> QED BY <1>7, <1>8, <1>9, <1>10, <1>11 DEF refs, old

LEMMA WantedIs ==
  ASSUME PlanTypeOK, NEW q \in Requests, Busy(q)
  PROVE  Plan!Wanted(q) \in BOOLEAN
<1>1. request[q].seen \in Row
  BY JobOf
<1>2. request[q].seen.enabled \in BOOLEAN
  BY <1>1 DEF Row
<1>3. CASE request[q].enabled = {}
  BY <1>2, <1>3 DEF Plan!Wanted
<1>4. CASE request[q].enabled # {}
  <2>1. Plan!Wanted(q) = (TRUE \in request[q].enabled)
    BY <1>4 DEF Plan!Wanted
  <2> QED BY <2>1
<1> QED BY <1>3, <1>4

(* A change of a server or pattern that is not late has seen it as it is.  *)
LEMMA UpdateKeeps ==
  ASSUME PlanTypeOK, SecretInv, NEW q \in Requests, Plan!UpdateServer(q)
  PROVE  PlanTypeOK' /\ SecretInv'
<1> DEFINE r == request[q].r
           next == [at |-> "purge", old |-> Plan!Superseded(q)]
           refs == Plan!NewRefs(q)
<1>1. /\ request[q].at = "write" /\ request[q].op = "update" /\ kind = "servers"
      /\ request' = [request EXCEPT ![q] = next]
      /\ UNCHANGED <<kind, secrets, suspended, crowd>>
  BY DEF Plan!UpdateServer, Plan!At, Plan!Go
<1>2. Busy(q) /\ Changes(q)
  BY <1>1 DEF Busy, Changes
<1>3. /\ r \in Resources /\ resource[r] \in Row /\ Fits(request[q], kind)
      /\ resource[r].refs \in RefMap /\ r = request[q].r
  BY <1>2, JobOf DEF SecretInv, JobsFit
<1>4. /\ refs \in RefMap
      /\ RefsIn(refs) \subseteq New(q) \cup Seen(q)
      /\ New(q) \subseteq RefsIn(refs)
      /\ Plan!Superseded(q) \subseteq Seen(q)
      /\ Seen(q) \subseteq RefsIn(refs) \cup Plan!Superseded(q)
      /\ Plan!Superseded(q) \cap RefsIn(refs) = {}
  BY <1>2, NewRefsAre
<1>5. Seen(q) \subseteq Plan!Refs
  BY <1>2, Forms
<1>6. next \in Purge /\ next.old = Plan!Superseded(q)
  BY <1>4, <1>5 DEF Purge
<1> PICK b \in BOOLEAN : b = Plan!Wanted(q)
  BY <1>2, WantedIs
<1> HIDE DEF r, next, refs
<1>7. CASE Plan!Live(r)
  <2> DEFINE row == [resource[r] EXCEPT !.enabled = b, !.refs = refs]
  <2>1. /\ Plan!Write(q, r, row)
        /\ muddled' = IF q \in late THEN muddled \cup {r}
                      ELSE IF Plan!Complete(q) THEN muddled \ {r} ELSE muddled
        /\ wanted' = [wanted EXCEPT ![r] = IF request[q].enabled = {} THEN @ ELSE b]
        /\ beyond' = IF b /\ ~resource[r].enabled THEN beyond \cup {r} ELSE beyond
        /\ clean' = (clean /\ q \notin late)
    BY <1>7 DEF Plan!UpdateServer, Plan!Muddle, Plan!Enabling, Plan!Asking, r, refs
  <2>2. /\ row \in Row /\ row.refs = refs /\ row.enabled = b
        /\ row.state = resource[r].state
    BY <1>3, <1>4 DEF Row
  <2>3. resource' = [resource EXCEPT ![r] = row]
    BY <2>1 DEF Plan!Write
  <2> HIDE DEF row
  <2>4. /\ wanted' \in [Resources -> BOOLEAN]
        /\ \A t \in Resources \ {r} : wanted'[t] = wanted[t]
        /\ wanted'[r] = IF request[q].enabled = {} THEN wanted[r] ELSE b
    BY <1>3, <2>1 DEF PlanTypeOK
  <2>5. /\ late' \subseteq Requests
        /\ \A p \in Requests \ {q} : Busy(p) /\ request[p].r = r => p \in late'
        /\ \A p \in Requests \ {q} :
             Changes(p) /\ request[p].r # r => (p \in late' <=> p \in late)
    BY <2>1, LateAfter
  <2>6. /\ beyond' \subseteq Resources /\ muddled' \in {muddled, muddled \cup {r}, muddled \ {r}}
        /\ clean' \in BOOLEAN
    BY <1>3, <2>1 DEF PlanTypeOK
  <2>7. q \notin late =>
          /\ Held(r) = Seen(q)
          /\ request[q].enabled = {} => resource[r].enabled = b
          /\ \A x \in Held(r) \cup New(q) : x \in RefsIn(row.refs) \/ x \in next.old
    <3> SUFFICES ASSUME q \notin late
                 PROVE  /\ Held(r) = Seen(q)
                        /\ request[q].enabled = {} => resource[r].enabled = b
                        /\ \A x \in Held(r) \cup New(q) :
                             x \in RefsIn(row.refs) \/ x \in next.old
      OBVIOUS
    <3>1. /\ resource[r].refs = request[q].seen.refs
          /\ request[q].enabled = {} => resource[r].enabled = request[q].seen.enabled
      BY <1>2, <1>3 DEF SecretInv, SeenIsHeld
    <3>2. Held(r) = Seen(q)
      BY <3>1 DEF Held, Seen
    <3>3. request[q].enabled = {} => b = request[q].seen.enabled
      BY DEF Plan!Wanted
    <3> QED BY <1>4, <1>6, <2>2, <3>1, <3>2, <3>3
  <2>10. r \notin muddled' =>
           /\ row.enabled = wanted'[r]
           /\ \/ RefsIn(row.refs) \subseteq New(q)
              \/ r \notin muddled /\ RefsIn(row.refs) \subseteq New(q) \cup Held(r)
    <3>1. CASE r \notin muddled
      <4> SUFFICES ASSUME q \notin late
                   PROVE  /\ row.enabled = wanted'[r]
                          /\ RefsIn(row.refs) \subseteq New(q) \cup Held(r)
        BY <2>1, <3>1
      <4>1. resource[r].enabled = wanted[r]
        BY <1>3, <1>7, <3>1 DEF SecretInv, EnabledAsAsked
      <4>2. row.enabled = wanted'[r]
        BY <2>2, <2>4, <2>7, <4>1
      <4> QED BY <1>4, <2>2, <2>7, <4>2
    <3>2. CASE r \in muddled
      <4> SUFFICES ASSUME q \notin late, Plan!Complete(q)
                   PROVE  row.enabled = wanted'[r] /\ RefsIn(row.refs) \subseteq New(q)
        BY <2>1, <3>2
      <4>1. row.enabled = wanted'[r]
        BY <2>2, <2>4 DEF Plan!Complete
      <4>2. refs = [s \in Plan!Slots |-> request[q].new[s]]
        BY DEF Plan!Complete, Plan!NewRefs, refs
      <4>3. RefsIn(refs) \subseteq New(q)
        BY <4>2 DEF RefsIn, New
      <4> QED BY <2>2, <4>1, <4>3
    <3> QED BY <3>1, <3>2
  <2>8. /\ RefsIn(row.refs) \subseteq New(q) \cup Seen(q) \cup Held(r)
        /\ kind # "servers" \/ row.state # "live" => row.refs = Plan!NoRefs
        /\ next.old \subseteq Seen(q)
        /\ next.old \cap RefsIn(row.refs) = {}
    BY <1>1, <1>4, <1>6, <1>7, <2>2 DEF Plan!Live
  <2>9. Rewrites(q, r, row, next)
    BY <1>1, <1>6, <2>1, <2>3, <2>4, <2>5, <2>6, <2>7, <2>8, <2>10 DEF Rewrites
  <2> QED BY <1>2, <1>3, <1>6, <2>2, <2>9, Writes
<1>8. CASE ~Plan!Live(r)
  <2>1. clean' = FALSE /\ UNCHANGED <<resource, late, muddled, beyond, wanted>>
    BY <1>8 DEF Plan!UpdateServer, r
  <2>2. Held(r) = {} /\ RefsIn(resource[r].refs) = {} /\ resource[r].refs = Plan!NoRefs
    <3>1. resource[r].refs = Plan!NoRefs
      BY <1>3, <1>8 DEF SecretInv, RowsFit
    <3>2. RefsIn(Plan!NoRefs) = {}
      BY DEF RefsIn, Plan!NoRefs
    <3> QED BY <3>1, <3>2 DEF Held
  <2>3. /\ resource' = [resource EXCEPT ![r] = resource[r]]
        /\ wanted' \in [Resources -> BOOLEAN] /\ late' \subseteq Requests
        /\ beyond' \subseteq Resources
    BY <1>3, <2>1 DEF PlanTypeOK
  <2>4. resource[r].state # "live"
    BY <1>8 DEF Plan!Live
  <2>5. Rewrites(q, r, resource[r], next)
    BY <1>1, <1>4, <1>6, <2>1, <2>2, <2>3, <2>4 DEF Rewrites
  <2> QED BY <1>2, <1>3, <1>6, <2>5, Writes
<1> QED BY <1>7, <1>8

LEMMA DeleteKeeps ==
  ASSUME PlanTypeOK, SecretInv, NEW q \in Requests, Plan!DeleteServer(q)
  PROVE  PlanTypeOK' /\ SecretInv'
<1> DEFINE r == request[q].r
           row == [Plan!Absent EXCEPT !.state = "gone"]
           next == [at |-> "purge", old |-> Seen(q)]
<1>1. /\ request[q].at = "write" /\ request[q].op = "delete" /\ kind = "servers"
      /\ UNCHANGED <<kind, secrets, suspended, wanted, crowd, beyond, muddled>>
  BY DEF Plan!DeleteServer, Plan!At
<1>2. Busy(q) /\ Changes(q) /\ ~Purging(q)
  BY <1>1 DEF Busy, Changes, Purging
<1>3. r \in Resources /\ Fits(request[q], kind) /\ r = request[q].r
  BY <1>2, JobOf DEF SecretInv, JobsFit
<1>4. New(q) = {}
  <2>1. request[q].new = Plan!NoRefs
    BY <1>1, <1>3 DEF Fits
  <2>2. RefsIn(Plan!NoRefs) = {}
    BY DEF RefsIn, Plan!NoRefs
  <2> QED BY <2>1, <2>2 DEF New
<1>5. CASE Plan!Live(r)
  <2>1. /\ Plan!Write(q, r, row)
        /\ request' = [request EXCEPT ![q] = next]
        /\ clean' = (clean /\ q \notin late)
    BY <1>5 DEF Plan!DeleteServer, Plan!Go, Seen, RefsIn
  <2>2. /\ row \in Row /\ row.refs = Plan!NoRefs /\ row.state # "live"
        /\ RefsIn(row.refs) = {}
    BY DEF Row, RefMap, Plan!Absent, Plan!NoRefs, RefsIn
  <2>3. next \in Purge /\ next.old = Seen(q)
    BY <1>2, Forms DEF Purge
  <2>4. resource' = [resource EXCEPT ![r] = row]
    BY <2>1 DEF Plan!Write
  <2> HIDE DEF row, next, r
  <2>5. /\ late' \subseteq Requests
        /\ \A p \in Requests \ {q} : Busy(p) /\ request[p].r = r => p \in late'
        /\ \A p \in Requests \ {q} :
             Changes(p) /\ request[p].r # r => (p \in late' <=> p \in late)
    BY <2>1, LateAfter
  <2>6. clean' => Held(r) = Seen(q)
    BY <1>2, <1>3, <2>1 DEF SecretInv, SeenIsHeld, Held, Seen
  <2>7. /\ wanted' \in [Resources -> BOOLEAN] /\ beyond' \subseteq Resources
        /\ clean' \in BOOLEAN
    BY <1>1, <2>1 DEF PlanTypeOK
  <2>8. Rewrites(q, r, row, next)
    BY <1>1, <1>4, <2>1, <2>2, <2>3, <2>4, <2>5, <2>6, <2>7 DEF Rewrites
  <2> QED BY <1>2, <1>3, <2>2, <2>3, <2>8, Writes
<1>6. CASE ~Plan!Live(r)
  <2>1. Becomes(q, [at |-> "done"]) /\ UNCHANGED <<secrets, late, clean>>
    BY <1>1, <1>6 DEF Plan!DeleteServer, Plan!Done, Plan!Go, Becomes, PlanTypeOK
  <2>2. late' \subseteq Requests /\ late' \ {q} = late \ {q} /\ clean' \in BOOLEAN
    BY <2>1 DEF PlanTypeOK
  <2> QED BY <1>2, <1>4, <2>1, <2>2, Stops
<1> QED BY <1>5, <1>6

LEMMA ChangeKeeps ==
  ASSUME PlanTypeOK, SecretInv, NEW q \in Requests, Plan!ChangePattern(q),
         request[q].op # "create"
  PROVE  PlanTypeOK' /\ SecretInv'
<1> DEFINE r == request[q].r
           next == [at |-> "done"]
<1>1. /\ request[q].at = "write" /\ kind = "patterns"
      /\ request' = [request EXCEPT ![q] = next]
      /\ UNCHANGED <<kind, secrets, suspended, crowd>>
  BY DEF Plan!ChangePattern, Plan!At, Plan!Done, Plan!Go
<1>2. Busy(q) /\ Changes(q) /\ ~Purging(q)
  BY <1>1 DEF Busy, Changes, Purging
<1>3. /\ r \in Resources /\ resource[r] \in Row /\ request[q].seen \in Row
      /\ Fits(request[q], kind) /\ r = request[q].r
  BY <1>2, JobOf DEF SecretInv, JobsFit
<1>4. New(q) = {} /\ request[q].enabled # {}
  <2>1. request[q].new = Plan!NoRefs /\ request[q].enabled # {}
    BY <1>1, <1>3 DEF Fits
  <2>2. RefsIn(Plan!NoRefs) = {}
    BY DEF RefsIn, Plan!NoRefs
  <2> QED BY <2>1, <2>2 DEF New
<1> HIDE DEF r, next
<1>5. CASE resource[r].version = request[q].seen.version
  <2> PICK b \in BOOLEAN : b = Plan!Wanted(q)
    BY <1>2, WantedIs
  <2> DEFINE row == [resource[r] EXCEPT !.enabled = b, !.version = @ + 1]
  <2>1. /\ Plan!Write(q, r, row)
        /\ muddled' = IF q \in late THEN muddled \cup {r}
                      ELSE IF Plan!Complete(q) THEN muddled \ {r} ELSE muddled
        /\ clean' = (clean /\ q \notin late)
        /\ wanted' = [wanted EXCEPT ![r] = IF request[q].enabled = {} THEN @ ELSE b]
        /\ beyond' = IF b /\ ~resource[r].enabled THEN beyond \cup {r} ELSE beyond
    BY <1>5 DEF Plan!ChangePattern, Plan!Muddle, Plan!Enabling, Plan!Asking, r
  <2>2. /\ row \in Row /\ row.refs = resource[r].refs /\ row.enabled = b
        /\ row.version = resource[r].version + 1 /\ resource[r].version \in Nat
        /\ RefsIn(row.refs) = Held(r)
    <3>1. resource[r].version \in Nat
      BY <1>3 DEF Row
    <3>2. /\ row.version = resource[r].version + 1 /\ row.enabled = b
          /\ row.refs = resource[r].refs
      BY <1>3 DEF Row
    <3> DEFINE version == resource[r].version + 1
    <3>3. row = [resource[r] EXCEPT !.enabled = b, !.version = version]
      OBVIOUS
    <3>4. version \in Nat
      BY <3>1
    <3> HIDE DEF version, row
    <3>5. row \in Row
      BY <1>3, <3>3, <3>4 DEF Row
    <3> QED BY <3>1, <3>2, <3>5 DEF Held
  <2>3. resource' = [resource EXCEPT ![r] = row]
    BY <2>1 DEF Plan!Write
  <2> HIDE DEF row
  <2>4. /\ wanted' \in [Resources -> BOOLEAN]
        /\ \A t \in Resources \ {r} : wanted'[t] = wanted[t]
        /\ wanted'[r] = b
    BY <1>3, <1>4, <2>1 DEF PlanTypeOK
  <2>5. /\ late' \subseteq Requests
        /\ \A p \in Requests \ {q} : Busy(p) /\ request[p].r = r => p \in late'
        /\ \A p \in Requests \ {q} :
             Changes(p) /\ request[p].r # r => (p \in late' <=> p \in late)
    BY <2>1, LateAfter
  <2>6. q \notin late
    BY <1>1, <1>2, <1>3, <1>5, <2>2 DEF SecretInv, VersionsTell, Row
  <2>7. muddled' = {} /\ muddled = {}
    BY <1>1, <2>1, <2>6 DEF SecretInv, EnabledAsAsked
  <2>8. clean' = clean /\ beyond' \subseteq Resources /\ clean' \in BOOLEAN
    BY <1>1, <1>3, <2>1, <2>6 DEF PlanTypeOK
  <2>9. row.refs = Plan!NoRefs
    BY <1>1, <1>3, <2>2 DEF SecretInv, RowsFit
  <2>10. next \in {[at |-> "done"]} /\ next \notin Purge
    BY DEF next, Purge
  <2>11. row.enabled = wanted'[r] /\ resource[r].version < row.version
    BY <2>2, <2>4
  <2>12. Rewrites(q, r, row, next)
    BY <1>1, <1>4, <2>2, <2>3, <2>4, <2>5, <2>7, <2>8, <2>9, <2>10, <2>11 DEF Rewrites
  <2> QED BY <1>2, <1>3, <2>2, <2>10, <2>12, Writes
<1>6. CASE resource[r].version # request[q].seen.version
  <2>1. Becomes(q, [at |-> "done"]) /\ UNCHANGED <<secrets, late, clean>>
    BY <1>1, <1>6 DEF Plan!ChangePattern, Plan!Done, Plan!Go, Becomes, PlanTypeOK, r
  <2>2. late' \subseteq Requests /\ late' \ {q} = late \ {q} /\ clean' \in BOOLEAN
    BY <2>1 DEF PlanTypeOK
  <2> QED BY <1>2, <1>4, <2>1, <2>2, Stops
<1> QED BY <1>5, <1>6

(* A key is revoked, or a resource suspended: no request is involved.      *)
LEMMA RevokeKeeps ==
  ASSUME PlanTypeOK, SecretInv, NEW r \in Resources, Plan!RevokeKey(r)
  PROVE  PlanTypeOK' /\ SecretInv'
<1>1. /\ kind = "keys" /\ resource[r].state = "live"
      /\ resource' = [resource EXCEPT ![r].enabled = FALSE]
      /\ wanted' = [wanted EXCEPT ![r] = FALSE]
      /\ UNCHANGED <<kind, secrets, suspended, request, crowd, beyond, late, muddled, clean>>
  BY DEF Plan!RevokeKey, Plan!Live
<1>2. resource[r] \in Row
  BY DEF PlanTypeOK
<1>3. /\ resource'[r] = [resource[r] EXCEPT !.enabled = FALSE]
      /\ \A t \in Resources \ {r} : resource'[t] = resource[t]
      /\ resource' \in [Resources -> Row]
      /\ wanted' \in [Resources -> BOOLEAN] /\ wanted'[r] = FALSE
      /\ \A t \in Resources \ {r} : wanted'[t] = wanted[t]
  BY <1>1, <1>2 DEF PlanTypeOK, Row
<1>4. /\ resource'[r].refs = resource[r].refs /\ resource'[r].enabled = FALSE
      /\ resource'[r].state = "live"
  BY <1>1, <1>2, <1>3 DEF Row
<1>5. \A t \in Resources : Held(t)' = Held(t) /\ (Plan!Live(t)' <=> Plan!Live(t))
  BY <1>1, <1>3, <1>4 DEF Held, Plan!Live
<1>6. PlanTypeOK'
  BY <1>1, <1>3 DEF PlanTypeOK
<1>7. \A q \in Requests :
        /\ (Busy(q)' <=> Busy(q)) /\ (Purging(q)' <=> Purging(q))
        /\ (Creates(q)' <=> Creates(q)) /\ (Changes(q)' <=> Changes(q))
        /\ Seen(q)' = Seen(q) /\ New(q)' = New(q)
        /\ (Plan!At(q, "idle")' <=> Plan!At(q, "idle"))
  BY <1>1 DEF Busy, Purging, Creates, Changes, Seen, New, Plan!At
<1> USE DEF SecretInv
<1>8. \A q \in Requests : ~Changes(q) /\ ~Changes(q)'
  <2> TAKE q \in Requests
  <2>1. Busy(q) => Fits(request[q], kind)
    BY DEF JobsFit
  <2>2. ~Changes(q)
    BY <1>1, <2>1 DEF Fits, Changes
  <2> QED BY <1>7, <2>2
<1>9. JobsFit' /\ RowsFit' /\ NewIsOwn' /\ CreatesAlone'
  <2>1. JobsFit'
    BY <1>1, <1>7 DEF JobsFit
  <2>2. RowsFit'
    BY <1>1, <1>3, <1>4, <1>5 DEF RowsFit
  <2>3. NewIsOwn'
    BY <1>1, <1>7 DEF NewIsOwn
  <2>4. CreatesAlone'
    <3> SUFFICES ASSUME NEW p \in Requests, Creates(p)
                 PROVE  /\ resource'[request[p].r] = Plan!Absent
                        /\ \A o \in Requests \ {p} : Busy(o) => request[o].r # request[p].r
      BY <1>1, <1>7 DEF CreatesAlone
    <3>1. /\ resource[request[p].r] = Plan!Absent
          /\ \A o \in Requests \ {p} : Busy(o) => request[o].r # request[p].r
      BY DEF CreatesAlone
    <3>2. request[p].r \in Resources /\ request[p].r # r
      BY <1>1, <3>1, Forms DEF Creates, Plan!Absent
    <3> QED BY <1>3, <3>1, <3>2
  <2> QED BY <2>1, <2>2, <2>3, <2>4
<1>10. NewIsFresh'
  BY <1>1, <1>5, <1>7 DEF NewIsFresh
<1>11. RowsApart'
  BY <1>1, <1>5, <1>7 DEF RowsApart
<1>12. SeenIsHeld' /\ VersionsTell'
  BY <1>8 DEF SeenIsHeld, VersionsTell
<1>13. OldIsUnused' /\ AllStored' /\ NothingLeft'
  <2>1. OldIsUnused'
    BY <1>1, <1>5, <1>7 DEF OldIsUnused
  <2>2. AllStored'
    BY <1>1, <1>5, <1>7 DEF AllStored
  <2>3. NothingLeft'
    BY <1>1, <1>5, <1>7 DEF NothingLeft
  <2> QED BY <2>1, <2>2, <2>3
<1>14. EnabledAsAsked'
  BY <1>1, <1>3, <1>4, <1>5 DEF EnabledAsAsked
<1> QED BY <1>6, <1>9, <1>10, <1>11, <1>12, <1>13, <1>14

LEMMA OnlySuspensions ==
  ASSUME PlanTypeOK, SecretInv, suspended' \subseteq Resources,
         UNCHANGED <<kind, resource, secrets, request, wanted, crowd, beyond, late, muddled, clean>>
  PROVE  PlanTypeOK' /\ SecretInv'
<1>1. PlanTypeOK'
  BY DEF PlanTypeOK
<1>2. \A q :
        /\ (Busy(q)' <=> Busy(q)) /\ (Purging(q)' <=> Purging(q))
        /\ (Creates(q)' <=> Creates(q)) /\ (Changes(q)' <=> Changes(q))
        /\ Seen(q)' = Seen(q) /\ New(q)' = New(q)
        /\ (Plan!At(q, "idle")' <=> Plan!At(q, "idle"))
  BY DEF Busy, Purging, Creates, Changes, Seen, New, Plan!At
<1>3. \A r : Held(r)' = Held(r) /\ (Plan!Live(r)' <=> Plan!Live(r))
  BY DEF Held, Plan!Live
<1> USE DEF SecretInv
<1>4. JobsFit' /\ RowsFit' /\ NewIsOwn' /\ CreatesAlone'
  BY <1>2, <1>3 DEF JobsFit, RowsFit, NewIsOwn, CreatesAlone
<1>5. NewIsFresh' /\ RowsApart'
  BY <1>2, <1>3 DEF NewIsFresh, RowsApart
<1>6. SeenIsHeld' /\ VersionsTell' /\ OldIsUnused'
  BY <1>2, <1>3 DEF SeenIsHeld, VersionsTell, OldIsUnused
<1>7. AllStored' /\ EnabledAsAsked' /\ NothingLeft'
  BY <1>2, <1>3 DEF AllStored, EnabledAsAsked, NothingLeft
<1> QED BY <1>1, <1>4, <1>5, <1>6, <1>7

LEMMA SecretsNext ==
  ASSUME PlanTypeOK, SecretInv, [Plan!Next]_(Plan!vars)
  PROVE  PlanTypeOK' /\ SecretInv'
<1>1. ASSUME NEW q \in Requests, NEW r \in Resources,
             Plan!CreateServer(q, r) \/ Plan!CreatePattern(q, r) \/ Plan!CreateKey(q, r)
      PROVE  PlanTypeOK' /\ SecretInv'
  <2>1. PICK e \in BOOLEAN, give \in SUBSET Plan!Slots :
          (kind # "servers" => give = {}) /\ Plan!Begin(q, r, e, give)
    BY <1>1 DEF Plan!CreateServer, Plan!CreatePattern, Plan!CreateKey
  <2> QED BY <2>1, BeginKeeps
<1>2. ASSUME NEW q \in Requests, NEW r \in Resources, NEW op \in {"update", "delete"},
             NEW e \in {{}, {TRUE}, {FALSE}}, NEW give \in SUBSET Plan!Slots,
             Plan!BeginChange(q, r, op, e, give)
      PROVE  PlanTypeOK' /\ SecretInv'
  <2>1. e \in SUBSET BOOLEAN
    OBVIOUS
  <2> QED BY <1>2, <2>1, BeginChangeKeeps
<1>3. ASSUME NEW q \in Requests,
             Plan!StoreSecret(q) \/ Plan!SecretsStored(q) \/ Plan!DeleteSecret(q)
               \/ Plan!Purged(q) \/ Plan!Ends(q)
      PROVE  PlanTypeOK' /\ SecretInv'
  BY <1>3, StoreKeeps, StoredKeeps, DeleteSecretKeeps, PurgedKeeps, EndsKeeps
<1>4. ASSUME NEW q \in Requests,
             Plan!InsertServer(q) \/ Plan!InsertPattern(q) \/ Plan!InsertKey(q)
      PROVE  PlanTypeOK' /\ SecretInv'
  <2>1. Plan!InsertRow(q)
    BY <1>4 DEF Plan!InsertServer, Plan!InsertPattern, Plan!InsertKey
  <2> QED BY <2>1, InsertKeeps
<1>5. ASSUME NEW q \in Requests, Plan!UpdateServer(q) \/ Plan!DeleteServer(q)
      PROVE  PlanTypeOK' /\ SecretInv'
  BY <1>5, UpdateKeeps, DeleteKeeps
<1>6. ASSUME NEW q \in Requests, Plan!UpdatePattern(q) \/ Plan!DeletePattern(q)
      PROVE  PlanTypeOK' /\ SecretInv'
  <2>1. Plan!ChangePattern(q) /\ request[q].op # "create"
    BY <1>6 DEF Plan!UpdatePattern, Plan!DeletePattern
  <2> QED BY <2>1, ChangeKeeps
<1>7. ASSUME NEW r \in Resources, Plan!Suspend(r) \/ Plan!Restore(r)
      PROVE  PlanTypeOK' /\ SecretInv'
  <2>1. suspended' \subseteq Resources
    BY <1>7 DEF Plan!Suspend, Plan!Restore, PlanTypeOK
  <2>2. UNCHANGED <<kind, resource, secrets, request, wanted, crowd, beyond, late, muddled, clean>>
    BY <1>7 DEF Plan!Suspend, Plan!Restore, Plan!ghosts
  <2> QED BY <2>1, <2>2, OnlySuspensions
<1>8. CASE UNCHANGED Plan!vars
  <2>1. suspended' \subseteq Resources
    BY <1>8 DEF Plan!vars, PlanTypeOK
  <2>2. UNCHANGED <<kind, resource, secrets, request, wanted, crowd, beyond, late, muddled, clean>>
    BY <1>8 DEF Plan!vars, Plan!ghosts
  <2> QED BY <2>1, <2>2, OnlySuspensions
<1>9. CASE Plan!Next
  <2>1. CASE \E r \in Resources : Plan!RevokeKey(r) \/ Plan!Suspend(r) \/ Plan!Restore(r)
    BY <1>7, <2>1, RevokeKeeps
  <2>2. ASSUME NEW q \in Requests, Plan!Step(q) PROVE PlanTypeOK' /\ SecretInv'
    BY <1>1, <1>2, <1>3, <1>4, <1>5, <1>6, <2>2 DEF Plan!Step
  <2> QED BY <1>9, <2>1, <2>2 DEF Plan!Next
<1> QED BY <1>8, <1>9

-----------------------------------------------------------------------------
(* Room.                                                                   *)

Regular == Plan!Counted \ beyond

LEMMA RegularIsFinite ==
  /\ IsFiniteSet(Plan!Counted) /\ IsFiniteSet(Regular)
  /\ Cardinality(Regular) \in Nat /\ Cardinality(Plan!Counted) \in Nat
  /\ Cardinality(Regular) <= Cardinality(Plan!Counted) /\ Limit \in Nat
<1>1. IsFiniteSet(Resources) /\ Limit \in Nat
  BY PlanAssumption, SameFiniteSets DEF Plan!ResourcesAssumption
<1>2. IsFiniteSet(Plan!Counted)
  BY <1>1, FS_Subset DEF Plan!Counted
<1>3. IsFiniteSet(Regular) /\ Cardinality(Regular) <= Cardinality(Plan!Counted)
  BY <1>2, FS_Subset DEF Regular
<1> QED BY <1>1, <1>2, <1>3, FS_CardinalityType

LEMMA FillingIs ==
  /\ Plan!Filling = {q \in Requests : Creates(q) /\ TRUE \in request[q].enabled}
  /\ Plan!Filling' = {q \in Requests : Creates(q)' /\ TRUE \in request'[q].enabled}
BY DEF Plan!Filling, Plan!At, Creates, Busy

LEMMA RoomIs ==
  ASSUME PlanTypeOK
  PROVE  /\ RoomInv <=>
              /\ Cardinality(Plan!Filling) <= crowd
              /\ Cardinality(Regular) + Cardinality(Plan!Filling) < Limit + crowd
         /\ Cardinality(Regular) \in Nat /\ Cardinality(Plan!Filling) \in Nat
         /\ Limit \in Nat /\ crowd \in Nat
BY RegularIsFinite, FillingIsFinite, SameFiniteSets DEF RoomInv, Regular, PlanTypeOK

(* No row is counted in addition, and no request has passed the check.     *)
LEMMA RoomStays ==
  ASSUME PlanTypeOK, RoomInv, crowd' = crowd,
         NEW S, S = Regular', S \subseteq Regular,
         NEW F, F = Plan!Filling', F \subseteq Plan!Filling
  PROVE  RoomInv'
<1>1. /\ Cardinality(Plan!Filling) <= crowd
      /\ Cardinality(Regular) + Cardinality(Plan!Filling) < Limit + crowd
      /\ Cardinality(Regular) \in Nat /\ Cardinality(Plan!Filling) \in Nat
      /\ Limit \in Nat /\ crowd \in Nat
  BY RoomIs
<1>2. /\ Cardinality(S) \in Nat /\ Cardinality(S) <= Cardinality(Regular)
      /\ Cardinality(F) \in Nat /\ Cardinality(F) <= Cardinality(Plan!Filling)
  BY RegularIsFinite, FillingIsFinite, FS_Subset, FS_CardinalityType
<1>3. Cardinality(F) <= crowd /\ Cardinality(S) + Cardinality(F) < Limit + crowd
  BY <1>1, <1>2
<1>4. S = Plan!Counted' \ beyond'
  BY DEF Regular
<1> QED BY <1>3, <1>4 DEF RoomInv

LEMMA SameCounted ==
  ASSUME UNCHANGED <<resource, beyond>>
  PROVE  Regular' = Regular /\ Plan!Counted' = Plan!Counted
BY DEF Regular, Plan!Counted, Plan!Live

(* Who fills after a request has taken a step.                             *)
LEMMA FillingAfter ==
  ASSUME PlanTypeOK, NEW q \in Requests, NEW next,
         request' = [request EXCEPT ![q] = next],
         \/ next.at \notin {"secret", "write"}
         \/ next.op # "create"
         \/ Creates(q) /\ next.enabled = request[q].enabled
  PROVE  /\ Plan!Filling' \subseteq Plan!Filling
         /\ next.at \notin {"secret", "write"} => Plan!Filling' = Plan!Filling \ {q}
<1>1. \A p \in Requests \ {q} :
        (Creates(p)' <=> Creates(p)) /\ request'[p] = request[p]
  BY DEF PlanTypeOK, Creates, Busy
<1>2. request'[q] = next
  BY DEF PlanTypeOK
<1>3. Creates(q)' => Creates(q) /\ request'[q].enabled = request[q].enabled
  BY <1>2 DEF Creates, Busy
<1>4. next.at \notin {"secret", "write"} => ~Creates(q)'
  BY <1>2 DEF Creates, Busy
<1>5. Plan!Filling' \subseteq Plan!Filling
  BY <1>1, <1>3, FillingIs
<1>6. next.at \notin {"secret", "write"} => Plan!Filling' = Plan!Filling \ {q}
  BY <1>1, <1>4, FillingIs
<1> QED BY <1>5, <1>6

(* A request takes a step, and its row and the others are as before.       *)
LEMMA RequestKeepsRoom ==
  ASSUME PlanTypeOK, RoomInv, NEW q \in Requests, NEW next,
         request' = [request EXCEPT ![q] = next],
         UNCHANGED <<resource, crowd, beyond>>,
         \/ next.at \notin {"secret", "write"}
         \/ next.op # "create"
         \/ Creates(q) /\ next.enabled = request[q].enabled
  PROVE  RoomInv'
<1> DEFINE S == Regular'
           F == Plan!Filling'
<1>1. S = Regular' /\ S \subseteq Regular
  BY SameCounted
<1>2. F = Plan!Filling' /\ F \subseteq Plan!Filling
  BY FillingAfter
<1> HIDE DEF S, F
<1> QED BY <1>1, <1>2, RoomStays

LEMMA BeginKeepsRoom ==
  ASSUME PlanTypeOK, RoomInv, NEW q \in Requests, NEW r, NEW enabled, NEW give,
         Plan!Begin(q, r, enabled, give)
  PROVE  RoomInv'
<1> DEFINE F == Plan!Filling'
           n == Cardinality(F)
<1>1. UNCHANGED <<resource, beyond>> /\ crowd' = IF n > crowd THEN n ELSE crowd
  BY SameFiniteSets DEF Plan!Begin
<1>2. n \in Nat
  BY FillingIsFinite, SameFiniteSets
<1>3. /\ Cardinality(Regular) \in Nat /\ Cardinality(Plan!Filling) \in Nat
      /\ Limit \in Nat /\ crowd \in Nat /\ Cardinality(Plan!Filling) <= crowd
  BY RoomIs
<1>4. CASE Plan!HasRoom
  <2>1. Cardinality(Plan!Counted) < Limit
    BY <1>4, SameFiniteSets DEF Plan!HasRoom
  <2>2. Cardinality(Regular) < Limit
    BY <2>1, RegularIsFinite
  <2> HIDE DEF n
  <2>3. n <= crowd' /\ Cardinality(Regular) + n < Limit + crowd'
    BY <1>1, <1>2, <1>3, <2>2
  <2>4. Plan!Counted' \ beyond' = Regular
    BY <1>1, SameCounted DEF Regular
  <2> QED BY <2>3, <2>4 DEF RoomInv, n
<1>5. CASE ~Plan!HasRoom
  <2> DEFINE next == [at |-> "done"]
  <2>1. request' = [request EXCEPT ![q] = next] /\ next.at \notin {"secret", "write"}
    BY <1>5 DEF Plan!Begin, Plan!Done, Plan!Go
  <2> HIDE DEF next
  <2>2. F \subseteq Plan!Filling
    BY <2>1, FillingAfter
  <2> HIDE DEF F
  <2>3. n <= Cardinality(Plan!Filling)
    BY <2>2, FillingIsFinite, FS_Subset
  <2> HIDE DEF n
  <2>4. crowd' = crowd
    BY <1>1, <1>2, <1>3, <2>3
  <2> QED BY <1>1, <2>1, <2>4, RequestKeepsRoom
<1> QED BY <1>4, <1>5

(* A row is written that was counted before, or that is beyond.            *)
LEMMA WriteKeepsRoom ==
  ASSUME PlanTypeOK, RoomInv, NEW q \in Requests, NEW r \in Resources, NEW row, NEW next,
         next.at \notin {"secret", "write"},
         request' = [request EXCEPT ![q] = next], resource' = [resource EXCEPT ![r] = row],
         crowd' = crowd, beyond \subseteq beyond',
         row.state = "live" /\ row.enabled =>
           r \in beyond' \/ (resource[r].state = "live" /\ resource[r].enabled)
  PROVE  RoomInv'
<1>1. /\ resource'[r] = row
      /\ \A t \in Resources \ {r} : resource'[t] = resource[t]
  BY DEF PlanTypeOK
<1>2. ASSUME NEW t \in Regular' PROVE t \in Regular
  <2>1. t \in Resources /\ resource'[t].state = "live" /\ resource'[t].enabled /\ t \notin beyond'
    BY DEF Regular, Plan!Counted, Plan!Live
  <2>2. CASE t = r
    BY <1>1, <2>1, <2>2 DEF Regular, Plan!Counted, Plan!Live
  <2>3. CASE t # r
    BY <1>1, <2>1, <2>3 DEF Regular, Plan!Counted, Plan!Live
  <2> QED BY <2>2, <2>3
<1>3. Regular' \subseteq Regular
  BY <1>2
<1> DEFINE S == Regular'
           F == Plan!Filling'
<1>4. S = Regular' /\ S \subseteq Regular
  BY <1>3
<1>5. F = Plan!Filling' /\ F \subseteq Plan!Filling
  BY FillingAfter
<1> HIDE DEF S, F
<1> QED BY <1>4, <1>5, RoomStays

LEMMA InsertKeepsRoom ==
  ASSUME PlanTypeOK, RoomInv, NEW q \in Requests, Plan!InsertRow(q)
  PROVE  RoomInv'
<1> DEFINE r == request[q].r
           next == [at |-> "done"]
<1> PICK e \in BOOLEAN : e <=> (TRUE \in request[q].enabled)
  OBVIOUS
<1> DEFINE row == [state |-> "live", enabled |-> e, version |-> 1, refs |-> request[q].new]
<1>1. /\ request[q].at = "write" /\ request[q].op = "create"
      /\ Plan!Write(q, r, row) /\ crowd' = crowd /\ beyond' = beyond
      /\ request' = [request EXCEPT ![q] = next]
  BY DEF Plan!InsertRow, Plan!At, Plan!Done, Plan!Go
<1>2. Busy(q) /\ Creates(q)
  BY <1>1 DEF Busy, Creates
<1>3. r \in Resources
  BY <1>2, JobOf
<1>4. row.state = "live" /\ (row.enabled <=> e) /\ next.at \notin {"secret", "write"}
  OBVIOUS
<1> HIDE DEF r, row, next
<1>5. resource' = [resource EXCEPT ![r] = row]
  BY <1>1 DEF Plan!Write
<1>6. CASE e
  <2> DEFINE S == Regular'
             F == Plan!Filling'
  <2>1. S \subseteq Regular \cup {r}
    BY <1>1, <1>3, <1>5 DEF Regular, Plan!Counted, Plan!Live, PlanTypeOK
  <2>2. F = Plan!Filling \ {q} /\ q \in Plan!Filling
    BY <1>1, <1>2, <1>4, <1>6, FillingAfter, FillingIs
  <2>3. S = Plan!Counted' \ beyond' /\ F = Plan!Filling'
    BY DEF Regular
  <2> HIDE DEF S, F
  <2>4. /\ Cardinality(Plan!Filling) <= crowd
        /\ Cardinality(Regular) + Cardinality(Plan!Filling) < Limit + crowd
        /\ Cardinality(Regular) \in Nat /\ Cardinality(Plan!Filling) \in Nat
        /\ Limit \in Nat /\ crowd \in Nat
    BY RoomIs
  <2>5. Cardinality(S) <= Cardinality(Regular) + 1 /\ Cardinality(S) \in Nat
    <3>1. /\ IsFiniteSet(Regular \cup {r})
          /\ \/ Cardinality(Regular \cup {r}) = Cardinality(Regular)
             \/ Cardinality(Regular \cup {r}) = Cardinality(Regular) + 1
      BY RegularIsFinite, FS_AddElement
    <3>2. /\ IsFiniteSet(S) /\ Cardinality(S) <= Cardinality(Regular \cup {r})
      BY <2>1, <3>1, FS_Subset
    <3>3. Cardinality(S) \in Nat
      BY <3>2, FS_CardinalityType
    <3> QED BY <2>4, <3>1, <3>2, <3>3
  <2>6. Cardinality(F) = Cardinality(Plan!Filling) - 1
    BY <2>2, FillingIsFinite, FS_RemoveElement
  <2>7. Cardinality(F) <= crowd /\ Cardinality(S) + Cardinality(F) < Limit + crowd
    BY <2>4, <2>5, <2>6
  <2> QED BY <1>1, <2>3, <2>7 DEF RoomInv
<1>7. CASE ~e
  BY <1>1, <1>3, <1>4, <1>5, <1>7, WriteKeepsRoom
<1> QED BY <1>6, <1>7

LEMMA UpdateKeepsRoom ==
  ASSUME PlanTypeOK, RoomInv, NEW q \in Requests, Plan!UpdateServer(q)
  PROVE  RoomInv'
<1> DEFINE r == request[q].r
           next == [at |-> "purge", old |-> Plan!Superseded(q)]
<1>1. request[q].at = "write" /\ request' = [request EXCEPT ![q] = next] /\ crowd' = crowd
  BY DEF Plan!UpdateServer, Plan!At, Plan!Go
<1>2. Busy(q)
  BY <1>1 DEF Busy
<1>3. r \in Resources /\ resource[r] \in Row /\ next.at \notin {"secret", "write"}
  BY <1>2, JobOf
<1> PICK b \in BOOLEAN : b = Plan!Wanted(q)
  BY <1>2, WantedIs
<1> HIDE DEF r, next
<1>4. CASE Plan!Live(r)
  <2> DEFINE row == [resource[r] EXCEPT !.enabled = b, !.refs = Plan!NewRefs(q)]
  <2>1. /\ Plan!Write(q, r, row)
        /\ beyond' = IF b /\ ~resource[r].enabled THEN beyond \cup {r} ELSE beyond
    BY <1>4 DEF Plan!UpdateServer, Plan!Enabling, r
  <2>2. row.enabled <=> b
    BY <1>3 DEF Row
  <2> HIDE DEF row
  <2>3. resource' = [resource EXCEPT ![r] = row]
    BY <2>1 DEF Plan!Write
  <2>4. /\ beyond \subseteq beyond'
        /\ row.enabled => r \in beyond' \/ (resource[r].state = "live" /\ resource[r].enabled)
    BY <1>4, <2>1, <2>2 DEF Plan!Live
  <2> QED BY <1>1, <1>3, <2>3, <2>4, WriteKeepsRoom
<1>5. CASE ~Plan!Live(r)
  <2>1. UNCHANGED <<resource, beyond>>
    BY <1>5 DEF Plan!UpdateServer, r
  <2> QED BY <1>1, <1>3, <2>1, RequestKeepsRoom
<1> QED BY <1>4, <1>5

LEMMA DeleteKeepsRoom ==
  ASSUME PlanTypeOK, RoomInv, NEW q \in Requests, Plan!DeleteServer(q)
  PROVE  RoomInv'
<1> DEFINE r == request[q].r
           row == [Plan!Absent EXCEPT !.state = "gone"]
<1>1. request[q].at = "write" /\ beyond' = beyond /\ crowd' = crowd
  BY DEF Plan!DeleteServer, Plan!At
<1>2. Busy(q)
  BY <1>1 DEF Busy
<1>3. r \in Resources
  BY <1>2, JobOf
<1>4. PICK next :
        request' = [request EXCEPT ![q] = next] /\ next.at \notin {"secret", "write"}
  <2>1. \/ request' = [request EXCEPT ![q] = [at |-> "done"]]
        \/ request' = [request EXCEPT ![q] =
             [at |-> "purge", old |-> {request[q].seen.refs[s] : s \in Plan!Slots} \ {None}]]
    BY DEF Plan!DeleteServer, Plan!Done, Plan!Go
  <2> DEFINE done == [at |-> "done"]
             purge == [at |-> "purge",
                       old |-> {request[q].seen.refs[s] : s \in Plan!Slots} \ {None}]
  <2>2. done.at \notin {"secret", "write"} /\ purge.at \notin {"secret", "write"}
    OBVIOUS
  <2>3. request' = [request EXCEPT ![q] = done] \/ request' = [request EXCEPT ![q] = purge]
    BY <2>1
  <2> HIDE DEF done, purge
  <2> QED BY <2>2, <2>3
<1>5. CASE Plan!Live(r)
  <2>1. Plan!Write(q, r, row)
    BY <1>5 DEF Plan!DeleteServer
  <2>2. row.state # "live"
    BY DEF Plan!Absent
  <2> HIDE DEF r, row
  <2>3. resource' = [resource EXCEPT ![r] = row]
    BY <2>1 DEF Plan!Write
  <2> QED BY <1>1, <1>3, <1>4, <2>2, <2>3, WriteKeepsRoom
<1>6. CASE ~Plan!Live(r)
  <2>1. UNCHANGED <<resource, crowd, beyond>>
    BY <1>1, <1>6 DEF Plan!DeleteServer
  <2> QED BY <1>4, <2>1, RequestKeepsRoom
<1> QED BY <1>5, <1>6

LEMMA ChangeKeepsRoom ==
  ASSUME PlanTypeOK, RoomInv, NEW q \in Requests, Plan!ChangePattern(q)
  PROVE  RoomInv'
<1> DEFINE r == request[q].r
           next == [at |-> "done"]
<1>1. request[q].at = "write" /\ request' = [request EXCEPT ![q] = next] /\ crowd' = crowd
  BY DEF Plan!ChangePattern, Plan!At, Plan!Done, Plan!Go
<1>2. Busy(q)
  BY <1>1 DEF Busy
<1>3. r \in Resources /\ resource[r] \in Row /\ next.at \notin {"secret", "write"}
  BY <1>2, JobOf
<1> PICK b \in BOOLEAN : b = Plan!Wanted(q)
  BY <1>2, WantedIs
<1> HIDE DEF r, next
<1>4. CASE resource[r].version = request[q].seen.version
  <2> DEFINE row == [resource[r] EXCEPT !.enabled = b, !.version = @ + 1]
  <2>1. /\ Plan!Write(q, r, row)
        /\ beyond' = IF b /\ ~resource[r].enabled THEN beyond \cup {r} ELSE beyond
    BY <1>4 DEF Plan!ChangePattern, Plan!Enabling, r
  <2>2. (row.enabled <=> b) /\ row.state = resource[r].state
    BY <1>3 DEF Row
  <2> HIDE DEF row
  <2>3. resource' = [resource EXCEPT ![r] = row]
    BY <2>1 DEF Plan!Write
  <2>4. /\ beyond \subseteq beyond'
        /\ row.state = "live" /\ row.enabled =>
             r \in beyond' \/ (resource[r].state = "live" /\ resource[r].enabled)
    BY <2>1, <2>2
  <2> QED BY <1>1, <1>3, <2>3, <2>4, WriteKeepsRoom
<1>5. CASE resource[r].version # request[q].seen.version
  <2>1. UNCHANGED <<resource, beyond>>
    BY <1>5 DEF Plan!ChangePattern, r
  <2> QED BY <1>1, <1>3, <2>1, RequestKeepsRoom
<1> QED BY <1>4, <1>5

LEMMA RevokeKeepsRoom ==
  ASSUME PlanTypeOK, RoomInv, NEW r \in Resources, Plan!RevokeKey(r)
  PROVE  RoomInv'
<1>1. /\ resource' = [resource EXCEPT ![r].enabled = FALSE]
      /\ UNCHANGED <<request, crowd, beyond>>
  BY DEF Plan!RevokeKey
<1>2. resource[r] \in Row
  BY DEF PlanTypeOK
<1>3. /\ resource'[r] = [resource[r] EXCEPT !.enabled = FALSE]
      /\ \A t \in Resources \ {r} : resource'[t] = resource[t]
  BY <1>1 DEF PlanTypeOK
<1>4. ~resource'[r].enabled
  BY <1>2, <1>3 DEF Row
<1>5. Regular' \subseteq Regular
  BY <1>1, <1>3, <1>4 DEF Regular, Plan!Counted, Plan!Live
<1> DEFINE S == Regular'
           F == Plan!Filling'
<1>6. S = Regular' /\ S \subseteq Regular
  BY <1>5
<1>7. F = Plan!Filling' /\ F \subseteq Plan!Filling
  BY <1>1 DEF Plan!Filling, Plan!At
<1> HIDE DEF S, F
<1> QED BY <1>1, <1>6, <1>7, RoomStays

(* A job that goes on, and one that ends.                                  *)
LEMMA OtherStepsKeepRoom ==
  ASSUME PlanTypeOK, RoomInv, NEW q \in Requests,
         \/ Plan!StoreSecret(q) \/ Plan!SecretsStored(q) \/ Plan!DeleteSecret(q)
         \/ Plan!Purged(q) \/ Plan!Ends(q)
  PROVE  RoomInv'
<1>1. UNCHANGED <<resource, crowd, beyond>>
  BY DEF Plan!StoreSecret, Plan!SecretsStored, Plan!DeleteSecret, Plan!Purged, Plan!Ends,
         Plan!ghosts
<1>2. PICK next :
        /\ request' = [request EXCEPT ![q] = next]
        /\ \/ next.at \notin {"secret", "write"}
           \/ next.op # "create"
           \/ Creates(q) /\ next.enabled = request[q].enabled
  <2>1. CASE Plan!StoreSecret(q)
    <3> DEFINE s == Plan!NextSlot(q)
               next == [request[q] EXCEPT !.give = @ \ {s}, !.new[s] = <<q, s>>]
    <3>1. request[q].at = "secret" /\ request' = [request EXCEPT ![q] = next]
      BY <2>1 DEF Plan!StoreSecret, Plan!Go, Plan!At
    <3>2. Busy(q)
      BY <3>1 DEF Busy
    <3>3. next.op = request[q].op /\ next.enabled = request[q].enabled
      BY <3>2, JobOf DEF Job
    <3> QED BY <3>1, <3>2, <3>3 DEF Creates
  <2>2. CASE Plan!SecretsStored(q)
    <3> DEFINE next == [request[q] EXCEPT !.at = "write"]
    <3>1. request[q].at = "secret" /\ request' = [request EXCEPT ![q] = next]
      BY <2>2 DEF Plan!SecretsStored, Plan!On, Plan!Go, Plan!At
    <3>2. Busy(q)
      BY <3>1 DEF Busy
    <3>3. next.op = request[q].op /\ next.enabled = request[q].enabled
      BY <3>2, JobOf DEF Job
    <3> QED BY <3>1, <3>2, <3>3 DEF Creates
  <2>3. CASE Plan!DeleteSecret(q)
    <3>1. /\ request[q].at = "purge"
          /\ \E s \in request[q].old :
               request' = [request EXCEPT ![q] = [request[q] EXCEPT !.old = @ \ {s}]]
      BY <2>3 DEF Plan!DeleteSecret, Plan!Go, Plan!At
    <3>2. request[q] \in Purge
      BY <3>1, Forms DEF Purging
    <3>3. PICK s : request' = [request EXCEPT ![q] = [request[q] EXCEPT !.old = @ \ {s}]]
      BY <3>1
    <3> DEFINE next == [request[q] EXCEPT !.old = @ \ {s}]
    <3>4. next.at = "purge"
      BY <3>2 DEF Purge
    <3> QED BY <3>3, <3>4
  <2>4. CASE Plan!Purged(q) \/ Plan!Ends(q)
    <3>1. request' = [request EXCEPT ![q] = [at |-> "done"]]
      BY <2>4 DEF Plan!Purged, Plan!Ends, Plan!Done, Plan!Go
    <3> DEFINE next == [at |-> "done"]
    <3>2. request' = [request EXCEPT ![q] = next] /\ next.at = "done"
      BY <3>1
    <3> HIDE DEF next
    <3> QED BY <3>2
  <2> QED BY <2>1, <2>2, <2>3, <2>4
<1> QED BY <1>1, <1>2, RequestKeepsRoom

LEMMA BeginChangeKeepsRoom ==
  ASSUME PlanTypeOK, RoomInv, NEW q \in Requests, NEW r, NEW op \in {"update", "delete"},
         NEW enabled, NEW give, Plan!BeginChange(q, r, op, enabled, give)
  PROVE  RoomInv'
<1> DEFINE next == [at |-> IF op = "delete" THEN "write" ELSE "secret", op |-> op, r |-> r,
                    seen |-> Plan!Effective(r), give |-> give, new |-> Plan!NoRefs,
                    enabled |-> enabled]
<1>1. /\ request' = [request EXCEPT ![q] = next]
      /\ UNCHANGED <<resource, crowd, beyond>>
  BY DEF Plan!BeginChange, Plan!Go
<1>2. next.op # "create"
  OBVIOUS
<1> HIDE DEF next
<1> QED BY <1>1, <1>2, RequestKeepsRoom

LEMMA RoomNext ==
  ASSUME PlanTypeOK, RoomInv, [Plan!Next]_(Plan!vars)
  PROVE  RoomInv'
<1>1. ASSUME UNCHANGED <<resource, request, crowd, beyond>> PROVE RoomInv'
  BY <1>1 DEF RoomInv, Plan!Counted, Plan!Live, Plan!Filling, Plan!At
<1>2. ASSUME NEW q \in Requests, Plan!Step(q) PROVE RoomInv'
  <2>1. ASSUME NEW r \in Resources,
               Plan!CreateServer(q, r) \/ Plan!CreatePattern(q, r) \/ Plan!CreateKey(q, r)
        PROVE  RoomInv'
    <3>1. \E e, give : Plan!Begin(q, r, e, give)
      BY <2>1 DEF Plan!CreateServer, Plan!CreatePattern, Plan!CreateKey
    <3> QED BY <3>1, BeginKeepsRoom
  <2>2. ASSUME NEW r \in Resources, NEW op \in {"update", "delete"}, NEW e, NEW give,
               Plan!BeginChange(q, r, op, e, give)
        PROVE  RoomInv'
    BY <2>2, BeginChangeKeepsRoom
  <2>3. CASE Plan!InsertServer(q) \/ Plan!InsertPattern(q) \/ Plan!InsertKey(q)
    <3>1. Plan!InsertRow(q)
      BY <2>3 DEF Plan!InsertServer, Plan!InsertPattern, Plan!InsertKey
    <3> QED BY <3>1, InsertKeepsRoom
  <2>4. CASE Plan!UpdatePattern(q) \/ Plan!DeletePattern(q)
    <3>1. Plan!ChangePattern(q)
      BY <2>4 DEF Plan!UpdatePattern, Plan!DeletePattern
    <3> QED BY <3>1, ChangeKeepsRoom
  <2>5. CASE \/ Plan!StoreSecret(q) \/ Plan!SecretsStored(q) \/ Plan!DeleteSecret(q)
             \/ Plan!Purged(q) \/ Plan!Ends(q)
    BY <2>5, OtherStepsKeepRoom
  <2>6. CASE Plan!UpdateServer(q) \/ Plan!DeleteServer(q)
    BY <2>6, UpdateKeepsRoom, DeleteKeepsRoom
  <2> QED BY <1>2, <2>1, <2>2, <2>3, <2>4, <2>5, <2>6 DEF Plan!Step
<1>3. ASSUME NEW r \in Resources, Plan!RevokeKey(r) \/ Plan!Suspend(r) \/ Plan!Restore(r)
      PROVE  RoomInv'
  <2>1. CASE Plan!RevokeKey(r)
    BY <2>1, RevokeKeepsRoom
  <2>2. CASE Plan!Suspend(r) \/ Plan!Restore(r)
    BY <1>1, <2>2 DEF Plan!Suspend, Plan!Restore, Plan!ghosts
  <2> QED BY <1>3, <2>1, <2>2
<1>4. CASE UNCHANGED Plan!vars
  BY <1>1, <1>4 DEF Plan!vars, Plan!ghosts
<1> QED BY <1>2, <1>3, <1>4 DEF Plan!Next

(* The handlers that create and change what a plan counts keep the         *)
(* inductive invariant: references that nobody shares, no use of what is   *)
(* about to be deleted, and room for those that have passed the check.     *)
THEOREM PlanInvariant == Plan!Spec => []PlanInv
<1>1. Plan!Init => PlanInv
  BY PlanStarts, PlanAssumption
<1>2. PlanInv /\ [Plan!Next]_(Plan!vars) => PlanInv'
  BY SecretsNext, RoomNext DEF PlanInv
<1> QED BY <1>1, <1>2, PTL DEF Plan!Spec

(* require_plan_capacity counts without a lock: what exceeds the plan is   *)
(* one row less than the requests that were between their check and their  *)
(* INSERT at once, and what updates enabled.                               *)
THEOREM PlanCapacityHoldsAlways == Plan!Spec => []PlanCapacityHolds
<1>1. PlanInv => PlanCapacityHolds
  <2> SUFFICES ASSUME PlanInv PROVE PlanCapacityHolds
    OBVIOUS
  <2>1. /\ Cardinality(Regular) \in Nat /\ Cardinality(Plan!Filling) \in Nat
        /\ Limit \in Nat /\ crowd \in Nat
    BY RegularIsFinite, FillingIsFinite, SameFiniteSets DEF PlanInv, PlanTypeOK
  <2>2. Cardinality(Regular) < Limit + crowd
    BY <2>1 DEF PlanInv, RoomInv, Regular
  <2> QED BY <2>2, SameFiniteSets DEF PlanCapacityHolds, Plan!PlanCapacityHolds, Regular
<1> QED BY <1>1, PlanInvariant, PTL

(* update_server, delete_server and the handlers of patterns and keys:     *)
(* what was last asked for is in effect, every secret that a server refers *)
(* to exists, and no secret is left over, unless changes overlapped or     *)
(* something failed.                                                       *)
THEOREM ChangesAreKeptHolds == Plan!Spec => []ChangesAreKept
<1>1. PlanInv => ChangesAreKept
  <2> SUFFICES ASSUME PlanInv PROVE ChangesAreKept
    OBVIOUS
  <2> USE DEF PlanInv, SecretInv
  <2>1. \A r : Plan!RefsOf({r}) = Held(r)
    BY DEF Plan!RefsOf, Held, RefsIn
  <2>2. \A r \in Resources \ muddled :
          Plan!Live(r) => resource[r].enabled = wanted[r] /\ Plan!RefsOf({r}) \subseteq secrets
    BY <2>1 DEF EnabledAsAsked, AllStored
  <2>3. kind = "patterns" => muddled = {}
    BY DEF EnabledAsAsked
  <2>4. ASSUME clean,
               \A q \in Requests : Plan!At(q, "idle") \/ Plan!At(q, "done")
        PROVE  secrets \subseteq Plan!RefsOf(Resources)
    <3>1. \A q \in Requests : ~Busy(q) /\ ~Purging(q)
      BY <2>4 DEF Busy, Purging, Plan!At
    <3>2. \A x \in secrets : \E r \in Resources : x \in Held(r)
      BY <2>4, <3>1 DEF NothingLeft
    <3> QED BY <3>2 DEF Plan!RefsOf, Held, RefsIn
  <2> QED BY <2>2, <2>3, <2>4 DEF ChangesAreKept, Plan!ChangesAreKept
<1> QED BY <1>1, PlanInvariant, PTL
=============================================================================
