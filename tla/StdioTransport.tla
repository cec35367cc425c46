--------------------------- MODULE StdioTransport ----------------------------
(***************************************************************************)
(* Requests to an MCP server that runs as a child process (mcp-transport-  *)
(* stdio): one request at a time holds the lock of the pipes, writes a line*)
(* with an id of its own, and reads lines until one has that id.  It gives *)
(* up at a deadline, which every line starts anew; its answer may still be *)
(* on its way when the next request reads.                                 *)
(***************************************************************************)
EXTENDS Naturals, Sequences

CONSTANTS
  Calls,
  NoCall,
  MaxLines   \* bound: lines in the pipe from the child

(* What the theorems assume of the constants.                              *)
TransportAssumption == NoCall \notin Calls

VARIABLES
  child,    \* ProcessState: not yet, there, or taken by shutdown
  holder,   \* who holds the lock of state
  nextId,   \* next_id
  asked,    \* requests the child has read and not answered: id, and for whom
  lines,    \* stdout of the child
  pc,
  id,       \* the id each call wrote
  answer    \* for the properties: whose answer each call returned

vars == <<child, holder, nextId, asked, lines, pc, id, answer>>

Init ==
  /\ child = "none" /\ holder = NoCall /\ nextId = 1
  /\ asked = {} /\ lines = <<>>
  /\ pc = [c \in Calls |-> "start"]
  /\ id = [c \in Calls |-> 0]
  /\ answer = [c \in Calls |-> NoCall]

Finish(c, for) ==
  /\ pc' = [pc EXCEPT ![c] = "done"]
  /\ answer' = [answer EXCEPT ![c] = for]
  /\ holder' = IF holder = c THEN NoCall ELSE holder

(* initialize, up to its own requests: the process is started and its pipes*)
(* are put under the lock.  A session has a transport of its own.          *)
Initialize ==
  /\ child = "none"
  /\ child' = "running"
  /\ UNCHANGED <<holder, nextId, asked, lines, pc, id, answer>>

(* request: self.state.lock(); without a process an error.                 *)
Lock(c) ==
  /\ pc[c] = "start" /\ holder = NoCall
  /\ child # "none"
  /\ IF child = "running"
     THEN /\ holder' = c
          /\ pc' = [pc EXCEPT ![c] = "write"]
          /\ UNCHANGED answer
     ELSE Finish(c, NoCall)
  /\ UNCHANGED <<child, nextId, asked, lines, id>>

(* Mutant: ids are not counted.                                            *)
WriteAgain(c) ==
  /\ pc[c] = "write"
  /\ id' = [id EXCEPT ![c] = nextId]
  /\ asked' = asked \union {[id |-> nextId, for |-> c]}
  /\ pc' = [pc EXCEPT ![c] = "read"]
  /\ UNCHANGED <<child, holder, nextId, lines, answer>>

(* next_id.fetch_add and write_all.                                        *)
Write(c) ==
  /\ pc[c] = "write"
  /\ nextId' = nextId + 1
  /\ id' = [id EXCEPT ![c] = nextId]
  /\ asked' = asked \union {[id |-> nextId, for |-> c]}
  /\ pc' = [pc EXCEPT ![c] = "read"]
  /\ UNCHANGED <<child, holder, lines, answer>>

(* Mutant: a notification or an old answer ends the request's reading, and *)
(* the lock is kept.                                                       *)
ReadLineOnce(c) ==
  /\ pc[c] = "read" /\ lines # <<>>
  /\ lines' = Tail(lines)
  /\ LET line == Head(lines) IN
     CASE line.kind = "answer" /\ line.id = id[c] -> Finish(c, line.for)
       [] OTHER -> pc' = [pc EXCEPT ![c] = "stuck"] /\ UNCHANGED <<answer, holder>>
  /\ UNCHANGED <<child, nextId, asked, id>>

(* A line: the answer if it has the id, an error if it is not JSON, and    *)
(* otherwise the next line is read.                                        *)
ReadLine(c) ==
  /\ pc[c] = "read" /\ lines # <<>>
  /\ lines' = Tail(lines)
  /\ LET line == Head(lines) IN
     CASE line.kind = "broken" -> Finish(c, NoCall)
       [] line.kind = "answer" /\ line.id = id[c] -> Finish(c, line.for)
       [] OTHER -> UNCHANGED <<pc, answer, holder>>
  /\ UNCHANGED <<child, nextId, asked, id>>

(* timeout(deadline, next_line()), end of file, or a failed write.         *)
GiveUp(c) ==
  /\ pc[c] \in {"write", "read"} /\ lines = <<>>
  /\ Finish(c, NoCall)
  /\ UNCHANGED <<child, nextId, asked, lines, id>>

(* The caller is dropped at an await; the guard goes with it.              *)
Dropped(c) ==
  /\ pc[c] # "done"
  /\ Finish(c, NoCall)
  /\ UNCHANGED <<child, nextId, asked, lines, id>>

(* shutdown takes the process under the lock.                              *)
Shutdown ==
  /\ child = "running" /\ holder = NoCall
  /\ child' = "over"
  /\ asked' = {} /\ lines' = <<>>
  /\ UNCHANGED <<holder, nextId, pc, id, answer>>

-----------------------------------------------------------------------------
(* The child: answers in any order, or never, and may say other things.    *)

Say(line) ==
  /\ child = "running" /\ Len(lines) < MaxLines
  /\ lines' = Append(lines, line)
  /\ UNCHANGED <<child, holder, nextId, pc, id, answer>>

Answer(q) ==
  /\ q \in asked
  /\ Say([kind |-> "answer", id |-> q.id, for |-> q.for])
  /\ asked' = asked \ {q}

Notify ==
  /\ Say([kind |-> "note"])
  /\ UNCHANGED asked

Garble(q) ==
  /\ q \in asked
  /\ Say([kind |-> "broken"])
  /\ asked' = asked \ {q}

-----------------------------------------------------------------------------
Request(c) == Lock(c) \/ Write(c) \/ ReadLine(c) \/ GiveUp(c)

Next ==
  \/ Initialize
  \/ \E c \in Calls : Request(c) \/ Dropped(c)
  \/ \E q \in asked : Answer(q) \/ Garble(q)
  \/ Notify \/ Shutdown

Spec == Init /\ [][Next]_vars

(* The session is initialized, the timer of the deadline fires, and the    *)
(* lock is passed on in the order of arrival.  Nothing is assumed of the   *)
(* child or of callers.                                                    *)
Fairness == WF_vars(Initialize) /\ \A c \in Calls : WF_vars(Request(c))

FairSpec == Spec /\ Fairness

-----------------------------------------------------------------------------
(* A call returns the answer to its own request, never a late one to a     *)
(* request that had given up before it.                                    *)
AnswersMatch == \A c \in Calls : answer[c] \in {NoCall, c}

(* Every request ends, provided the child does not send other lines for    *)
(* ever: each of them starts the deadline anew, under the lock.            *)
RequestsEnd ==
  <>[][~Notify]_vars => \A c \in Calls : <>(pc[c] = "done")

=============================================================================
