-------------------------- MODULE ApprovalExecution --------------------------
(***************************************************************************)
(* Human approval of MCP tool calls: McpInvocationService::invoke          *)
(* (crates/gateway-mcp/src/invocation.rs), ApprovalService                 *)
(* (crates/gateway-approval/src/service.rs) and the approval tables        *)
(* (stores/store-postgres/src/v03.rs).                                     *)
(*                                                                         *)
(* A call is one HTTP request: it runs invoke once and ends.  A call that  *)
(* needs approval and brings no reference creates an approval; a later     *)
(* call retries it with the approval's id and an idempotency key.  Each    *)
(* statement sent to PostgreSQL is one action, except that get, which runs *)
(* expire_approvals and then reads the approval, is one: a list request    *)
(* may run expire_approvals at any other moment.  The caller may go away   *)
(* and the process may die at every await.                                 *)
(***************************************************************************)
EXTENDS FiniteSets

CONSTANTS
  Calls,
  Who,             \* the principal of each call
  Hash,            \* the request_hash of each call: server, tool, arguments
  Sensitive,       \* hashes for which policy or inspection want approval
  Harmless,        \* hashes for which they never do; for the others, policy
                   \* edits decide from call to call
  Approvals,       \* approval ids
  Keys,            \* idempotency keys
  Admins,          \* administrators, each with one decision to make
  StrayReferences, \* do clients send a reference with an unrelated call?
  None

ASSUME ApprovalAssumption ==
  /\ Sensitive \intersect Harmless = {}
  /\ StrayReferences \in BOOLEAN
  /\ None \notin Approvals \X Keys

VARIABLES
  \* approval_requests
  status, owner, hash,
  overdue,     \* approvals with expires_at <= now()
  \* approval_executions
  execution,   \* the row of each approval
  \* the callers and the administrators
  pc, ref, needs, answer,
  ruling,      \* the decision an administrator is about to write
  \* What the properties compare with; no action reads these.
  ran,         \* <<c, a>>: call c reached the tool under the claim of a
  answered,    \* calls whose tool returned a result
  unapproved   \* calls that needed approval and reached the tool without it

requests == <<status, owner, hash, overdue>>
history  == <<ran, answered, unapproved>>
vars == <<requests, execution, pc, ref, needs, answer, ruling, history>>

References == Approvals \X Keys
Statuses   == {"none", "pending", "approved", "rejected", "expired"}
Phases     == {"start", "create", "load", "claim", "compare", "quota",
               "invoke", "inspect", "fail", "complete", "done"}
NoAnswer   == [kind |-> "none"]
Answers    == [kind : {"fresh", "stored"}, call : Calls] \union {NoAnswer}
NoRow      == [state |-> "none"]
Rows       == [principal : {Who[c] : c \in Calls}, key : Keys,
               hash : {Hash[c] : c \in Calls},
               state : {"claimed", "completed", "indeterminate"},
               result : Calls \union {None}]

Init ==
  /\ status = [a \in Approvals |-> "none"]
  /\ owner = [a \in Approvals |-> None]
  /\ hash = [a \in Approvals |-> None]
  /\ overdue = {}
  /\ execution = [a \in Approvals |-> NoRow]
  /\ pc = [c \in Calls |-> "start"]
  /\ ref = [c \in Calls |-> None]
  /\ needs = [c \in Calls |-> FALSE]
  /\ answer = [c \in Calls |-> NoAnswer]
  /\ ruling = [d \in Admins |-> None]
  /\ ran = {} /\ answered = {} /\ unapproved = {}

Goto(c, p) == pc' = [pc EXCEPT ![c] = p]
Id(c)  == ref[c][1]
Key(c) == ref[c][2]

-----------------------------------------------------------------------------
(* expire_approvals: UPDATE ... WHERE status='pending' AND expires_at<=$1. *)
Expired(a) == status[a] = "pending" /\ a \in overdue

ExpirePending ==
  status' = [a \in Approvals |-> IF Expired(a) THEN "expired" ELSE status[a]]

(* GET /admin/approvals and GET /v1/gateway/approvals.                     *)
List ==
  /\ \E a \in Approvals : Expired(a)
  /\ ExpirePending
  /\ UNCHANGED <<owner, hash, overdue, execution, pc, ref, needs, answer,
                 ruling, history>>

PassTime(a) ==
  /\ status[a] # "none" /\ a \notin overdue
  /\ overdue' = overdue \union {a}
  /\ UNCHANGED <<status, owner, hash, execution, pc, ref, needs, answer,
                 ruling, history>>

-----------------------------------------------------------------------------
(* invoke up to the decision on approval: registry, policy, inspection of  *)
(* the arguments.  A call can also be refused here, which ends it.         *)
NeedsApproval(c) ==
  CASE Hash[c] \in Sensitive -> {TRUE}
    [] Hash[c] \in Harmless  -> {FALSE}
    [] OTHER                 -> BOOLEAN

Related(c, r) == r # None => owner[r[1]] = Who[c] /\ hash[r[1]] = Hash[c]

Start(c, r, need) ==
  /\ pc[c] = "start"
  /\ r # None => status[r[1]] # "none"
  /\ need \in NeedsApproval(c)
  /\ StrayReferences \/ need \/ Related(c, r)
  /\ ref' = [ref EXCEPT ![c] = r]
  /\ needs' = [needs EXCEPT ![c] = need]
  /\ Goto(c, IF ~need THEN "quota" ELSE IF r = None THEN "create" ELSE "load")
  /\ UNCHANGED <<requests, execution, answer, ruling, history>>

(* ApprovalService::create; the call ends with 202 approval_required.      *)
Create(c, a) ==
  /\ pc[c] = "create" /\ status[a] = "none"
  /\ status' = [status EXCEPT ![a] = "pending"]
  /\ owner' = [owner EXCEPT ![a] = Who[c]]
  /\ hash' = [hash EXCEPT ![a] = Hash[c]]
  /\ Goto(c, "done")
  /\ UNCHANGED <<overdue, execution, ref, needs, answer, ruling, history>>

(* Mutant: any approved request will do.                                   *)
LoadAnyApproved(c) ==
  /\ pc[c] = "load"
  /\ ExpirePending
  /\ Goto(c, IF status'[Id(c)] = "approved" THEN "claim" ELSE "done")
  /\ UNCHANGED <<owner, hash, overdue, execution, ref, needs, answer, ruling,
                 history>>

(* authorize_retry up to the claim: get, then principal, hash and status   *)
(* are compared.                                                           *)
Load(c) ==
  /\ pc[c] = "load"
  /\ ExpirePending
  /\ Goto(c, IF /\ Related(c, ref[c])
                /\ status'[Id(c)] = "approved" THEN "claim" ELSE "done")
  /\ UNCHANGED <<owner, hash, overdue, execution, ref, needs, answer, ruling,
                 history>>

NewRow(c) == [principal |-> Who[c], key |-> Key(c), hash |-> Hash[c],
              state |-> "claimed", result |-> None]

(* Mutant: the unique index is on (approval_id, idempotency_key) only.     *)
ClaimPerKey(c) ==
  /\ pc[c] = "claim"
  /\ LET free == execution[Id(c)] = NoRow \/ execution[Id(c)].key # Key(c)
     IN /\ execution' = IF free THEN [execution EXCEPT ![Id(c)] = NewRow(c)]
                                ELSE execution
        /\ Goto(c, IF free THEN "quota" ELSE "compare")
  /\ UNCHANGED <<requests, ref, needs, answer, ruling, history>>

(* claim_execution: INSERT INTO approval_executions ... ON CONFLICT DO     *)
(* NOTHING, with UNIQUE (approval_id).                                     *)
Claim(c) ==
  /\ pc[c] = "claim"
  /\ LET free == execution[Id(c)] = NoRow
     IN /\ execution' = IF free THEN [execution EXCEPT ![Id(c)] = NewRow(c)]
                                ELSE execution
        /\ Goto(c, IF free THEN "quota" ELSE "compare")
  /\ UNCHANGED <<requests, ref, needs, answer, ruling, history>>

(* The row that was in the way: its stored result is returned to the same  *)
(* principal, key and hash if it is completed; otherwise the call fails.   *)
Compare(c) ==
  /\ pc[c] = "compare"
  /\ LET row == execution[Id(c)]
         mine == /\ row.principal = Who[c] /\ row.key = Key(c)
                 /\ row.hash = Hash[c]
     IN answer' = IF mine /\ row.state = "completed"
                    THEN [answer EXCEPT ![c] =
                            [kind |-> "stored", call |-> row.result]]
                    ELSE answer
  /\ Goto(c, "done")
  /\ UNCHANGED <<requests, execution, ref, needs, ruling, history>>

(* McpQuota::reserve; a refusal ends the call and leaves its claim.        *)
Reserve(c, ok) ==
  /\ pc[c] = "quota"
  /\ Goto(c, IF ok THEN "invoke" ELSE "done")
  /\ UNCHANGED <<requests, execution, ref, needs, answer, ruling, history>>

(* registry.invoke under its deadline.  After an error or a timeout the    *)
(* tool may have run as well.                                              *)
Invoke(c, ok) ==
  /\ pc[c] = "invoke"
  /\ Goto(c, IF ok THEN "inspect" ELSE "fail")
  /\ ran' = IF needs[c] THEN ran \union {<<c, Id(c)>>} ELSE ran
  /\ unapproved' =
       IF needs[c] /\ ~(/\ status[Id(c)] = "approved"
                        /\ Related(c, ref[c]))
         THEN unapproved \union {c} ELSE unapproved
  /\ answered' = IF ok THEN answered \union {c} ELSE answered
  /\ UNCHANGED <<requests, execution, ref, needs, answer, ruling>>

(* Response size, inspection of the result, record_mcp_usage: any of them  *)
(* may end the call, with its claim left as it is.                         *)
Inspect(c, ok) ==
  /\ pc[c] = "inspect"
  /\ Goto(c, IF ok THEN "complete" ELSE "done")
  /\ UNCHANGED <<requests, execution, ref, needs, answer, ruling, history>>

(* UPDATE approval_executions SET status=... WHERE approval_id=$1 AND      *)
(* idempotency_key=$2 AND status='claimed', for a call that brought a      *)
(* reference, whether it needed approval or not.                           *)
ClaimedRow(c) ==
  /\ ref[c] # None
  /\ execution[Id(c)] # NoRow
  /\ execution[Id(c)].key = Key(c)
  /\ execution[Id(c)].state = "claimed"

Settle(c, state, result) ==
  execution' =
    IF ClaimedRow(c)
      THEN [execution EXCEPT ![Id(c)].state = state, ![Id(c)].result = result]
      ELSE execution

(* Mutant: the flag indeterminate is not looked at.                        *)
FailMarksFailed(c) ==
  /\ pc[c] = "fail"
  /\ Settle(c, "failed", None)
  /\ Goto(c, "done")
  /\ UNCHANGED <<requests, ref, needs, answer, ruling, history>>

(* Mutant: a failed call is completed like any other.                      *)
FailCompletes(c) ==
  /\ pc[c] = "fail"
  /\ Settle(c, "completed", c)
  /\ Goto(c, "done")
  /\ UNCHANGED <<requests, ref, needs, answer, ruling, history>>

(* The tool may have run: the outcome is unknown, for good.                *)
Fail(c) ==
  /\ pc[c] = "fail"
  /\ Settle(c, "indeterminate", None)
  /\ Goto(c, "done")
  /\ UNCHANGED <<requests, ref, needs, answer, ruling, history>>

(* The caller, or the answer of the statement, may be lost.               *)
Complete(c, heard) ==
  /\ pc[c] = "complete"
  /\ Settle(c, "completed", c)
  /\ answer' = IF heard
                 THEN [answer EXCEPT ![c] = [kind |-> "fresh", call |-> c]]
                 ELSE answer
  /\ Goto(c, "done")
  /\ UNCHANGED <<requests, ref, needs, ruling, history>>

(* The caller disconnects, the process dies or a statement fails.          *)
Abandon(c) ==
  /\ pc[c] # "done"
  /\ Goto(c, "done")
  /\ UNCHANGED <<requests, execution, ref, needs, answer, ruling, history>>

-----------------------------------------------------------------------------
Verdicts == {"approved", "rejected"}

(* decide, up to the write: get, and a test that the approval is pending;  *)
(* decided_at is read from the clock here.                                 *)
StartDecision(d, a, verdict) ==
  /\ ruling[d] = None /\ status[a] # "none"
  /\ ExpirePending
  /\ ruling' = IF status'[a] = "pending"
                 THEN [ruling EXCEPT ![d] = <<a, verdict>>] ELSE ruling
  /\ UNCHANGED <<owner, hash, overdue, execution, pc, ref, needs, answer,
                 history>>

(* Mutant: without AND status='pending'.                                   *)
DecideAnyway(d) ==
  /\ ruling[d] \in Approvals \X Verdicts
  /\ status' = [status EXCEPT ![ruling[d][1]] = ruling[d][2]]
  /\ ruling' = [ruling EXCEPT ![d][2] = "written"]
  /\ UNCHANGED <<owner, hash, overdue, execution, pc, ref, needs, answer,
                 history>>

(* decide_approval: UPDATE ... WHERE status='pending' AND                  *)
(* expires_at>decided_at; the approval may have become due since then.     *)
Decide(d) ==
  /\ ruling[d] \in Approvals \X Verdicts
  /\ status' = IF status[ruling[d][1]] = "pending"
                 THEN [status EXCEPT ![ruling[d][1]] = ruling[d][2]]
                 ELSE status
  /\ ruling' = [ruling EXCEPT ![d][2] = "written"]
  /\ UNCHANGED <<owner, hash, overdue, execution, pc, ref, needs, answer,
                 history>>

-----------------------------------------------------------------------------
CallStep(c) ==
  \/ \E r \in References \union {None}, need \in BOOLEAN : Start(c, r, need)
  \/ \E a \in Approvals : Create(c, a)
  \/ Load(c) \/ Claim(c) \/ Compare(c)
  \/ \E ok \in BOOLEAN :
       Reserve(c, ok) \/ Invoke(c, ok) \/ Inspect(c, ok) \/ Complete(c, ok)
  \/ Fail(c)

Next ==
  \/ \E c \in Calls : CallStep(c) \/ Abandon(c)
  \/ List \/ \E a \in Approvals : PassTime(a)
  \/ \E d \in Admins :
       \/ \E a \in Approvals, v \in Verdicts : StartDecision(d, a, v)
       \/ Decide(d)

Spec == Init /\ [][Next]_vars

-----------------------------------------------------------------------------
(* Every variable has its type.                                            *)
TypeOK ==
  /\ status \in [Approvals -> Statuses]
  /\ owner \in [Approvals -> {Who[c] : c \in Calls} \union {None}]
  /\ hash \in [Approvals -> {Hash[c] : c \in Calls} \union {None}]
  /\ overdue \subseteq Approvals
  /\ execution \in [Approvals -> Rows \union {NoRow}]
  /\ pc \in [Calls -> Phases]
  /\ ref \in [Calls -> References \union {None}]
  /\ needs \in [Calls -> BOOLEAN]
  /\ answer \in [Calls -> Answers]
  /\ ruling \in [Admins -> 
       (Approvals \X (Verdicts \union {"written"})) \union {None}]
  /\ ran \subseteq Calls \X Approvals
  /\ answered \subseteq Calls /\ unapproved \subseteq Calls

(* claim_execution: however many retries race, with whatever keys, and     *)
(* wherever callers or processes die, one approval lets one call through   *)
(* to the tool.                                                            *)
OneRunPerApproval ==
  \A a \in Approvals, c, d \in Calls :
    <<c, a>> \in ran /\ <<d, a>> \in ran => c = d

(* authorize_retry: a call that needs approval reaches the tool only under *)
(* an approval that was granted for this principal and this very request.  *)
OnlyApprovedCallsRun == unapproved = {}

(* complete_execution and the replay: a stored result that is returned     *)
(* comes from a call that the tool answered.  It is the result of another  *)
(* request, or of another principal, only if that call needed no approval  *)
(* and was sent with the reference nevertheless.                           *)
ReplayIsOfTheSameCall ==
  \A c \in Calls :
    answer[c].kind = "stored" =>
      LET x == answer[c].call
      IN /\ x \in answered
         /\ needs[x] => Who[x] = Who[c] /\ Hash[x] = Hash[c]

(* Decisions, expiry, claims and outcomes follow ApprovalLifecycle: one    *)
(* decision, one claim, of an approved request only, one outcome.          *)
StateOf(a) ==
  IF execution[a] = NoRow THEN status[a] ELSE execution[a].state

Lifecycle == INSTANCE ApprovalLifecycle
  WITH state <- [a \in Approvals |-> StateOf(a)]

ImplementsLifecycle == Lifecycle!Spec

=============================================================================
