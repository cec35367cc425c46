---------------------------- MODULE PlanResources ----------------------------
(***************************************************************************)
(* The resources of a tenant that a managed plan counts: MCP servers with  *)
(* their secrets, custom security patterns and virtual keys.  Handlers of  *)
(* gateway-server (v03.rs, lib.rs) over gateway-secrets, gateway-keys and  *)
(* store-postgres.  Every action is one statement of PostgreSQL: there is  *)
(* no transaction around a handler, and a client that goes away drops it   *)
(* between two of them.  A service outside the repository suspends what a  *)
(* smaller plan no longer covers, and restores it.                         *)
(***************************************************************************)
EXTENDS Naturals, FiniteSets

CONSTANTS
  Resources,
  Requests,    \* bound: each is one call of a handler
  Limit,       \* tenant_plan_profiles.limits, for the kind in question
  None

VARIABLES
  kind,       \* what the resources are
  rows,       \* the rows of mcp_servers, security_custom_patterns or virtual_keys
  secrets,    \* secret_material
  suspended,  \* plan_resource_suspensions with restored_at IS NULL
  request,
  \* for the properties
  asked,      \* the value of enabled that was last asked for
  crowd,      \* the most requests that were about to fill the plan at once, 1 or more
  beyond,     \* rows that an update enabled, which makes no check
  late,       \* requests that do not know their row as it is
  muddled,    \* rows written on top of a change or a suspension, and not since
  clean       \* no request has failed, was dropped or overlapped another on its row

ghosts == <<asked, crowd, beyond, late, muddled, clean>>
vars == <<kind, rows, secrets, suspended, request, ghosts>>

Slots == {"credential", "environment"}

(* References are made of the row or the request that a secret was first   *)
(* stored for, so that no two are the same.                                *)
Refs == (Resources \cup Requests) \X Slots

(* What the theorems assume of the constants.                              *)
ResourcesAssumption ==
  /\ IsFiniteSet(Resources) /\ IsFiniteSet(Requests) /\ Limit \in Nat
  /\ Resources \cap Requests = {}
  /\ None \notin Refs

NoRefs == [s \in Slots |-> None]
Absent == [state |-> "none", enabled |-> FALSE, version |-> 0, refs |-> NoRefs]
Idle == [at |-> "idle"]

Start(r) ==
  {Absent,
   [state |-> "live", enabled |-> TRUE, version |-> 1,
    refs |-> IF kind = "servers" THEN [s \in Slots |-> <<r, s>>] ELSE NoRefs]}

Live(r) == rows[r].state = "live"
Counted == {r \in Resources : Live(r) /\ rows[r].enabled}
RefsOf(set) == {rows[r].refs[s] : r \in set, s \in Slots} \ {None}

Init ==
  /\ kind \in {"servers", "patterns", "keys"}
  /\ rows \in [Resources -> UNION {Start(r) : r \in Resources}]
  /\ \A r \in Resources : rows[r] \in Start(r)
  /\ Cardinality(Counted) <= Limit
  /\ secrets = RefsOf(Resources)
  /\ suspended = {}
  /\ request = [q \in Requests |-> Idle]
  /\ asked = [r \in Resources |-> rows[r].enabled]
  /\ crowd = 1 /\ beyond = {} /\ late = {} /\ muddled = {} /\ clean = TRUE

At(q, stage) == request[q].at = stage
Go(q, next)  == request' = [request EXCEPT ![q] = next]
On(q, stage) == Go(q, [request[q] EXCEPT !.at = stage])
Done(q)      == Go(q, [at |-> "done"])

(* p has chosen or read r and has not written it yet.                      *)
About(p, r) == "r" \in DOMAIN request[p] /\ request[p].r = r

(* effective_enabled of the SELECTs.                                       *)
Effective(r) == [rows[r] EXCEPT !.enabled = @ /\ r \notin suspended]

(* Those that have passed the check and have yet to insert an enabled row. *)
Filling ==
  {q \in Requests : /\ At(q, "secret") \/ At(q, "write")
                    /\ request[q].op = "create" /\ TRUE \in request[q].enabled}

-----------------------------------------------------------------------------
(* What a request finds.                                                   *)

(* Mutant: the limit itself passes.                                        *)
HasRoomAtLimit == Cardinality(Counted) <= Limit

(* plan_resource_usage counts enabled rows, suspended ones included.       *)
HasRoom == Cardinality(Counted) < Limit

(* require_plan_capacity and the checks of the input.  No lock and no row  *)
(* remembers that it has passed.                                           *)
Begin(q, r, enabled, give) ==
  /\ At(q, "idle") /\ rows[r] = Absent
  /\ ~\E p \in Requests : About(p, r)
  /\ IF HasRoom
       THEN Go(q, [at |-> "secret", op |-> "create", r |-> r, seen |-> Absent,
                   give |-> give, new |-> NoRefs, enabled |-> {enabled}])
     ELSE Done(q)
  /\ crowd' = IF Cardinality(Filling') > crowd THEN Cardinality(Filling') ELSE crowd
  /\ late' = late \ {q}
  /\ UNCHANGED <<kind, rows, secrets, suspended, asked, beyond, muddled, clean>>

CreateServer(q, r) ==
  kind = "servers" /\ \E e \in BOOLEAN, give \in SUBSET Slots : Begin(q, r, e, give)
CreatePattern(q, r) == kind = "patterns" /\ \E e \in BOOLEAN : Begin(q, r, e, {})
CreateKey(q, r)     == kind = "keys" /\ Begin(q, r, TRUE, {})

(* admin_server_for of update_server and delete_server.  A pattern's       *)
(* administrator reads it, with its version, before sending a change.      *)
BeginChange(q, r, op, enabled, give) ==
  /\ At(q, "idle") /\ kind # "keys" /\ Live(r)
  /\ kind = "patterns" => give = {} /\ enabled # {}
  /\ op = "delete" => give = {} /\ enabled = {FALSE}
  /\ Go(q, [at |-> IF op = "delete" THEN "write" ELSE "secret", op |-> op, r |-> r,
            seen |-> Effective(r), give |-> give, new |-> NoRefs, enabled |-> enabled])
  /\ late' = IF r \in suspended /\ enabled = {} THEN late \cup {q} ELSE late \ {q}
  /\ UNCHANGED <<kind, rows, secrets, suspended, asked, crowd, beyond, muddled, clean>>

-----------------------------------------------------------------------------
(* Secrets.                                                                *)

(* The credential first, then the environment.                             *)
NextSlot(q) == IF "credential" \in request[q].give THEN "credential" ELSE "environment"

(* SecretService::store: a new reference for every secret.                 *)
StoreSecret(q) ==
  LET s == NextSlot(q) IN
  /\ At(q, "secret") /\ request[q].give # {}
  /\ secrets' = secrets \cup {<<q, s>>}
  /\ Go(q, [request[q] EXCEPT !.give = @ \ {s}, !.new[s] = <<q, s>>])
  /\ UNCHANGED <<kind, rows, suspended, ghosts>>

SecretsStored(q) ==
  /\ At(q, "secret") /\ request[q].give = {}
  /\ On(q, "write")
  /\ UNCHANGED <<kind, rows, secrets, suspended, ghosts>>

(* SecretService::delete; its result is ignored, so it may do nothing.     *)
DeleteSecret(q) ==
  /\ At(q, "purge") /\ request[q].old # {}
  /\ \E s \in request[q].old :
       /\ secrets' \in {secrets, secrets \ {s}}
       /\ clean' = (clean /\ secrets' # secrets)
       /\ Go(q, [request[q] EXCEPT !.old = @ \ {s}])
  /\ UNCHANGED <<kind, rows, suspended, asked, crowd, beyond, late, muddled>>

Purged(q) ==
  /\ At(q, "purge") /\ request[q].old = {}
  /\ Done(q)
  /\ UNCHANGED <<kind, rows, secrets, suspended, ghosts>>

-----------------------------------------------------------------------------
(* Writes.                                                                 *)

(* Every write of a row: r gets the value row, and the others that have    *)
(* read it are late.                                                       *)
Write(q, r, row) ==
  /\ rows' = [rows EXCEPT ![r] = row]
  /\ late' = (late \cup {p \in Requests : About(p, r)}) \ {q}

(* The INSERT of a new row.                                                *)
InsertRow(q) ==
  LET r == request[q].r
      enabled == TRUE \in request[q].enabled
  IN /\ At(q, "write") /\ request[q].op = "create"
     /\ Write(q, r, [state |-> "live", enabled |-> enabled, version |-> 1,
                     refs |-> request[q].new])
     /\ asked' = [asked EXCEPT ![r] = enabled]
     /\ Done(q)
     /\ UNCHANGED <<kind, secrets, suspended, crowd, beyond, muddled, clean>>

(* register, insert_custom_pattern, issue.                                 *)
InsertServer(q)  == kind = "servers" /\ InsertRow(q)
InsertPattern(q) == kind = "patterns" /\ InsertRow(q)
InsertKey(q)     == kind = "keys" /\ InsertRow(q)

Wanted(q) ==
  IF request[q].enabled = {} THEN request[q].seen.enabled ELSE TRUE \in request[q].enabled
NewRefs(q) ==
  [s \in Slots |-> IF request[q].new[s] = None THEN request[q].seen.refs[s]
                   ELSE request[q].new[s]]

(* Mutant: whatever the server had.                                        *)
SupersededAll(q) == {request[q].seen.refs[s] : s \in Slots} \ {None}

(* The secrets an update deletes: those it replaced.                       *)
Superseded(q) ==
  {request[q].seen.refs[s] : s \in {t \in Slots : request[q].new[t] # None}} \ {None}

(* What the row gets is right if nobody wrote it since it was read, and is *)
(* right again once an update that nobody disturbed gives all of it.       *)
Complete(q) == request[q].enabled # {} /\ \A s \in Slots : request[q].new[s] # None
Muddle(q, r) ==
  /\ muddled' = IF q \in late THEN muddled \cup {r}
                ELSE IF Complete(q) THEN muddled \ {r} ELSE muddled
  /\ clean' = (clean /\ q \notin late)
Enabling(q, r) ==
  beyond' = IF Wanted(q) /\ ~rows[r].enabled THEN beyond \cup {r} ELSE beyond
Asking(q, r) ==
  asked' = [asked EXCEPT ![r] = IF request[q].enabled = {} THEN @ ELSE Wanted(q)]

(* write_server as UPDATE: every column, no version, and no error when the *)
(* row is gone.                                                            *)
UpdateServer(q) ==
  LET r == request[q].r IN
  /\ At(q, "write") /\ request[q].op = "update" /\ kind = "servers"
  /\ IF Live(r)
       THEN /\ Write(q, r, [rows[r] EXCEPT !.enabled = Wanted(q), !.refs = NewRefs(q)])
            /\ Muddle(q, r) /\ Enabling(q, r) /\ Asking(q, r)
     ELSE /\ clean' = FALSE
          /\ UNCHANGED <<rows, late, muddled, beyond, asked>>
  /\ Go(q, [at |-> "purge", old |-> Superseded(q)])
  /\ UNCHANGED <<kind, secrets, suspended, crowd>>

(* delete_server: 404 if another request was faster.                       *)
DeleteServer(q) ==
  LET r == request[q].r IN
  /\ At(q, "write") /\ request[q].op = "delete" /\ kind = "servers"
  /\ IF Live(r)
       THEN /\ Write(q, r, [Absent EXCEPT !.state = "gone"])
            /\ Go(q, [at |-> "purge",
                      old |-> {request[q].seen.refs[s] : s \in Slots} \ {None}])
            /\ clean' = (clean /\ q \notin late)
     ELSE Done(q) /\ UNCHANGED <<rows, late, clean>>
  /\ UNCHANGED <<kind, secrets, suspended, asked, crowd, beyond, muddled>>

(* Only on the version that If-Match names.                                *)
ChangePattern(q) ==
  LET r == request[q].r IN
  /\ At(q, "write") /\ kind = "patterns"
  /\ IF rows[r].version = request[q].seen.version
       THEN /\ Write(q, r, [rows[r] EXCEPT !.enabled = Wanted(q), !.version = @ + 1])
            /\ Muddle(q, r) /\ Enabling(q, r) /\ Asking(q, r)
     ELSE UNCHANGED <<rows, late, muddled, beyond, asked, clean>>
  /\ Done(q)
  /\ UNCHANGED <<kind, secrets, suspended, crowd>>

UpdatePattern(q) == At(q, "write") /\ request[q].op = "update" /\ ChangePattern(q)

(* It is disabled, and keeps its row.                                      *)
DeletePattern(q) == At(q, "write") /\ request[q].op = "delete" /\ ChangePattern(q)

(* revoke_virtual_key, or expires_at passes; neither can be undone.        *)
RevokeKey(r) ==
  /\ kind = "keys" /\ Live(r) /\ rows[r].enabled
  /\ rows' = [rows EXCEPT ![r].enabled = FALSE]
  /\ asked' = [asked EXCEPT ![r] = FALSE]
  /\ UNCHANGED <<kind, secrets, suspended, request, crowd, beyond, late, muddled, clean>>

-----------------------------------------------------------------------------
(* A call fails, the input is invalid, the answer to a commit is lost or   *)
(* the client goes away: the request ends where it is.                     *)
Ends(q) ==
  /\ ~At(q, "idle") /\ ~At(q, "done")
  /\ Done(q)
  /\ clean' = FALSE
  /\ UNCHANGED <<kind, rows, secrets, suspended, asked, crowd, beyond, late, muddled>>

Suspend(r) ==
  /\ Live(r) /\ r \notin suspended
  /\ suspended' = suspended \cup {r}
  /\ UNCHANGED <<kind, rows, secrets, request, ghosts>>

Restore(r) ==
  /\ r \in suspended
  /\ suspended' = suspended \ {r}
  /\ UNCHANGED <<kind, rows, secrets, request, ghosts>>

Step(q) ==
  \/ \E r \in Resources : CreateServer(q, r) \/ CreatePattern(q, r) \/ CreateKey(q, r)
  \/ \E r \in Resources, op \in {"update", "delete"}, e \in {{}, {TRUE}, {FALSE}},
        give \in SUBSET Slots : BeginChange(q, r, op, e, give)
  \/ StoreSecret(q) \/ SecretsStored(q) \/ DeleteSecret(q) \/ Purged(q)
  \/ InsertServer(q) \/ InsertPattern(q) \/ InsertKey(q)
  \/ UpdateServer(q) \/ DeleteServer(q) \/ UpdatePattern(q) \/ DeletePattern(q) \/ Ends(q)

Next ==
  \/ \E q \in Requests : Step(q)
  \/ \E r \in Resources : RevokeKey(r) \/ Suspend(r) \/ Restore(r)

Spec == Init /\ [][Next]_vars

-----------------------------------------------------------------------------
TypeOK ==
  /\ kind \in {"servers", "patterns", "keys"}
  /\ \A r \in Resources : rows[r].state \in {"none", "live", "gone"}
  /\ suspended \subseteq Resources

(* require_plan_capacity is a count without a lock: requests that have     *)
(* passed it at once may all insert.  A plan is never exceeded by more     *)
(* than that: with n of them under way at once, at most n - 1 rows above   *)
(* the limit, and none where requests take turns.  Rows that an update     *)
(* enabled come on top, since updates make no check.                       *)
PlanCapacityHolds == Cardinality(Counted \ beyond) < Limit + crowd

(* A server or pattern is enabled as was last asked for, and the secrets   *)
(* it refers to exist.  Patterns have versions, and never lose a change; a *)
(* server that two overlapping changes have written, or one under a        *)
(* suspension, is right again after one undisturbed update that names      *)
(* enabled and gives both secrets.  And if nothing failed or overlapped,   *)
(* no secret is left that no server refers to.                             *)
ChangesAreKept ==
  /\ \A r \in Resources \ muddled :
       Live(r) => /\ rows[r].enabled = asked[r]
                  /\ RefsOf({r}) \subseteq secrets
  /\ kind = "patterns" => muddled = {}
  /\ (clean /\ \A q \in Requests : At(q, "idle") \/ At(q, "done"))
       => secrets \subseteq RefsOf(Resources)

=============================================================================
