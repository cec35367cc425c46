------------------------ MODULE RuntimeConfiguration ------------------------
(***************************************************************************)
(* Providers, their credentials, and the service that uses them.           *)
(*                                                                         *)
(* AdminService (crates/gateway-admin/src/lib.rs) creates, updates and     *)
(* retires provider rows.  A credential is stored as a secret of its own,  *)
(* in a statement before the transaction on the row; whichever secret the  *)
(* outcome makes superfluous is deleted in a statement after it.           *)
(* reconcile_runtime (apps/gatewayd/src/lib.rs) reads the enabled rows     *)
(* every five seconds, exposes their secrets one by one, and replaces the  *)
(* GatewayService, or leaves it when the rows cannot be built.             *)
(*                                                                         *)
(* One tenant stands for all: a build takes the rows of every tenant, and  *)
(* fails as a whole.  NoSecret is a provider whose credential, if it needs *)
(* one, comes from the environment.                                        *)
(***************************************************************************)
EXTENDS Naturals, FiniteSets

CONSTANTS
  Providers,
  Routes,
  Secrets,        \* refs that SecretService::store may return
  NoSecret,
  Requests,       \* requests of administrators that are being handled
  MaxVersion      \* bound: changes of one provider row

ASSUME SecretAssumption == NoSecret \notin Secrets

VARIABLES
  row,       \* admin_resources of kind providers
  route,     \* live rows of kind model_routes: the provider they name
  secrets,   \* secret_material
  used,      \* refs that were ever given out
  request,   \* what each request is doing
  building,  \* the snapshot reconcile_runtime is building from
  running,   \* GatewayRuntime.current: routes with their credential
  status,    \* GatewayRuntime.status
  \* What the properties compare with; no action reads these.
  doubted,   \* providers whose committed change was reported as an error
  careless   \* whether a request ended before it deleted its secret

stored  == <<row, route, secrets, used>>
service == <<building, running, status>>
history == <<doubted, careless>>
vars == <<stored, request, service, history>>

NoProvider == [status |-> "absent", version |-> 0, secret |-> NoSecret]
Row == [status : {"enabled", "disabled", "retired"}, version : 1..MaxVersion,
        secret : Secrets \union {NoSecret}]

NoRoute == {"absent", "retired"}
Idle == [stage |-> "idle"]
Resting == [stage |-> "rest"]
Live(p) == row[p].status \in {"enabled", "disabled"}

(* What build_runtime would make of the rows as they are now.              *)
Routed == {r \in Routes : route[r] \notin NoRoute}
Wanted == {[route |-> r, provider |-> route[r], secret |-> row[route[r]].secret] :
             r \in Routed}
Buildable ==
  /\ \A r \in Routed : row[route[r]].status = "enabled"
  /\ \A p \in Providers :
       row[p].status = "enabled" => row[p].secret \in secrets \union {NoSecret}

(* A gateway that starts on the rows of an earlier one, or on none.        *)
Init ==
  /\ row = [p \in Providers |-> NoProvider]
  /\ route = [r \in Routes |-> "absent"]
  /\ secrets = {} /\ used = {}
  /\ request = [q \in Requests |-> Idle]
  /\ building = Resting
  /\ running = {} /\ status = "active"
  /\ doubted = {} /\ careless = FALSE

-----------------------------------------------------------------------------
(* Requests of administrators.                                             *)

Stage(q, s) == request[q].stage = s
Go(q, next) == request' = [request EXCEPT ![q] = next]

(* AdminService::create of a provider, with or without a credential.       *)
BeginCreate(q, p, credential) ==
  /\ Stage(q, "idle")
  /\ Go(q, [stage |-> IF credential THEN "store" ELSE "write", op |-> "create",
            provider |-> p, previous |-> NoSecret, new |-> NoSecret])
  /\ UNCHANGED <<stored, service, history>>

(* AdminService::update and ::retire, with a version the client has seen,  *)
(* up to resource_secret_ref, which reads retired rows too.                *)
BeginChange(q, p, op, version, credential, next) ==
  /\ Stage(q, "idle")
  /\ version \in 1..row[p].version
  /\ Go(q, [stage |-> IF credential THEN "store" ELSE "write", op |-> op,
            provider |-> p, version |-> version, status |-> next,
            previous |-> row[p].secret, new |-> NoSecret])
  /\ UNCHANGED <<stored, service, history>>

(* SecretService::store.                                                   *)
StoreSecret(q) ==
  /\ Stage(q, "store")
  /\ used # Secrets
  /\ LET new == CHOOSE s \in Secrets : s \notin used IN
     /\ secrets' = secrets \union {new}
     /\ used' = used \union {new}
     /\ Go(q, [request[q] EXCEPT !.stage = "write", !.new = new])
  /\ UNCHANGED <<row, route, service, history>>

(* What the transaction of create_resource, update_resource or             *)
(* retire_resource finds, and what it makes of the row.                    *)
Accepted(it) ==
  LET old == row[it.provider] IN
  CASE it.op = "create" -> old = NoProvider
    [] it.op = "update" -> old.version = it.version /\ old.status # "retired"
    [] it.op = "retire" -> old.version = it.version

Written(it) ==
  LET old == row[it.provider] IN
  [status  |-> CASE it.op = "create" -> "enabled"
                 [] it.op = "update" -> it.status
                 [] it.op = "retire" -> "retired",
   version |-> old.version + 1,
   secret  |-> IF it.new = NoSecret THEN old.secret ELSE it.new]

(* Mutant: the reference is read when it is deleted, not before the write. *)
SuperfluousLate(it, ok) ==
  CASE ~ok -> it.new
    [] ok /\ it.op # "create" /\ (it.op = "retire" \/ it.new # NoSecret) ->
         IF it.new = NoSecret THEN row[it.provider].secret ELSE it.new
    [] OTHER -> NoSecret

(* The secret that is deleted next: the new one after an error, the        *)
(* previous one after an update that brought a new one or a retirement.    *)
Superfluous(it, ok) ==
  CASE ~ok -> it.new
    [] ok /\ (it.op = "retire" \/ it.new # NoSecret) -> it.previous
    [] OTHER -> NoSecret

AfterWrite(q, ok) ==
  LET old == Superfluous(request[q], ok) IN
  Go(q, IF old = NoSecret THEN Idle ELSE [stage |-> "delete", secret |-> old])

(* The transaction commits, or finds another version, the row missing,     *)
(* taken or retired.                                                       *)
WriteRow(q) ==
  /\ Stage(q, "write")
  /\ LET it == request[q] IN
     /\ row[it.provider].version < MaxVersion
     /\ row' = IF Accepted(it) THEN [row EXCEPT ![it.provider] = Written(it)] ELSE row
     /\ AfterWrite(q, Accepted(it))
  /\ UNCHANGED <<route, secrets, used, service, history>>

(* The transaction commits and its answer is lost: commit().await reports  *)
(* Unavailable.                                                            *)
WriteRowUnanswered(q) ==
  /\ Stage(q, "write")
  /\ LET it == request[q] IN
     /\ row[it.provider].version < MaxVersion
     /\ Accepted(it)
     /\ row' = [row EXCEPT ![it.provider] = Written(it)]
     /\ doubted' = doubted \union {it.provider}
     /\ AfterWrite(q, FALSE)
  /\ UNCHANGED <<route, secrets, used, service, careless>>

(* secrets.delete(...).await, whose result is ignored.                     *)
DeleteSecret(q) ==
  /\ Stage(q, "delete")
  /\ secrets' = secrets \ {request[q].secret}
  /\ Go(q, Idle)
  /\ UNCHANGED <<row, route, used, service, history>>

(* The client disconnects, the database fails, or the process dies.        *)
Abandons(q) ==
  \/ Stage(q, "delete")
  \/ Stage(q, "write") /\ request[q].new # NoSecret

RequestDies(q) ==
  /\ ~Stage(q, "idle")
  /\ careless' = (careless \/ Abandons(q))
  /\ Go(q, Idle)
  /\ UNCHANGED <<stored, service, doubted>>

(* A route: validate_provider_scope in a statement of its own, and then    *)
(* the transaction of create_resource (module ModelRoutes).                *)
BeginRoute(q, r, p) ==
  /\ Stage(q, "idle")
  /\ Live(p)
  /\ Go(q, [stage |-> "route", route |-> r, provider |-> p, new |-> NoSecret])
  /\ UNCHANGED <<stored, service, history>>

CreateRoute(q) ==
  /\ Stage(q, "route")
  /\ LET it == request[q] IN
     route' = IF route[it.route] = "absent"
              THEN [route EXCEPT ![it.route] = it.provider] ELSE route
  /\ Go(q, Idle)
  /\ UNCHANGED <<row, secrets, used, service, history>>

RetireRoute(r) ==
  /\ route[r] \notin NoRoute
  /\ route' = [route EXCEPT ![r] = "retired"]
  /\ UNCHANGED <<row, secrets, used, request, service, history>>

-----------------------------------------------------------------------------
(* reconcile_runtime.                                                      *)

(* A tick, and runtime_resources: one statement.                           *)
ReadResources ==
  /\ building.stage = "rest"
  /\ building' = [stage |-> "build", row |-> row, route |-> route,
                  left |-> {p \in Providers : row[p].status = "enabled"}]
  /\ UNCHANGED <<stored, request, running, status, history>>

Snapshot(p) == building.row[p]

(* runtime_credential of the next provider.                                *)
ExposeSecret(p) ==
  /\ building.stage = "build" /\ p \in building.left
  /\ Snapshot(p).secret \in secrets \union {NoSecret}
  /\ building' = [building EXCEPT !.left = @ \ {p}]
  /\ UNCHANGED <<stored, request, running, status, history>>

(* Mutant: a route may name a provider that has been disabled.             *)
RoutesHaveLiveProviders ==
  \A r \in Routes :
    building.route[r] \notin NoRoute => Snapshot(building.route[r]).status # "absent"

(* The checks of a route in build_runtime.                                 *)
RoutesHaveProviders ==
  \A r \in Routes :
    building.route[r] \notin NoRoute => Snapshot(building.route[r]).status = "enabled"

Built ==
  {[route |-> r, provider |-> building.route[r],
    secret |-> Snapshot(building.route[r]).secret] :
     r \in {s \in Routes : building.route[s] \notin NoRoute}}

(* runtime.replace(candidate).                                             *)
Replace ==
  /\ building.stage = "build" /\ building.left = {}
  /\ RoutesHaveProviders
  /\ running' = Built
  /\ status' = "active"
  /\ building' = Resting
  /\ UNCHANGED <<stored, request, history>>

(* Mutant: a failed build ends the task.                                   *)
ReconciliationStops ==
  /\ building.stage = "build"
  /\ \/ \E p \in building.left : Snapshot(p).secret \notin secrets \union {NoSecret}
     \/ building.left = {} /\ ~RoutesHaveProviders
  /\ status' = "degraded"
  /\ building' = [stage |-> "stopped"]
  /\ UNCHANGED <<stored, request, running, history>>

(* build_runtime returned an error.                                        *)
ReconciliationFailed ==
  /\ building.stage = "build"
  /\ \/ \E p \in building.left : Snapshot(p).secret \notin secrets \union {NoSecret}
     \/ building.left = {} /\ ~RoutesHaveProviders
  /\ status' = "degraded"
  /\ building' = Resting
  /\ UNCHANGED <<stored, request, running, history>>

Reconcile ==
  \/ ReadResources \/ Replace \/ ReconciliationFailed
  \/ \E p \in Providers : ExposeSecret(p)

(* gatewayd starts again, on the set-up service until the first tick.      *)
Restart ==
  /\ request' = [q \in Requests |-> Idle]
  /\ careless' = (careless \/ \E q \in Requests : Abandons(q))
  /\ building' = Resting
  /\ running' = {} /\ status' = "active"
  /\ UNCHANGED <<stored, doubted>>

-----------------------------------------------------------------------------
Administrate(q) ==
  \/ \E p \in Providers, c \in BOOLEAN :
       \/ BeginCreate(q, p, c)
       \/ \E v \in 1..MaxVersion, s \in {"enabled", "disabled"} :
            BeginChange(q, p, "update", v, c, s)
  \/ \E p \in Providers, v \in 1..MaxVersion :
       BeginChange(q, p, "retire", v, FALSE, "retired")
  \/ \E p \in Providers, r \in Routes : BeginRoute(q, r, p)
  \/ StoreSecret(q) \/ WriteRow(q) \/ WriteRowUnanswered(q) \/ DeleteSecret(q)
  \/ CreateRoute(q) \/ RequestDies(q)

Next ==
  \/ \E q \in Requests : Administrate(q)
  \/ \E r \in Routes : RetireRoute(r)
  \/ Reconcile \/ Restart

Spec == Init /\ [][Next]_vars

(* The interval of reconcile_runtime ticks for as long as the process      *)
(* runs.  Nothing is assumed of administrators.                            *)
Fairness == WF_vars(Reconcile)

FairSpec == Spec /\ Fairness

-----------------------------------------------------------------------------
TypeOK ==
  /\ row \in [Providers -> Row \union {NoProvider}]
  /\ route \in [Routes -> Providers \union NoRoute]
  /\ secrets \subseteq used /\ used \subseteq Secrets
  /\ status \in {"active", "degraded"}
  /\ running \subseteq [route : Routes, provider : Providers,
                        secret : Secrets \union {NoSecret}]
  /\ doubted \subseteq Providers /\ careless \in BOOLEAN

(* However updates, retirements and failures interleave, the credential of *)
(* a provider that is not retired is never deleted, except by the request  *)
(* whose commit took place and was reported as an error; and once no       *)
(* request is being handled, every stored secret is the credential of a    *)
(* provider that is not retired, unless a request ended before its clean-  *)
(* up.                                                                     *)
CredentialsAreExact ==
  /\ \A p \in Providers \ doubted :
       Live(p) => row[p].secret \in secrets \union {NoSecret}
  /\ (~careless /\ doubted = {} /\ \A q \in Requests : Stage(q, "idle")) =>
       \A s \in secrets : \E p \in Providers : Live(p) /\ row[p].secret = s

(* Provided the process stays up and administrators pause: rows that can   *)
(* be built come into force, and rows that cannot are reported, however    *)
(* often builds failed before.                                             *)
ConfigurationSettles ==
  <>[][~Restart]_vars =>
    []<>(IF Buildable THEN running = Wanted /\ status = "active"
                      ELSE status = "degraded")

=============================================================================
