----------------------------- MODULE Admittance -----------------------------
(***************************************************************************)
(* Who a request comes from: authenticate and the principals of gateway-   *)
(* server (lib.rs), AuthService and JwtAuthenticator of gateway-auth, and  *)
(* VirtualKeyService::authenticate of gateway-keys.  Requests share the    *)
(* cache of the issuer's signing keys, which they refresh without a lock   *)
(* around the fetch.                                                       *)
(*                                                                         *)
(* A unit of time is the timeout of a fetch; ages stop at Forgotten, so    *)
(* the state space is finite without a bound on time.                      *)
(***************************************************************************)
EXTENDS Naturals, FiniteSets

CONSTANTS
  Kids,        \* signing keys of the issuer
  Tenants,
  Projects,    \* each with an endpoint
  OwnerOf,     \* the tenant of each project
  AdminRole,   \* OIDC_ADMIN_ROLE, the administrators' role in tokens
  TokenRoles,  \* the sets of roles that tokens carry
  Requests,
  Ttl,         \* of the cache (900 s), in timeouts of a fetch (10 s)
  None

AdmittanceAssumption ==
  /\ Ttl \in Nat \ {0}
  /\ OwnerOf \in [Projects -> Tenants]

VARIABLES
  issuer,     \* the keys that the issuer publishes
  withdrawn,  \* how long ago each key was withdrawn, at most Forgotten
  cache,      \* JwksCache: its keys, and the time until expires_at
  open,       \* projects that are enabled and not retired
  key,        \* whether the virtual key is live, suspended or revoked
  tenants,    \* rows of tenants
  request

world == <<issuer, withdrawn, open, key, tenants>>
vars == <<world, cache, request>>

Timeout   == 1
Forgotten == Ttl + Timeout

MemberRoles == {"owner", "admin", "engineer", "viewer"}

(* A virtual key's row keeps its tenant, but names any project.            *)
KeyTenants == {OwnerOf[p] : p \in Projects}

(* A token with a kid, a virtual key of a project or of none, a session of *)
(* a member, who may be a gateway administrator besides.                   *)
Credentials ==
  [method : {"jwt"}, kid : Kids, tenant : Tenants, project : {None}, roles : TokenRoles]
  \cup [method : {"key"}, tenant : KeyTenants, project : Projects \cup {None}, roles : {{}}]
  \cup [method : {"session"}, tenant : Tenants, project : {None},
        roles : {{m} \cup more : m \in MemberRoles, more \in SUBSET {"gateway_admin"}}]

Doors == {"admin", "write", "inference"}

Nobody == [method |-> None, tenant |-> None, project |-> None, roles |-> {}]
Idle == [at |-> "idle", cred |-> Nobody, endpoint |-> None, header |-> None,
         door |-> None, tried |-> FALSE, left |-> 0, keys |-> {}, why |-> None]

Init ==
  /\ issuer = Kids /\ withdrawn = [k \in Kids |-> 0]
  /\ cache = [keys |-> Kids, left |-> Ttl]
  /\ open = Projects /\ key = "live" /\ tenants = Tenants
  /\ request = [q \in Requests |-> Idle]

At(q, stage) == request[q].at = stage
On(q, stage) == request' = [request EXCEPT ![q].at = stage]
Refuse(q, why) ==
  request' = [request EXCEPT ![q] = [Idle EXCEPT !.at = "refused", !.why = why,
                                                 !.cred = request[q].cred]]

(* bearer_credential, project_endpoint: what the headers say.              *)
Arrive(q, cred, endpoint, header, door) ==
  /\ At(q, "idle")
  /\ request' = [request EXCEPT ![q] =
       [Idle EXCEPT !.at = "endpoint", !.cred = cred, !.endpoint = endpoint,
                    !.header = header, !.door = door]]
  /\ UNCHANGED <<world, cache>>

(* project_for_endpoint.                                                   *)
FindEndpoint(q) ==
  /\ At(q, "endpoint")
  /\ IF request[q].endpoint = None \/ request[q].endpoint \in open
       THEN On(q, request[q].cred.method)
     ELSE Refuse(q, "not_found")
  /\ UNCHANGED <<world, cache>>

-----------------------------------------------------------------------------
(* Tokens.                                                                 *)

(* Mutant: a key that was found once stays good.                           *)
CachedForEver(k) == k \in cache.keys

Cached(k) == cache.left > 0 /\ k \in cache.keys

(* cached_key: a miss leads to a refresh, a second one to a refusal.  A    *)
(* hit verifies the signature and the claims.                              *)
LookUp(q) ==
  /\ At(q, "jwt")
  /\ IF Cached(request[q].cred.kid) THEN On(q, "tenant")
     ELSE IF request[q].tried THEN Refuse(q, "invalid")
     ELSE request' = [request EXCEPT ![q].at = "fetch", ![q].left = Timeout]
  /\ UNCHANGED <<world, cache>>

(* The issuer answers with what it publishes now.                          *)
IssuerAnswers(q) ==
  /\ At(q, "fetch")
  /\ request' = [request EXCEPT ![q].at = "fetched", ![q].keys = issuer]
  /\ UNCHANGED <<world, cache>>

(* Mutant: only a cache that has expired is replaced.                      *)
RefreshedIfExpired(keys) ==
  IF cache.left > 0 THEN cache ELSE [keys |-> keys, left |-> Ttl]

Refreshed(keys) == [keys |-> keys, left |-> Ttl]

(* refresh: the answer arrives and replaces the cache, whatever others     *)
(* have written since it was asked for.                                    *)
Refresh(q) ==
  /\ At(q, "fetched")
  /\ cache' = Refreshed(request[q].keys)
  /\ request' = [request EXCEPT ![q].at = "jwt", ![q].tried = TRUE,
                                ![q].left = 0, ![q].keys = {}]
  /\ UNCHANGED world

FetchFails(q) ==
  /\ At(q, "fetch") \/ At(q, "fetched")
  /\ Refuse(q, "unavailable")
  /\ UNCHANGED <<world, cache>>

(* find_tenant.                                                            *)
FindTenant(q) ==
  /\ At(q, "tenant")
  /\ IF request[q].cred.tenant \in tenants THEN On(q, "bind") ELSE Refuse(q, "unknown_tenant")
  /\ UNCHANGED <<world, cache>>

-----------------------------------------------------------------------------
(* Virtual keys and sessions.                                              *)

(* find_virtual_key_by_prefix does not see suspended keys; then revoked_at *)
(* and expires_at are looked at.                                           *)
FindKey(q) ==
  /\ At(q, "key")
  /\ IF key = "live" THEN On(q, "touch") ELSE Refuse(q, "invalid")
  /\ UNCHANGED <<world, cache>>

(* touch_virtual_key; when it fails the key counts as invalid.             *)
TouchKey(q) ==
  /\ At(q, "touch")
  /\ On(q, "bind") \/ Refuse(q, "invalid")
  /\ UNCHANGED <<world, cache>>

(* WebAuthService::authenticate; Tenancy has its sessions.  A membership   *)
(* goes with its tenant.                                                   *)
FindSession(q) ==
  /\ At(q, "session")
  /\ \/ request[q].cred.tenant \in tenants /\ On(q, "bind")
     \/ Refuse(q, "invalid")
  /\ UNCHANGED <<world, cache>>

-----------------------------------------------------------------------------
(* bind_project: only a session takes its project from the header.         *)
Binds(cred, header) ==
  header # None => IF cred.project # None THEN cred.project = header
                   ELSE cred.method = "session"
ProjectOf(cred, header) == IF cred.project = None THEN header ELSE cred.project

Project(q) == ProjectOf(request[q].cred, request[q].header)

(* Mutant: the project alone is compared.                                  *)
EndpointFitsProject(q) ==
  request[q].endpoint # None => Project(q) = request[q].endpoint

(* authenticate: the endpoint's tenant and project against the principal's.*)
EndpointFits(q) ==
  request[q].endpoint # None =>
    /\ request[q].cred.tenant = OwnerOf[request[q].endpoint]
    /\ Project(q) = request[q].endpoint

(* admin_principal, write_admin_principal, inference_principal.            *)
Enters(cred, door) ==
  LET Has(roles) == cred.roles \intersect roles # {} IN
  CASE door = "admin" ->
         cred.method # "key" /\ Has({AdminRole, "owner", "admin", "engineer"})
    [] door = "write" -> cred.method # "key" /\ Has({AdminRole, "owner", "admin"})
    [] OTHER          -> ~(cred.method = "session" /\ Has({"viewer"}))

(* bind_project, the check of the endpoint, and the role the handler asks  *)
(* for.                                                                    *)
Bind(q) ==
  LET r == request[q]
      ok == Binds(r.cred, r.header) /\ EndpointFits(q) /\ Enters(r.cred, r.door)
  IN /\ At(q, "bind")
     /\ IF ok THEN On(q, "admitted") ELSE Refuse(q, "forbidden")
     /\ UNCHANGED <<world, cache>>

Leave(q) ==
  /\ At(q, "admitted") \/ At(q, "refused")
  /\ request' = [request EXCEPT ![q] = Idle]
  /\ UNCHANGED <<world, cache>>

-----------------------------------------------------------------------------
(* Outside: the issuer rotates its keys, and administrators act.           *)
Withdraw(k) ==
  /\ k \in issuer
  /\ issuer' = issuer \ {k} /\ withdrawn' = [withdrawn EXCEPT ![k] = 0]
  /\ UNCHANGED <<open, key, tenants, cache, request>>

Publish(k) ==
  /\ k \notin issuer
  /\ issuer' = issuer \cup {k}
  /\ UNCHANGED <<withdrawn, open, key, tenants, cache, request>>

ChangeKey(state) ==
  /\ key # "revoked" /\ key' = state /\ state # key
  /\ UNCHANGED <<issuer, withdrawn, open, tenants, cache, request>>

(* retire_resource of a project, which keeps its row.                      *)
RetireProject(p) ==
  /\ p \in open /\ open' = open \ {p}
  /\ UNCHANGED <<issuer, withdrawn, key, tenants, cache, request>>

(* delete_organization: the rows of projects and of virtual keys refer to  *)
(* the tenant and do not cascade, so only a tenant without any goes.       *)
DeleteTenant(t) ==
  /\ t \in tenants \ KeyTenants /\ tenants' = tenants \ {t}
  /\ UNCHANGED <<issuer, withdrawn, open, key, cache, request>>

Fetching(q) == At(q, "fetch") \/ At(q, "fetched")
Less(n) == IF n = 0 THEN 0 ELSE n - 1

(* A fetch ends within its timeout.  The rest of LookUp and Refresh waits  *)
(* for nothing, and takes no time.                                         *)
Tick ==
  /\ \A q \in Requests : Fetching(q) => request[q].left > 0
  /\ \A q \in Requests : At(q, "jwt") => ~request[q].tried
  /\ cache' = [cache EXCEPT !.left = Less(@)]
  /\ withdrawn' = [k \in Kids |->
       IF k \in issuer \/ withdrawn[k] = Forgotten THEN withdrawn[k] ELSE withdrawn[k] + 1]
  /\ request' = [q \in Requests |->
       IF Fetching(q) THEN [request[q] EXCEPT !.left = @ - 1] ELSE request[q]]
  /\ UNCHANGED <<issuer, open, key, tenants>>

Handle(q) ==
  \/ FindEndpoint(q) \/ LookUp(q) \/ IssuerAnswers(q) \/ Refresh(q) \/ FetchFails(q)
  \/ FindTenant(q) \/ FindKey(q) \/ TouchKey(q) \/ FindSession(q) \/ Bind(q) \/ Leave(q)

Rotation == Tick \/ \E k \in Kids : Withdraw(k) \/ Publish(k)

Outside ==
  \/ \E state \in {"live", "suspended", "revoked"} : ChangeKey(state)
  \/ \E p \in Projects : RetireProject(p)
  \/ \E t \in Tenants : DeleteTenant(t)

Next ==
  \/ \E q \in Requests, cred \in Credentials, endpoint, header \in Projects \cup {None},
        door \in Doors : Arrive(q, cred, endpoint, header, door)
  \/ \E q \in Requests : Handle(q)
  \/ Rotation \/ Outside

Spec == Init /\ [][Next]_vars

-----------------------------------------------------------------------------
(* A withdrawn signing key is accepted for less than the cache's time to   *)
(* live and one fetch, whatever refreshes overlap: an answer that is       *)
(* overtaken by a newer one may bring the key back, but not for longer.    *)
RotatedKeyIsForgotten ==
  \A k \in Kids : withdrawn[k] = Forgotten /\ k \notin issuer => ~Cached(k)

(* A key that the issuer has published for good is refused only a number   *)
(* of times: by requests that were overtaken by an older answer.           *)
RefusedNow(k) ==
  \E q \in Requests :
    /\ ~At(q, "refused") /\ request'[q].at = "refused" /\ request'[q].why = "invalid"
    /\ request[q].cred.method = "jwt" /\ request[q].cred.kid = k
NewKeyIsLearnt ==
  \A k \in Kids : <>[](k \in issuer) => <>[][~RefusedNow(k)]_vars

(* What a role is for.  What a person with several roles may administer is *)
(* what one of them is for.                                                *)
DoorsOf(role) ==
  IF role \in {"owner", "admin", AdminRole} THEN {"admin", "write"}
  ELSE IF role = "engineer" THEN {"admin"} ELSE {}

(* Whoever is admitted through the endpoint of a project belongs to the    *)
(* project's tenant and acts for that project, whatever project the header *)
(* names; a token, which is for no project, is admitted through none.  A   *)
(* header or a credential that names a project is heeded.  Handlers that   *)
(* administer or write see only persons with a role for it, and a session  *)
(* of a viewer reaches no model, whatever other role it has.               *)
ScopeIsBound ==
  \A q \in Requests : At(q, "admitted") =>
    LET r == request[q] IN
    /\ r.endpoint # None => /\ r.cred.tenant = OwnerOf[r.endpoint]
                            /\ Project(q) = r.endpoint /\ r.cred.method # "jwt"
    /\ r.header # None => Project(q) = r.header
    /\ r.cred.project # None => Project(q) = r.cred.project
    /\ r.door # "inference" =>
         r.cred.method # "key" /\ \E role \in r.cred.roles : r.door \in DoorsOf(role)
    /\ r.door = "inference" /\ r.cred.method = "session" => "viewer" \notin r.cred.roles

=============================================================================
