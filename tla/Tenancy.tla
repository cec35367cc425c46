------------------------------- MODULE Tenancy -------------------------------
(***************************************************************************)
(* Organisations and their members: the handlers of WebAuthService         *)
(* (crates/gateway-auth/src/web.rs) that bootstrap the installation, log   *)
(* in, create and delete organisations, invite, and change or remove       *)
(* members, with the transactions of IdentityRepository (store-postgres    *)
(* identity.rs).                                                           *)
(*                                                                         *)
(* A request is authenticated in one statement and acts in others, so what *)
(* it was allowed by may be gone when it acts.  A user is named by its     *)
(* address.  A session is all that is known of a login; engineers and      *)
(* viewers may do the same here and are both "member".  Verified sign-ups  *)
(* (module Registration) appear as new owners of new organisations.        *)
(***************************************************************************)
EXTENDS Naturals, FiniteSets

CONSTANTS
  Users,
  Tenants,
  Invitations,
  Requests       \* HTTP requests being handled

VARIABLES
  \* PostgreSQL
  initialized,  \* installation_state.initialized_at
  accounts,     \* rows of users
  admins,       \* those with gateway_admin
  sessions,     \* users with a live row of web_sessions
  tenant,       \* whether the tenants row is "new", "live" or "gone"
  role,         \* rows of tenant_memberships
  invitation,   \* rows of tenant_invitations
  \* the gateway processes
  request,      \* what each request does and how far it is
  \* What the properties compare with; no action reads these.
  grants,       \* memberships each invitation has brought
  withdrawn     \* invitations whose revocation was confirmed

database == <<initialized, accounts, admins, sessions, tenant, role, invitation>>
vars == <<database, request, grants, withdrawn>>

Roles    == {"owner", "admin", "member"}
Managers == {"owner", "admin"}
Statuses == {"unused", "open", "expired", "accepted", "deleted"}

Idle == [op |-> "idle"]
Row  == [tenant : Tenants, user : Users, role : Roles \ {"owner"}, status : Statuses]
Unused == [status |-> "unused"]

Init ==
  /\ initialized = FALSE
  /\ accounts = {} /\ admins = {} /\ sessions = {}
  /\ tenant = [t \in Tenants |-> "new"]
  /\ role = [t \in Tenants |-> [u \in Users |-> "none"]]
  /\ invitation = [i \in Invitations |-> Unused]
  /\ request = [r \in Requests |-> Idle]
  /\ grants = [i \in Invitations |-> 0]
  /\ withdrawn = {}

Exists(t) == tenant[t] = "live"
Owners(t) == {u \in Users : role[t][u] = "owner"}
Step(r, next) == request' = [request EXCEPT ![r] = next]
End(r) == Step(r, Idle)
At(r, op) == request[r].op = op

(* session_principal: the role the row of tenant_memberships gives now.    *)
Authenticated(u, t, roles) == u \in sessions /\ role[t][u] \in roles

NewTenant(t, u) ==
  /\ tenant[t] = "new"
  /\ tenant' = [tenant EXCEPT ![t] = "live"]
  /\ role' = [role EXCEPT ![t][u] = "owner"]

-----------------------------------------------------------------------------
(* Bootstrap.                                                              *)

(* bootstrap: installation_initialized, the token and the input are valid. *)
BeginBootstrap(r, u, t) ==
  /\ At(r, "idle") /\ ~initialized
  /\ Step(r, [op |-> "bootstrap", user |-> u, tenant |-> t])
  /\ UNCHANGED <<database, grants, withdrawn>>

(* Mutant: initialized_at is read without FOR UPDATE.                      *)
LockInstallationNot(r) ==
  /\ At(r, "bootstrap") /\ ~initialized
  /\ Step(r, [request[r] EXCEPT !.op = "install"])
  /\ UNCHANGED <<database, grants, withdrawn>>

(* bootstrap_account: SELECT ... FOR UPDATE; a consumed one is refused.    *)
LockInstallation(r) ==
  /\ At(r, "bootstrap")
  /\ \A s \in Requests : ~At(s, "install")
  /\ IF initialized THEN End(r)
     ELSE Step(r, [request[r] EXCEPT !.op = "install"])
  /\ UNCHANGED <<database, grants, withdrawn>>

(* Its other statements and the commit; a taken address rolls it back.     *)
BootstrapAccount(r) ==
  /\ At(r, "install")
  /\ LET u == request[r].user IN
     IF u \in accounts THEN UNCHANGED database
     ELSE /\ NewTenant(request[r].tenant, u)
          /\ accounts' = accounts \union {u}
          /\ admins' = admins \union {u}
          /\ sessions' = sessions \union {u}
          /\ initialized' = TRUE
          /\ UNCHANGED invitation
  /\ End(r)
  /\ UNCHANGED <<grants, withdrawn>>

(* verify_pending_registration: a new account owns a new organisation.     *)
VerifyRegistration(u, t) ==
  /\ u \notin accounts
  /\ NewTenant(t, u)
  /\ accounts' = accounts \union {u}
  /\ UNCHANGED <<initialized, admins, sessions, invitation, request, grants, withdrawn>>

-----------------------------------------------------------------------------
(* Sessions.                                                               *)

(* login and issue_trusted_session: create_session.                        *)
Login(u) ==
  /\ u \in accounts
  /\ sessions' = sessions \union {u}
  /\ UNCHANGED <<initialized, accounts, admins, tenant, role, invitation,
                 request, grants, withdrawn>>

(* logout: revoke_session; or expires_at passes.                           *)
SessionEnds(u) ==
  /\ u \in sessions
  /\ sessions' = sessions \ {u}
  /\ UNCHANGED <<initialized, accounts, admins, tenant, role, invitation,
                 request, grants, withdrawn>>

-----------------------------------------------------------------------------
(* Requests that are allowed by a role, and then act.                      *)

Begin(r, u, t, roles, what) ==
  /\ At(r, "idle")
  /\ Authenticated(u, t, roles)
  /\ Step(r, what)
  /\ UNCHANGED <<database, grants, withdrawn>>

(* invite; an owner cannot be invited.                                     *)
BeginInvite(r, u, t, i, guest, as) ==
  /\ as # "owner" /\ invitation[i] = Unused
  /\ Begin(r, u, t, Managers,
           [op |-> "invite", row |-> i,
            value |-> [tenant |-> t, user |-> guest, role |-> as, status |-> "open"]])

(* create_invitation.  The foreign key fails when the organisation is gone.*)
CreateInvitation(r) ==
  /\ At(r, "invite")
  /\ LET i == request[r].row  v == request[r].value IN
     invitation' = IF Exists(v.tenant) /\ invitation[i] = Unused
                   THEN [invitation EXCEPT ![i] = v] ELSE invitation
  /\ End(r)
  /\ UNCHANGED <<initialized, accounts, admins, sessions, tenant, role,
                 grants, withdrawn>>

(* revoke_invitation.                                                      *)
BeginRevoke(r, u, t, i) ==
  /\ invitation[i] # Unused
  /\ Begin(r, u, t, Managers, [op |-> "revoke", row |-> i, tenant |-> t])

(* Requests whose transaction holds the row lock of invitation i.          *)
LockedBy(i) ==
  {r \in Requests : request[r].op \in {"accepting", "registering"} /\ request[r].row = i}

DeleteInvitation(r) ==
  /\ At(r, "revoke")
  /\ LET i == request[r].row  row == invitation[i] IN
     /\ LockedBy(i) = {}
     /\ IF row.status \in {"open", "expired"} /\ row.tenant = request[r].tenant
        THEN /\ invitation' = [invitation EXCEPT ![i].status = "deleted"]
             /\ withdrawn' = withdrawn \union {i}
        ELSE UNCHANGED <<invitation, withdrawn>>
  /\ End(r)
  /\ UNCHANGED <<initialized, accounts, admins, sessions, tenant, role, grants>>

InvitationExpires(i) ==
  /\ invitation[i].status = "open"
  /\ invitation' = [invitation EXCEPT ![i].status = "expired"]
  /\ UNCHANGED <<initialized, accounts, admins, sessions, tenant, role,
                 request, grants, withdrawn>>

(* update_member.                                                          *)
BeginUpdate(r, u, t, target, as) ==
  /\ as # "owner"
  /\ Begin(r, u, t, Managers,
           [op |-> "update", tenant |-> t, user |-> target, role |-> as])

(* Requests whose transaction holds the row lock of a membership.          *)
RemovalLocks(t, u) ==
  {r \in Requests : /\ request[r].op \in {"removing", "counted"}
                    /\ request[r].tenant = t /\ request[r].user = u}

UpdateMember(r) ==
  /\ At(r, "update")
  /\ LET t == request[r].tenant  u == request[r].user IN
     /\ RemovalLocks(t, u) = {}
     /\ role' = IF role[t][u] \in {"none", "owner"} THEN role
                ELSE [role EXCEPT ![t][u] = request[r].role]
  /\ End(r)
  /\ UNCHANGED <<initialized, accounts, admins, sessions, tenant, invitation,
                 grants, withdrawn>>

(* remove_member: oneself, or anybody for a manager.                       *)
BeginRemove(r, u, t, target) ==
  Begin(r, u, t, IF u = target THEN Roles ELSE Managers,
        [op |-> "remove", tenant |-> t, user |-> target])

(* SELECT role ... FOR UPDATE.                                             *)
LockMember(r) ==
  /\ At(r, "remove")
  /\ LET t == request[r].tenant  u == request[r].user IN
     /\ RemovalLocks(t, u) = {}
     /\ CASE role[t][u] = "none"  -> End(r)
          [] role[t][u] = "owner" -> Step(r, [request[r] EXCEPT !.op = "removing"])
          [] OTHER                -> Step(r, [request[r] EXCEPT !.op = "counted"])
  /\ UNCHANGED <<database, grants, withdrawn>>

(* An owner: the owners are counted, in a snapshot of its own.        *)
CountOwners(r) ==
  /\ At(r, "removing")
  /\ IF Cardinality(Owners(request[r].tenant)) <= 1 THEN End(r)
     ELSE Step(r, [request[r] EXCEPT !.op = "counted"])
  /\ UNCHANGED <<database, grants, withdrawn>>

DeleteMember(r) ==
  /\ At(r, "counted")
  /\ role' = [role EXCEPT ![request[r].tenant][request[r].user] = "none"]
  /\ End(r)
  /\ UNCHANGED <<initialized, accounts, admins, sessions, tenant, invitation,
                 grants, withdrawn>>

(* create_tenant by any user with a session.                               *)
CreateTenant(u, t) ==
  /\ u \in sessions
  /\ NewTenant(t, u)
  /\ UNCHANGED <<initialized, accounts, admins, sessions, invitation, request,
                 grants, withdrawn>>

(* delete_organization, for an owner that repeats the slug.                *)
BeginDelete(r, u, t) ==
  Begin(r, u, t, {"owner"}, [op |-> "delete", tenant |-> t])

(* DELETE FROM tenants; memberships and invitations go by ON DELETE        *)
(* CASCADE.  It waits for whoever holds one of their rows; FOR UPDATE of a *)
(* join with tenants holds the tenants row too.  Deleted for good: a new   *)
(* organisation has a new id.                                              *)
DeleteOrganization(r) ==
  /\ At(r, "delete")
  /\ LET t == request[r].tenant IN
     /\ \A u \in Users : RemovalLocks(t, u) = {}
     /\ \A i \in Invitations :
          LockedBy(i) # {} => invitation[i].tenant # t
     /\ tenant' = [tenant EXCEPT ![t] = "gone"]
     /\ role' = [role EXCEPT ![t] = [u \in Users |-> "none"]]
     /\ invitation' = [i \in Invitations |->
          IF invitation[i] # Unused /\ invitation[i].tenant = t
          THEN [invitation[i] EXCEPT !.status = "deleted"] ELSE invitation[i]]
  /\ End(r)
  /\ UNCHANGED <<initialized, accounts, admins, sessions, grants, withdrawn>>

-----------------------------------------------------------------------------
(* Invitations are used under the lock of their row.                       *)

(* accept_invitation reads the session's user first.                       *)
BeginAccept(r, u, i) ==
  /\ At(r, "idle") /\ u \in sessions
  /\ invitation[i].status = "open"
  /\ Step(r, [op |-> "accept", user |-> u, row |-> i])
  /\ UNCHANGED <<database, grants, withdrawn>>

BeginRegister(r, i) ==
  /\ At(r, "idle")
  /\ invitation[i].status = "open"
  /\ Step(r, [op |-> "register", user |-> invitation[i].user, row |-> i])
  /\ UNCHANGED <<database, grants, withdrawn>>

(* Mutant: the invitation is read without FOR UPDATE.                      *)
ReadInvitation(r, op, locked) ==
  /\ At(r, op)
  /\ LET row == invitation[request[r].row] IN
     IF row.status = "open" /\ row.user = request[r].user
     THEN Step(r, [request[r] EXCEPT !.op = locked])
     ELSE End(r)
  /\ UNCHANGED <<database, grants, withdrawn>>

(* SELECT ... accepted_at IS NULL AND expires_at > now FOR UPDATE.         *)
LockInvitation(r, op, locked) ==
  /\ At(r, op)
  /\ LockedBy(request[r].row) = {}
  /\ LET row == invitation[request[r].row] IN
     IF row.status = "open" /\ row.user = request[r].user
     THEN Step(r, [request[r] EXCEPT !.op = locked])
     ELSE End(r)
  /\ UNCHANGED <<database, grants, withdrawn>>

(* The membership, accepted_at and the commit.  A deleted row (only        *)
(* possible without the lock) is not accepted.                             *)
Accept(i, u) ==
  LET row == invitation[i] IN
  /\ invitation' = IF row.status = "deleted" THEN invitation
                   ELSE [invitation EXCEPT ![i].status = "accepted"]
  /\ role' = IF role[row.tenant][u] = "none"
             THEN [role EXCEPT ![row.tenant][u] = row.role] ELSE role
  /\ grants' = IF role[row.tenant][u] = "none"
               THEN [grants EXCEPT ![i] = @ + 1] ELSE grants

(* accept_invitation: ON CONFLICT (tenant_id,user_id) DO NOTHING.          *)
AcceptInvitation(r) ==
  /\ At(r, "accepting")
  /\ Accept(request[r].row, request[r].user)
  /\ End(r)
  /\ UNCHANGED <<initialized, accounts, admins, sessions, tenant, withdrawn>>

(* register_invitation: INSERT INTO users fails for a taken address.       *)
RegisterInvitation(r) ==
  /\ At(r, "registering")
  /\ LET u == request[r].user IN
     IF u \in accounts
     THEN UNCHANGED <<database, grants>>
     ELSE /\ Accept(request[r].row, u)
          /\ accounts' = accounts \union {u}
          /\ sessions' = sessions \union {u}
          /\ UNCHANGED <<initialized, admins, tenant>>
  /\ End(r)
  /\ UNCHANGED withdrawn

(* The process dies or the client disconnects: an open transaction is      *)
(* rolled back.                                                            *)
RequestDies(r) ==
  /\ ~At(r, "idle")
  /\ End(r)
  /\ UNCHANGED <<database, grants, withdrawn>>

-----------------------------------------------------------------------------
Authorize(r) ==
  \/ \E u \in Users, t \in Tenants :
       \/ BeginBootstrap(r, u, t) \/ BeginDelete(r, u, t)
       \/ \E i \in Invitations : BeginRevoke(r, u, t, i)
       \/ \E v \in Users :
            \/ BeginRemove(r, u, t, v)
            \/ \E as \in Roles :
                 \/ BeginUpdate(r, u, t, v, as)
                 \/ \E i \in Invitations : BeginInvite(r, u, t, i, v, as)
  \/ \E i \in Invitations :
       BeginRegister(r, i) \/ (\E u \in Users : BeginAccept(r, u, i))

Act(r) ==
  \/ LockInstallation(r) \/ BootstrapAccount(r)
  \/ CreateInvitation(r) \/ DeleteInvitation(r)
  \/ UpdateMember(r) \/ LockMember(r) \/ CountOwners(r) \/ DeleteMember(r)
  \/ DeleteOrganization(r)
  \/ LockInvitation(r, "accept", "accepting") \/ AcceptInvitation(r)
  \/ LockInvitation(r, "register", "registering") \/ RegisterInvitation(r)

Next ==
  \/ \E r \in Requests : Authorize(r) \/ Act(r) \/ RequestDies(r)
  \/ \E u \in Users : Login(u) \/ SessionEnds(u)
  \/ \E u \in Users, t \in Tenants : VerifyRegistration(u, t) \/ CreateTenant(u, t)
  \/ \E i \in Invitations : InvitationExpires(i)

Spec == Init /\ [][Next]_vars

-----------------------------------------------------------------------------
(* Every variable has its type; a membership is of an account and of an    *)
(* organisation that exists.                                               *)
TypeOK ==
  /\ initialized \in BOOLEAN
  /\ admins \subseteq accounts /\ sessions \subseteq accounts
  /\ accounts \subseteq Users
  /\ tenant \in [Tenants -> {"new", "live", "gone"}]
  /\ role \in [Tenants -> [Users -> Roles \union {"none"}]]
  /\ \A t \in Tenants, u \in Users :
       role[t][u] # "none" => Exists(t) /\ u \in accounts
  /\ \A i \in Invitations : invitation[i] \in Row \union {Unused}

(* An organisation always has exactly one owner, whoever invites, changes, *)
(* removes and accepts at the same time: nothing makes a second owner, and *)
(* nothing demotes or removes the first.                                   *)
OneOwner == \A t \in Tenants : Exists(t) => Cardinality(Owners(t)) = 1

(* An invitation brings at most one membership, even when it is used twice *)
(* at once and the member is removed in between, and none once a manager   *)
(* was told that it is revoked.                                            *)
InvitationsGrantOnce ==
  /\ \A i \in Invitations : grants[i] <= 1
  /\ \A i \in withdrawn : grants[i] = 0

(* The installation is bootstrapped once: nobody else becomes gateway      *)
(* administrator, though concurrent bootstraps all pass the first check.   *)
OneGatewayAdmin == Cardinality(admins) <= 1

=============================================================================
