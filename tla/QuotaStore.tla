------------------------------ MODULE QuotaStore ------------------------------
(***************************************************************************)
(* The PostgreSQL quota ledger of one tenant, statement by statement:      *)
(* reserve_quota, finalize_usage, release_reservation, revoke_virtual_key  *)
(* and enforce_scope_limits of stores/store-postgres/src/lib.rs.           *)
(*                                                                         *)
(* reserve_quota is one transaction, but it runs at READ COMMITTED: each   *)
(* of its SELECTs sees what was committed when that SELECT started, and    *)
(* its row locks (FOR UPDATE) only stop the transactions that touch the    *)
(* same rows.  Each statement is therefore an action of its own, and the   *)
(* locks a request holds follow from the phase it has reached.             *)
(* finalize_usage and release_reservation make their effect visible at     *)
(* commit, so each is one action.  finalize_usage inserts a row that       *)
(* REFERENCES tenants(id), for which PostgreSQL takes a KEY SHARE lock on  *)
(* the tenant's row: it waits while a request of the JWT owner holds that  *)
(* row FOR UPDATE.  Nothing makes it wait for a virtual key's row or for   *)
(* the row of tenant_plan_profiles.                                        *)
(*                                                                         *)
(* The SUM and COUNT queries over usage_events and quota_reservations are  *)
(* running totals per account.                                             *)
(***************************************************************************)
EXTENDS Integers, FiniteSets

CONSTANTS
  Keys,           \* the virtual keys of the tenant
  Jwt,            \* the owner of JWT-authenticated requests
  Tenant,         \* the account that adds up all the traffic of the tenant
  Requests,       \* requests, each with at most one reservation
  OwnerOf,        \* the quota owner of each request
  Cost,           \* prompt_tokens + completion_tokens each request reserves
  Limit,          \* daily_token_limit of each owner
  PlanLimit,      \* routed_tokens_per_month of that row
  DailyRequests,  \* daily_request_limit of every key
  Budget,         \* monthly_budget of every key, at one unit per token
  ScopeTokens,    \* token_limit (period day) of a scope all requests are in
  ScopeActive,    \* concurrent_limit of that scope
  MaxCharge,      \* bound: the largest usage a provider reports
  MaxDays         \* bound: how often midnight passes

Owners   == Keys \union {Jwt}
Accounts == Owners \union {Tenant}

ASSUME ConstantsAssumption ==
  /\ Jwt \notin Keys
  /\ Tenant \notin Owners
  /\ IsFiniteSet(Requests)
  /\ IsFiniteSet(Keys)
  /\ OwnerOf \in [Requests -> Owners]
  /\ Cost \in [Requests -> Nat]
  /\ Limit \in [Owners -> Nat]
  /\ {PlanLimit, DailyRequests, Budget, ScopeTokens, ScopeActive} \subseteq Nat
  /\ {MaxCharge, MaxDays} \subseteq Nat

VARIABLES
  phase,    \* how far each request is
  seen,     \* the sum over usage_events its open transaction read last
  today,    \* tokens in usage_events since midnight, per account
  month,    \* tokens in usage_events this month, per account
  events,   \* rows in usage_events since midnight, per account
  pending,  \* tokens in quota_reservations, per account
  expired,  \* requests whose reservation has expires_at <= now()
  listed,   \* requests in the list the reconciler last loaded
  revoked,  \* keys with revoked_at set
  days,     \* midnights so far
  managed,  \* is there a row in tenant_plan_profiles?
  \* What the properties compare with; no action reads these.
  excess,   \* tokens charged beyond what the charged reservation held
  skew      \* tokens charged between the two reads of an open check

ledger == <<today, month, events, pending>>
ghosts == <<excess, skew>>
vars == <<phase, seen, ledger, expired, listed, revoked, days, managed,
          ghosts>>

-----------------------------------------------------------------------------
(* Phases of a request, in the order of the statements of reserve_quota.   *)

PlanPhases  == {"planLocked", "planUsed"}
OwnerPhases == {"ownerLocked", "keyOk", "used", "ownerOk", "scopeUsed",
                "scopeOk", "ready"}
TxPhases    == PlanPhases \union OwnerPhases \union {"planOk"}
EndPhases   == {"denied", "charged", "released"}
Phases      == {"new", "held"} \union TxPhases \union EndPhases

AccountsOf(q) == {OwnerOf[q], Tenant}

(* Mutants of the locks: the plan row or the owner's row is let go as soon *)
(* as it has been read; a refused request keeps the owner's row; the       *)
(* foreign key takes no lock.                                              *)
PlanLockUntilChecked(q)  == managed /\ phase[q] \in PlanPhases
OwnerLockUntilRead(q)    == phase[q] = "ownerLocked"
OwnerLockKeptIfDenied(q) == phase[q] \in OwnerPhases \union {"denied"}
ForeignKeyTakesNoLock    == FALSE

HoldsPlan(q)   == managed /\ phase[q] \in TxPhases
HoldsOwner(q)  == phase[q] \in OwnerPhases
TenantRowLocked == \E q \in Requests : OwnerOf[q] = Jwt /\ HoldsOwner(q)

(* The request sits between the read of the used tokens and that of the    *)
(* pending tokens of account a.                                            *)
Between(q, a) ==
  \/ phase[q] = "planUsed" /\ a = Tenant
  \/ phase[q] = "used" /\ a = OwnerOf[q]

Zero == [a \in Accounts |-> 0]

Init ==
  /\ phase = [q \in Requests |-> "new"]
  /\ seen = [q \in Requests |-> 0]
  /\ today = Zero /\ month = Zero /\ events = Zero /\ pending = Zero
  /\ expired = {} /\ listed = {} /\ revoked = {}
  /\ days = 0
  /\ managed \in BOOLEAN
  /\ excess = Zero /\ skew = Zero

-----------------------------------------------------------------------------
Goto(q, p) == phase' = [phase EXCEPT ![q] = p]

(* A test of the transaction: go on to p, or roll back and return false.   *)
Test(q, ok, p) ==
  /\ Goto(q, IF ok THEN p ELSE "denied")
  /\ UNCHANGED <<seen, ledger, expired, listed, revoked, days, managed,
                 ghosts>>

(* A SELECT COALESCE(SUM(total_tokens),0) over usage_events.               *)
ReadSum(q, sum, p) ==
  /\ seen' = [seen EXCEPT ![q] = sum]
  /\ Goto(q, p)
  /\ UNCHANGED <<ledger, expired, listed, revoked, days, managed, ghosts>>

(* SELECT ... FROM tenant_plan_profiles WHERE tenant_id=$1 FOR UPDATE.     *)
LockPlan(q) ==
  /\ phase[q] = "new" /\ managed
  /\ ~ \E r \in Requests : HoldsPlan(r)
  /\ Test(q, TRUE, "planLocked")

ReadPlanUsed(q) ==
  /\ phase[q] = "planLocked"
  /\ ReadSum(q, month[Tenant], "planUsed")

CheckPlan(q) ==
  /\ phase[q] = "planUsed"
  /\ Test(q, seen[q] + pending[Tenant] + Cost[q] <= PlanLimit, "planOk")

(* Mutant: the owner's row is read without FOR UPDATE.                     *)
ReadOwnerUnlocked(q) ==
  /\ phase[q] = (IF managed THEN "planOk" ELSE "new")
  /\ Test(q, OwnerOf[q] \notin revoked, "ownerLocked")

(* SELECT daily_token_limit FROM tenants | virtual_keys ... FOR UPDATE: a  *)
(* revoked key has no such row, which is StoreError::NotFound.             *)
LockOwner(q) ==
  /\ phase[q] = (IF managed THEN "planOk" ELSE "new")
  /\ ~ \E r \in Requests : OwnerOf[r] = OwnerOf[q] /\ HoldsOwner(r)
  /\ Test(q, OwnerOf[q] \notin revoked, "ownerLocked")

(* daily_request_limit and monthly_budget, which only virtual keys have.   *)
CheckKey(q) ==
  /\ phase[q] = "ownerLocked"
  /\ Test(q, \/ OwnerOf[q] = Jwt
             \/ /\ events[OwnerOf[q]] < DailyRequests
                /\ month[OwnerOf[q]] < Budget, "keyOk")

(* The JWT owner is charged with all the traffic of the tenant, a key with *)
(* its own.                                                                *)
UsedAccount(q) == IF OwnerOf[q] = Jwt THEN Tenant ELSE OwnerOf[q]

ReadUsed(q) ==
  /\ phase[q] = "keyOk"
  /\ ReadSum(q, today[UsedAccount(q)], "used")

(* Mutant: the check forgets what is reserved.                             *)
CheckOwnerUsedOnly(q) ==
  /\ phase[q] = "used"
  /\ Test(q, seen[q] + Cost[q] <= Limit[OwnerOf[q]], "ownerOk")

CheckOwner(q) ==
  /\ phase[q] = "used"
  /\ Test(q, seen[q] + pending[OwnerOf[q]] + Cost[q] <= Limit[OwnerOf[q]],
          "ownerOk")

(* enforce_scope_limits, for a scope that holds every request of the       *)
(* tenant; no row is locked for it.                                        *)
ReadScopeUsed(q) ==
  /\ phase[q] = "ownerOk"
  /\ ReadSum(q, today[Tenant], "scopeUsed")

CheckScopeTokens(q) ==
  /\ phase[q] = "scopeUsed"
  /\ Test(q, seen[q] + pending[Tenant] + Cost[q] <= ScopeTokens, "scopeOk")

Active == {q \in Requests : phase[q] = "held" /\ q \notin expired}

(* Mutant: one reservation too many.                                       *)
CheckScopeActiveAtMost(q) ==
  /\ phase[q] = "scopeOk"
  /\ Test(q, Cardinality(Active) <= ScopeActive, "ready")

CheckScopeActive(q) ==
  /\ phase[q] = "scopeOk"
  /\ Test(q, Cardinality(Active) < ScopeActive, "ready")

(* INSERT INTO quota_reservations and COMMIT.  The row refers to the       *)
(* tenant's, so the INSERT waits for a JWT request that has locked it.     *)
InsertReservation(q) ==
  /\ phase[q] = "ready"
  /\ TenantRowLocked => OwnerOf[q] = Jwt
  /\ Goto(q, "held")
  /\ pending' = [a \in Accounts |->
                   pending[a] + (IF a \in AccountsOf(q) THEN Cost[q] ELSE 0)]
  /\ UNCHANGED <<seen, today, month, events, expired, listed, revoked, days,
                 managed, ghosts>>

(* The connection fails or the caller goes away: the open transaction is   *)
(* rolled back.                                                            *)
Abort(q) ==
  /\ phase[q] \in TxPhases
  /\ Test(q, FALSE, "denied")

-----------------------------------------------------------------------------
(* The part of a sum that belongs to account a when q adds n to it.        *)
Share(q, a, n) == IF a \in AccountsOf(q) THEN n ELSE 0

(* Mutant: the ledger is given the difference to the reservation.          *)
AppendDifference(q, n, held) ==
  /\ today'  = [a \in Accounts |-> today[a] + Share(q, a, n - held)]
  /\ pending' = [a \in Accounts |-> pending[a] - Share(q, a, held)]
  /\ UNCHANGED <<month, events, ghosts>>

AppendUsage(q, n, held) ==
  LET over == IF n > held THEN n - held ELSE 0
  IN /\ today'  = [a \in Accounts |-> today[a] + Share(q, a, n)]
     /\ month'  = [a \in Accounts |-> month[a] + Share(q, a, n)]
     /\ events' = [a \in Accounts |-> events[a] + Share(q, a, 1)]
     /\ pending' = [a \in Accounts |-> pending[a] - Share(q, a, held)]
     /\ excess' = [a \in Accounts |-> excess[a] + Share(q, a, over)]
     /\ skew' = [a \in Accounts |->
                   skew[a] + (IF \E r \in Requests : Between(r, a)
                                THEN Share(q, a, held) ELSE 0)]

(* finalize_usage for a reservation that is there: by its own handler with *)
(* what the provider reported, or by the reconciler with the estimate.     *)
FinalizeUsage(q, n) ==
  /\ phase[q] = "held"
  /\ ~TenantRowLocked
  /\ Goto(q, "charged")
  /\ AppendUsage(q, n, Cost[q])
  /\ UNCHANGED <<seen, expired, listed, revoked, days, managed>>

(* finalize_usage by the reconciler, which loaded the reservation before   *)
(* its handler released it: the DELETE finds no row, the INSERT still      *)
(* charges.                                                                *)
FinalizeReleased(q) ==
  /\ phase[q] = "released" /\ q \in listed
  /\ ~TenantRowLocked
  /\ Goto(q, "charged")
  /\ AppendUsage(q, Cost[q], 0)
  /\ UNCHANGED <<seen, expired, listed, revoked, days, managed>>

ReleaseReservation(q) ==
  /\ phase[q] = "held"
  /\ Goto(q, "released")
  /\ pending' = [a \in Accounts |-> pending[a] - Share(q, a, Cost[q])]
  /\ UNCHANGED <<seen, today, month, events, expired, listed, revoked, days,
                 managed, ghosts>>

Expire(q) ==
  /\ phase[q] = "held" /\ q \notin expired
  /\ expired' = expired \union {q}
  /\ UNCHANGED <<phase, seen, ledger, listed, revoked, days, managed, ghosts>>

(* The reconciler's tick: SELECT ... WHERE expires_at <= now().            *)
ExpiredReservations ==
  /\ listed' = {q \in expired : phase[q] = "held"}
  /\ listed' # listed
  /\ UNCHANGED <<phase, seen, ledger, expired, revoked, days, managed, ghosts>>

(* UPDATE virtual_keys SET revoked_at ...: waits for the row lock.         *)
RevokeVirtualKey(k) ==
  /\ k \notin revoked
  /\ ~ \E q \in Requests : OwnerOf[q] = k /\ HoldsOwner(q)
  /\ revoked' = revoked \union {k}
  /\ UNCHANGED <<phase, seen, ledger, expired, listed, days, managed, ghosts>>

(* Midnight UTC: the events of the day leave the daily sums.  now() is the *)
(* start of a transaction, so one that is open across midnight still adds  *)
(* up the old day and only gets stricter; that case is left out.           *)
NewDay ==
  /\ days < MaxDays
  /\ \A q \in Requests : phase[q] \notin TxPhases
  /\ days' = days + 1
  /\ today' = Zero /\ events' = Zero
  /\ excess' = [a \in Accounts |-> IF a = Tenant THEN excess[a] ELSE 0]
  /\ skew'   = [a \in Accounts |-> IF a = Tenant THEN skew[a] ELSE 0]
  /\ UNCHANGED <<phase, seen, month, pending, expired, listed, revoked,
                 managed>>

-----------------------------------------------------------------------------
ReserveStep(q) ==
  \/ LockPlan(q) \/ ReadPlanUsed(q) \/ CheckPlan(q)
  \/ LockOwner(q) \/ CheckKey(q) \/ ReadUsed(q) \/ CheckOwner(q)
  \/ ReadScopeUsed(q) \/ CheckScopeTokens(q) \/ CheckScopeActive(q)
  \/ InsertReservation(q)

Next ==
  \/ \E q \in Requests :
       \/ ReserveStep(q) \/ Abort(q)
       \/ \E n \in 0 .. MaxCharge : FinalizeUsage(q, n)
       \/ FinalizeReleased(q) \/ ReleaseReservation(q) \/ Expire(q)
  \/ ExpiredReservations
  \/ \E k \in Keys : RevokeVirtualKey(k)
  \/ NewDay

Spec == Init /\ [][Next]_vars

(* The database runs the statements it is sent, and a row lock is granted  *)
(* to its waiters in turn.                                                 *)
FairSpec == Spec /\ \A q \in Requests : WF_vars(ReserveStep(q))

-----------------------------------------------------------------------------
(* Every variable has its type; the running totals of usage never go       *)
(* below zero.                                                             *)
TypeOK ==
  /\ phase \in [Requests -> Phases]
  /\ seen \in [Requests -> Nat]
  /\ today \in [Accounts -> Nat] /\ month \in [Accounts -> Nat]
  /\ events \in [Accounts -> Nat]
  /\ pending \in [Accounts -> Int]
  /\ expired \subseteq Requests /\ listed \subseteq Requests
  /\ revoked \subseteq Keys
  /\ days \in Nat /\ managed \in BOOLEAN
  /\ excess \in [Accounts -> Nat] /\ skew \in [Accounts -> Nat]

(* No two open reserve_quota transactions hold the row of the same owner,  *)
(* whatever the order in which revocations, charges and rollbacks come.    *)
OneCheckPerOwner ==
  \A q, r \in Requests :
    OwnerOf[q] = OwnerOf[r] /\ HoldsOwner(q) /\ HoldsOwner(r) => q = r

(* reserve_quota for JWT traffic: what the JWT owner has used today and    *)
(* has reserved stays within its daily limit, except for what a charge     *)
(* took beyond its reservation.  It relies on the KEY SHARE lock of the    *)
(* foreign key, which keeps finalize_usage out of the open check.          *)
JwtWithinLimit ==
  today[Jwt] + pending[Jwt] <= Limit[Jwt] + excess[Jwt]

(* reserve_quota for every owner, keys included: the only ways over the    *)
(* daily limit are a charge above the reservation and a charge that        *)
(* commits between the two SUM queries of an open check.                   *)
OwnerOvershootExplained ==
  \A o \in Owners :
    today[o] + pending[o] <= Limit[o] + excess[o] + skew[o]

(* The same for the monthly cap of a managed plan.                         *)
PlanOvershootExplained ==
  managed =>
    month[Tenant] + pending[Tenant]
      <= PlanLimit + excess[Tenant] + skew[Tenant]

(* What is reserved at one moment never exceeds an owner's daily limit:    *)
(* the row lock orders the reservations of an owner, races or not.         *)
PendingWithinLimit == \A o \in Owners : pending[o] <= Limit[o]

(* enforce_scope_limits locks nothing for a scope, so the requests of      *)
(* different owners can all pass the concurrency test before any of them   *)
(* inserts.  The overshoot is at most one reservation per further owner,   *)
(* and none under a managed plan, whose row lock orders all owners.        *)
ActiveOvershootBounded ==
  Cardinality(Active)
    <= ScopeActive + (IF managed THEN 0 ELSE Cardinality(Keys))

(* A key that has been revoked gains no reservation any more, whatever was *)
(* open when it was revoked.                                               *)
RevokedKeyReservesNothing ==
  [][\A q \in Requests :
       InsertReservation(q) => OwnerOf[q] \notin revoked]_vars

(* The row locks never leave a reservation transaction waiting for ever:   *)
(* it commits or rolls back.                                               *)
ReserveAlwaysEnds ==
  \A q \in Requests : phase[q] \in TxPhases ~> phase[q] \notin TxPhases

-----------------------------------------------------------------------------
(* What the documentation says and the code does not do.                   *)

(* gateway-store/src/lib.rs:62, "Atomically reserve quota. Returns false   *)
(* when the daily limit would be exceeded.": only a charge above its       *)
(* reservation may take an owner over its daily limit.                     *)
DailyLimitIsExact ==
  \A o \in Owners : today[o] + pending[o] <= Limit[o] + excess[o]

=============================================================================
