----------------------------- MODULE ModelRoutes -----------------------------
(***************************************************************************)
(* The fallback order of a tenant's model routes: create_resource,         *)
(* update_resource and retire_resource of kind model_routes (store-postgres*)
(* admin.rs), which renumber the routes of every alias 1, 2, ... in the    *)
(* transaction of the change, and check the plan's number of fallbacks.    *)
(*                                                                         *)
(* Transactions are READ COMMITTED: a statement sees what was committed    *)
(* before it and its own transaction's writes.  They are serialised by an  *)
(* advisory lock, which create_resource takes on the route's tenant, and   *)
(* the others on the tenant of the administrator's context; for a gateway  *)
(* administrator that need not be the same one ("other").                  *)
(***************************************************************************)
EXTENDS Integers, FiniteSets

CONSTANTS
  Routes,      \* ids of rows, in their order
  Aliases,     \* requested models of one project
  Requests,
  Asked,       \* priorities administrators ask for
  Unlimited,   \* a tenant without a plan profile
  Limits,      \* values of the plan's fallback_targets
  MaxTime      \* bound: transactions that begin

(* UUIDs are ordered; a priority is an integer.                            *)
RoutesAssumption ==
  /\ IsFiniteSet(Routes) /\ Routes \subseteq Int
  /\ Asked \subseteq Int
  /\ Aliases \intersect {"none", "retired"} = {}

VARIABLES
  row,      \* admin_resources of kind model_routes
  limit,    \* tenant_plan_profiles.limits->>'fallback_targets'
  time,     \* now() of the last transaction
  tx,       \* the transaction of each request
  crossed   \* for the properties: did the last transaction that took effect
            \* run beside one under the other lock?

vars == <<row, limit, time, tx, crossed>>

Absent == [alias |-> "none", version |-> 0]
Locks == {"tenant", "other"}
None == [stage |-> "none"]

Live(rows, r) == rows[r].alias \in Aliases
LiveIn(rows, a) == {r \in Routes : rows[r].alias = a}

Init ==
  /\ row = [r \in Routes |-> Absent]
  /\ limit \in Limits \union {Unlimited}
  /\ time = 0
  /\ tx = [q \in Requests |-> None]
  /\ crossed = FALSE

At(q, stage) == tx[q].stage = stage
Go(q, next) == tx' = [tx EXCEPT ![q] = next]

(* BEGIN fixes now().                                                      *)
Begin(q, op, r, version, alias, priority, lock) ==
  /\ At(q, "none") /\ time < MaxTime
  /\ time' = time + 1
  /\ Go(q, [stage |-> "lock", op |-> op, route |-> r, version |-> version,
            alias |-> alias, priority |-> priority, lock |-> lock, now |-> time',
            met |-> FALSE])
  /\ UNCHANGED <<row, limit, crossed>>

BeginCreate(q, r, alias, priority) ==
  Begin(q, "create", r, 0, alias, priority, "tenant")

(* With a version the client has seen.                                     *)
BeginUpdate(q, r, version, alias, priority, lock) ==
  Begin(q, "update", r, version, alias, priority, lock)

BeginRetire(q, r, version, lock) ==
  Begin(q, "retire", r, version, "retired", row[r].priority, lock)

Inside == {q \in Requests : ~At(q, "none") /\ ~At(q, "lock")}

(* Transactions under another lock; both will know that they met ("met" is *)
(* for the properties).                                                    *)
Beside(q) == {p \in Inside : tx[p].lock # tx[q].lock}

Enter(q) ==
  tx' = [p \in Requests |->
    IF p = q THEN [tx[q] EXCEPT !.stage = "write", !.met = (Beside(q) # {})]
    ELSE IF p \in Beside(q) THEN [tx[p] EXCEPT !.met = TRUE]
    ELSE tx[p]]

(* Mutant: the lock is not taken.                                          *)
DoNotLock(q) ==
  /\ At(q, "lock")
  /\ Enter(q)
  /\ UNCHANGED <<row, limit, time, crossed>>

(* lock_model_routes.                                                      *)
LockModelRoutes(q) ==
  /\ At(q, "lock")
  /\ \A p \in Inside : tx[p].lock # tx[q].lock
  /\ Enter(q)
  /\ UNCHANGED <<row, limit, time, crossed>>

(* Rows whose row lock the transaction of q holds.                         *)
Holds(q) == IF tx[q].stage \in {"rank", "commit"} THEN {tx[q].route} ELSE {}

Changed(t) ==
  [alias |-> t.alias, version |-> row[t.route].version + 1, priority |-> t.priority,
   at |-> t.now]

Accepted(t) ==
  CASE t.op = "create" -> row[t.route] = Absent
    [] t.op = "update" -> row[t.route].version = t.version /\ Live(row, t.route)
    [] t.op = "retire" -> row[t.route].version = t.version

(* The INSERT or UPDATE of the row itself.                                 *)
WriteRoute(q) ==
  /\ At(q, "write")
  /\ \A p \in Requests \ {q} : tx[q].route \notin Holds(p)
  /\ IF Accepted(tx[q])
     THEN Go(q, [stage |-> "rank", op |-> tx[q].op, route |-> tx[q].route,
                 lock |-> tx[q].lock, now |-> tx[q].now, met |-> tx[q].met,
                 mine |-> Changed(tx[q])])
     ELSE Go(q, None)
  /\ UNCHANGED <<row, limit, time, crossed>>

(* What the transaction of q sees.                                         *)
Seen(q) == [row EXCEPT ![tx[q].route] = tx[q].mine]

(* row_number() OVER (... ORDER BY priority, updated_at DESC, id).         *)
Precedes(rows, r, s) ==
  \/ rows[r].priority < rows[s].priority
  \/ /\ rows[r].priority = rows[s].priority
     /\ rows[r].at > rows[s].at \/ (rows[r].at = rows[s].at /\ r < s)

Position(rows, r) ==
  1 + Cardinality({s \in LiveIn(rows, rows[r].alias) : Precedes(rows, s, r)})

(* normalize_model_routes: the rows its snapshot has in another position.  *)
RankRoutes(q) ==
  /\ At(q, "rank")
  /\ LET rows == Seen(q) IN
     Go(q, [stage |-> "commit", op |-> tx[q].op, route |-> tx[q].route,
            lock |-> tx[q].lock, now |-> tx[q].now, met |-> tx[q].met,
            mine |-> tx[q].mine,
            ranks |-> {[route |-> r, position |-> Position(rows, r)] :
                         r \in {s \in Routes : Live(rows, s) /\
                                  Position(rows, s) # rows[s].priority}}])
  /\ UNCHANGED <<row, limit, time, crossed>>

Renumbered(q) ==
  LET rows == Seen(q) IN
  [r \in Routes |->
     LET new == {x \in tx[q].ranks : x.route = r /\ x.position # rows[r].priority} IN
     IF new = {} THEN rows[r]
     ELSE [rows[r] EXCEPT !.priority = (CHOOSE x \in new : TRUE).position,
                          !.version = @ + 1, !.at = tx[q].now]]

(* enforce_fallback_limit: targets beyond the first of every alias.        *)
Fallbacks(rows) ==
  Cardinality({r \in Routes : Live(rows, r)})
    - Cardinality({a \in Aliases : LiveIn(rows, a) # {}})

WithinLimit(op, rows) ==
  op = "retire" \/ limit = Unlimited \/ Fallbacks(rows) <= limit

(* The UPDATE of the ranked rows waits for those that other transactions   *)
(* hold, and looks at them again; the profile is then locked and the       *)
(* routes are counted in a snapshot of their own.                          *)
CommitRoutes(q) ==
  /\ At(q, "commit")
  /\ \A p \in Requests \ {q} : \A x \in tx[q].ranks : x.route \notin Holds(p)
  /\ IF WithinLimit(tx[q].op, Renumbered(q))
     THEN row' = Renumbered(q) /\ crossed' = tx[q].met
     ELSE UNCHANGED <<row, crossed>>
  /\ Go(q, None)
  /\ UNCHANGED <<limit, time>>

(* A deadlock, a failure, or a client that disconnects: rolled back.       *)
RollBack(q) ==
  /\ ~At(q, "none")
  /\ Go(q, None)
  /\ UNCHANGED <<row, limit, time, crossed>>

Next ==
  \E q \in Requests :
    \/ \E r \in Routes :
         \/ \E a \in Aliases, k \in Asked :
              \/ BeginCreate(q, r, a, k)
              \/ \E v \in 1..row[r].version, l \in Locks : BeginUpdate(q, r, v, a, k, l)
         \/ \E v \in 1..row[r].version, l \in Locks : BeginRetire(q, r, v, l)
    \/ LockModelRoutes(q) \/ WriteRoute(q) \/ RankRoutes(q) \/ CommitRoutes(q)
    \/ RollBack(q)

Spec == Init /\ [][Next]_vars

-----------------------------------------------------------------------------
(* Committed routes of an alias are numbered 1, 2, ..., n, whatever        *)
(* priorities were asked for and however requests interleave, unless the   *)
(* last transaction ran beside one under the other lock: such a race       *)
(* may leave other numbers, but the next transaction that meets none puts  *)
(* every alias in order again, whatever it finds.                          *)
PrioritiesAreRanks ==
  ~crossed =>
    \A a \in Aliases :
      {row[r].priority : r \in LiveIn(row, a)} = 1..Cardinality(LiveIn(row, a))

=============================================================================
