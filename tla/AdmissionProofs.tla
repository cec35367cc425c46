--------------------------- MODULE AdmissionProofs ---------------------------
(***************************************************************************)
(* What the parts of Admission promise for any constants: the policy of an *)
(* inference request is what its scopes say together; nobody is admitted   *)
(* with a key withdrawn long ago or outside the scope he is bound to; a    *)
(* tool of high risk needs approval; the counters in Redis keep their      *)
(* limits; and what passes the inspection was inspected.                   *)
(***************************************************************************)
EXTENDS Admission, FiniteSetTheorems, TLAPS

-----------------------------------------------------------------------------
(* The policy of an inference request.                                     *)


(* An allowlist lets an item pass.                                         *)
Passes(list, x) == list = {} \/ x \in list

(* While something passes both lists, intersecting them is a conjunction.  *)
LEMMA IntersectIsConjunction ==
  ASSUME NEW left, NEW right, NEW w, NEW x,
         Passes(left, w), Passes(right, w)
  PROVE  Passes(Intersect(left, right), x)
           <=> Passes(left, x) /\ Passes(right, x)
BY DEF Passes, Intersect

(* The lower limit is the conjunction of both, None included.              *)
LEMMA LowerIsConjunction ==
  ASSUME NEW left \in Nat \union {None}, NEW right \in Nat \union {None},
         NEW n \in Nat
  PROVE  /\ Lower(left, right) \in {left, right}
         /\ Within(n, Lower(left, right))
              <=> Within(n, left) /\ Within(n, right)
BY NoneAssumption DEF Lower, Within

-----------------------------------------------------------------------------
(* The inductive invariant: each part of the policy sums up that part of   *)
(* the rows, an allowlist as long as something passes all of them.         *)
ListsAgree(S, list, of(_)) ==
  (\E w \in S : \A p \in applied : Passes(of(p), w)) =>
    \A x : Passes(list, x) <=> \A p \in applied : Passes(of(p), x)

AllowedOf(p) == p.allowed
OperationsOf(p) == p.operations

ModelsAgree == ListsAgree(Models, policy.allowed, AllowedOf)
OperationsAgree == ListsAgree(Operations, policy.operations, OperationsOf)
DenialsAgree ==
  \A x : x \in policy.denied <=> \E p \in applied : x \in p.denied
LimitsAgree ==
  \A n \in Nat :
    Within(n, policy.tokens) <=> \A p \in applied : Within(n, p.tokens)

PolicyInv ==
  /\ TypeOK
  /\ ModelsAgree /\ OperationsAgree /\ DenialsAgree /\ LimitsAgree

(* Before the first row everything is allowed.                             *)
LEMMA InitInv == Init => PolicyInv
<1> SUFFICES ASSUME Init PROVE PolicyInv
  OBVIOUS
<1>1. policy \in Policy
  BY DEF Init, Default, Policy
<1>2. rest \in Seq(Policies)
  <2>1. PICK n \in 0 .. MaxRows : rest \in [1 .. n -> Policies]
    BY DEF Init
  <2>2. n \in Nat
    BY <2>1
  <2> QED BY <2>1, <2>2
<1>3. applied \subseteq Policies
  BY DEF Init
<1>4. ModelsAgree /\ OperationsAgree
  BY DEF Init, Default, ModelsAgree, OperationsAgree, ListsAgree, Passes
<1>5. DenialsAgree /\ LimitsAgree
  BY DEF Init, Default, DenialsAgree, LimitsAgree, Within
<1> QED BY <1>1, <1>2, <1>3, <1>4, <1>5 DEF PolicyInv, TypeOK

(* Folding in one more row.                                                *)
LEMMA NextInv == PolicyInv /\ [Next]_vars => PolicyInv'
<1> SUFFICES ASSUME PolicyInv, [Next]_vars PROVE PolicyInv'
  OBVIOUS
<1>1. CASE Apply
  <2> DEFINE c == Head(rest)
  <2>1. rest \in Seq(Policies) /\ rest # << >>
    BY <1>1 DEF PolicyInv, TypeOK, Apply
  <2>2. c \in Policies /\ rest' \in Seq(Policies)
    BY <1>1, <2>1 DEF Apply
  <2>3. c \in Policy /\ policy \in Policy
    BY <2>2, ModelPolicyAssumption DEF PolicyInv, TypeOK
  <2>4. /\ policy' = RestrictWith(policy, c)
        /\ applied' = applied \union {c}
    BY <1>1 DEF Apply
  <2> HIDE DEF c
  <2>5. /\ c.tokens \in Nat \union {None}
        /\ policy.tokens \in Nat \union {None}
    BY <2>3, ModelPolicyAssumption DEF Policy
  <2>6. TypeOK'
    <3>1. Lower(policy.tokens, c.tokens) \in Amounts \union {None}
      BY <2>3, <2>5, LowerIsConjunction, 0 \in Nat DEF Policy
    <3>2. Intersect(policy.allowed, c.allowed) \in SUBSET Models
      BY <2>3 DEF Intersect, Policy
    <3>3. Intersect(policy.operations, c.operations) \in SUBSET Operations
      BY <2>3 DEF Intersect, Policy
    <3>4. policy.denied \union c.denied \in SUBSET Models
      BY <2>3 DEF Policy
    <3>5. policy' \in Policy
      BY <2>4, <3>1, <3>2, <3>3, <3>4 DEF RestrictWith, Policy
    <3> QED BY <2>2, <2>4, <3>5 DEF TypeOK, PolicyInv
  <2>7. ModelsAgree'
    <3> SUFFICES ASSUME NEW w \in Models,
                        \A p \in applied' : Passes(p.allowed, w),
                        NEW x
                 PROVE  Passes(policy'.allowed, x)
                          <=> \A p \in applied' : Passes(p.allowed, x)
      BY DEF ModelsAgree, ListsAgree, AllowedOf
    <3>1. \A p \in applied : Passes(p.allowed, w)
      BY <2>4
    <3>2. Passes(c.allowed, w)
      BY <2>4
    <3>3. \A y : Passes(policy.allowed, y)
                   <=> \A p \in applied : Passes(p.allowed, y)
      BY <3>1 DEF PolicyInv, ModelsAgree, ListsAgree, AllowedOf
    <3>4. Passes(policy.allowed, w)
      BY <3>1, <3>3
    <3>5. policy'.allowed = Intersect(policy.allowed, c.allowed)
      BY <2>4 DEF RestrictWith
    <3>6. Passes(policy'.allowed, x)
            <=> Passes(policy.allowed, x) /\ Passes(c.allowed, x)
      BY <3>2, <3>4, <3>5, IntersectIsConjunction
    <3> QED BY <2>4, <3>3, <3>6
  <2>8. OperationsAgree'
    <3> SUFFICES ASSUME NEW w \in Operations,
                        \A p \in applied' : Passes(p.operations, w),
                        NEW x
                 PROVE  Passes(policy'.operations, x)
                          <=> \A p \in applied' : Passes(p.operations, x)
      BY DEF OperationsAgree, ListsAgree, OperationsOf
    <3>1. \A p \in applied : Passes(p.operations, w)
      BY <2>4
    <3>2. Passes(c.operations, w)
      BY <2>4
    <3>3. \A y : Passes(policy.operations, y)
                   <=> \A p \in applied : Passes(p.operations, y)
      BY <3>1 DEF PolicyInv, OperationsAgree, ListsAgree, OperationsOf
    <3>4. Passes(policy.operations, w)
      BY <3>1, <3>3
    <3>5. policy'.operations = Intersect(policy.operations, c.operations)
      BY <2>4 DEF RestrictWith
    <3>6. Passes(policy'.operations, x)
            <=> Passes(policy.operations, x) /\ Passes(c.operations, x)
      BY <3>2, <3>4, <3>5, IntersectIsConjunction
    <3> QED BY <2>4, <3>3, <3>6
  <2>9. DenialsAgree'
    <3>1. policy'.denied = policy.denied \union c.denied
      BY <2>4 DEF RestrictWith
    <3> QED BY <2>4, <3>1 DEF PolicyInv, DenialsAgree
  <2>10. LimitsAgree'
    <3> SUFFICES ASSUME NEW n \in Nat
                 PROVE  Within(n, policy'.tokens)
                          <=> \A p \in applied' : Within(n, p.tokens)
      BY DEF LimitsAgree
    <3>1. policy'.tokens = Lower(policy.tokens, c.tokens)
      BY <2>4 DEF RestrictWith
    <3>2. Within(n, policy'.tokens)
            <=> Within(n, policy.tokens) /\ Within(n, c.tokens)
      <4>1. Within(n, Lower(policy.tokens, c.tokens))
              <=> Within(n, policy.tokens) /\ Within(n, c.tokens)
        <5> DEFINE l == policy.tokens
                   r == c.tokens
        <5>1. l \in Nat \union {None} /\ r \in Nat \union {None}
          BY <2>5
        <5> HIDE DEF l, r
        <5>2. Within(n, Lower(l, r)) <=> Within(n, l) /\ Within(n, r)
          BY <5>1, LowerIsConjunction
        <5> QED BY <5>2 DEF l, r
      <4> QED BY <3>1, <4>1
    <3>3. Within(n, policy.tokens) <=> \A p \in applied : Within(n, p.tokens)
      BY DEF PolicyInv, LimitsAgree
    <3> QED BY <2>4, <3>2, <3>3
  <2> QED BY <2>6, <2>7, <2>8, <2>9, <2>10 DEF PolicyInv
<1>2. CASE UNCHANGED vars
  BY <1>2 DEF vars, PolicyInv, TypeOK, ModelsAgree, OperationsAgree,
              DenialsAgree, LimitsAgree, ListsAgree
<1> QED BY <1>1, <1>2 DEF Next

(* The resolved policy sums up its rows at every step of the loop.         *)
THEOREM PolicyInvariant == Spec => []PolicyInv
BY InitInv, NextInv, PTL DEF Spec

-----------------------------------------------------------------------------
(* While the allowlists have an entry in common, a request is authorized   *)
(* exactly if every scope taken alone authorizes it (restrict_with).       *)
THEOREM EveryScopeDecidesHolds == Spec => []EveryScopeDecides
<1>1. PolicyInv => EveryScopeDecides
  <2> SUFFICES ASSUME PolicyInv, Consistent,
                      NEW m \in Models, NEW o \in Operations,
                      NEW t \in Amounts
               PROVE  Authorize(policy, m, o, t)
                        <=> \A p \in applied : Authorize(p, m, o, t)
    BY DEF EveryScopeDecides
  <2>1. \A p \in applied : p.allowed \subseteq Models
                             /\ p.operations \subseteq Operations
    BY ModelPolicyAssumption DEF PolicyInv, TypeOK, Policy
  <2>2. \E w \in Models : \A p \in applied : Passes(p.allowed, w)
    <3>1. PICK w \in UNION ({p.allowed : p \in applied} \union {Models}) :
            \A list \in {p.allowed : p \in applied} \union {Models} :
              list = {} \/ w \in list
      BY DEF Consistent, Compatible
    <3>2. w \in Models
      BY <2>1, <3>1
    <3> QED BY <3>1, <3>2 DEF Passes
  <2>3. \E w \in Operations : \A p \in applied : Passes(p.operations, w)
    <3>1. PICK w \in
            UNION ({p.operations : p \in applied} \union {Operations}) :
              \A list \in {p.operations : p \in applied} \union {Operations} :
                list = {} \/ w \in list
      BY DEF Consistent, Compatible
    <3>2. w \in Operations
      BY <2>1, <3>1
    <3> QED BY <3>1, <3>2 DEF Passes
  <2>4. Passes(policy.allowed, m) <=> \A p \in applied : Passes(p.allowed, m)
    BY <2>2 DEF PolicyInv, ModelsAgree, ListsAgree, AllowedOf
  <2>5. Passes(policy.operations, o)
          <=> \A p \in applied : Passes(p.operations, o)
    BY <2>3 DEF PolicyInv, OperationsAgree, ListsAgree, OperationsOf
  <2>6. m \in policy.denied <=> \E p \in applied : m \in p.denied
    BY DEF PolicyInv, DenialsAgree
  <2>7. Within(t, policy.tokens) <=> \A p \in applied : Within(t, p.tokens)
    BY ModelPolicyAssumption DEF PolicyInv, LimitsAgree
  <2> QED BY <2>4, <2>5, <2>6, <2>7 DEF Authorize, Admits, Passes
<1> QED BY <1>1, PolicyInvariant, PTL

(* Denials by name and limits survive every later scope, unconditionally.  *)
THEOREM DenialsAndLimitsStayHolds == Spec => []DenialsAndLimitsStay
<1>1. PolicyInv => DenialsAndLimitsStay
  <2> SUFFICES ASSUME PolicyInv, NEW p \in applied, NEW m \in Models,
                      NEW o \in Operations, NEW t \in Amounts,
                      m \in p.denied \/ ~Within(t, p.tokens)
               PROVE  ~Authorize(policy, m, o, t)
    BY DEF DenialsAndLimitsStay
  <2>1. m \in p.denied => m \in policy.denied
    BY DEF PolicyInv, DenialsAgree
  <2>2. ~Within(t, p.tokens) => ~Within(t, policy.tokens)
    BY ModelPolicyAssumption DEF PolicyInv, LimitsAgree
  <2> QED BY <2>1, <2>2 DEF Authorize, Admits
<1> QED BY <1>1, PolicyInvariant, PTL

-----------------------------------------------------------------------------
(* Who sends a request.                                                    *)
(*                                                                         *)
(* A key that was withdrawn can come back into the cache, with an answer   *)
(* that was given before.  The proof adds up times: what is left to a      *)
(* fetch and the age of the withdrawal are together at most one timeout    *)
(* (AnswersAge), so what is left to the cache and that age are together at *)
(* most the time to live and one timeout (CacheAges).                      *)

Stages ==
  {"idle", "endpoint", "jwt", "fetch", "fetched", "tenant", "key", "touch", "session",
   "bind", "admitted", "refused"}

Reasons ==
  {None, "not_found", "invalid", "unavailable", "unknown_tenant", "forbidden"}

Request ==
  [at : Stages, cred : Front!Credentials \cup {Front!Nobody},
   endpoint : Projects \cup {None},
   header : Projects \cup {None}, door : Front!Doors \cup {None}, tried : BOOLEAN,
   left : 0 .. Front!Timeout, keys : SUBSET Kids, why : Reasons]

TypeInv ==
  /\ issuer \subseteq Kids
  /\ withdrawn \in [Kids -> 0 .. Front!Forgotten]
  /\ cache \in [keys : SUBSET Kids, left : 0 .. CacheTtl]
  /\ caller \in [Callers -> Request]

(* Whoever presents a credential says so until the request ends.           *)
CredentialsAreKept ==
  \A q \in Callers :
    caller[q].at \notin {"idle", "refused"} =>
      caller[q].cred \in Front!Credentials /\ caller[q].door \in Front!Doors

CacheAges ==
  \A k \in Kids :
    k \notin issuer /\ Front!Cached(k) => cache.left + withdrawn[k] <= Front!Forgotten

AnswersAge ==
  \A q \in Callers, k \in Kids :
    Front!At(q, "fetched") /\ k \in caller[q].keys /\ k \notin issuer =>
      caller[q].left + withdrawn[k] <= Front!Timeout

AdmittanceInv ==
  TypeInv /\ CredentialsAreKept /\ CacheAges /\ AnswersAge /\ Front!ScopeIsBound

-----------------------------------------------------------------------------
LEMMA IdleIsARequest ==
  Front!AdmittanceAssumption => Front!Idle \in Request
BY DEF Front!Idle, Request, Stages, Reasons, Front!Timeout, Front!AdmittanceAssumption

(* ScopeIsBound, of one request.                                           *)
InScope(r) ==
  LET project == Front!ProjectOf(r.cred, r.header) IN
  /\ r.endpoint # None => /\ r.cred.tenant = OwnerOf[r.endpoint]
                          /\ project = r.endpoint /\ r.cred.method # "jwt"
  /\ r.header # None => project = r.header
  /\ r.cred.project # None => project = r.cred.project
  /\ r.door # "inference" =>
       r.cred.method # "key" /\ \E role \in r.cred.roles : r.door \in Front!DoorsOf(role)
  /\ r.door = "inference" /\ r.cred.method = "session" => "viewer" \notin r.cred.roles

LEMMA MethodsDiffer ==
  ASSUME NEW c \in Front!Credentials
  PROVE  c.method = "jwt" => c.project = None
BY DEF Front!Credentials

(* Whoever Enters has a role for it.                                       *)
LEMMA DoorsNeedRoles ==
  ASSUME NEW c, NEW door \in Front!Doors, Front!Enters(c, door)
  PROVE  /\ door # "inference" =>
              c.method # "key" /\ \E role \in c.roles : door \in Front!DoorsOf(role)
         /\ door = "inference" /\ c.method = "session" => "viewer" \notin c.roles
<1>1. CASE door = "admin"
  <2>1. PICK role \in c.roles : role \in {AdminRole, "owner", "admin", "engineer"}
    BY <1>1 DEF Front!Enters
  <2>2. "admin" \in Front!DoorsOf(role)
    BY <2>1 DEF Front!DoorsOf
  <2> QED BY <1>1, <2>1, <2>2 DEF Front!Enters
<1>2. CASE door = "write"
  <2>1. PICK role \in c.roles : role \in {AdminRole, "owner", "admin"}
    BY <1>2 DEF Front!Enters
  <2>2. Front!DoorsOf(role) = {"admin", "write"}
    <3>1. role \in {"owner", "admin", AdminRole}
      BY <2>1
    <3> QED BY <3>1 DEF Front!DoorsOf
  <2> QED BY <1>2, <2>1, <2>2 DEF Front!Enters
<1>3. CASE door = "inference"
  BY <1>3 DEF Front!Enters
<1> QED BY <1>1, <1>2, <1>3 DEF Front!Doors

(* What a step of one request makes of it: everything is typed, only an    *)
(* answer of the issuer makes it "fetched", and only a binding admits it.  *)
Becomes(q, next) ==
  /\ next \in Request
  /\ caller' = [caller EXCEPT ![q] = next]
  /\ next.at = "fetched" =>
       next.keys = issuer /\ next.left \in 0 .. Front!Timeout
  /\ next.at \notin {"idle", "refused"} =>
       next.cred \in Front!Credentials /\ next.door \in Front!Doors
  /\ next.at = "admitted" => InScope(next)

LEMMA MovesOn ==
  ASSUME TypeInv, CredentialsAreKept, NEW q \in Callers,
         NEW where \in Stages \ {"fetched", "admitted"}, Front!On(q, where),
         caller[q].at \notin {"idle", "refused"}
  PROVE  Becomes(q, [caller[q] EXCEPT !.at = where])
<1> DEFINE next == [caller[q] EXCEPT !.at = where]
<1>1. caller[q] \in Request /\ caller \in [Callers -> Request]
  BY DEF TypeInv
<1>2. next \in Request /\ next.at = where
      /\ next.cred = caller[q].cred /\ next.door = caller[q].door
  BY <1>1 DEF Request
<1>3. caller' = [caller EXCEPT ![q] = next]
  BY <1>1 DEF Front!On
<1> QED BY <1>2, <1>3 DEF Becomes, CredentialsAreKept

LEMMA Refuses ==
  ASSUME Front!AdmittanceAssumption, TypeInv, NEW q \in Callers, NEW why \in Reasons,
         Front!Refuse(q, why)
  PROVE  \E next : Becomes(q, next)
<1> DEFINE next == [Front!Idle EXCEPT !.at = "refused", !.why = why,
                                !.cred = caller[q].cred]
<1>1. caller[q].cred \in Front!Credentials \cup {Front!Nobody}
  BY DEF TypeInv, Request
<1>2. next \in Request /\ next.at = "refused"
  BY <1>1, IdleIsARequest DEF Request, Stages
<1> QED BY <1>2 DEF Front!Refuse, Becomes

(* Every step of a request, but the refresh.                               *)
LEMMA RequestSteps ==
  ASSUME Front!AdmittanceAssumption, TypeInv, CredentialsAreKept, NEW q \in Callers,
         \/ \E cred \in Front!Credentials, endpoint, header \in Projects \cup {None},
               door \in Front!Doors : Front!Arrive(q, cred, endpoint, header, door)
         \/ Front!Handle(q) /\ ~Front!Refresh(q)
  PROVE  UNCHANGED <<Front!world, cache>> /\ \E next : Becomes(q, next)
<1>1. ASSUME NEW cred \in Front!Credentials, NEW endpoint \in Projects \cup {None},
             NEW header \in Projects \cup {None}, NEW door \in Front!Doors,
             Front!Arrive(q, cred, endpoint, header, door)
      PROVE  UNCHANGED <<Front!world, cache>> /\ \E next : Becomes(q, next)
  <2> DEFINE next == [Front!Idle EXCEPT !.at = "endpoint", !.cred = cred,
                                        !.endpoint = endpoint,
                                  !.header = header, !.door = door]
  <2>1. next \in Request /\ next.at = "endpoint" /\ next.cred = cred /\ next.door = door
    BY IdleIsARequest DEF Request, Stages
  <2> QED BY <1>1, <2>1 DEF Front!Arrive, Becomes
<1>2. ASSUME Front!Handle(q), ~Front!Refresh(q)
      PROVE  \E next : Becomes(q, next)
  <2>1. CASE Front!FindEndpoint(q)
    <3>1. caller[q].cred.method \in Stages \ {"fetched", "admitted"}
      BY <2>1 DEF Front!FindEndpoint, Front!At, CredentialsAreKept, Front!Credentials,
           Stages
    <3> QED BY <2>1, <3>1, MovesOn, Refuses DEF Front!FindEndpoint, Front!At, Reasons
  <2>2. CASE Front!LookUp(q)
    <3>1. CASE Front!On(q, "tenant")
      BY <2>2, <3>1, MovesOn DEF Front!LookUp, Front!At, Stages
    <3>2. CASE Front!Refuse(q, "invalid")
      BY <3>2, Refuses DEF Reasons
    <3>3. CASE caller' = [caller EXCEPT ![q].at = "fetch", ![q].left = Front!Timeout]
      <4> DEFINE next == [caller[q] EXCEPT !.at = "fetch", !.left = Front!Timeout]
      <4>1. /\ next \in Request /\ next.at = "fetch"
            /\ next.cred = caller[q].cred /\ next.door = caller[q].door
        <5>1. caller[q] \in Request
          BY DEF TypeInv
        <5>2. "fetch" \in Stages /\ Front!Timeout \in 0 .. Front!Timeout
          BY DEF Stages, Front!Timeout
        <5> QED BY <5>1, <5>2 DEF Request
      <4>2. caller' = [caller EXCEPT ![q] = next]
        BY <3>3 DEF TypeInv, Request
      <4>3. caller[q].cred \in Front!Credentials /\ caller[q].door \in Front!Doors
        BY <2>2 DEF Front!LookUp, Front!At, CredentialsAreKept
      <4> QED BY <4>1, <4>2, <4>3 DEF Becomes
    <3> QED BY <2>2, <3>1, <3>2, <3>3 DEF Front!LookUp
  <2>3. CASE Front!IssuerAnswers(q)
    <3> DEFINE next == [caller[q] EXCEPT !.at = "fetched", !.keys = issuer]
    <3>1. /\ next \in Request /\ next.at = "fetched" /\ next.keys = issuer
          /\ next.left \in 0 .. Front!Timeout
          /\ next.cred = caller[q].cred /\ next.door = caller[q].door
      <4>1. caller[q] \in Request /\ issuer \in SUBSET Kids
        BY DEF TypeInv
      <4>2. "fetched" \in Stages
        BY DEF Stages
      <4> QED BY <4>1, <4>2 DEF Request
    <3>2. caller' = [caller EXCEPT ![q] = next]
      <4>1. caller' = [caller EXCEPT ![q].at = "fetched", ![q].keys = issuer]
        BY <2>3 DEF Front!IssuerAnswers
      <4>2. caller \in [Callers -> Request]
        BY DEF TypeInv
      <4> QED BY <4>1, <4>2 DEF Request
    <3>3. caller[q].cred \in Front!Credentials /\ caller[q].door \in Front!Doors
      BY <2>3 DEF Front!IssuerAnswers, Front!At, CredentialsAreKept
    <3> HIDE DEF next
    <3> QED BY <3>1, <3>2, <3>3 DEF Becomes
  <2>4. CASE Front!FetchFails(q)
    BY <2>4, Refuses DEF Front!FetchFails, Reasons
  <2>5. CASE Front!FindTenant(q)
    BY <2>5, MovesOn, Refuses DEF Front!FindTenant, Front!At, Stages, Reasons
  <2>6. CASE Front!FindKey(q) \/ Front!TouchKey(q) \/ Front!FindSession(q)
    BY <2>6, MovesOn, Refuses DEF Front!FindKey, Front!TouchKey, Front!FindSession,
         Front!At, Stages, Reasons
  <2>7. CASE Front!Bind(q)
    <3>1. CASE Front!Refuse(q, "forbidden")
      BY <3>1, Refuses DEF Reasons
    <3>2. CASE ~Front!Refuse(q, "forbidden")
      <4> DEFINE next == [caller[q] EXCEPT !.at = "admitted"]
      <4>1. caller[q] \in Request /\ caller[q].at = "bind"
        BY <2>7 DEF TypeInv, Front!Bind, Front!At
      <4>2. caller[q].cred \in Front!Credentials /\ caller[q].door \in Front!Doors
        BY <4>1 DEF CredentialsAreKept
      <4>3. /\ next \in Request /\ next.at = "admitted" /\ next.cred = caller[q].cred
            /\ next.door = caller[q].door /\ next.header = caller[q].header
            /\ next.endpoint = caller[q].endpoint
        BY <4>1 DEF Request, Stages
      <4>4. caller' = [caller EXCEPT ![q] = next]
        BY <2>7, <3>2, <4>1 DEF Front!Bind, Front!On
      <4>5. /\ Front!Binds(caller[q].cred, caller[q].header)
            /\ caller[q].endpoint # None =>
                 /\ caller[q].cred.tenant = OwnerOf[caller[q].endpoint]
                 /\ Front!ProjectOf(caller[q].cred, caller[q].header) = caller[q].endpoint
            /\ Front!Enters(caller[q].cred, caller[q].door)
        BY <2>7, <3>2 DEF Front!Bind, Front!EndpointFits, Front!Project
      <4>6. caller[q].cred.method = "jwt" => caller[q].cred.project = None
        BY <4>2, MethodsDiffer
      <4>7. InScope(caller[q])
        BY <4>2, <4>5, <4>6, DoorsNeedRoles DEF InScope, Front!Binds, Front!ProjectOf
      <4>8. InScope(next)
        BY <4>3, <4>7 DEF InScope
      <4> HIDE DEF next
      <4> QED BY <4>2, <4>3, <4>4, <4>8 DEF Becomes
    <3> QED BY <3>1, <3>2
  <2>8. CASE Front!Leave(q)
    <3>1. Front!Idle \in Request /\ Front!Idle.at = "idle"
      BY IdleIsARequest DEF Front!Idle
    <3> QED BY <2>8, <3>1 DEF Front!Leave, Becomes
  <2> QED BY <1>2, <2>1, <2>2, <2>3, <2>4, <2>5, <2>6, <2>7, <2>8 DEF Front!Handle
<1>3. ASSUME Front!Handle(q), ~Front!Refresh(q)
      PROVE  UNCHANGED <<Front!world, cache>>
  BY <1>3 DEF Front!Handle, Front!FindEndpoint, Front!LookUp, Front!IssuerAnswers,
       Front!FetchFails, Front!FindTenant, Front!FindKey,
     Front!TouchKey, Front!FindSession, Front!Bind, Front!Leave
<1> QED BY <1>1, <1>2, <1>3

(* Refresh, which puts the answer in the cache.                            *)
LEMMA RefreshStep ==
  ASSUME Front!AdmittanceAssumption, TypeInv, CredentialsAreKept, NEW q \in Callers,
         Front!Refresh(q)
  PROVE  /\ UNCHANGED Front!world
         /\ cache' = [keys |-> caller[q].keys, left |-> CacheTtl]
         /\ \E next : Becomes(q, next) /\ next.at = "jwt"
<1> DEFINE next == [caller[q] EXCEPT !.at = "jwt", !.tried = TRUE, !.left = 0,
                               !.keys = {}]
<1>1. caller[q] \in Request /\ caller[q].at = "fetched"
  BY DEF TypeInv, Front!Refresh, Front!At
<1>2. 0 \in 0 .. Front!Timeout /\ "jwt" \in Stages
  BY DEF Front!Timeout, Stages
<1>3. /\ next \in Request /\ next.at = "jwt"
      /\ next.cred = caller[q].cred /\ next.door = caller[q].door
  BY <1>1, <1>2 DEF Request
<1>4. next.cred \in Front!Credentials /\ next.door \in Front!Doors
  BY <1>1, <1>3 DEF CredentialsAreKept
<1>5. caller' = [caller EXCEPT ![q] = next]
  BY <1>1 DEF Front!Refresh, TypeInv, Request
<1> HIDE DEF next
<1>6. Becomes(q, next)
  BY <1>3, <1>4, <1>5 DEF Becomes
<1> QED BY <1>3, <1>6 DEF Front!Refresh, Front!Refreshed

-----------------------------------------------------------------------------
(* What holds of the requests survives a step of one of them.              *)
LEMMA RequestsKeep ==
  ASSUME AdmittanceInv, NEW q \in Callers, NEW next, Becomes(q, next),
         UNCHANGED <<issuer, withdrawn>>
  PROVE  /\ caller' \in [Callers -> Request]
         /\ CredentialsAreKept' /\ AnswersAge' /\ Front!ScopeIsBound'
<1>1. /\ caller \in [Callers -> Request] /\ next \in Request
      /\ caller' = [caller EXCEPT ![q] = next]
  BY DEF AdmittanceInv, TypeInv, Becomes
<1>2. caller' \in [Callers -> Request]
  BY <1>1
<1>3. /\ caller'[q] = next
      /\ \A p \in Callers : p # q => caller'[p] = caller[p]
  BY <1>1
<1>4. CredentialsAreKept'
  BY <1>3 DEF CredentialsAreKept, Becomes, AdmittanceInv
<1>5. AnswersAge'
  BY <1>3 DEF AnswersAge, Front!At, Becomes, AdmittanceInv
<1>6. Front!ScopeIsBound'
  <2> SUFFICES ASSUME NEW p \in Callers, caller'[p].at = "admitted"
               PROVE  InScope(caller'[p])
    BY DEF Front!ScopeIsBound, InScope, Front!Project, Front!At
  <2>1. CASE p = q
    BY <2>1, <1>3 DEF Becomes
  <2>2. CASE p # q
    BY <2>2, <1>3 DEF AdmittanceInv, Front!ScopeIsBound, InScope, Front!Project,
         Front!At
  <2> QED BY <2>1, <2>2
<1> QED BY <1>2, <1>4, <1>5, <1>6

LEMMA CallersInit == Front!AdmittanceAssumption /\ Front!Init => AdmittanceInv
<1> SUFFICES ASSUME Front!AdmittanceAssumption, Front!Init PROVE AdmittanceInv
  OBVIOUS
<1>1. /\ Front!Forgotten \in Nat /\ 0 \in 0 .. Front!Forgotten
      /\ CacheTtl \in 0 .. CacheTtl
  BY DEF Front!Forgotten, Front!Timeout, Front!AdmittanceAssumption
<1>2. TypeInv
  BY <1>1, IdleIsARequest DEF Front!Init, TypeInv
<1>3. \A q \in Callers : caller[q].at = "idle"
  BY DEF Front!Init, Front!Idle
<1> QED BY <1>2, <1>3
     DEF AdmittanceInv, CredentialsAreKept, CacheAges, AnswersAge, Front!ScopeIsBound,
          Front!At, Front!Init

LEMMA TickKeeps ==
  ASSUME Front!AdmittanceAssumption, AdmittanceInv, Front!Tick
  PROVE  AdmittanceInv'
<1> USE DEF AdmittanceInv
<1>1. /\ CacheTtl \in Nat /\ Front!Forgotten = CacheTtl + 1 /\ Front!Timeout = 1
      /\ issuer' = issuer /\ caller \in [Callers -> Request]
      /\ withdrawn \in [Kids -> 0 .. Front!Forgotten] /\ cache.left \in 0 .. CacheTtl
  BY DEF Front!AdmittanceAssumption, Front!Forgotten, Front!Timeout, TypeInv, Front!Tick
<1>2. ASSUME NEW q \in Callers
      PROVE  /\ caller'[q] = IF Front!Fetching(q) THEN [caller[q] EXCEPT !.left = @ - 1]
                              ELSE caller[q]
             /\ caller[q] \in Request
             /\ Front!Fetching(q) => caller[q].left - 1 \in 0 .. Front!Timeout
             /\ caller'[q] \in Request
             /\ caller'[q].at = caller[q].at /\ caller'[q].cred = caller[q].cred
             /\ caller'[q].endpoint = caller[q].endpoint
             /\ caller'[q].header = caller[q].header /\ caller'[q].door = caller[q].door
             /\ caller'[q].keys = caller[q].keys
             /\ Front!Fetching(q) => caller'[q].left = caller[q].left - 1
  <2>1. caller'[q] = IF Front!Fetching(q)
                       THEN [caller[q] EXCEPT !.left = @ - 1] ELSE caller[q]
    BY DEF Front!Tick
  <2>2. caller[q] \in Request
    BY <1>1
  <2>3. Front!Fetching(q) => caller[q].left > 0 /\ caller[q].left \in 0 .. Front!Timeout
    BY <2>2 DEF Front!Tick, Request
  <2>4. Front!Fetching(q) => caller[q].left - 1 \in 0 .. Front!Timeout
    BY <2>3, <1>1
  <2> QED BY <2>1, <2>2, <2>4 DEF Request
<1>3. ASSUME NEW k \in Kids
      PROVE  /\ withdrawn'[k] \in 0 .. Front!Forgotten
             /\ withdrawn[k] < Front!Forgotten => withdrawn'[k] <= withdrawn[k] + 1
             /\ withdrawn'[k] <= withdrawn[k] + 1
  BY <1>1 DEF Front!Tick
<1>4. /\ cache' = [cache EXCEPT !.left = Front!Less(@)]
      /\ cache'.left = Front!Less(cache.left) /\ cache'.keys = cache.keys
      /\ Front!Less(cache.left) \in 0 .. CacheTtl
      /\ cache' \in [keys : SUBSET Kids, left : 0 .. CacheTtl]
  BY <1>1 DEF Front!Tick, Front!Less, TypeInv
<1>5. TypeInv'
  <2>1. caller' \in [Callers -> Request]
    <3>1. caller' = [q \in Callers |->
            IF Front!Fetching(q) THEN [caller[q] EXCEPT !.left = @ - 1] ELSE caller[q]]
      BY DEF Front!Tick
    <3> QED BY <3>1, <1>2
  <2>2. withdrawn' \in [Kids -> 0 .. Front!Forgotten]
    <3>1. withdrawn' = [k \in Kids |->
            IF k \in issuer \/ withdrawn[k] = Front!Forgotten
              THEN withdrawn[k] ELSE withdrawn[k] + 1]
      BY DEF Front!Tick
    <3> QED BY <3>1, <1>3
  <2> QED BY <2>1, <2>2, <1>1, <1>4 DEF TypeInv
<1>6. CredentialsAreKept'
  BY <1>2 DEF CredentialsAreKept
<1>7. CacheAges'
  BY <1>1, <1>3, <1>4 DEF CacheAges, Front!Cached, Front!Less
<1>8. AnswersAge'
  <2> SUFFICES ASSUME NEW q \in Callers, NEW k \in Kids, caller'[q].at = "fetched",
                      k \in caller'[q].keys, k \notin issuer
               PROVE  caller'[q].left + withdrawn'[k] <= Front!Timeout
    BY <1>1 DEF AnswersAge, Front!At
  <2>1. caller[q].at = "fetched" /\ k \in caller[q].keys
    BY <1>2
  <2>2. caller[q].left + withdrawn[k] <= Front!Timeout
    BY <2>1 DEF AnswersAge, Front!At
  <2>3. caller'[q].left = caller[q].left - 1
    BY <2>1, <1>2 DEF Front!Fetching, Front!At
  <2>4. caller[q].left \in 0 .. Front!Timeout
    BY <1>2 DEF Request
  <2>5. withdrawn[k] \in 0 .. Front!Forgotten /\ withdrawn'[k] \in 0 .. Front!Forgotten
    BY <1>1, <1>3
  <2> QED BY <2>2, <2>3, <2>4, <2>5, <1>1, <1>3
<1>9. Front!ScopeIsBound'
  <2> SUFFICES ASSUME NEW q \in Callers, caller'[q].at = "admitted"
               PROVE  InScope(caller'[q])
    BY DEF Front!ScopeIsBound, InScope, Front!Project, Front!At
  <2>1. /\ caller[q].at = "admitted"
        /\ caller'[q].cred = caller[q].cred /\ caller'[q].endpoint = caller[q].endpoint
        /\ caller'[q].header = caller[q].header /\ caller'[q].door = caller[q].door
    BY <1>2
  <2> QED BY <2>1 DEF Front!ScopeIsBound, InScope, Front!Project, Front!At
<1> QED BY <1>5, <1>6, <1>7, <1>8, <1>9

LEMMA OutsideKeeps ==
  ASSUME Front!AdmittanceAssumption, AdmittanceInv,
         Front!Outside \/ \E k \in Kids : Front!Withdraw(k) \/ Front!Publish(k)
  PROVE  AdmittanceInv'
<1> USE DEF AdmittanceInv
<1>1. UNCHANGED <<cache, caller>>
  BY DEF Front!Outside, Front!ChangeKey, Front!RetireProject, Front!DeleteTenant,
       Front!Withdraw, Front!Publish
<1>2. CredentialsAreKept' /\ Front!ScopeIsBound'
  BY <1>1 DEF CredentialsAreKept, Front!ScopeIsBound, Front!Project, Front!At
<1>3. CASE UNCHANGED <<issuer, withdrawn>>
  BY <1>1, <1>2, <1>3 DEF TypeInv, CacheAges, Front!Cached, AnswersAge, Front!At
<1>4. ASSUME NEW k \in Kids, Front!Withdraw(k) \/ Front!Publish(k)
      PROVE  TypeInv' /\ CacheAges' /\ AnswersAge'
  <2>1. /\ CacheTtl \in Nat /\ Front!Forgotten = CacheTtl + 1 /\ Front!Timeout = 1
        /\ withdrawn \in [Kids -> 0 .. Front!Forgotten] /\ cache.left \in 0 .. CacheTtl
        /\ \A q \in Callers : caller[q].left \in 0 .. Front!Timeout
    BY DEF Front!AdmittanceAssumption, Front!Forgotten, Front!Timeout, TypeInv, Request
  <2>2. TypeInv'
    BY <1>1, <1>4, <2>1 DEF TypeInv, Front!Withdraw, Front!Publish
  <2>3. \A j \in Kids : j \notin issuer' =>
          withdrawn'[j] = 0 \/ (j \notin issuer /\ withdrawn'[j] = withdrawn[j])
    BY <1>4, <2>1 DEF Front!Withdraw, Front!Publish
  <2>4. CacheAges'
    BY <1>1, <2>1, <2>3 DEF CacheAges, Front!Cached
  <2>5. AnswersAge'
    BY <1>1, <2>1, <2>3 DEF AnswersAge, Front!At
  <2> QED BY <2>2, <2>4, <2>5
<1>5. CASE Front!Outside
  BY <1>3, <1>5 DEF Front!Outside, Front!ChangeKey, Front!RetireProject,
       Front!DeleteTenant
<1> QED BY <1>2, <1>4, <1>5

LEMMA CallersNext ==
  ASSUME Front!AdmittanceAssumption, AdmittanceInv, [Front!Next]_(Front!vars)
  PROVE  AdmittanceInv'
<1> USE DEF AdmittanceInv
<1>1. ASSUME NEW q \in Callers,
             \/ \E cred \in Front!Credentials, endpoint, header \in Projects \cup {None},
                   door \in Front!Doors : Front!Arrive(q, cred, endpoint, header, door)
             \/ Front!Handle(q) /\ ~Front!Refresh(q)
      PROVE  AdmittanceInv'
  <2>1. UNCHANGED <<Front!world, cache>> /\ \E next : Becomes(q, next)
    BY <1>1, RequestSteps
  <2>2. PICK next : Becomes(q, next)
    BY <2>1
  <2>3. UNCHANGED <<issuer, withdrawn, cache>>
    BY <2>1 DEF Front!world
  <2>4. /\ caller' \in [Callers -> Request]
        /\ CredentialsAreKept' /\ AnswersAge' /\ Front!ScopeIsBound'
    BY <2>2, <2>3, RequestsKeep
  <2> QED BY <2>3, <2>4 DEF TypeInv, CacheAges, Front!Cached
<1>2. ASSUME NEW q \in Callers, Front!Refresh(q)
      PROVE  AdmittanceInv'
  <2>1. /\ UNCHANGED <<issuer, withdrawn>>
        /\ cache' = [keys |-> caller[q].keys, left |-> CacheTtl]
        /\ \E next : Becomes(q, next)
    BY <1>2, RefreshStep DEF Front!world
  <2>2. /\ caller' \in [Callers -> Request]
        /\ CredentialsAreKept' /\ AnswersAge' /\ Front!ScopeIsBound'
    BY <2>1, RequestsKeep
  <2>3. /\ CacheTtl \in Nat /\ Front!Forgotten = CacheTtl + 1 /\ Front!Timeout = 1
        /\ withdrawn \in [Kids -> 0 .. Front!Forgotten]
        /\ caller[q].left \in 0 .. Front!Timeout /\ caller[q].keys \subseteq Kids
    BY DEF Front!AdmittanceAssumption, Front!Forgotten, Front!Timeout, TypeInv, Request
  <2>4. TypeInv'
    BY <2>1, <2>2, <2>3 DEF TypeInv
  <2>5. ASSUME NEW k \in Kids, k \notin issuer, k \in caller[q].keys
        PROVE  CacheTtl + withdrawn[k] <= Front!Forgotten
    BY <1>2, <2>3, <2>5 DEF Front!Refresh, AnswersAge, Front!At
  <2>6. CacheAges'
    BY <2>1, <2>5 DEF CacheAges, Front!Cached
  <2> QED BY <2>2, <2>4, <2>6
<1>3. CASE Front!Rotation
  BY <1>3, TickKeeps, OutsideKeeps DEF Front!Rotation
<1>4. CASE Front!Outside
  BY <1>4, OutsideKeeps
<1>5. CASE UNCHANGED Front!vars
  BY <1>5 DEF Front!vars, Front!world, TypeInv, CredentialsAreKept, CacheAges,
       Front!Cached, AnswersAge,
     Front!ScopeIsBound, Front!Project, Front!At
<1> QED BY <1>1, <1>2, <1>3, <1>4, <1>5 DEF Front!Next

(* The invariant of the times and of the scope of the requests.            *)
THEOREM AdmittanceInvariant == Front!Spec => []AdmittanceInv
<1>1. Front!Init => AdmittanceInv
  BY CallersInit, FrontAssumption
<1>2. AdmittanceInv /\ [Front!Next]_(Front!vars) => AdmittanceInv'
  BY CallersNext, FrontAssumption
<1> QED BY <1>1, <1>2, PTL DEF Front!Spec

(* For any number of requests and any time to live of the cache: a signing *)
(* key that the issuer withdrew is not accepted once the time to live and  *)
(* one fetch have passed (JwtAuthenticator::refresh, gateway-auth lib.rs). *)
THEOREM RotatedKeyIsForgottenHolds == Front!Spec => []RotatedKeyIsForgotten
<1>1. AdmittanceInv => RotatedKeyIsForgotten
  <2> SUFFICES ASSUME AdmittanceInv, NEW k \in Kids, withdrawn[k] = Front!Forgotten,
                      k \notin issuer, Front!Cached(k)
               PROVE  FALSE
    BY DEF RotatedKeyIsForgotten, Front!RotatedKeyIsForgotten
  <2>1. cache.left \in 0 .. CacheTtl /\ cache.left > 0
        /\ Front!Forgotten = CacheTtl + 1 /\ CacheTtl \in Nat
    BY FrontAssumption
       DEF AdmittanceInv, TypeInv, Front!Cached, Front!Forgotten, Front!Timeout,
         Front!AdmittanceAssumption
  <2>2. cache.left + Front!Forgotten <= Front!Forgotten
    BY DEF AdmittanceInv, CacheAges
  <2> QED BY <2>1, <2>2
<1> QED BY <1>1, AdmittanceInvariant, PTL

(* For any tenants, projects, roles in tokens and administrators' role:    *)
(* whoever is admitted is of the endpoint's tenant, acts for the project   *)
(* of the endpoint, of the header and of its own credential, and has a     *)
(* role for what the handler does (authenticate, bind_project and the      *)
(* principals of gateway-server, lib.rs).                                  *)
THEOREM ScopeIsBoundHolds == Front!Spec => []ScopeIsBound
<1>1. AdmittanceInv => ScopeIsBound
  BY DEF AdmittanceInv, ScopeIsBound
<1> QED BY <1>1, AdmittanceInvariant, PTL

-----------------------------------------------------------------------------
(* The policy of an MCP call.                                              *)

(* No scope names the tool, so nothing has been said of it.                *)
Unnamed(t) ==
  \A p \in toolApplied : p.actions[t] = None /\ p.risks[t] = None

NothingIsInvented ==
  \A t \in Tools : Unnamed(t) =>
    toolPolicy.actions[t] = None /\ toolPolicy.risks[t] = None

LEMMA NothingIsInventedStep ==
  ASSUME NothingIsInvented, [Mcp!Next]_(Mcp!vars)
  PROVE  NothingIsInvented'
<1> SUFFICES ASSUME NEW t \in Tools, Unnamed(t)'
             PROVE  toolPolicy'.actions[t] = None /\ toolPolicy'.risks[t] = None
  BY DEF NothingIsInvented
<1>1. CASE Mcp!Apply
  <2> DEFINE c == Head(toolRest)
  <2>1. /\ toolPolicy' = Mcp!RestrictWith(toolPolicy, c)
        /\ toolApplied' = toolApplied \union {c}
    BY <1>1 DEF Mcp!Apply
  <2> HIDE DEF c
  <2>2. Unnamed(t) /\ c.actions[t] = None /\ c.risks[t] = None
    BY <2>1 DEF Unnamed
  <2>3. toolPolicy.actions[t] = None /\ toolPolicy.risks[t] = None
    BY <2>2 DEF NothingIsInvented
  <2> QED BY <2>1, <2>2, <2>3 DEF Mcp!RestrictWith, Mcp!Merge, Mcp!Stricter
<1>2. CASE Mcp!Resolve
  <2>1. toolApplied' = toolApplied
        /\ toolPolicy' \in {toolPolicy, Mcp!Adjust(toolPolicy)}
    BY <1>2 DEF Mcp!Resolve
  <2>2. toolPolicy.actions[t] = None /\ toolPolicy.risks[t] = None
    BY <2>1 DEF NothingIsInvented, Unnamed
  <2>3. None # "require_approval"
    BY ToolAssumption DEF Mcp!McpPolicyAssumption, Mcp!Actions
  <2>4. CASE toolPolicy' = toolPolicy
    BY <2>2, <2>4
  <2>5. CASE toolPolicy' = Mcp!Adjust(toolPolicy)
    <3>1. Mcp!BlockInstead(None) = None
      BY <2>3 DEF Mcp!BlockInstead
    <3> QED BY <2>2, <2>5, <3>1 DEF Mcp!Adjust
  <2> QED BY <2>1, <2>4, <2>5
<1>3. CASE UNCHANGED Mcp!vars
  BY <1>3 DEF Mcp!vars, Unnamed, NothingIsInvented
<1> QED BY <1>1, <1>2, <1>3 DEF Mcp!Next

(* For any tools, rows and plans: a tool of high or unknown risk that no   *)
(* scope names never runs without approval (invoke and action of           *)
(* gateway-mcp, resolved_policy of store-postgres, v03.rs).                *)
THEOREM SensitiveToolsNeedApprovalHolds ==
  Mcp!Spec => []SensitiveToolsNeedApproval
<1>1. Mcp!Init => NothingIsInvented
  BY DEF Mcp!Init, Mcp!Default, Mcp!Everywhere, NothingIsInvented
<1>2. NothingIsInvented /\ [Mcp!Next]_(Mcp!vars) => NothingIsInvented'
  BY NothingIsInventedStep
<1>3. NothingIsInvented => SensitiveToolsNeedApproval
  <2> SUFFICES ASSUME NothingIsInvented, NEW t \in Tools, NEW v \in Values,
                      RiskOf[t] \in {"unknown", "destructive", "privileged"},
                      Unnamed(t)
               PROVE  Mcp!Verdict(t, v) # "run"
    BY DEF SensitiveToolsNeedApproval, Mcp!SensitiveToolsNeedApproval, Unnamed
  <2>1. toolPolicy.actions[t] = None /\ toolPolicy.risks[t] = None
    BY DEF NothingIsInvented
  <2>2. Mcp!Risk(t) = RiskOf[t]
    BY <2>1 DEF Mcp!Risk
  <2>3. Mcp!Action(t) = "require_approval"
    BY <2>1, <2>2 DEF Mcp!Action
  <2> QED BY <2>3 DEF Mcp!Verdict
<1> QED BY <1>1, <1>2, <1>3, PTL DEF Mcp!Spec

-----------------------------------------------------------------------------
(* The counters in Redis.                                                  *)
(*                                                                         *)
(* A window cannot end before it is over, since its key lives at least as  *)
(* long (WindowsAgree).  A slot of one cannot be found free while its call *)
(* is active, since what is left to its key and the age of the call make   *)
(* up the time to live that the call brought (SlotsExclude), and a         *)
(* punctual call is younger than that (AgesBounded).                       *)

CounterTypes ==
  /\ now \in 0 .. WindowLength - 1
  /\ value \in [Counters -> Nat] /\ ttl \in [Counters -> Nat]
  /\ granted \in [Counters -> Nat] /\ lost \in [Counters -> Nat]
  /\ counted \in [Counters -> SUBSET Calls]
  /\ phase \in [Calls -> {"idle", "running", "ending"}]
  /\ age \in [Calls -> Nat]

(* A number of calls within the limit of one of the counter's callers.     *)
WithinSome(k, n) == \E c \in Calls : k \in Redis!KeysOf(c) /\ n <= Limit[c][k]

WindowsAgree ==
  \A k \in Windows :
    /\ granted[k] <= value[k]
    /\ value[k] > 0 => /\ ttl[k] + now >= WindowLength
                       /\ WithinSome(k, value[k])

AgesBounded ==
  \A c \in Calls :
    /\ phase[c] = "idle" => age[c] = 0
    /\ c \in Punctual /\ phase[c] = "running" => age[c] <= Deadline[c]
    /\ c \in Punctual /\ phase[c] = "ending" => age[c] < SlotTtl[c]

UsesActive(c, k) == k \in Redis!KeysOf(c) /\ phase[c] # "idle"

SlotsAgree ==
  \A k \in Redis!Slots :
    /\ value[k] <= Cardinality(counted[k]) + lost[k]
    /\ \A c \in counted[k] : UsesActive(c, k)

Excludes(k) ==
  /\ k \in Redis!Slots
  /\ \A c \in Calls : k \in Redis!KeysOf(c) => Limit[c][k] = 1 /\ c \in Punctual

SlotsExclude ==
  \A k \in Counters : Excludes(k) =>
    \A c \in Calls : UsesActive(c, k) =>
      /\ value[k] >= 1 /\ ttl[k] + age[c] >= SlotTtl[c]
      /\ \A d \in Calls : UsesActive(d, k) => d = c

CountersInv ==
  CounterTypes /\ WindowsAgree /\ AgesBounded /\ SlotsAgree /\ SlotsExclude

-----------------------------------------------------------------------------
(* FiniteSets, as Admission and as QuotaCounters extend it.                *)
LEMMA SameFiniteSets ==
  ASSUME NEW S
  PROVE  /\ Redis!IsFiniteSet(S) <=> IsFiniteSet(S)
         /\ Redis!Cardinality(S) = Cardinality(S)
<1>1. Redis!IsFiniteSet(S) <=> IsFiniteSet(S)
  BY Zenon DEF Redis!IsFiniteSet, IsFiniteSet
<1>2. Redis!Cardinality(S) = Cardinality(S)
  BY Zenon DEF Redis!Cardinality, Cardinality
<1> QED BY <1>1, <1>2

(* What the constants are.                                                 *)
LEMMA CounterConstants ==
  /\ IsFiniteSet(Calls) /\ Windows \subseteq Counters
  /\ Limit \in [Calls -> [Counters -> Nat]] /\ Uses \in [Calls -> Seq(Counters)]
  /\ WindowLength \in Nat \ {0} /\ WindowTtl \in Nat
  /\ WindowTtl >= WindowLength
  /\ Deadline \in [Calls -> Nat] /\ SlotTtl \in [Calls -> Nat]
  /\ \A c \in Calls : Deadline[c] < SlotTtl[c]
BY CounterAssumption, SameFiniteSets DEF Redis!CountersAssumption

(* A script that refuses nothing reaches all its counters.                 *)
LEMMA GrantTouchesAll ==
  ASSUME NEW c \in Calls, ~Redis!Refused(c)
  PROVE  Redis!KeysOf(c) \subseteq Redis!Touched(c)
<1> SUFFICES ASSUME NEW i \in DOMAIN Uses[c]
             PROVE  Uses[c][i] \in Redis!Touched(c)
  BY DEF Redis!KeysOf
<1>1. Uses[c] \in Seq(Counters) /\ DOMAIN Uses[c] = 1 .. Len(Uses[c])
  BY CounterConstants
<1>2. \A h \in 1 .. i - 1 : h \in DOMAIN Uses[c]
  BY <1>1
<1>3. \A h \in 1 .. i - 1 : Uses[c][h] \in Redis!KeysOf(c)
  BY <1>2 DEF Redis!KeysOf
<1>4. \A h \in 1 .. i - 1 : ~Redis!Over(c, Uses[c][h])
  BY <1>3 DEF Redis!Refused
<1> QED BY <1>4 DEF Redis!Touched

(* What a script does to one counter: it counts the call, or it does not.  *)
NotCounted(c, k) ==
  /\ value'[k] = value[k] /\ granted'[k] = granted[k]
  /\ counted'[k] = counted[k] /\ lost'[k] = lost[k]
  /\ k \notin Redis!KeysOf(c) \/ phase' = phase
  /\ value[k] > 0 => ttl'[k] = ttl[k]
  /\ ttl'[k] \in Nat

IsCounted(c, heard, k) ==
  /\ k \in Redis!KeysOf(c)
  /\ value'[k] = value[k] + 1 /\ value[k] + 1 <= Limit[c][k]
  /\ ttl'[k] = IF value[k] = 0 THEN Redis!Ttl(c, k) ELSE ttl[k]
  /\ granted'[k] = IF k \in Windows THEN granted[k] + 1 ELSE granted[k]
  /\ counted'[k] = IF k \notin Windows /\ heard
                   THEN counted[k] \union {c} ELSE counted[k]
  /\ lost'[k] = IF k \notin Windows /\ ~heard THEN lost[k] + 1 ELSE lost[k]

LEMMA ScriptOfOne ==
  ASSUME CounterTypes, NEW c \in Calls, NEW heard \in BOOLEAN,
         Redis!Reserve(c, heard), NEW k \in Counters
  PROVE  /\ now' = now /\ age' = age /\ phase[c] = "idle"
         /\ NotCounted(c, k) \/ IsCounted(c, heard, k)
         /\ phase' \in {phase, [phase EXCEPT ![c] = "running"]}
         /\ ~heard => phase' = phase
<1>1. /\ now' = now /\ age' = age /\ phase[c] = "idle"
      /\ phase' \in {phase, [phase EXCEPT ![c] = "running"]}
      /\ ~heard => phase' = phase
      /\ Redis!Refused(c) => phase' = phase
  BY DEF Redis!Reserve
<1>2. /\ value'[k] = Redis!AfterScript(c)[k]
      /\ ttl'[k] = Redis!TtlAfterScript(c)[k]
  BY DEF Redis!Reserve
<1>3. Redis!Ttl(c, k) \in Nat
  BY CounterConstants DEF Redis!Ttl
<1>4. CASE k \in Redis!KeysOf(c) /\ ~Redis!Refused(c)
  <2>1. value'[k] = value[k] + 1 /\ ~Redis!Over(c, k)
    BY <1>2, <1>4 DEF Redis!AfterScript, Redis!Refused
  <2>2. value[k] + 1 <= Limit[c][k]
    BY <2>1, CounterConstants DEF Redis!Over, CounterTypes
  <2>3. ttl'[k] = IF value[k] = 0 THEN Redis!Ttl(c, k) ELSE ttl[k]
    BY <1>2, <1>4, GrantTouchesAll DEF Redis!TtlAfterScript
  <2>4. /\ granted'[k] = IF k \in Windows THEN granted[k] + 1 ELSE granted[k]
        /\ counted'[k] = IF k \notin Windows /\ heard
                         THEN counted[k] \union {c} ELSE counted[k]
        /\ lost'[k] = IF k \notin Windows /\ ~heard
                      THEN lost[k] + 1 ELSE lost[k]
    BY <1>4 DEF Redis!Reserve, Redis!Slots
  <2> QED BY <1>1, <1>4, <2>1, <2>2, <2>3, <2>4 DEF IsCounted
<1>5. CASE k \notin Redis!KeysOf(c) \/ Redis!Refused(c)
  <2>1. value'[k] = value[k]
    BY <1>2, <1>5 DEF Redis!AfterScript
  <2>2. /\ granted'[k] = granted[k] /\ counted'[k] = counted[k]
        /\ lost'[k] = lost[k]
    BY <1>5 DEF Redis!Reserve
  <2>3. (value[k] > 0 => ttl'[k] = ttl[k]) /\ ttl'[k] \in Nat
    BY <1>2, <1>3 DEF Redis!TtlAfterScript, CounterTypes
  <2> QED BY <1>1, <1>5, <2>1, <2>2, <2>3 DEF NotCounted
<1> QED BY <1>4, <1>5

(* A step of the clock, as one counter sees it.                            *)
LEMMA ClockMoves ==
  ASSUME CounterTypes, Redis!Tick
  PROVE  now' = IF now = WindowLength - 1 THEN 0 ELSE now + 1
<1>1. WindowLength \in Nat \ {0} /\ now \in 0 .. WindowLength - 1
  BY CounterConstants DEF CounterTypes
<1>2. now' = (now + 1) % WindowLength
  BY DEF Redis!Tick
<1> QED BY <1>1, <1>2

(* What the clock does to one counter and to one call.                     *)
LEMMA ClockOfOne ==
  ASSUME CounterTypes, Redis!Tick, NEW k \in Counters
  PROVE  \/ /\ Redis!Expires(k)
            /\ value'[k] = 0 /\ ttl'[k] = 0
            /\ counted'[k] = {} /\ lost'[k] = 0
         \/ /\ ~Redis!Expires(k)
            /\ value'[k] = value[k] /\ counted'[k] = counted[k]
            /\ lost'[k] = lost[k]
            /\ ttl'[k] = IF ttl[k] = 0 THEN 0 ELSE ttl[k] - 1
BY DEF Redis!Tick, CounterTypes

(* What ends a call: Release and Lose.                                     *)
LEMMA EndOfOne ==
  ASSUME CounterTypes, NEW c \in Calls, Redis!Release(c) \/ Redis!Lose(c),
         NEW k \in Counters
  PROVE  /\ now' = now /\ ttl' = ttl /\ granted' = granted
         /\ phase' = [phase EXCEPT ![c] = "idle"]
         /\ age' = [age EXCEPT ![c] = 0]
         /\ counted'[k] = counted[k] \ {c}
         /\ value'[k] \in Nat /\ value'[k] <= value[k] /\ lost'[k] \in Nat
         /\ k \in Windows \/ k \notin Redis!KeysOf(c) => value'[k] = value[k]
         /\ c \notin counted[k] => lost'[k] = lost[k]
         /\ c \in counted[k] /\ k \in Redis!KeysOf(c) \ Windows =>
              \/ value'[k] + 1 <= value[k] /\ lost'[k] = lost[k]
              \/ value'[k] = 0 /\ lost'[k] = lost[k]
              \/ value'[k] = value[k] /\ lost'[k] = lost[k] + 1
<1>1. CASE Redis!Release(c)
  <2>1. value'[k] = IF k \in Redis!KeysOf(c) \ Windows /\ value[k] > 0
                    THEN value[k] - 1 ELSE value[k]
    <3>1. k \in Redis!KeysOf(c) \intersect Redis!Slots
            <=> k \in Redis!KeysOf(c) \ Windows
      BY DEF Redis!Slots
    <3> QED BY <1>1, <3>1 DEF Redis!Release, Redis!AfterRelease
  <2>2. value[k] \in Nat /\ lost[k] \in Nat
    BY DEF CounterTypes
  <2> QED BY <1>1, <2>1, <2>2 DEF Redis!Release
<1>2. CASE Redis!Lose(c)
  BY <1>2 DEF Redis!Lose, Redis!redis, CounterTypes
<1> QED BY <1>1, <1>2

-----------------------------------------------------------------------------
LEMMA CounterTypesStep ==
  ASSUME CounterTypes, [Redis!Next]_(Redis!vars)
  PROVE  CounterTypes'
<1>1. ASSUME NEW c \in Calls, NEW heard \in BOOLEAN, Redis!Reserve(c, heard)
      PROVE  CounterTypes'
  <2>1. phase' \in [Calls -> {"idle", "running", "ending"}] /\ age' = age
        /\ now' = now
    BY <1>1 DEF Redis!Reserve, CounterTypes
  <2>2. \A k \in Counters :
          /\ value'[k] \in Nat /\ ttl'[k] \in Nat
          /\ granted'[k] \in Nat /\ lost'[k] \in Nat
          /\ counted'[k] \in SUBSET Calls
    <3> SUFFICES ASSUME NEW k \in Counters
                 PROVE  /\ value'[k] \in Nat /\ ttl'[k] \in Nat
                        /\ granted'[k] \in Nat /\ lost'[k] \in Nat
                        /\ counted'[k] \in SUBSET Calls
      OBVIOUS
    <3>1. Redis!Ttl(c, k) \in Nat
      BY CounterConstants DEF Redis!Ttl
    <3>2. /\ value[k] \in Nat /\ ttl[k] \in Nat /\ granted[k] \in Nat
          /\ lost[k] \in Nat /\ counted[k] \in SUBSET Calls
      BY DEF CounterTypes
    <3>3. CASE NotCounted(c, k)
      BY <3>2, <3>3 DEF NotCounted
    <3>4. CASE IsCounted(c, heard, k)
      BY <3>1, <3>2, <3>4 DEF IsCounted
    <3> QED BY <1>1, <3>3, <3>4, ScriptOfOne
  <2>3. /\ value' = [k \in Counters |-> value'[k]]
        /\ ttl' = [k \in Counters |-> ttl'[k]]
        /\ granted' = [k \in Counters |-> granted'[k]]
        /\ lost' = [k \in Counters |-> lost'[k]]
        /\ counted' = [k \in Counters |-> counted'[k]]
    BY <1>1 DEF Redis!Reserve, Redis!AfterScript, Redis!TtlAfterScript
  <2> QED BY <2>1, <2>2, <2>3 DEF CounterTypes
<1>2. ASSUME NEW c \in Calls, Redis!Finish(c)
      PROVE  CounterTypes'
  BY <1>2 DEF Redis!Finish, Redis!redis, Redis!history, CounterTypes
<1>3. ASSUME NEW c \in Calls, Redis!Release(c) \/ Redis!Lose(c)
      PROVE  CounterTypes'
  <2>1. /\ now' = now /\ ttl' = ttl /\ granted' = granted
        /\ phase' = [phase EXCEPT ![c] = "idle"]
        /\ age' = [age EXCEPT ![c] = 0]
    BY <1>3 DEF Redis!Release, Redis!Lose, Redis!redis
  <2>2. \A k \in Counters : value'[k] \in Nat /\ lost'[k] \in Nat
                              /\ counted'[k] \in SUBSET Calls
    <3> SUFFICES ASSUME NEW k \in Counters
                 PROVE  value'[k] \in Nat /\ lost'[k] \in Nat
                        /\ counted'[k] \in SUBSET Calls
      OBVIOUS
    <3> QED BY <1>3, EndOfOne DEF CounterTypes
  <2>3. value' = [k \in Counters |-> value'[k]]
    BY <1>3 DEF Redis!Release, Redis!Lose, Redis!AfterRelease, Redis!redis,
       CounterTypes
  <2>4. lost' = [k \in Counters |-> lost'[k]]
    BY <1>3 DEF Redis!Release, Redis!Lose, CounterTypes
  <2>5. counted' = [k \in Counters |-> counted'[k]]
    BY <1>3 DEF Redis!Release, Redis!Lose
  <2> QED BY <2>1, <2>2, <2>3, <2>4, <2>5 DEF CounterTypes
<1>4. CASE Redis!Tick
  <2>1. now' \in 0 .. WindowLength - 1
    BY <1>4, ClockMoves, CounterConstants DEF CounterTypes
  <2>2. /\ value' \in [Counters -> Nat] /\ ttl' \in [Counters -> Nat]
        /\ granted' \in [Counters -> Nat] /\ lost' \in [Counters -> Nat]
        /\ counted' \in [Counters -> SUBSET Calls]
        /\ age' \in [Calls -> Nat]
        /\ phase' = phase
    BY <1>4 DEF Redis!Tick, CounterTypes
  <2> QED BY <2>1, <2>2 DEF CounterTypes
<1>5. CASE UNCHANGED Redis!vars
  BY <1>5 DEF Redis!vars, Redis!redis, Redis!history, CounterTypes
<1> QED BY <1>1, <1>2, <1>3, <1>4, <1>5 DEF Redis!Next

LEMMA WindowsStep ==
  ASSUME CounterTypes, WindowsAgree, [Redis!Next]_(Redis!vars)
  PROVE  WindowsAgree'
<1> SUFFICES ASSUME NEW k \in Windows
             PROVE  /\ granted'[k] <= value'[k]
                    /\ value'[k] > 0 => /\ ttl'[k] + now' >= WindowLength
                                        /\ WithinSome(k, value'[k])
  BY DEF WindowsAgree
<1>1. /\ k \in Counters
      /\ granted[k] \in Nat /\ value[k] \in Nat /\ ttl[k] \in Nat
      /\ now \in 0 .. WindowLength - 1
      /\ granted[k] <= value[k]
      /\ value[k] > 0 => ttl[k] + now >= WindowLength /\ WithinSome(k, value[k])
      /\ WindowLength \in Nat /\ WindowTtl \in Nat /\ WindowTtl >= WindowLength
  BY CounterConstants DEF CounterTypes, WindowsAgree
<1>2. ASSUME NEW c \in Calls, NEW heard \in BOOLEAN, Redis!Reserve(c, heard)
      PROVE  /\ granted'[k] <= value'[k]
             /\ value'[k] > 0 => /\ ttl'[k] + now' >= WindowLength
                                 /\ WithinSome(k, value'[k])
  <2>1. Redis!Ttl(c, k) = WindowTtl
    BY DEF Redis!Ttl
  <2>2. now' = now
    BY <1>2 DEF Redis!Reserve
  <2>3. CASE NotCounted(c, k)
    BY <1>1, <2>2, <2>3 DEF NotCounted
  <2>4. CASE IsCounted(c, heard, k)
    <3>1. WithinSome(k, value'[k])
      BY <2>4 DEF IsCounted, WithinSome
    <3> QED BY <1>1, <2>1, <2>2, <2>4, <3>1 DEF IsCounted
  <2> QED BY <1>1, <1>2, <2>3, <2>4, ScriptOfOne
<1>3. ASSUME NEW c \in Calls, Redis!Finish(c)
      PROVE  /\ granted'[k] <= value'[k]
             /\ value'[k] > 0 => /\ ttl'[k] + now' >= WindowLength
                                 /\ WithinSome(k, value'[k])
  BY <1>1, <1>3 DEF Redis!Finish, Redis!redis, Redis!history
<1>4. ASSUME NEW c \in Calls, Redis!Release(c) \/ Redis!Lose(c)
      PROVE  /\ granted'[k] <= value'[k]
             /\ value'[k] > 0 => /\ ttl'[k] + now' >= WindowLength
                                 /\ WithinSome(k, value'[k])
  BY <1>1, <1>4, EndOfOne
<1>5. CASE Redis!Tick
  <2>1. granted'[k] = IF now = WindowLength - 1 THEN 0 ELSE granted[k]
    BY <1>1, <1>5 DEF Redis!Tick
  <2>2. Redis!Expires(k) <=> ttl[k] = 1 \/ now = WindowLength - 1
    BY DEF Redis!Expires
  <2>3. now' = IF now = WindowLength - 1 THEN 0 ELSE now + 1
    BY <1>5, ClockMoves
  <2> QED BY <1>1, <1>5, <2>1, <2>2, <2>3, ClockOfOne
<1>6. CASE UNCHANGED Redis!vars
  BY <1>1, <1>6 DEF Redis!vars, Redis!redis, Redis!history
<1> QED BY <1>2, <1>3, <1>4, <1>5, <1>6 DEF Redis!Next

LEMMA AgesStep ==
  ASSUME CounterTypes, AgesBounded, [Redis!Next]_(Redis!vars)
  PROVE  AgesBounded'
<1>1. /\ Deadline \in [Calls -> Nat] /\ SlotTtl \in [Calls -> Nat]
      /\ \A c \in Calls : Deadline[c] < SlotTtl[c]
  BY CounterConstants
<1>2. ASSUME NEW c \in Calls,
             \/ \E heard \in BOOLEAN : Redis!Reserve(c, heard)
             \/ Redis!Finish(c) \/ Redis!Release(c) \/ Redis!Lose(c)
      PROVE  AgesBounded'
  <2>1. CASE \E heard \in BOOLEAN : Redis!Reserve(c, heard)
    <3>1. /\ phase[c] = "idle" /\ age' = age
          /\ phase' \in {phase, [phase EXCEPT ![c] = "running"]}
      BY <2>1 DEF Redis!Reserve
    <3> QED BY <1>1, <3>1 DEF AgesBounded, CounterTypes
  <2>2. CASE Redis!Finish(c)
    BY <1>1, <2>2 DEF Redis!Finish, AgesBounded, CounterTypes
  <2>3. CASE Redis!Release(c) \/ Redis!Lose(c)
    BY <1>1, <2>3 DEF Redis!Release, Redis!Lose, AgesBounded, CounterTypes
  <2> QED BY <1>2, <2>1, <2>2, <2>3
<1>3. CASE Redis!Tick
  <2> SUFFICES ASSUME NEW c \in Calls
               PROVE  /\ phase'[c] = "idle" => age'[c] = 0
                      /\ c \in Punctual /\ phase'[c] = "running"
                           => age'[c] <= Deadline[c]
                      /\ c \in Punctual /\ phase'[c] = "ending"
                           => age'[c] < SlotTtl[c]
    BY DEF AgesBounded
  <2>1. /\ phase' = phase /\ age[c] < Redis!AgeLimit(c)
        /\ age'[c] = IF phase[c] = "idle" THEN 0 ELSE age[c] + 1
        /\ age[c] \in Nat /\ phase[c] \in {"idle", "running", "ending"}
    BY <1>3 DEF Redis!Tick, CounterTypes
  <2>2. phase[c] = "running" => Redis!AgeLimit(c) = Deadline[c]
    BY DEF Redis!AgeLimit
  <2>3. phase[c] = "ending" /\ c \in Punctual => Redis!AgeLimit(c) = SlotTtl[c] - 1
    BY DEF Redis!AgeLimit
  <2> QED BY <1>1, <2>1, <2>2, <2>3
<1>4. CASE UNCHANGED Redis!vars
  BY <1>4 DEF Redis!vars, AgesBounded
<1> QED BY <1>2, <1>3, <1>4 DEF Redis!Next

LEMMA SlotsAgreeStep ==
  ASSUME CounterTypes, SlotsAgree, [Redis!Next]_(Redis!vars)
  PROVE  SlotsAgree'
<1> SUFFICES ASSUME NEW k \in Redis!Slots
             PROVE  /\ value'[k] <= Cardinality(counted'[k]) + lost'[k]
                    /\ \A d \in counted'[k] :
                         k \in Redis!KeysOf(d) /\ phase'[d] # "idle"
  BY DEF SlotsAgree, UsesActive, Redis!KeysOf
<1>1. /\ k \in Counters /\ k \notin Windows
      /\ value[k] \in Nat /\ lost[k] \in Nat /\ counted[k] \subseteq Calls
      /\ value[k] <= Cardinality(counted[k]) + lost[k]
      /\ \A d \in counted[k] : k \in Redis!KeysOf(d) /\ phase[d] # "idle"
      /\ phase \in [Calls -> {"idle", "running", "ending"}]
  BY DEF CounterTypes, SlotsAgree, UsesActive, Redis!Slots
<1>2. IsFiniteSet(counted[k]) /\ Cardinality(counted[k]) \in Nat
  BY <1>1, CounterConstants, FS_Subset, FS_CardinalityType
<1>3. ASSUME NEW c \in Calls, NEW heard \in BOOLEAN, Redis!Reserve(c, heard)
      PROVE  /\ value'[k] <= Cardinality(counted'[k]) + lost'[k]
             /\ \A d \in counted'[k] :
                  k \in Redis!KeysOf(d) /\ phase'[d] # "idle"
  <2>1. phase[c] = "idle" /\ c \notin counted[k]
    BY <1>1, <1>3 DEF Redis!Reserve
  <2>2. phase' \in {phase, [phase EXCEPT ![c] = "running"]}
    BY <1>3 DEF Redis!Reserve
  <2>3. \A d \in counted[k] : phase'[d] # "idle"
    BY <1>1, <2>1, <2>2
  <2>4. CASE NotCounted(c, k)
    BY <1>1, <2>3, <2>4 DEF NotCounted
  <2>5. CASE IsCounted(c, heard, k) /\ heard
    <3>1. /\ counted'[k] = counted[k] \union {c} /\ lost'[k] = lost[k]
          /\ value'[k] = value[k] + 1 /\ k \in Redis!KeysOf(c)
      BY <1>1, <2>5 DEF IsCounted
    <3>2. Cardinality(counted[k] \union {c}) = Cardinality(counted[k]) + 1
      BY <1>2, <2>1, FS_AddElement
    <3>3. ~Redis!Refused(c)
      <4>1. ASSUME Redis!Refused(c) PROVE value'[k] = value[k]
        BY <1>1, <1>3, <4>1 DEF Redis!Reserve, Redis!AfterScript
      <4> QED BY <1>1, <3>1, <4>1
    <3>4. phase'[c] = "running"
      BY <1>1, <1>3, <2>5, <3>3 DEF Redis!Reserve
    <3> QED BY <1>1, <1>2, <2>3, <3>1, <3>2, <3>4
  <2>6. CASE IsCounted(c, heard, k) /\ ~heard
    BY <1>1, <1>2, <2>3, <2>6 DEF IsCounted
  <2> QED BY <1>1, <1>3, <2>4, <2>5, <2>6, ScriptOfOne
<1>4. ASSUME NEW c \in Calls, Redis!Finish(c)
      PROVE  /\ value'[k] <= Cardinality(counted'[k]) + lost'[k]
             /\ \A d \in counted'[k] :
                  k \in Redis!KeysOf(d) /\ phase'[d] # "idle"
  BY <1>1, <1>4 DEF Redis!Finish, Redis!redis, Redis!history
<1>5. ASSUME NEW c \in Calls, Redis!Release(c) \/ Redis!Lose(c)
      PROVE  /\ value'[k] <= Cardinality(counted'[k]) + lost'[k]
             /\ \A d \in counted'[k] :
                  k \in Redis!KeysOf(d) /\ phase'[d] # "idle"
  <2>1. /\ counted'[k] = counted[k] \ {c}
        /\ phase' = [phase EXCEPT ![c] = "idle"]
        /\ value'[k] \in Nat /\ value'[k] <= value[k] /\ lost'[k] \in Nat
        /\ c \notin counted[k] => lost'[k] = lost[k]
    BY <1>1, <1>5, EndOfOne
  <2>2. \A d \in counted'[k] : k \in Redis!KeysOf(d) /\ phase'[d] # "idle"
    BY <1>1, <2>1
  <2>3. CASE c \notin counted[k]
    <3>1. counted'[k] = counted[k]
      BY <2>1, <2>3
    <3>2. Cardinality(counted'[k]) = Cardinality(counted[k])
      BY <3>1
    <3>3. value'[k] <= Cardinality(counted'[k]) + lost'[k]
      BY <1>1, <1>2, <2>1, <2>3, <3>2
    <3> QED BY <2>2, <3>3
  <2>4. CASE c \in counted[k]
    <3>1. Cardinality(counted[k] \ {c}) = Cardinality(counted[k]) - 1
      BY <1>2, <2>4, FS_RemoveElement
    <3>2. \/ value'[k] + 1 <= value[k] /\ lost'[k] = lost[k]
          \/ value'[k] = 0 /\ lost'[k] = lost[k]
          \/ value'[k] = value[k] /\ lost'[k] = lost[k] + 1
      BY <1>1, <1>5, <2>4, EndOfOne
    <3>3. Cardinality(counted'[k]) \in Nat
      BY <1>2, <2>1, FS_Subset, FS_CardinalityType
    <3>4. Cardinality(counted'[k]) = Cardinality(counted[k]) - 1
      BY <2>1, <3>1
    <3>5. value'[k] <= Cardinality(counted'[k]) + lost'[k]
      BY <1>1, <1>2, <2>1, <3>2, <3>3, <3>4
    <3> QED BY <2>2, <3>5
  <2> QED BY <2>3, <2>4
<1>6. CASE Redis!Tick
  <2>1. phase' = phase
    BY <1>6 DEF Redis!Tick
  <2>2. CASE Redis!Expires(k)
    <3>1. value'[k] = 0 /\ counted'[k] = {} /\ lost'[k] = 0
      BY <1>1, <1>6, <2>2, ClockOfOne
    <3>2. Cardinality(counted'[k]) = 0
      BY <3>1, FS_EmptySet
    <3> QED BY <3>1, <3>2
  <2>3. CASE ~Redis!Expires(k)
    <3>1. /\ value'[k] = value[k] /\ counted'[k] = counted[k]
          /\ lost'[k] = lost[k]
      BY <1>1, <1>6, <2>3, ClockOfOne
    <3>2. Cardinality(counted'[k]) = Cardinality(counted[k])
      BY <3>1
    <3> QED BY <1>1, <2>1, <3>1, <3>2
  <2> QED BY <2>2, <2>3
<1>7. CASE UNCHANGED Redis!vars
  BY <1>1, <1>7 DEF Redis!vars, Redis!redis, Redis!history
<1> QED BY <1>3, <1>4, <1>5, <1>6, <1>7 DEF Redis!Next

(* A free slot of one has no active call, so that the one it is given to   *)
(* is alone.                                                               *)
LEMMA SlotsExcludeStep ==
  ASSUME CounterTypes, AgesBounded, SlotsExclude, [Redis!Next]_(Redis!vars)
  PROVE  SlotsExclude'
<1> DEFINE Holds(c, k) ==
             /\ value[k] >= 1 /\ ttl[k] + age[c] >= SlotTtl[c]
             /\ \A d \in Calls : UsesActive(d, k) => d = c
<1> SUFFICES ASSUME NEW k \in Counters, Excludes(k),
                    NEW c \in Calls, UsesActive(c, k)'
             PROVE  Holds(c, k)'
  BY DEF SlotsExclude, Excludes, Redis!KeysOf, Redis!Slots
<1>1. /\ k \notin Windows
      /\ \A d \in Calls : k \in Redis!KeysOf(d) => Limit[d][k] = 1 /\ d \in Punctual
      /\ value[k] \in Nat /\ ttl[k] \in Nat
      /\ \A d \in Calls : Redis!Ttl(d, k) = SlotTtl[d]
      /\ \A d \in Calls : age[d] \in Nat
      /\ phase \in [Calls -> {"idle", "running", "ending"}]
  BY DEF CounterTypes, Excludes, Redis!Slots, Redis!Ttl
<1>2. k \in Redis!KeysOf(c) /\ phase'[c] # "idle"
  BY DEF UsesActive, Redis!KeysOf
<1>3. \A d \in Calls : UsesActive(d, k) => Holds(d, k)
  BY DEF SlotsExclude
<1>4. /\ Deadline \in [Calls -> Nat] /\ SlotTtl \in [Calls -> Nat]
      /\ \A d \in Calls : Deadline[d] < SlotTtl[d]
  BY CounterConstants
<1>5. ASSUME NEW e \in Calls, NEW heard \in BOOLEAN, Redis!Reserve(e, heard)
      PROVE  Holds(c, k)'
  <2>1. /\ age' = age /\ phase[e] = "idle"
        /\ phase' \in {phase, [phase EXCEPT ![e] = "running"]}
    BY <1>5 DEF Redis!Reserve
  <2>2. CASE NotCounted(e, k)
    <3>1. \A d \in Calls : UsesActive(d, k)' <=> UsesActive(d, k)
      BY <1>1, <2>1, <2>2 DEF NotCounted, UsesActive, Redis!KeysOf
    <3> QED BY <1>1, <1>3, <2>1, <2>2, <3>1 DEF NotCounted
  <2>3. CASE IsCounted(e, heard, k)
    <3>1. value[k] = 0 /\ value'[k] = 1 /\ ttl'[k] = SlotTtl[e]
      BY <1>1, <2>3 DEF IsCounted
    <3>2. \A d \in Calls : ~UsesActive(d, k)
      BY <1>3, <3>1
    <3>3. \A d \in Calls : UsesActive(d, k)' => d = e
      BY <1>1, <2>1, <3>2 DEF UsesActive, Redis!KeysOf
    <3>4. age'[c] \in Nat
      BY <1>1, <2>1
    <3>5. c = e
      BY <3>3
    <3> QED BY <1>4, <3>1, <3>3, <3>4, <3>5
  <2> QED BY <1>5, <2>2, <2>3, ScriptOfOne
<1>6. ASSUME NEW e \in Calls, Redis!Finish(e)
      PROVE  Holds(c, k)'
  <2>1. value' = value /\ ttl' = ttl /\ age' = age
        /\ phase' = [phase EXCEPT ![e] = "ending"] /\ phase[e] = "running"
    BY <1>6 DEF Redis!Finish, Redis!redis
  <2>2. \A d \in Calls : UsesActive(d, k)' <=> UsesActive(d, k)
    BY <1>1, <2>1 DEF UsesActive, Redis!KeysOf
  <2> QED BY <1>3, <2>1, <2>2
<1>7. ASSUME NEW e \in Calls, Redis!Release(e) \/ Redis!Lose(e)
      PROVE  Holds(c, k)'
  <2>1. /\ ttl' = ttl /\ phase' = [phase EXCEPT ![e] = "idle"]
        /\ age' = [age EXCEPT ![e] = 0]
        /\ k \notin Redis!KeysOf(e) => value'[k] = value[k]
        /\ phase[e] # "idle"
    BY <1>7, EndOfOne DEF Redis!Release, Redis!Lose
  <2>2. \A d \in Calls : UsesActive(d, k)' => UsesActive(d, k) /\ d # e
    BY <1>1, <2>1 DEF UsesActive, Redis!KeysOf
  <2>3. c # e /\ Holds(c, k)
    BY <1>3, <2>2
  <2>4. k \notin Redis!KeysOf(e)
    BY <2>1, <2>3 DEF UsesActive
  <2>5. age'[c] = age[c]
    BY <2>1, <2>3 DEF CounterTypes
  <2> QED BY <2>1, <2>2, <2>3, <2>4, <2>5
<1>8. CASE Redis!Tick
  <2>1. /\ phase' = phase /\ age'[c] = age[c] + 1
        /\ age[c] < Redis!AgeLimit(c)
    BY <1>2, <1>8 DEF Redis!Tick
  <2>2. \A d \in Calls : UsesActive(d, k)' <=> UsesActive(d, k)
    BY <2>1 DEF UsesActive, Redis!KeysOf
  <2>3. Holds(c, k)
    BY <1>3, <2>2
  <2>4. Redis!AgeLimit(c) <= SlotTtl[c] - 1
    <3>1. c \in Punctual /\ phase[c] \in {"running", "ending"}
      BY <1>1, <1>2, <2>1
    <3> QED BY <1>4, <3>1 DEF Redis!AgeLimit
  <2>5. ttl[k] >= 2 /\ age[c] \in Nat
    <3>1. age[c] \in Nat /\ Redis!AgeLimit(c) \in Int
      <4>1. phase[c] \in {"running", "ending"} /\ c \in Punctual
        BY <1>1, <1>2, <2>1
      <4> QED BY <1>1, <1>4, <4>1 DEF Redis!AgeLimit
    <3> QED BY <1>1, <1>4, <2>1, <2>3, <2>4, <3>1
  <2>6. ~Redis!Expires(k)
    BY <1>1, <2>5 DEF Redis!Expires
  <2>7. value'[k] = value[k] /\ ttl'[k] = ttl[k] - 1
    BY <1>1, <1>8, <2>5, <2>6, ClockOfOne
  <2> QED BY <1>1, <1>4, <2>1, <2>2, <2>3, <2>5, <2>7
<1>9. CASE UNCHANGED Redis!vars
  <2>1. value' = value /\ ttl' = ttl /\ age' = age /\ phase' = phase
    BY <1>9 DEF Redis!vars, Redis!redis
  <2>2. \A d \in Calls : UsesActive(d, k)' <=> UsesActive(d, k)
    BY <2>1 DEF UsesActive, Redis!KeysOf
  <2> QED BY <1>3, <2>1, <2>2
<1> QED BY <1>5, <1>6, <1>7, <1>8, <1>9 DEF Redis!Next

(* The counters agree with the calls after every step.                     *)
THEOREM CountersInvariant == Redis!Spec => []CountersInv
<1>1. Redis!Init => CountersInv
  <2> SUFFICES ASSUME Redis!Init PROVE CountersInv
    OBVIOUS
  <2>1. CounterTypes
    BY CounterConstants DEF Redis!Init, CounterTypes
  <2>2. WindowsAgree
    BY CounterConstants DEF Redis!Init, WindowsAgree
  <2>3. AgesBounded /\ SlotsExclude
    BY DEF Redis!Init, AgesBounded, SlotsExclude, UsesActive
  <2>4. SlotsAgree
    BY FS_EmptySet DEF Redis!Init, SlotsAgree, Redis!Slots
  <2> QED BY <2>1, <2>2, <2>3, <2>4 DEF CountersInv
<1>2. CountersInv /\ [Redis!Next]_(Redis!vars) => CountersInv'
  BY CounterTypesStep, WindowsStep, AgesStep, SlotsAgreeStep, SlotsExcludeStep
     DEF CountersInv
<1> QED BY <1>1, <1>2, PTL DEF Redis!Spec

(* For any counters and callers, each with limits and times to live of its *)
(* own: no window lets more calls through than a limit of its callers, a   *)
(* slot counts no call that ended other than those that were lost, and a   *)
(* slot that all its callers limit to one excludes (the scripts of         *)
(* store-redis, lib.rs).                                                   *)
THEOREM LimitsHoldAlways == Redis!Spec => []LimitsHold
<1>1. CountersInv => LimitsHold
  <2> SUFFICES ASSUME CountersInv PROVE LimitsHold
    OBVIOUS
  <2>1. ASSUME NEW k \in Windows, granted[k] > 0
        PROVE  \E c \in Redis!CallersOf(k) : granted[k] <= Limit[c][k]
    <3>1. /\ value[k] \in Nat /\ granted[k] \in Nat /\ granted[k] <= value[k]
          /\ value[k] > 0 => WithinSome(k, value[k])
      BY CounterConstants DEF CountersInv, CounterTypes, WindowsAgree
    <3>2. PICK c \in Calls : k \in Redis!KeysOf(c) /\ value[k] <= Limit[c][k]
      BY <2>1, <3>1 DEF WithinSome
    <3>3. Limit[c][k] \in Nat
      BY CounterConstants
    <3> QED BY <3>1, <3>2, <3>3 DEF Redis!CallersOf
  <2>2. ASSUME NEW k \in Redis!Slots
        PROVE  value[k] <= Redis!Cardinality(counted[k]) + lost[k]
    BY SameFiniteSets DEF CountersInv, SlotsAgree
  <2>3. ASSUME NEW k \in Redis!Slots,
               \A c \in Redis!CallersOf(k) : Limit[c][k] = 1 /\ c \in Punctual
        PROVE  Redis!Cardinality(Redis!Active(k)) <= 1
    <3>1. \A c, d \in Redis!Active(k) : c = d
      BY <2>3 DEF CountersInv, SlotsExclude, Excludes, UsesActive,
                  Redis!Active, Redis!CallersOf, Redis!Slots
    <3>2. CASE Redis!Active(k) = {}
      BY <3>2, SameFiniteSets, FS_EmptySet
    <3>3. CASE Redis!Active(k) # {}
      <4>1. PICK c : Redis!Active(k) = {c}
        BY <3>1, <3>3
      <4>2. Cardinality(Redis!Active(k)) = 1
        BY <4>1, FS_Singleton
      <4> QED BY <4>2, SameFiniteSets
    <3> QED BY <3>2, <3>3
  <2> QED BY <2>1, <2>2, <2>3 DEF LimitsHold, Redis!LimitsHold
<1> QED BY <1>1, CountersInvariant, PTL

-----------------------------------------------------------------------------
(* The inspection: actions and their priorities.                           *)

AllActions == {"allow", "warn", "redact", "require_approval", "block"}
IsAction(a) == a \in AllActions
MayName(a) == a \in AllActions \union {None}

LEMMA Priorities ==
  /\ Security!Range(Security!Actions) = AllActions
  /\ Security!Priority("allow") = 1 /\ Security!Priority("warn") = 2
  /\ Security!Priority("redact") = 3
  /\ Security!Priority("require_approval") = 4
  /\ Security!Priority("block") = 5
<1>1. DOMAIN Security!Actions = 1 .. 5
  BY DEF Security!Actions
<1>2. Security!Range(Security!Actions) = AllActions
  BY <1>1 DEF Security!Range, Security!Actions, AllActions
<1> QED BY <1>1, <1>2 DEF Security!Priority, Security!Actions

LEMMA PriorityIsANumber ==
  ASSUME NEW a \in AllActions
  PROVE  /\ Security!Priority(a) \in 1 .. 5
         /\ a # "block" => Security!Priority(a) \in 1 .. 4
         /\ a \notin {"block", "require_approval"} =>
              Security!Priority(a) \in 1 .. 3
         /\ a \in {"allow", "warn"} => Security!Priority(a) \in 1 .. 2
BY Priorities DEF AllActions

LEMMA InOrder ==
  ASSUME NEW a \in AllActions, NEW b \in AllActions,
         \/ a = "block" \/ a = b \/ b = "allow"
         \/ a = "require_approval" /\ b # "block"
         \/ a = "redact" /\ b \notin {"block", "require_approval"}
         \/ a = "warn" /\ b \in {"allow", "warn"}
  PROVE  Security!Priority(b) <= Security!Priority(a)
<1> DEFINE m == Security!Priority(a)
           n == Security!Priority(b)
<1>1. /\ m \in 1 .. 5 /\ n \in 1 .. 5
      /\ a = "block" => m = 5
      /\ a = "require_approval" => m = 4
      /\ a = "redact" => m = 3
      /\ a = "warn" => m = 2
      /\ b = "allow" => n = 1
      /\ a = b => m = n
  BY Priorities, PriorityIsANumber
<1>2. /\ b # "block" => n \in 1 .. 4
      /\ b \notin {"block", "require_approval"} => n \in 1 .. 3
      /\ b \in {"allow", "warn"} => n \in 1 .. 2
  BY PriorityIsANumber
<1> HIDE DEF m, n
<1>3. n <= m
  BY <1>1, <1>2
<1> QED BY <1>3 DEF m, n

LEMMA HighestExists ==
  ASSUME NEW as \in SUBSET AllActions, as # {}
  PROVE  /\ Security!Highest(as) \in as
         /\ \A b \in as :
              Security!Priority(b) <= Security!Priority(Security!Highest(as))
<1>1. \E a \in as : \A b \in as : Security!Priority(b) <= Security!Priority(a)
  <2>1. \A b \in as : b \in AllActions
    OBVIOUS
  <2>2. CASE "block" \in as
    <3>1. ASSUME NEW b \in as
          PROVE  Security!Priority(b) <= Security!Priority("block")
      BY <2>1, <2>2, InOrder DEF AllActions
    <3> QED BY <2>2, <3>1
  <2>3. CASE "block" \notin as /\ "require_approval" \in as
    <3>1. ASSUME NEW b \in as
          PROVE  Security!Priority(b) <= Security!Priority("require_approval")
      BY <2>1, <2>3, InOrder DEF AllActions
    <3> QED BY <2>3, <3>1
  <2>4. CASE as \subseteq {"allow", "warn", "redact"} /\ "redact" \in as
    <3>1. ASSUME NEW b \in as
          PROVE  Security!Priority(b) <= Security!Priority("redact")
      BY <2>1, <2>4, InOrder DEF AllActions
    <3> QED BY <2>4, <3>1
  <2>5. CASE as \subseteq {"allow", "warn"} /\ "warn" \in as
    <3>1. ASSUME NEW b \in as
          PROVE  Security!Priority(b) <= Security!Priority("warn")
      BY <2>1, <2>5, InOrder DEF AllActions
    <3> QED BY <2>5, <3>1
  <2>6. CASE as \subseteq {"allow"}
    <3>1. ASSUME NEW b \in as
          PROVE  Security!Priority(b) <= Security!Priority("allow")
      BY <2>1, <2>6, InOrder DEF AllActions
    <3> QED BY <2>6, <3>1
  <2> QED BY <2>1, <2>2, <2>3, <2>4, <2>5, <2>6 DEF AllActions
<1> QED BY <1>1, Zenon DEF Security!Highest

(* Rules name an action for a kind of findings, or none.                    *)
HasActions(p) ==
  "actions" \in DOMAIN p /\ \A k \in Kinds : MayName(p.actions[k])

(* What the constants are.                                                 *)
LEMMA InspectionConstants ==
  /\ None \notin AllActions /\ None \notin {"free", "core", "pro"}
  /\ \A k \in Kinds : IsAction(Recommended[k])
  /\ \A found \in Findings : \A f \in found : f.kind \in Kinds
  /\ \A p \in SecurityPolicies : HasActions(p)
BY SecurityAssumption, Priorities
   DEF Security!InspectionAssumption, Security!Policy, IsAction, MayName, HasActions

(* What a rule does with a finding.                                        *)
LEMMA ActionOfKind ==
  ASSUME NEW p, HasActions(p), NEW k \in Kinds
  PROVE  Security!Action(p, k) \in AllActions
BY InspectionConstants DEF HasActions, MayName, IsAction, Security!Action

ActionsOn(p, found) ==
  {"allow"} \union {Security!Action(p, f.kind) : f \in found}

LEMMA DecidedByHighest ==
  ASSUME NEW p, HasActions(p), NEW found, \A f \in found : f.kind \in Kinds
  PROVE  /\ Security!Decide(p, found, FALSE).action \in ActionsOn(p, found)
         /\ Security!Decide(p, found, FALSE).action \in AllActions
         /\ \A a \in ActionsOn(p, found) :
              /\ a \in AllActions
              /\ Security!Priority(a)
                   <= Security!Priority(Security!Decide(p, found, FALSE).action)
<1>1. ActionsOn(p, found) \in SUBSET AllActions /\ ActionsOn(p, found) # {}
  BY ActionOfKind DEF ActionsOn, AllActions
<1>2. Security!Decide(p, found, FALSE).action
        = Security!Highest(ActionsOn(p, found))
  BY DEF Security!Decide, ActionsOn
<1> QED BY <1>1, <1>2, HighestExists

-----------------------------------------------------------------------------
(* The fold: of whatever the hierarchy has folded in, the policy is at     *)
(* least as strict.                                                        *)

AtLeast(q, p) ==
  /\ p.stages \subseteq q.stages
  /\ p.enabled => q.enabled
  /\ q.fail_open => p.fail_open
  /\ \A k \in Kinds : p.actions[k] # None =>
       /\ q.actions[k] # None
       /\ Security!Priority(p.actions[k]) <= Security!Priority(q.actions[k])

FoldInv ==
  /\ bound \in Seq(SecurityPolicies) /\ unfolded \in Seq(SecurityPolicies)
  /\ folded \subseteq SecurityPolicies
  /\ HasActions(rules)
  /\ stage = "fold" =>
       /\ \A p \in folded : AtLeast(rules, p)
       /\ folded # {} =>
            \A k \in Kinds : (\A p \in folded : p.actions[k] = None)
                               => rules.actions[k] = None

LEMMA RestrictIsStricter ==
  ASSUME NEW p, HasActions(p), NEW c, HasActions(c)
  PROVE  LET q == Security!RestrictWith(p, c) IN
         /\ HasActions(q) /\ AtLeast(q, p) /\ AtLeast(q, c)
         /\ \A k \in Kinds : p.actions[k] = None /\ c.actions[k] = None
                               => q.actions[k] = None
<1> DEFINE q == Security!RestrictWith(p, c)
<1>1. /\ "actions" \in DOMAIN q
      /\ q.stages = p.stages \union c.stages
      /\ q.enabled = (p.enabled \/ c.enabled)
      /\ q.fail_open = (p.fail_open /\ c.fail_open)
      /\ \A k \in Kinds :
           q.actions[k] = Security!StricterEntry(p.actions[k], c.actions[k])
  BY DEF Security!RestrictWith
<1> HIDE DEF q
<1>2. ASSUME NEW k \in Kinds
      PROVE  LET x == p.actions[k]  y == c.actions[k]  z == q.actions[k] IN
             /\ MayName(z) /\ (x = None /\ y = None => z = None)
             /\ x # None => z # None /\ Security!Priority(x) <= Security!Priority(z)
             /\ y # None => z # None /\ Security!Priority(y) <= Security!Priority(z)
  <2> DEFINE x == p.actions[k]
             y == c.actions[k]
             z == q.actions[k]
  <2>1. MayName(x) /\ MayName(y) /\ z = Security!StricterEntry(x, y)
    BY <1>1 DEF HasActions
  <2> HIDE DEF x, y, z
  <2>2. /\ x # None => Security!Priority(x) \in 1 .. 5
        /\ y # None => Security!Priority(y) \in 1 .. 5
    BY <2>1, PriorityIsANumber DEF MayName
  <2>3. /\ MayName(z) /\ (x = None /\ y = None => z = None)
        /\ x # None => z # None /\ Security!Priority(x) <= Security!Priority(z)
        /\ y # None => z # None /\ Security!Priority(y) <= Security!Priority(z)
    BY <2>1, <2>2 DEF Security!StricterEntry
  <2> QED BY <2>3 DEF x, y, z
<1>3. HasActions(q) /\ AtLeast(q, p) /\ AtLeast(q, c)
      /\ \A k \in Kinds : p.actions[k] = None /\ c.actions[k] = None
                            => q.actions[k] = None
  BY <1>1, <1>2 DEF HasActions, AtLeast
<1> QED BY <1>3 DEF q

LEMMA AtLeastIsTransitive ==
  ASSUME NEW p, NEW q, NEW r, HasActions(p), HasActions(q), HasActions(r),
         AtLeast(q, p), AtLeast(r, q)
  PROVE  AtLeast(r, p)
<1>1. ASSUME NEW k \in Kinds, p.actions[k] # None
      PROVE  r.actions[k] # None
             /\ Security!Priority(p.actions[k])
                  <= Security!Priority(r.actions[k])
  <2>1. /\ q.actions[k] # None /\ r.actions[k] # None
        /\ Security!Priority(p.actions[k]) <= Security!Priority(q.actions[k])
        /\ Security!Priority(q.actions[k]) <= Security!Priority(r.actions[k])
    BY <1>1 DEF AtLeast
  <2>2. /\ Security!Priority(p.actions[k]) \in 1 .. 5
        /\ Security!Priority(q.actions[k]) \in 1 .. 5
        /\ Security!Priority(r.actions[k]) \in 1 .. 5
    BY <1>1, <2>1, PriorityIsANumber DEF HasActions, MayName
  <2> QED BY <2>1, <2>2
<1> QED BY <1>1 DEF AtLeast

(* Whatever a scope says of the finding, or nobody does, is heeded.        *)
LEMMA StricterDecides ==
  ASSUME NEW p, HasActions(p), NEW q, HasActions(q), AtLeast(q, p),
         NEW found \in Findings, NEW failed \in BOOLEAN,
         \A f \in found : \/ p.actions[f.kind] # None
                          \/ q.actions[f.kind] = None
  PROVE  Security!Priority(Security!Decide(q, found, failed).action)
           >= Security!Priority(Security!Decide(p, found, failed).action)
<1>1. \A f \in found : f.kind \in Kinds
  BY InspectionConstants
<1>2. CASE failed
  <2>1. /\ Security!Decide(q, found, failed).action
              = IF q.fail_open THEN "warn" ELSE "block"
        /\ Security!Decide(p, found, failed).action
              = IF p.fail_open THEN "warn" ELSE "block"
    BY <1>2 DEF Security!Decide
  <2>2. q.fail_open => p.fail_open
    BY DEF AtLeast
  <2> DEFINE ap == Security!Decide(p, found, failed).action
             aq == Security!Decide(q, found, failed).action
  <2>3. /\ ap \in AllActions /\ aq \in AllActions
        /\ aq = "block" \/ aq = ap
    BY <2>1, <2>2 DEF AllActions
  <2> HIDE DEF ap, aq
  <2>4. Security!Priority(ap) <= Security!Priority(aq)
    BY <2>3, InOrder
  <2>5. Security!Priority(ap) \in 1 .. 5 /\ Security!Priority(aq) \in 1 .. 5
    BY <2>3, PriorityIsANumber
  <2>6. Security!Priority(aq) >= Security!Priority(ap)
    BY <2>4, <2>5
  <2> QED BY <2>6 DEF ap, aq
<1>3. CASE ~failed
  <2> DEFINE ap == Security!Decide(p, found, FALSE).action
             aq == Security!Decide(q, found, FALSE).action
  <2>1. ap \in ActionsOn(p, found) /\ ap \in AllActions /\ aq \in AllActions
    BY <1>1, DecidedByHighest
  <2>2. \A a \in ActionsOn(q, found) :
          Security!Priority(a) <= Security!Priority(aq)
    BY <1>1, DecidedByHighest
  <2> HIDE DEF ap, aq
  <2>3. Security!Priority(ap) \in 1 .. 5 /\ Security!Priority(aq) \in 1 .. 5
    BY <2>1, PriorityIsANumber
  <2>4. ap = "allow" => Security!Priority(ap) <= Security!Priority(aq)
    BY <2>1, InOrder
  <2>5. ASSUME \E f \in found : ap = Security!Action(p, f.kind)
        PROVE  Security!Priority(aq) >= Security!Priority(ap)
    <3>1. PICK f \in found : ap = Security!Action(p, f.kind)
      BY <2>5
    <3> DEFINE k == f.kind
    <3>2. k \in Kinds /\ (p.actions[k] # None \/ q.actions[k] = None)
      BY <1>1
    <3>3. Security!Action(q, k) \in ActionsOn(q, found)
      BY DEF ActionsOn
    <3>4. Security!Priority(Security!Action(p, k))
            <= Security!Priority(Security!Action(q, k))
      <4>1. CASE p.actions[k] # None
        BY <3>2, <4>1 DEF AtLeast, Security!Action
      <4>2. CASE p.actions[k] = None
        <5>1. Security!Action(p, k) = Security!Action(q, k)
          BY <3>2, <4>2 DEF Security!Action
        <5>2. Security!Priority(Security!Action(p, k)) \in 1 .. 5
          BY <3>2, ActionOfKind, PriorityIsANumber
        <5> QED BY <5>1, <5>2
      <4> QED BY <4>1, <4>2
    <3>5. Security!Action(q, k) \in AllActions
      BY <3>2, ActionOfKind
    <3>6. Security!Priority(Security!Action(q, k)) \in 1 .. 5
      BY <3>5, PriorityIsANumber
    <3>7. Security!Priority(Security!Action(q, k)) <= Security!Priority(aq)
      BY <2>2, <3>3
    <3>8. Security!Priority(ap) <= Security!Priority(Security!Action(q, k))
      BY <3>1, <3>4
    <3> DEFINE l == Security!Priority(ap)
               m == Security!Priority(Security!Action(q, k))
               n == Security!Priority(aq)
    <3>9. /\ l \in 1 .. 5 /\ m \in 1 .. 5 /\ n \in 1 .. 5
          /\ l <= m /\ m <= n
      BY <2>3, <3>6, <3>7, <3>8
    <3> HIDE DEF l, m, n
    <3>10. n >= l
      BY <3>9
    <3> QED BY <3>10 DEF l, n
  <2>6. ap = "allow" \/ \E f \in found : ap = Security!Action(p, f.kind)
    BY <2>1 DEF ActionsOn
  <2>7. Security!Priority(aq) >= Security!Priority(ap)
    BY <2>3, <2>4, <2>5, <2>6
  <2> QED BY <1>3, <2>7 DEF ap, aq
<1> QED BY <1>2, <1>3

-----------------------------------------------------------------------------
(* Administrators leave sequences of policies behind.                      *)
LEMMA EditsKeepPolicies ==
  ASSUME bound \in Seq(SecurityPolicies), Security!Administer
  PROVE  /\ bound' \in Seq(SecurityPolicies)
         /\ UNCHANGED <<stage, unfolded, folded, rules>>
<1>1. ASSUME NEW p \in SecurityPolicies, Security!CreatePolicy(p)
      PROVE  /\ bound' \in Seq(SecurityPolicies)
             /\ UNCHANGED <<stage, unfolded, folded, rules>>
  <2>1. PICK i \in 1 .. Len(bound) + 1 : bound' = Security!InsertAt(bound, i, p)
    BY <1>1 DEF Security!CreatePolicy
  <2>2. SubSeq(bound, 1, i - 1) \in Seq(SecurityPolicies)
        /\ SubSeq(bound, i, Len(bound)) \in Seq(SecurityPolicies)
    OBVIOUS
  <2>3. bound' \in Seq(SecurityPolicies)
    BY <2>1, <2>2 DEF Security!InsertAt
  <2> QED BY <1>1, <2>3 DEF Security!CreatePolicy
<1>2. ASSUME NEW i \in DOMAIN bound, NEW p \in SecurityPolicies,
             Security!UpdatePolicy(i, p)
      PROVE  /\ bound' \in Seq(SecurityPolicies)
             /\ UNCHANGED <<stage, unfolded, folded, rules>>
  BY <1>2 DEF Security!UpdatePolicy, Security!ReplaceAt
<1>3. ASSUME NEW i \in DOMAIN bound, Security!DeletePolicy(i)
      PROVE  /\ bound' \in Seq(SecurityPolicies)
             /\ UNCHANGED <<stage, unfolded, folded, rules>>
  <2>1. SubSeq(bound, 1, i - 1) \in Seq(SecurityPolicies)
        /\ SubSeq(bound, i + 1, Len(bound)) \in Seq(SecurityPolicies)
    OBVIOUS
  <2>2. bound' \in Seq(SecurityPolicies)
    BY <1>3, <2>1 DEF Security!DeletePolicy, Security!RemoveAt
  <2> QED BY <1>3, <2>2 DEF Security!DeletePolicy
<1>4. ASSUME NEW t \in Tiers, Security!ChangePlan(t)
      PROVE  /\ bound' \in Seq(SecurityPolicies)
             /\ UNCHANGED <<stage, unfolded, folded, rules>>
  BY <1>4 DEF Security!ChangePlan
<1> QED BY <1>1, <1>2, <1>3, <1>4 DEF Security!Administer

LEMMA PlanHasActions ==
  ASSUME HasActions(rules), NEW t
  PROVE  HasActions(Security!ApplyPlan(rules, t))
<1>1. CASE t \in {"pro", None}
  <2>1. t # "core"
    BY <1>1, InspectionConstants
  <2> QED BY <1>1, <2>1 DEF Security!ApplyPlan
<1>2. ASSUME NEW k \in Kinds
      PROVE  /\ MayName(Security!BlockInstead(rules.actions[k]))
             /\ MayName("warn")
  BY DEF HasActions, MayName, AllActions, Security!BlockInstead
<1>3. CASE t \notin {"pro", None} /\ t = "core"
  <2> DEFINE actions == [k \in Kinds |-> Security!BlockInstead(rules.actions[k])]
             p == Security!ApplyPlan(rules, t)
  <2>1. \E stages : p = [rules EXCEPT !.enabled = TRUE, !.stages = stages,
                            !.create_incidents = FALSE, !.actions = actions]
    BY <1>3 DEF Security!ApplyPlan
  <2> HIDE DEF p
  <2>2. "actions" \in DOMAIN p /\ p.actions = actions
    BY <2>1 DEF HasActions
  <2>3. HasActions(p)
    BY <1>2, <2>2 DEF HasActions
  <2> QED BY <2>3 DEF p
<1>4. CASE t \notin {"pro", None, "core"}
  <2> DEFINE p == Security!ApplyPlan(rules, t)
  <2>1. p = [rules EXCEPT !.enabled = TRUE, !.fail_open = TRUE,
                          !.stages = {"llm_input"}, !.create_incidents = FALSE,
                          !.actions = [k \in Kinds |-> "warn"]]
    BY <1>4 DEF Security!ApplyPlan, Security!FixedWarnActions
  <2> HIDE DEF p
  <2>2. "actions" \in DOMAIN p /\ p.actions = [k \in Kinds |-> "warn"]
    BY <2>1 DEF HasActions
  <2>3. HasActions(p)
    BY <1>2, <2>2 DEF HasActions
  <2> QED BY <2>3 DEF p
<1> QED BY <1>1, <1>3, <1>4

LEMMA FoldInit == Security!Init => FoldInv
<1> SUFFICES ASSUME Security!Init PROVE FoldInv
  OBVIOUS
<1>1. bound \in Seq(SecurityPolicies)
  <2>1. PICK n \in 0 .. SecurityRowsAtMost : bound \in [1 .. n -> SecurityPolicies]
    BY DEF Security!Init
  <2>2. n \in Nat
    BY <2>1
  <2> QED BY <2>1, <2>2
<1>2. unfolded = << >> /\ folded = {} /\ rules = Security!Default
      /\ stage # "fold"
  BY DEF Security!Init
<1> QED BY <1>1, <1>2 DEF FoldInv, HasActions, MayName, Security!Default

LEMMA FoldStep == FoldInv /\ [Security!Next]_(Security!vars) => FoldInv'
<1> SUFFICES ASSUME FoldInv, [Security!Next]_(Security!vars) PROVE FoldInv'
  OBVIOUS
<1>1. CASE Security!ReadPolicies
  BY <1>1 DEF Security!ReadPolicies, Security!config, FoldInv, HasActions, MayName,
     Security!Default
<1>2. CASE Security!Fold
  <2> DEFINE c == Head(unfolded)
  <2>1. /\ unfolded' = Tail(unfolded) /\ folded' = folded \union {c}
        /\ rules' = IF folded = {} THEN c ELSE Security!RestrictWith(rules, c)
        /\ bound' = bound /\ unfolded # << >> /\ stage = "fold"
    BY <1>2 DEF Security!Fold, Security!config
  <2>2. unfolded' \in Seq(SecurityPolicies) /\ c \in SecurityPolicies
    BY <2>1 DEF FoldInv
  <2>3. HasActions(c) /\ HasActions(rules)
    BY <2>2, InspectionConstants DEF HasActions, FoldInv
  <2> HIDE DEF c
  <2>4. CASE folded = {}
    <3>1. AtLeast(c, c)
      <4>1. \A k \in Kinds : c.actions[k] # None =>
              Security!Priority(c.actions[k]) \in 1 .. 5
        BY <2>3, PriorityIsANumber DEF HasActions, MayName
      <4> QED BY <4>1 DEF AtLeast
    <3> QED BY <2>1, <2>2, <2>3, <2>4, <3>1 DEF FoldInv
  <2>5. CASE folded # {}
    <3> DEFINE q == Security!RestrictWith(rules, c)
    <3>1. /\ rules' = q /\ HasActions(q) /\ AtLeast(q, rules) /\ AtLeast(q, c)
          /\ \A k \in Kinds : rules.actions[k] = None /\ c.actions[k] = None
                                => q.actions[k] = None
      BY <2>1, <2>3, <2>5, RestrictIsStricter
    <3> HIDE DEF q
    <3>2. \A p \in folded : HasActions(p)
      BY InspectionConstants DEF HasActions, FoldInv
    <3>3. \A p \in folded' : AtLeast(q, p)
      BY <2>1, <2>3, <3>1, <3>2, AtLeastIsTransitive DEF FoldInv
    <3>4. ASSUME NEW k \in Kinds, \A p \in folded' : p.actions[k] = None
          PROVE  q.actions[k] = None
      BY <2>1, <2>5, <3>1, <3>4 DEF FoldInv
    <3> QED BY <2>1, <2>2, <3>1, <3>3, <3>4 DEF FoldInv
  <2> QED BY <2>4, <2>5
<1>3. CASE Security!ReadTier
  <2>1. /\ UNCHANGED <<bound, unfolded, folded>> /\ stage' # "fold"
        /\ rules' = Security!ApplyPlan(rules, tier)
    BY <1>3 DEF Security!ReadTier, Security!HandOn, Security!config
  <2> QED BY <2>1, PlanHasActions DEF FoldInv
<1>4. CASE Security!Assess \/ Security!Answer \/ Security!StoreFails
  <2>1. UNCHANGED <<bound, unfolded, folded, rules>> /\ stage' # "fold"
    BY <1>4 DEF Security!Assess, Security!Inspect, Security!InsertFindings,
       Security!InsertEvent, Security!CreateIncident, Security!Answer,
       Security!Refuse, Security!AskApproval, Security!Approved, Security!Pass,
       Security!NotParsed, Security!StoreFails, Security!HandOn, Security!config
  <2> QED BY <2>1 DEF FoldInv
<1>5. CASE Security!Administer
  BY <1>5, EditsKeepPolicies DEF FoldInv
<1>6. CASE UNCHANGED Security!vars
  BY <1>6 DEF Security!vars, Security!config, FoldInv
<1> QED BY <1>1, <1>2, <1>3, <1>4, <1>5, <1>6 DEF Security!Next, Security!Resolve

(* For any kinds of findings, rules and plans, whatever administrators do  *)
(* meanwhile: the hierarchy treats what a scope names, or nobody does, at  *)
(* least as severely as that scope alone (restrict_with of                 *)
(* gateway-security, resolve_security_hierarchy of store-postgres).        *)
THEOREM EveryScopeIsHeededHolds == Security!Spec => []EveryScopeIsHeeded
<1>1. FoldInv => EveryScopeIsHeeded
  <2> SUFFICES ASSUME FoldInv, stage = "fold", NEW p \in folded
               PROVE  /\ p.stages \subseteq rules.stages
                      /\ p.enabled => rules.enabled
                      /\ \A found \in Findings, failed \in BOOLEAN :
                           (\A f \in found : Security!Names(p, f)) =>
                             Security!Priority(
                               Security!Decide(rules, found, failed).action)
                             >= Security!Priority(
                                  Security!Decide(p, found, failed).action)
    BY DEF EveryScopeIsHeeded, Security!EveryScopeIsHeeded
  <2>1. AtLeast(rules, p) /\ HasActions(rules)
    BY DEF FoldInv
  <2>2. HasActions(p)
    BY InspectionConstants DEF HasActions, FoldInv
  <2>3. \A found \in Findings : (\A f \in found : Security!Names(p, f)) =>
          \A f \in found : \/ p.actions[f.kind] # None
                           \/ rules.actions[f.kind] = None
    BY InspectionConstants DEF Security!Names, FoldInv
  <2> QED BY <2>1, <2>2, <2>3, StricterDecides DEF AtLeast
<1> QED BY <1>1, FoldInit, FoldStep, PTL DEF Security!Spec

-----------------------------------------------------------------------------
(* What is handed on.  That redact_text and redact_json leave nothing of   *)
(* the evidence (RedactionHides) is a hypothesis here: they are folds over *)
(* a sorted sequence, and TLC evaluates them.                              *)

(* PassedIsInspected, of one part.                                         *)
IsInspected(i, item) ==
  LET p == item.policy
      d == item.decision
  IN /\ {i} \X d.findings \subseteq stored
     /\ d.failed => p.fail_open
     /\ ~d.failed => \A f \in d.findings :
          /\ Security!Action(p, f.kind) # "block"
          /\ Security!Action(p, f.kind) = "require_approval"
               => request[i] = "mcp_arguments"
          /\ d.action = "redact" =>
               \A s \in f.spans, n \in 1 .. TextLength :
                 Security!Covers(s, n) /\ Security!Visible(i, n)
                   => n \notin Security!Range(item.text)

Decided ==
  \/ decision = Security!NoDecision
  \/ \E found \in Findings \union {{}}, failed \in BOOLEAN :
       decision = Security!Decide(rules, found, failed)

(* What is known of the decision from its making to its use.               *)
DecisionInv ==
  /\ FoldInv
  /\ \E S : passed \in Seq(S)
  /\ stage \in {"findings", "event", "incident", "act", "approval"} => Decided
  /\ stage \in {"event", "incident", "act", "approval"} =>
       {Security!Index} \X decision.findings \subseteq stored
  /\ stage = "approval" => /\ decision.action = "require_approval"
                           /\ Security!Part = "mcp_arguments"
  /\ \A i \in DOMAIN passed : IsInspected(i, passed[i])

LEMMA WhatMayPass ==
  ASSUME Security!RedactionHides, HasActions(rules), Decided,
         decision.action # "block",
         decision.action = "require_approval" => Security!Part = "mcp_arguments",
         {Security!Index} \X decision.findings \subseteq stored,
         NEW text, decision.action = "redact" => text \in Security!Redacted
  PROVE  IsInspected(Security!Index,
                     [text |-> text, policy |-> rules, decision |-> decision])
<1>1. CASE decision = Security!NoDecision
  BY <1>1 DEF Security!NoDecision, IsInspected
<1>2. CASE decision # Security!NoDecision
  <2>1. PICK found \in Findings \union {{}}, failed \in BOOLEAN :
          decision = Security!Decide(rules, found, failed)
    BY <1>2 DEF Decided
  <2>2. /\ decision.findings = found /\ decision.failed = failed
        /\ failed => decision.action = IF rules.fail_open THEN "warn" ELSE "block"
    BY <2>1 DEF Security!Decide
  <2>3. CASE failed
    BY <2>2, <2>3 DEF IsInspected
  <2>4. ASSUME ~failed, NEW f \in found
        PROVE  /\ Security!Action(rules, f.kind) # "block"
               /\ Security!Action(rules, f.kind) = "require_approval"
                    => Security!Part = "mcp_arguments"
    <3> DEFINE a == Security!Action(rules, f.kind)
               b == decision.action
    <3>1. \A g \in found : g.kind \in Kinds
      BY InspectionConstants
    <3>2. failed = FALSE
      BY <2>4
    <3>3. decision = Security!Decide(rules, found, FALSE)
      BY <2>1, <3>2
    <3>4. a \in ActionsOn(rules, found)
      BY DEF ActionsOn
    <3>5. /\ a \in AllActions /\ b \in AllActions
          /\ Security!Priority(a) <= Security!Priority(b)
      BY <3>1, <3>3, <3>4, DecidedByHighest
    <3> HIDE DEF a, b
    <3>6. b = "block" \/ Security!Priority(b) \in 1 .. 4
      BY <3>5, PriorityIsANumber
    <3>7. b \in {"block", "require_approval"} \/ Security!Priority(b) \in 1 .. 3
      BY <3>5, PriorityIsANumber
    <3>8. a = "block" => b = "block"
      BY <3>5, <3>6, Priorities
    <3>9. a = "require_approval" => b \in {"block", "require_approval"}
      BY <3>5, <3>7, Priorities
    <3> QED BY <3>8, <3>9 DEF a, b
  <2>5. ASSUME decision.action = "redact", NEW f \in found, NEW s \in f.spans,
               NEW n \in 1 .. TextLength, Security!Covers(s, n),
               Security!Visible(Security!Index, n)
        PROVE  n \notin Security!Range(text)
    <3>1. found \in Findings /\ s \in Security!Evidence(found)
      BY DEF Security!Evidence
    <3>2. Security!Spans = Security!Evidence(found)
      BY <2>2 DEF Security!Spans, Security!Evidence
    <3>3. text \in Security!Redacted
      BY <2>5
    <3>4. CASE Security!Part \in {"mcp_arguments", "mcp_result"}
      <4>1. text \in Security!RedactJson(Security!Evidence(found))
        BY <3>2, <3>3, <3>4 DEF Security!Redacted
      <4>2. Leaf[n] # 0
        BY <2>5, <3>4 DEF Security!Visible, Security!Part
      <4> QED BY <2>5, <3>1, <4>1, <4>2 DEF Security!RedactionHides, Security!HidesAll
    <3>5. CASE Security!Part \notin {"mcp_arguments", "mcp_result"}
      <4>1. text = Security!RedactText(Security!Evidence(found))
        BY <3>2, <3>3, <3>5 DEF Security!Redacted
      <4> QED BY <2>5, <3>1, <4>1 DEF Security!RedactionHides, Security!HidesAll
    <3> QED BY <3>4, <3>5
  <2>6. CASE ~failed
    BY <2>2, <2>4, <2>5, <2>6 DEF IsInspected, Security!Part
  <2> QED BY <2>3, <2>6
<1> QED BY <1>1, <1>2

(* One more part is handed on.                                             *)
LEMMA HandedOn ==
  ASSUME DecisionInv, NEW text, NEW p, NEW d, Security!HandOn(text, p, d),
         IsInspected(Security!Index,
                     [text |-> text, policy |-> p, decision |-> d]),
         UNCHANGED <<request, stored>>
  PROVE  /\ \E S : passed' \in Seq(S)
         /\ (\A i \in DOMAIN passed : IsInspected(i, passed[i]))'
<1> DEFINE item == [text |-> text, policy |-> p, decision |-> d]
<1>1. PICK S : passed \in Seq(S)
  BY DEF DecisionInv
<1>2. passed' = Append(passed, item) /\ item \in S \union {item}
  BY DEF Security!HandOn
<1>3. passed \in Seq(S \union {item})
  BY <1>1
<1> HIDE DEF item
<1>4. /\ passed' \in Seq(S \union {item})
      /\ DOMAIN passed' = 1 .. Len(passed) + 1
      /\ passed'[Len(passed) + 1] = item
      /\ \A i \in 1 .. Len(passed) : passed'[i] = passed[i]
  BY <1>2, <1>3
<1>5. \A i, x : IsInspected(i, x)' <=> IsInspected(i, x)
  BY DEF IsInspected, Security!Visible
<1>6. IsInspected(Len(passed) + 1, item)
  BY DEF item, Security!Index
<1>7. ASSUME NEW i \in DOMAIN passed' PROVE IsInspected(i, passed'[i])
  <2>1. CASE i = Len(passed) + 1
    BY <1>4, <1>6, <2>1
  <2>2. CASE i # Len(passed) + 1
    <3>1. i \in 1 .. Len(passed) /\ DOMAIN passed = 1 .. Len(passed)
      BY <1>1, <1>4, <2>2
    <3> QED BY <1>4, <3>1 DEF DecisionInv
  <2> QED BY <2>1, <2>2
<1> QED BY <1>4, <1>5, <1>7

(* Nothing that was handed on is looked at anew.                           *)
LEMMA NothingHandedOn ==
  ASSUME DecisionInv, UNCHANGED <<request, passed>>, stored \subseteq stored'
  PROVE  /\ \E S : passed' \in Seq(S)
         /\ (\A i \in DOMAIN passed : IsInspected(i, passed[i]))'
<1>1. \A i, x : IsInspected(i, x) => IsInspected(i, x)'
  BY DEF IsInspected, Security!Visible
<1> QED BY <1>1 DEF DecisionInv

LEMMA DecidedStays ==
  ASSUME Decided, UNCHANGED <<rules, decision>>
  PROVE  Decided'
<1>1. \A found, failed : Security!Decide(rules, found, failed)'
                          = Security!Decide(rules, found, failed)
  BY DEF Security!Decide, Security!Action, Security!Highest, Security!Priority
<1> QED BY <1>1 DEF Decided, Security!NoDecision

LEMMA DecisionStep ==
  ASSUME Security!RedactionHides, DecisionInv, [Security!Next]_(Security!vars)
  PROVE  DecisionInv'
<1>1. FoldInv' /\ HasActions(rules)
  BY FoldStep DEF DecisionInv, FoldInv
<1> DEFINE Working == {"findings", "event", "incident", "act", "approval"}
<1>2. CASE Security!ReadPolicies \/ Security!Fold \/ Security!Refuse
           \/ Security!NotParsed \/ Security!StoreFails
  <2>1. UNCHANGED <<request, passed, stored>> /\ stage' \notin Working
    BY <1>2 DEF Security!ReadPolicies, Security!Fold, Security!Refuse,
       Security!NotParsed, Security!StoreFails, Security!config, Security!given,
       Security!rows
  <2> QED BY <1>1, <2>1, NothingHandedOn DEF DecisionInv
<1>3. CASE Security!ReadTier
  <2> DEFINE p == Security!ApplyPlan(rules, tier)
  <2>1. /\ UNCHANGED <<request, stored>> /\ stage' \notin Working
        /\ \/ passed' = passed
           \/ Security!HandOn(Security!Text, p, Security!NoDecision)
    BY <1>3 DEF Security!ReadTier, Security!HandOn, Security!given, Security!rows
  <2>2. IsInspected(Security!Index,
          [text |-> Security!Text, policy |-> p, decision |-> Security!NoDecision])
    BY DEF IsInspected, Security!NoDecision
  <2> QED BY <1>1, <2>1, <2>2, HandedOn, NothingHandedOn DEF DecisionInv
<1>4. ASSUME NEW found \in Findings, NEW failed \in BOOLEAN,
             Security!Inspect(found, failed)
      PROVE  DecisionInv'
  <2>1. /\ UNCHANGED <<request, passed, stored, rules>> /\ stage' = "findings"
        /\ decision' \in {Security!NoDecision, Security!Decide(rules, {}, TRUE),
                          Security!Decide(rules, found, failed)}
    BY <1>4 DEF Security!Inspect, Security!given, Security!rows
  <2>2. Decided'
    <3>1. \A f, b : Security!Decide(rules, f, b)' = Security!Decide(rules, f, b)
      BY <2>1 DEF Security!Decide, Security!Action, Security!Highest,
                  Security!Priority
    <3> QED BY <2>1, <3>1 DEF Decided, Security!NoDecision
  <2> QED BY <1>1, <2>1, <2>2, NothingHandedOn DEF DecisionInv
<1>5. ASSUME Security!InsertFindings \/ Security!InsertEvent
               \/ Security!CreateIncident \/ Security!AskApproval
      PROVE  DecisionInv'
  <2>1. UNCHANGED <<request, passed, rules, decision>>
        /\ stored \subseteq stored' /\ stage \in Working
    BY <1>5 DEF Security!InsertFindings, Security!InsertEvent,
       Security!CreateIncident, Security!AskApproval, Security!given, Security!rows
  <2>2. Decided'
    <3>1. Decided
      BY <2>1 DEF DecisionInv
    <3> QED BY <2>1, <3>1, DecidedStays
  <2>3. Security!Index' = Security!Index /\ Security!Part' = Security!Part
    BY <2>1 DEF Security!Index, Security!Part
  <2>4. {Security!Index} \X decision.findings \subseteq stored'
    BY <1>5 DEF Security!InsertFindings, Security!InsertEvent,
       Security!CreateIncident, Security!AskApproval, Security!rows, DecisionInv
  <2>5. stage' = "approval" =>
          decision.action = "require_approval" /\ Security!Part = "mcp_arguments"
    BY <1>5 DEF Security!InsertFindings, Security!InsertEvent,
       Security!CreateIncident, Security!AskApproval, Security!Refused
  <2> QED BY <1>1, <2>1, <2>2, <2>3, <2>4, <2>5, NothingHandedOn DEF DecisionInv
<1>6. CASE Security!Approved
  <2>1. /\ UNCHANGED <<request, stored>> /\ stage' \notin Working
        /\ stage = "approval"
        /\ Security!HandOn(Security!Text, rules, decision)
    BY <1>6 DEF Security!Approved, Security!HandOn, Security!given, Security!rows
  <2>2. IsInspected(Security!Index,
          [text |-> Security!Text, policy |-> rules, decision |-> decision])
    BY <1>1, <2>1, WhatMayPass DEF DecisionInv
  <2> QED BY <1>1, <2>1, <2>2, HandedOn DEF DecisionInv
<1>7. CASE Security!Pass
  <2>1. /\ UNCHANGED <<request, stored>> /\ stage' \notin Working
        /\ stage = "act" /\ decision.action \notin {"block", "require_approval"}
    BY <1>7 DEF Security!Pass, Security!HandOn, Security!given, Security!rows,
       Security!Refused
  <2>2. PICK text \in (IF decision.action = "redact" THEN Security!Redacted
                       ELSE {Security!Text}) :
          Security!HandOn(text, rules, decision)
    BY <1>7 DEF Security!Pass
  <2>3. IsInspected(Security!Index,
          [text |-> text, policy |-> rules, decision |-> decision])
    BY <1>1, <2>1, <2>2, WhatMayPass DEF DecisionInv
  <2> QED BY <1>1, <2>1, <2>2, <2>3, HandedOn DEF DecisionInv
<1>8. CASE Security!Administer
  <2>1. UNCHANGED <<request, passed, stored, stage, decision, rules>>
    BY <1>8 DEF Security!Administer, Security!CreatePolicy, Security!UpdatePolicy,
       Security!DeletePolicy, Security!ChangePlan, Security!given, Security!rows
  <2>2. Decided => Decided'
    BY <2>1, DecidedStays
  <2>3. Security!Index' = Security!Index /\ Security!Part' = Security!Part
    BY <2>1 DEF Security!Index, Security!Part
  <2> QED BY <1>1, <2>1, <2>2, <2>3, NothingHandedOn DEF DecisionInv
<1>9. CASE UNCHANGED Security!vars
  <2>1. UNCHANGED <<request, passed, stored, stage, decision, rules>>
    BY <1>9 DEF Security!vars, Security!given, Security!rows
  <2>2. Decided => Decided'
    BY <2>1, DecidedStays
  <2>3. Security!Index' = Security!Index /\ Security!Part' = Security!Part
    BY <2>1 DEF Security!Index, Security!Part
  <2> QED BY <1>1, <2>1, <2>2, <2>3, NothingHandedOn DEF DecisionInv
<1> QED BY <1>2, <1>3, <1>4, <1>5, <1>6, <1>7, <1>8, <1>9
        DEF Security!Next, Security!Resolve, Security!Assess, Security!Answer

(* For any requests, rules and inspectors, if the redaction of a text      *)
(* leaves nothing of its evidence: what is handed on was decided upon, its *)
(* findings are stored, and nothing in it was to be blocked or is to be    *)
(* hidden, whatever administrators and the store do in between (assess of  *)
(* gateway-server, v03.rs, and SecurityPipeline::inspect).                 *)
THEOREM PassedIsInspectedHolds ==
  ASSUME Security!RedactionHides
  PROVE  Security!Spec => []PassedIsInspected
<1>1. Security!Init => DecisionInv
  <2> SUFFICES ASSUME Security!Init PROVE DecisionInv
    OBVIOUS
  <2>1. passed = << >> /\ stage = "policies"
    BY DEF Security!Init
  <2>2. passed \in Seq({}) /\ DOMAIN passed = {}
    BY <2>1
  <2> QED BY <2>1, <2>2, FoldInit DEF DecisionInv
<1>2. DecisionInv /\ [Security!Next]_(Security!vars) => DecisionInv'
  BY DecisionStep
<1>3. DecisionInv => PassedIsInspected
  BY DEF DecisionInv, IsInspected, PassedIsInspected, Security!PassedIsInspected
<1> QED BY <1>1, <1>2, <1>3, PTL DEF Security!Spec

=============================================================================
