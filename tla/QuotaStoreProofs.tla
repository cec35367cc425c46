--------------------------- MODULE QuotaStoreProofs ---------------------------
(***************************************************************************)
(* Proofs about QuotaStore for any number of keys and requests, any limits *)
(* and any charges.                                                        *)
(*                                                                         *)
(* The invariant follows a check through its transaction: after the first  *)
(* of its two reads the sum it holds is at most behind by what was charged *)
(* meanwhile (OwnerRead, PlanRead); once it has passed, there is room for  *)
(* the request until it inserts (OwnerRoom, PlanRoom), because the row     *)
(* lock keeps every other reservation of the account out                   *)
(* (OneCheckPerOwner, OnePlanCheck).                                       *)
(***************************************************************************)
EXTENDS QuotaStore, FiniteSetTheorems, TLAPS

PassedOwner == {"ownerOk", "scopeUsed", "scopeOk", "ready"}
PassedPlan  == OwnerPhases \union {"planOk"}

OnePlanCheck ==
  \A q, r \in Requests : HoldsPlan(q) /\ HoldsPlan(r) => q = r

OwnerRead ==
  \A q \in Requests : phase[q] = "used" =>
    today[OwnerOf[q]] <= seen[q] + excess[OwnerOf[q]] + skew[OwnerOf[q]]

OwnerRoom ==
  \A q \in Requests : phase[q] \in PassedOwner =>
    /\ pending[OwnerOf[q]] + Cost[q] <= Limit[OwnerOf[q]]
    /\ today[OwnerOf[q]] + pending[OwnerOf[q]] + Cost[q]
         <= Limit[OwnerOf[q]] + excess[OwnerOf[q]] + skew[OwnerOf[q]]

PlanRead ==
  \A q \in Requests : phase[q] = "planUsed" =>
    month[Tenant] <= seen[q] + excess[Tenant] + skew[Tenant]

PlanRoom ==
  \A q \in Requests : managed /\ phase[q] \in PassedPlan =>
    month[Tenant] + pending[Tenant] + Cost[q]
      <= PlanLimit + excess[Tenant] + skew[Tenant]

OwnerTotals == \A o \in Owners : today[o] <= today[Tenant]

OwnerInv ==
  /\ TypeOK /\ OneCheckPerOwner /\ OwnerTotals /\ OwnerRead /\ OwnerRoom
  /\ PendingWithinLimit /\ OwnerOvershootExplained

PlanInv ==
  /\ TypeOK /\ OnePlanCheck /\ PlanRead /\ PlanRoom /\ PlanOvershootExplained

-----------------------------------------------------------------------------
LEMMA OwnersAreAccounts ==
  /\ \A q \in Requests : OwnerOf[q] \in Owners /\ OwnerOf[q] \in Accounts
  /\ \A q \in Requests : OwnerOf[q] # Tenant
  /\ Tenant \in Accounts /\ Jwt \in Owners /\ Owners \subseteq Accounts
  /\ Tenant \notin Owners
  /\ \A q \in Requests : Cost[q] \in Nat
  /\ \A o \in Owners : Limit[o] \in Nat
BY ConstantsAssumption DEF Owners, Accounts

LEMMA ShareIsNat ==
  ASSUME NEW q \in Requests, NEW a, NEW n \in Nat
  PROVE  Share(q, a, n) \in Nat
BY DEF Share

(* What appending one event of n tokens does to the totals of an account.  *)
LEMMA AppendEffect ==
  ASSUME TypeOK, NEW q \in Requests, NEW n \in Nat, NEW h \in Nat,
         AppendUsage(q, n, h), NEW a \in Accounts
  PROVE  /\ today'[a] = today[a] + Share(q, a, n)
         /\ month'[a] = month[a] + Share(q, a, n)
         /\ pending'[a] = pending[a] - Share(q, a, h)
         /\ excess'[a] + skew'[a] - excess[a] - skew[a] \in Nat
         /\ excess'[a] + skew'[a] - excess[a] - skew[a]
              >= Share(q, a, n) - Share(q, a, h)
         /\ (\E r \in Requests : Between(r, a)) =>
              excess'[a] + skew'[a] - excess[a] - skew[a] >= Share(q, a, n)
         /\ excess'[a] \in Nat /\ skew'[a] \in Nat
         /\ (~ \E r \in Requests : Between(r, a)) => skew'[a] = skew[a]
<1> USE DEF AppendUsage, TypeOK, Share
<1>1. CASE a \notin AccountsOf(q)
  BY <1>1
<1>2. CASE a \in AccountsOf(q) /\ n > h
  BY <1>2
<1>3. CASE a \in AccountsOf(q) /\ ~(n > h)
  BY <1>3
<1> QED BY <1>1, <1>2, <1>3

LEMMA AppendTypes ==
  ASSUME TypeOK, NEW q \in Requests, NEW n \in Nat, NEW h \in Nat,
         AppendUsage(q, n, h)
  PROVE  /\ today' \in [Accounts -> Nat] /\ month' \in [Accounts -> Nat]
         /\ events' \in [Accounts -> Nat] /\ pending' \in [Accounts -> Int]
         /\ excess' \in [Accounts -> Nat] /\ skew' \in [Accounts -> Nat]
BY DEF AppendUsage, TypeOK, Share

(* Every variable keeps its type.                                          *)
THEOREM TypeCorrect == Spec => []TypeOK
<1>1. Init => TypeOK
  BY DEF Init, TypeOK, Zero, Phases
<1>2. TypeOK /\ [Next]_vars => TypeOK'
  <2> SUFFICES ASSUME TypeOK, [Next]_vars PROVE TypeOK'
    OBVIOUS
  <2>1. ASSUME NEW q \in Requests, ReserveStep(q) \/ Abort(q)
        PROVE  TypeOK'
    <3> USE <2>1, OwnersAreAccounts
        DEF TypeOK, Phases, PlanPhases, OwnerPhases, TxPhases, EndPhases,
            Goto, Test, ReadSum, ledger, ghosts
    <3>1. CASE LockPlan(q) \/ CheckPlan(q) \/ LockOwner(q) \/ CheckKey(q)
                 \/ CheckOwner(q) \/ CheckScopeTokens(q)
                 \/ CheckScopeActive(q) \/ Abort(q)
      BY <3>1 DEF LockPlan, CheckPlan, LockOwner, CheckKey, CheckOwner,
                  CheckScopeTokens, CheckScopeActive, Abort
    <3>2. CASE ReadPlanUsed(q) \/ ReadUsed(q) \/ ReadScopeUsed(q)
      BY <3>2 DEF ReadPlanUsed, ReadUsed, ReadScopeUsed, UsedAccount
    <3>3. CASE InsertReservation(q)
      BY <3>3 DEF InsertReservation
    <3> QED BY <3>1, <3>2, <3>3 DEF ReserveStep
  <2>2. ASSUME NEW q \in Requests, NEW n \in 0 .. MaxCharge,
               FinalizeUsage(q, n)
        PROVE  TypeOK'
    <3>1. n \in Nat /\ Cost[q] \in Nat
      BY ConstantsAssumption
    <3> QED
      BY <2>2, <3>1, AppendTypes
      DEF FinalizeUsage, TypeOK, Phases, EndPhases, Goto
  <2>3. ASSUME NEW q \in Requests, FinalizeReleased(q)
        PROVE  TypeOK'
    <3>1. Cost[q] \in Nat /\ 0 \in Nat
      BY ConstantsAssumption
    <3> QED
      BY <2>3, <3>1, AppendTypes
      DEF FinalizeReleased, TypeOK, Phases, EndPhases, Goto
  <2>4. ASSUME NEW q \in Requests, ReleaseReservation(q) \/ Expire(q)
        PROVE  TypeOK'
    BY <2>4, OwnersAreAccounts
    DEF ReleaseReservation, Expire, TypeOK, Phases, EndPhases, Goto, Share,
        ledger, ghosts
  <2>5. CASE ExpiredReservations
    BY <2>5 DEF ExpiredReservations, TypeOK, ledger, ghosts
  <2>6. ASSUME NEW k \in Keys, RevokeVirtualKey(k)
        PROVE  TypeOK'
    BY <2>6 DEF RevokeVirtualKey, TypeOK, ledger, ghosts
  <2>7. CASE NewDay
    BY <2>7 DEF NewDay, TypeOK, Zero
  <2>8. CASE UNCHANGED vars
    BY <2>8 DEF vars, ledger, ghosts, TypeOK
  <2> QED BY <2>1, <2>2, <2>3, <2>4, <2>5, <2>6, <2>7, <2>8 DEF Next
<1> QED BY <1>1, <1>2, PTL DEF Spec

-----------------------------------------------------------------------------
(* The row lock of an owner is exclusive.                                  *)
LEMMA OwnerLockStep ==
  ASSUME TypeOK, OneCheckPerOwner, [Next]_vars
  PROVE  OneCheckPerOwner'
<1> USE DEF OneCheckPerOwner, HoldsOwner, TypeOK
<1>1. ASSUME NEW q \in Requests, LockOwner(q)
      PROVE  OneCheckPerOwner'
  BY <1>1 DEF LockOwner, Test, Goto, OwnerPhases
<1>2. ASSUME NEW q \in Requests,
             \A r \in Requests : r # q => phase'[r] = phase[r],
             phase'[q] \in OwnerPhases => phase[q] \in OwnerPhases
      PROVE  OneCheckPerOwner'
  BY <1>2
<1>3. ASSUME NEW q \in Requests, ReserveStep(q) \/ Abort(q)
      PROVE  OneCheckPerOwner'
  <2>1. CASE LockOwner(q)
    BY <2>1, <1>1
  <2>2. CASE ~LockOwner(q)
    <3>1. /\ \A r \in Requests : r # q => phase'[r] = phase[r]
          /\ phase'[q] \in OwnerPhases => phase[q] \in OwnerPhases
      BY <1>3, <2>2
      DEF ReserveStep, Abort, LockPlan, ReadPlanUsed, CheckPlan, CheckKey,
          ReadUsed, CheckOwner, ReadScopeUsed, CheckScopeTokens,
          CheckScopeActive, InsertReservation, Test, ReadSum, Goto,
          OwnerPhases
    <3> QED BY <3>1, <1>2
  <2> QED BY <2>1, <2>2
<1>4. ASSUME NEW q \in Requests, NEW n \in 0 .. MaxCharge,
             FinalizeUsage(q, n)
      PROVE  OneCheckPerOwner'
  BY <1>4, <1>2 DEF FinalizeUsage, Goto, OwnerPhases
<1>5. ASSUME NEW q \in Requests,
             FinalizeReleased(q) \/ ReleaseReservation(q) \/ Expire(q)
      PROVE  OneCheckPerOwner'
  BY <1>5, <1>2
  DEF FinalizeReleased, ReleaseReservation, Expire, Goto, OwnerPhases
<1>6. ASSUME UNCHANGED phase
      PROVE  OneCheckPerOwner'
  BY <1>6
<1>7. ExpiredReservations \/ NewDay \/ UNCHANGED vars
        \/ (\E k \in Keys : RevokeVirtualKey(k)) => UNCHANGED phase
  BY DEF ExpiredReservations, NewDay, RevokeVirtualKey, vars
<1> QED BY <1>3, <1>4, <1>5, <1>6, <1>7 DEF Next

(* No two open reserve_quota transactions hold the row of the same owner.  *)
THEOREM OneCheckPerOwnerHolds == Spec => []OneCheckPerOwner
<1>1. Init => OneCheckPerOwner
  BY DEF Init, OneCheckPerOwner, HoldsOwner, OwnerPhases
<1> QED BY <1>1, OwnerLockStep, TypeCorrect, PTL DEF Spec

-----------------------------------------------------------------------------
(* The tests of reserve_quota other than CheckOwner: no total moves, and   *)
(* the request gains no room.                                              *)
LEMMA OwnerQuietStep ==
  ASSUME OwnerInv, OneCheckPerOwner', UNCHANGED <<ledger, ghosts>>,
         \A r \in Requests : phase'[r] = "used"
                               => phase[r] = "used" /\ seen'[r] = seen[r],
         \A r \in Requests : phase'[r] \in PassedOwner
                               => phase[r] \in PassedOwner,
         TypeOK'
  PROVE  OwnerInv'
BY OwnersAreAccounts
DEF OwnerInv, OwnerTotals, OwnerRead, OwnerRoom, PendingWithinLimit,
    OwnerOvershootExplained, ledger, ghosts, TypeOK

LEMMA OwnerReserveStep ==
  ASSUME OwnerInv, OneCheckPerOwner', TypeOK', NEW q \in Requests,
         ReserveStep(q) \/ Abort(q)
  PROVE  OwnerInv'
<1> USE OwnersAreAccounts
<1>t. TypeOK
  BY DEF OwnerInv
<1>1. CASE ReadUsed(q)
  <2>1. seen'[q] >= today[OwnerOf[q]]
    BY <1>1, <1>t DEF ReadUsed, ReadSum, UsedAccount, OwnerInv, OwnerTotals,
                      TypeOK
  <2>2. /\ \A r \in Requests : r # q => phase'[r] = phase[r]
                                        /\ seen'[r] = seen[r]
        /\ phase'[q] = "used"
        /\ UNCHANGED <<ledger, ghosts>>
    BY <1>1, <1>t DEF ReadUsed, ReadSum, Goto, TypeOK
  <2>3. OwnerRead'
    BY <2>1, <2>2, <1>t DEF OwnerInv, OwnerRead, TypeOK, ledger, ghosts
  <2>4. OwnerRoom'
    BY <2>2, <1>t DEF OwnerInv, OwnerRoom, TypeOK, ledger, ghosts,
                      PassedOwner
  <2> QED
    BY <2>2, <2>3, <2>4
    DEF OwnerInv, OwnerTotals, PendingWithinLimit, OwnerOvershootExplained,
        ledger, ghosts
<1>2. CASE CheckOwner(q)
  <2>1. /\ \A r \in Requests : r # q => phase'[r] = phase[r]
        /\ UNCHANGED <<seen, ledger, ghosts>>
        /\ phase[q] = "used"
        /\ phase'[q] \in {"ownerOk", "denied"}
        /\ phase'[q] = "ownerOk" =>
             seen[q] + pending[OwnerOf[q]] + Cost[q] <= Limit[OwnerOf[q]]
    BY <1>2, <1>t DEF CheckOwner, Test, Goto, TypeOK
  <2>2. OwnerRead'
    BY <2>1, <1>t DEF OwnerInv, OwnerRead, TypeOK, ledger, ghosts
  <2>3. OwnerRoom'
    <3> SUFFICES ASSUME NEW r \in Requests, phase'[r] \in PassedOwner
                 PROVE  /\ pending[OwnerOf[r]] + Cost[r] <= Limit[OwnerOf[r]]
                        /\ today[OwnerOf[r]] + pending[OwnerOf[r]] + Cost[r]
                             <= Limit[OwnerOf[r]] + excess[OwnerOf[r]]
                                  + skew[OwnerOf[r]]
      BY <2>1 DEF OwnerRoom, ledger, ghosts
    <3>1. CASE r = q
      <4>1. today[OwnerOf[q]] <= seen[q] + excess[OwnerOf[q]]
                                   + skew[OwnerOf[q]]
        BY <2>1 DEF OwnerInv, OwnerRead
      <4>2. seen[q] + pending[OwnerOf[q]] + Cost[q] <= Limit[OwnerOf[q]]
        BY <2>1, <3>1 DEF PassedOwner
      <4> QED BY <3>1, <4>1, <4>2, <1>t DEF TypeOK
    <3>2. CASE r # q
      BY <3>2, <2>1 DEF OwnerInv, OwnerRoom
    <3> QED BY <3>1, <3>2
  <2> QED
    BY <2>1, <2>2, <2>3
    DEF OwnerInv, OwnerTotals, PendingWithinLimit, OwnerOvershootExplained,
        ledger, ghosts
<1>3. CASE InsertReservation(q)
  <2> DEFINE o == OwnerOf[q]
  <2>1. /\ phase[q] = "ready" /\ phase'[q] = "held"
        /\ \A r \in Requests : r # q => phase'[r] = phase[r]
        /\ UNCHANGED <<seen, today, ghosts>>
        /\ pending'[o] = pending[o] + Cost[q]
        /\ \A p \in Owners : p # o => pending'[p] = pending[p]
    BY <1>3, <1>t DEF InsertReservation, Goto, TypeOK, AccountsOf
  <2>2. /\ pending[o] + Cost[q] <= Limit[o]
        /\ today[o] + pending[o] + Cost[q] <= Limit[o] + excess[o] + skew[o]
    BY <2>1 DEF OwnerInv, OwnerRoom, PassedOwner
  <2>3. OwnerRead'
    BY <2>1, <1>t DEF OwnerInv, OwnerRead, TypeOK, ghosts
  <2>4. OwnerRoom'
    <3> SUFFICES ASSUME NEW r \in Requests, phase'[r] \in PassedOwner
                 PROVE  OwnerOf[r] # o /\ phase[r] \in PassedOwner
      BY <2>1, <1>t DEF OwnerInv, OwnerRoom, ghosts, TypeOK
    <3>1. r # q /\ phase[r] \in PassedOwner
      BY <2>1 DEF PassedOwner
    <3>2. HoldsOwner(r) /\ HoldsOwner(q)
      BY <3>1, <2>1 DEF HoldsOwner, OwnerPhases, PassedOwner
    <3> QED BY <3>1, <3>2 DEF OwnerInv, OneCheckPerOwner
  <2>5. PendingWithinLimit' /\ OwnerOvershootExplained'
    <3> SUFFICES ASSUME NEW p \in Owners
                 PROVE  /\ pending'[p] <= Limit[p]
                        /\ today[p] + pending'[p]
                             <= Limit[p] + excess[p] + skew[p]
      BY <2>1 DEF PendingWithinLimit, OwnerOvershootExplained, ghosts
    <3>1. CASE p = o
      BY <3>1, <2>1, <2>2, <1>t DEF TypeOK
    <3>2. CASE p # o
      BY <3>2, <2>1 DEF OwnerInv, PendingWithinLimit,
                        OwnerOvershootExplained
    <3> QED BY <3>1, <3>2
  <2>6. OwnerTotals'
    BY <2>1 DEF OwnerInv, OwnerTotals
  <2> QED BY <2>3, <2>4, <2>5, <2>6 DEF OwnerInv
<1>4. CASE ~ReadUsed(q) /\ ~CheckOwner(q) /\ ~InsertReservation(q)
  <2>1. /\ UNCHANGED <<ledger, ghosts>>
        /\ \A r \in Requests : phase'[r] = "used"
                                 => phase[r] = "used" /\ seen'[r] = seen[r]
        /\ \A r \in Requests : phase'[r] \in PassedOwner
                                 => phase[r] \in PassedOwner
    BY <1>4, <1>t
    DEF ReserveStep, Abort, LockPlan, ReadPlanUsed, CheckPlan, CheckKey,
        LockOwner, ReadScopeUsed, CheckScopeTokens, CheckScopeActive, Test,
        ReadSum, Goto, PassedOwner, TypeOK
  <2> QED BY <2>1, OwnerQuietStep
<1> QED BY <1>1, <1>2, <1>3, <1>4

(* A charge: the totals of an account rise by the charge and fall by the   *)
(* reservation; what is not covered by the latter is recorded as excess or *)
(* skew.                                                                   *)
LEMMA OwnerAppendStep ==
  ASSUME OwnerInv, OneCheckPerOwner', TypeOK',
         NEW q \in Requests, NEW n \in Nat, NEW h \in Nat,
         AppendUsage(q, n, h), Goto(q, "charged"), UNCHANGED seen
  PROVE  OwnerInv'
<1> USE OwnersAreAccounts
<1>t. TypeOK
  BY DEF OwnerInv
<1>1. \A r \in Requests : phase'[r] \in PassedOwner \union {"used"}
                            => r # q /\ phase'[r] = phase[r]
  BY <1>t DEF Goto, TypeOK, PassedOwner
<1>2. ASSUME NEW a \in Accounts
      PROVE  /\ today'[a] = today[a] + Share(q, a, n)
             /\ pending'[a] = pending[a] - Share(q, a, h)
             /\ today[a] \in Nat /\ pending[a] \in Int
             /\ excess[a] \in Nat /\ skew[a] \in Nat
             /\ excess'[a] \in Nat /\ skew'[a] \in Nat
             /\ Share(q, a, n) \in Nat /\ Share(q, a, h) \in Nat
             /\ excess'[a] + skew'[a]
                  >= excess[a] + skew[a] + Share(q, a, n) - Share(q, a, h)
             /\ (\E r \in Requests : Between(r, a)) =>
                  excess'[a] + skew'[a]
                    >= excess[a] + skew[a] + Share(q, a, n)
  <2>1. /\ today[a] \in Nat /\ pending[a] \in Int
        /\ excess[a] \in Nat /\ skew[a] \in Nat
    BY <1>t DEF TypeOK
  <2>2. Share(q, a, n) \in Nat /\ Share(q, a, h) \in Nat
    BY ShareIsNat
  <2>3. /\ today'[a] = today[a] + Share(q, a, n)
        /\ pending'[a] = pending[a] - Share(q, a, h)
        /\ excess'[a] + skew'[a] - excess[a] - skew[a]
             >= Share(q, a, n) - Share(q, a, h)
        /\ (\E r \in Requests : Between(r, a)) =>
             excess'[a] + skew'[a] - excess[a] - skew[a] >= Share(q, a, n)
        /\ excess'[a] \in Nat /\ skew'[a] \in Nat
    BY <1>t, AppendEffect
  <2> QED BY <2>1, <2>2, <2>3
<1>3. OwnerTotals'
  <2> SUFFICES ASSUME NEW o \in Owners PROVE today'[o] <= today'[Tenant]
    BY DEF OwnerTotals
  <2>1. Share(q, Tenant, n) = n /\ Share(q, o, n) <= n
    BY DEF Share, AccountsOf
  <2>2. today[o] <= today[Tenant]
    BY DEF OwnerInv, OwnerTotals
  <2>3. today'[o] = today[o] + Share(q, o, n)
    BY <1>2
  <2>4. today'[Tenant] = today[Tenant] + Share(q, Tenant, n)
    BY <1>2
  <2>5. today[o] \in Nat /\ today[Tenant] \in Nat /\ Share(q, o, n) \in Nat
    BY <1>2
  <2> QED BY <2>1, <2>2, <2>3, <2>4, <2>5
<1>4. OwnerRead'
  <2> SUFFICES ASSUME NEW r \in Requests, phase'[r] = "used"
               PROVE  today'[OwnerOf[r]] <= seen[r] + excess'[OwnerOf[r]]
                                              + skew'[OwnerOf[r]]
    BY DEF OwnerRead
  <2> DEFINE o == OwnerOf[r]
  <2>1. phase[r] = "used" /\ Between(r, o)
    BY <1>1 DEF Between
  <2>2. today[o] <= seen[r] + excess[o] + skew[o]
    BY <2>1 DEF OwnerInv, OwnerRead
  <2>3. excess'[o] + skew'[o] >= excess[o] + skew[o] + Share(q, o, n)
    BY <2>1, <1>2
  <2>4. /\ today'[o] = today[o] + Share(q, o, n)
        /\ today[o] \in Nat /\ excess[o] \in Nat /\ skew[o] \in Nat
        /\ excess'[o] \in Nat /\ skew'[o] \in Nat /\ seen[r] \in Nat
        /\ Share(q, o, n) \in Nat
    BY <1>2, <1>t DEF TypeOK
  <2> HIDE DEF o
  <2>5. today'[o] <= seen[r] + excess'[o] + skew'[o]
    BY <2>2, <2>3, <2>4
  <2> QED BY <2>5 DEF o
<1>5. ASSUME NEW o \in Owners, NEW c \in Nat,
             pending[o] + c <= Limit[o],
             today[o] + pending[o] + c <= Limit[o] + excess[o] + skew[o]
      PROVE  /\ pending'[o] + c <= Limit[o]
             /\ today'[o] + pending'[o] + c
                  <= Limit[o] + excess'[o] + skew'[o]
  <2>1. /\ today'[o] = today[o] + Share(q, o, n)
        /\ pending'[o] = pending[o] - Share(q, o, h)
        /\ today[o] \in Nat /\ pending[o] \in Int /\ Limit[o] \in Nat
        /\ excess[o] \in Nat /\ skew[o] \in Nat
        /\ excess'[o] \in Nat /\ skew'[o] \in Nat
        /\ Share(q, o, n) \in Nat /\ Share(q, o, h) \in Nat
        /\ excess'[o] + skew'[o]
             >= excess[o] + skew[o] + Share(q, o, n) - Share(q, o, h)
    BY <1>2
  <2> QED BY <2>1, <1>5
<1>6. OwnerRoom'
  <2> SUFFICES ASSUME NEW r \in Requests, phase'[r] \in PassedOwner
               PROVE  /\ pending'[OwnerOf[r]] + Cost[r] <= Limit[OwnerOf[r]]
                      /\ today'[OwnerOf[r]] + pending'[OwnerOf[r]] + Cost[r]
                           <= Limit[OwnerOf[r]] + excess'[OwnerOf[r]]
                                + skew'[OwnerOf[r]]
    BY DEF OwnerRoom
  <2>1. phase[r] \in PassedOwner
    BY <1>1
  <2>2. /\ pending[OwnerOf[r]] + Cost[r] <= Limit[OwnerOf[r]]
        /\ today[OwnerOf[r]] + pending[OwnerOf[r]] + Cost[r]
             <= Limit[OwnerOf[r]] + excess[OwnerOf[r]] + skew[OwnerOf[r]]
    BY <2>1 DEF OwnerInv, OwnerRoom
  <2> QED BY <2>2, <1>5
<1>7. PendingWithinLimit' /\ OwnerOvershootExplained'
  <2> SUFFICES ASSUME NEW o \in Owners
               PROVE  /\ pending'[o] <= Limit[o]
                      /\ today'[o] + pending'[o]
                           <= Limit[o] + excess'[o] + skew'[o]
    BY DEF PendingWithinLimit, OwnerOvershootExplained
  <2>1. /\ pending[o] <= Limit[o]
        /\ today[o] + pending[o] <= Limit[o] + excess[o] + skew[o]
    BY DEF OwnerInv, PendingWithinLimit, OwnerOvershootExplained
  <2>2. today[o] \in Nat /\ pending[o] \in Int /\ today'[o] \in Nat
        /\ pending'[o] \in Int
    BY <1>t DEF TypeOK
  <2>3. /\ pending'[o] + 0 <= Limit[o]
        /\ today'[o] + pending'[o] + 0 <= Limit[o] + excess'[o] + skew'[o]
    BY <2>1, <2>2, <1>5
  <2> QED BY <2>2, <2>3
<1> QED BY <1>3, <1>4, <1>6, <1>7 DEF OwnerInv

LEMMA OwnerReleaseStep ==
  ASSUME OwnerInv, OneCheckPerOwner', TypeOK', NEW q \in Requests,
         ReleaseReservation(q)
  PROVE  OwnerInv'
<1> USE OwnersAreAccounts
<1>t. TypeOK
  BY DEF OwnerInv
<1>1. /\ UNCHANGED <<seen, today, ghosts>>
      /\ \A r \in Requests :
           phase'[r] \in PassedOwner \union {"used"} => phase'[r] = phase[r]
      /\ \A o \in Owners : pending'[o] <= pending[o]
  BY <1>t DEF ReleaseReservation, Goto, TypeOK, PassedOwner, Share
<1>2. OwnerRead' /\ OwnerTotals'
  BY <1>1 DEF OwnerInv, OwnerRead, OwnerTotals, ghosts
<1>3. ASSUME NEW o \in Owners
      PROVE  /\ pending'[o] <= pending[o]
             /\ pending'[o] \in Int /\ pending[o] \in Int
             /\ today'[o] = today[o] /\ excess'[o] = excess[o]
             /\ skew'[o] = skew[o] /\ today[o] \in Nat
             /\ excess[o] \in Nat /\ skew[o] \in Nat
  BY <1>1, <1>t DEF TypeOK, ghosts
<1>4. OwnerRoom'
  <2> SUFFICES ASSUME NEW r \in Requests, phase'[r] \in PassedOwner
               PROVE  /\ pending'[OwnerOf[r]] + Cost[r] <= Limit[OwnerOf[r]]
                      /\ today'[OwnerOf[r]] + pending'[OwnerOf[r]] + Cost[r]
                           <= Limit[OwnerOf[r]] + excess'[OwnerOf[r]]
                                + skew'[OwnerOf[r]]
    BY DEF OwnerRoom
  <2>1. /\ pending[OwnerOf[r]] + Cost[r] <= Limit[OwnerOf[r]]
        /\ today[OwnerOf[r]] + pending[OwnerOf[r]] + Cost[r]
             <= Limit[OwnerOf[r]] + excess[OwnerOf[r]] + skew[OwnerOf[r]]
    BY <1>1 DEF OwnerInv, OwnerRoom
  <2> QED BY <2>1, <1>3
<1>5. PendingWithinLimit' /\ OwnerOvershootExplained'
  BY <1>3 DEF OwnerInv, PendingWithinLimit, OwnerOvershootExplained
<1> QED BY <1>2, <1>4, <1>5 DEF OwnerInv

LEMMA OwnerNewDayStep ==
  ASSUME OwnerInv, OneCheckPerOwner', TypeOK', NewDay
  PROVE  OwnerInv'
<1> USE OwnersAreAccounts
<1>t. TypeOK
  BY DEF OwnerInv
<1>1. \A r \in Requests : phase'[r] \notin PassedOwner \union {"used"}
  BY DEF NewDay, TxPhases, OwnerPhases, PassedOwner
<1>2. OwnerRead' /\ OwnerRoom'
  BY <1>1 DEF OwnerRead, OwnerRoom
<1>3. OwnerTotals' /\ PendingWithinLimit'
  BY DEF NewDay, Zero, OwnerTotals, PendingWithinLimit, OwnerInv
<1>4. OwnerOvershootExplained'
  BY <1>t DEF NewDay, Zero, OwnerOvershootExplained, PendingWithinLimit,
              OwnerInv, TypeOK
<1> QED BY <1>2, <1>3, <1>4 DEF OwnerInv

LEMMA OwnerStep ==
  ASSUME OwnerInv, [Next]_vars, TypeOK'
  PROVE  OwnerInv'
<1>1. OneCheckPerOwner'
  BY OwnerLockStep DEF OwnerInv
<1>2. ASSUME NEW q \in Requests, ReserveStep(q) \/ Abort(q)
      PROVE  OwnerInv'
  BY <1>1, <1>2, OwnerReserveStep
<1>3. ASSUME NEW q \in Requests, NEW n \in 0 .. MaxCharge,
             FinalizeUsage(q, n)
      PROVE  OwnerInv'
  <2>1. n \in Nat /\ Cost[q] \in Nat
    BY ConstantsAssumption
  <2> QED BY <1>1, <1>3, <2>1, OwnerAppendStep DEF FinalizeUsage
<1>4. ASSUME NEW q \in Requests, FinalizeReleased(q)
      PROVE  OwnerInv'
  <2>1. 0 \in Nat /\ Cost[q] \in Nat
    BY ConstantsAssumption
  <2> QED BY <1>1, <1>4, <2>1, OwnerAppendStep DEF FinalizeReleased
<1>5. ASSUME NEW q \in Requests, ReleaseReservation(q)
      PROVE  OwnerInv'
  BY <1>1, <1>5, OwnerReleaseStep
<1>6. ASSUME UNCHANGED <<phase, seen, ledger, ghosts>>
      PROVE  OwnerInv'
  BY <1>1, <1>6, OwnerQuietStep
<1>7. \/ \E q \in Requests : Expire(q)
      \/ ExpiredReservations \/ (\E k \in Keys : RevokeVirtualKey(k))
      \/ UNCHANGED vars
      => UNCHANGED <<phase, seen, ledger, ghosts>>
  BY DEF Expire, ExpiredReservations, RevokeVirtualKey, vars
<1>8. CASE NewDay
  BY <1>1, <1>8, OwnerNewDayStep
<1> QED BY <1>2, <1>3, <1>4, <1>5, <1>6, <1>7, <1>8 DEF Next

(* The daily limit of every owner: over it only by charges above their     *)
(* reservation or between the two reads of a check; and the reservations   *)
(* of an owner alone never exceed it.                                      *)
THEOREM OwnerLimits ==
  Spec => [](OwnerOvershootExplained /\ PendingWithinLimit)
<1>1. Init => OwnerInv
  BY OwnersAreAccounts
  DEF Init, OwnerInv, TypeOK, Phases, Zero, OneCheckPerOwner, HoldsOwner,
      OwnerPhases, OwnerTotals, OwnerRead, OwnerRoom, PassedOwner,
      PendingWithinLimit, OwnerOvershootExplained
<1>2. OwnerInv => OwnerOvershootExplained /\ PendingWithinLimit
  BY DEF OwnerInv
<1> QED BY <1>1, <1>2, OwnerStep, TypeCorrect, PTL DEF Spec

-----------------------------------------------------------------------------
(* While a JWT request is between its two reads it has the tenant's row    *)
(* locked, and no charge commits: the JWT owner collects no skew.          *)
NoJwtSkew == skew[Jwt] = 0

LEMMA JwtAppendStep ==
  ASSUME TypeOK, NoJwtSkew, NEW q \in Requests, NEW n \in Nat, NEW h \in Nat,
         AppendUsage(q, n, h), ~TenantRowLocked
  PROVE  NoJwtSkew'
<1>1. ~ \E r \in Requests : Between(r, Jwt)
  BY OwnersAreAccounts
  DEF Between, TenantRowLocked, HoldsOwner, OwnerPhases
<1>2. Jwt \in Accounts
  BY OwnersAreAccounts
<1> QED BY <1>1, <1>2, AppendEffect DEF NoJwtSkew

LEMMA JwtStep ==
  ASSUME TypeOK, NoJwtSkew, [Next]_vars
  PROVE  NoJwtSkew'
<1>1. ASSUME NEW q \in Requests, NEW n \in 0 .. MaxCharge,
             FinalizeUsage(q, n)
      PROVE  NoJwtSkew'
  <2>1. n \in Nat /\ Cost[q] \in Nat
    BY ConstantsAssumption
  <2> QED BY <1>1, <2>1, JwtAppendStep DEF FinalizeUsage
<1>2. ASSUME NEW q \in Requests, FinalizeReleased(q)
      PROVE  NoJwtSkew'
  <2>1. 0 \in Nat /\ Cost[q] \in Nat
    BY ConstantsAssumption
  <2> QED BY <1>2, <2>1, JwtAppendStep DEF FinalizeReleased
<1>3. CASE NewDay
  BY <1>3, OwnersAreAccounts DEF NewDay, NoJwtSkew
<1>4. ASSUME NEW q \in Requests,
             ReserveStep(q) \/ Abort(q) \/ ReleaseReservation(q) \/ Expire(q)
      PROVE  NoJwtSkew'
  BY <1>4
  DEF ReserveStep, Abort, LockPlan, ReadPlanUsed, CheckPlan, LockOwner,
      CheckKey, ReadUsed, CheckOwner, ReadScopeUsed, CheckScopeTokens,
      CheckScopeActive, InsertReservation, ReleaseReservation, Expire, Test,
      ReadSum, ghosts, NoJwtSkew
<1>5. CASE ExpiredReservations \/ UNCHANGED vars
             \/ \E k \in Keys : RevokeVirtualKey(k)
  BY <1>5 DEF ExpiredReservations, RevokeVirtualKey, vars, ghosts, NoJwtSkew
<1> QED BY <1>1, <1>2, <1>3, <1>4, <1>5 DEF Next

(* The JWT owner exceeds its daily limit by no race, only by charges above *)
(* their reservation.                                                      *)
THEOREM JwtLimit == Spec => []JwtWithinLimit
<1>1. Init => NoJwtSkew
  BY OwnersAreAccounts DEF Init, NoJwtSkew, Zero
<1>2. TypeOK /\ OwnerOvershootExplained /\ NoJwtSkew => JwtWithinLimit
  BY OwnersAreAccounts
  DEF TypeOK, OwnerOvershootExplained, NoJwtSkew, JwtWithinLimit
<1> QED BY <1>1, <1>2, JwtStep, OwnerLimits, TypeCorrect, PTL DEF Spec

-----------------------------------------------------------------------------
(* A transaction that holds a key's row has seen the key unrevoked, and    *)
(* the revocation waits for it.                                            *)
LockedKeysAreLive ==
  \A q \in Requests : HoldsOwner(q) => OwnerOf[q] \notin revoked

LEMMA LiveKeyStep ==
  ASSUME TypeOK, LockedKeysAreLive, [Next]_vars
  PROVE  LockedKeysAreLive'
<1> USE DEF LockedKeysAreLive, HoldsOwner, OwnerPhases, TypeOK
<1>1. ASSUME NEW q \in Requests, ReserveStep(q) \/ Abort(q)
      PROVE  LockedKeysAreLive'
  BY <1>1
  DEF ReserveStep, Abort, LockPlan, ReadPlanUsed, CheckPlan, LockOwner,
      CheckKey, ReadUsed, CheckOwner, ReadScopeUsed, CheckScopeTokens,
      CheckScopeActive, InsertReservation, Test, ReadSum, Goto
<1>2. ASSUME NEW q \in Requests, NEW n \in 0 .. MaxCharge,
             FinalizeUsage(q, n) \/ FinalizeReleased(q)
               \/ ReleaseReservation(q) \/ Expire(q)
      PROVE  LockedKeysAreLive'
  BY <1>2 DEF FinalizeUsage, FinalizeReleased, ReleaseReservation, Expire,
              Goto
<1>3. ASSUME NEW k \in Keys, RevokeVirtualKey(k)
      PROVE  LockedKeysAreLive'
  BY <1>3 DEF RevokeVirtualKey
<1>4. CASE ExpiredReservations \/ NewDay \/ UNCHANGED vars
  BY <1>4 DEF ExpiredReservations, NewDay, vars
<1>5. MaxCharge \in Nat
  BY ConstantsAssumption
<1>6. 0 \in 0 .. MaxCharge
  BY <1>5
<1> QED BY <1>1, <1>2, <1>3, <1>4, <1>6 DEF Next

(* No reservation is inserted for a revoked key.                           *)
THEOREM RevokedKeys == Spec => RevokedKeyReservesNothing
<1>1. Init => LockedKeysAreLive
  BY DEF Init, LockedKeysAreLive
<1>2. LockedKeysAreLive =>
        [\A q \in Requests :
           InsertReservation(q) => OwnerOf[q] \notin revoked]_vars
  BY DEF LockedKeysAreLive, InsertReservation, HoldsOwner, OwnerPhases
<1> QED BY <1>1, <1>2, LiveKeyStep, TypeCorrect, PTL
        DEF Spec, RevokedKeyReservesNothing

-----------------------------------------------------------------------------
(* The same argument for the plan's row, which a request holds from its    *)
(* first statement to its commit.                                          *)
PlanCovered(c) ==
  month[Tenant] + pending[Tenant] + c
    <= PlanLimit + excess[Tenant] + skew[Tenant]

TenantTotalsTyped ==
  /\ month[Tenant] \in Nat /\ pending[Tenant] \in Int
  /\ excess[Tenant] \in Nat /\ skew[Tenant] \in Nat

LEMMA PlanConstants ==
  /\ Tenant \in Accounts /\ PlanLimit \in Nat
  /\ \A q \in Requests : Cost[q] \in Nat /\ Tenant \in AccountsOf(q)
  /\ TypeOK => TenantTotalsTyped
BY ConstantsAssumption DEF Accounts, AccountsOf, TenantTotalsTyped, TypeOK

LEMMA PlanReserveStep ==
  ASSUME PlanInv, TypeOK', managed, NEW q \in Requests,
         ReserveStep(q) \/ Abort(q)
  PROVE  PlanInv'
<1> USE PlanConstants
<1>t. TypeOK /\ TenantTotalsTyped
  BY DEF PlanInv
<1>o. \A r \in Requests : r # q => phase'[r] = phase[r]
  BY <1>t
  DEF ReserveStep, Abort, LockPlan, ReadPlanUsed, CheckPlan, LockOwner,
      CheckKey, ReadUsed, CheckOwner, ReadScopeUsed, CheckScopeTokens,
      CheckScopeActive, InsertReservation, Test, ReadSum, Goto, TypeOK
<1>1. OnePlanCheck'
  <2>1. CASE LockPlan(q)
    BY <2>1, <1>o DEF LockPlan, OnePlanCheck, HoldsPlan
  <2>2. CASE ~LockPlan(q)
    <3>1. phase'[q] \in TxPhases => phase[q] \in TxPhases
      BY <2>2, <1>t
      DEF ReserveStep, Abort, ReadPlanUsed, CheckPlan, LockOwner, CheckKey,
          ReadUsed, CheckOwner, ReadScopeUsed, CheckScopeTokens,
          CheckScopeActive, InsertReservation, Test, ReadSum, Goto, TypeOK,
          TxPhases, OwnerPhases, PlanPhases
    <3> QED BY <3>1, <1>o DEF PlanInv, OnePlanCheck, HoldsPlan
  <2> QED BY <2>1, <2>2
<1>2. CASE ReadPlanUsed(q)
  <2>1. /\ UNCHANGED <<ledger, ghosts>>
        /\ seen'[q] = month[Tenant] /\ phase'[q] = "planUsed"
        /\ \A r \in Requests : r # q => seen'[r] = seen[r]
    BY <1>2, <1>t DEF ReadPlanUsed, ReadSum, Goto, TypeOK
  <2>2. PlanRead'
    BY <2>1, <1>o, <1>t
    DEF PlanInv, PlanRead, ledger, ghosts, TenantTotalsTyped
  <2>3. PlanRoom' /\ PlanOvershootExplained'
    BY <2>1, <1>o DEF PlanInv, PlanRoom, PlanOvershootExplained, ledger,
                      ghosts, PassedPlan, OwnerPhases
  <2> QED BY <1>1, <2>2, <2>3 DEF PlanInv
<1>3. CASE CheckPlan(q)
  <2>1. /\ UNCHANGED <<seen, ledger, ghosts>>
        /\ phase[q] = "planUsed" /\ phase'[q] \in {"planOk", "denied"}
        /\ phase'[q] = "planOk" =>
             seen[q] + pending[Tenant] + Cost[q] <= PlanLimit
    BY <1>3, <1>t DEF CheckPlan, Test, Goto, TypeOK
  <2>2. PlanRead' /\ PlanOvershootExplained'
    BY <2>1, <1>o DEF PlanInv, PlanRead, PlanOvershootExplained, ledger,
                      ghosts
  <2>3. PlanRoom'
    <3> SUFFICES ASSUME NEW r \in Requests, phase'[r] \in PassedPlan
                 PROVE  PlanCovered(Cost[r])
      BY <2>1 DEF PlanRoom, PlanCovered, ledger, ghosts
    <3>1. CASE r = q
      <4>1. month[Tenant] <= seen[q] + excess[Tenant] + skew[Tenant]
        BY <2>1 DEF PlanInv, PlanRead
      <4>2. seen[q] + pending[Tenant] + Cost[q] <= PlanLimit
        BY <2>1, <3>1 DEF PassedPlan, OwnerPhases
      <4>3. seen[q] \in Nat
        BY <1>t DEF TypeOK
      <4> QED BY <3>1, <4>1, <4>2, <4>3, <1>t DEF TenantTotalsTyped,
                                                  PlanCovered
    <3>2. CASE r # q
      BY <3>2, <1>o DEF PlanInv, PlanRoom, PlanCovered
    <3> QED BY <3>1, <3>2
  <2> QED BY <1>1, <2>2, <2>3 DEF PlanInv
<1>4. CASE InsertReservation(q)
  <2>1. /\ UNCHANGED <<seen, month, ghosts>>
        /\ phase[q] = "ready" /\ phase'[q] = "held"
        /\ pending'[Tenant] = pending[Tenant] + Cost[q]
    BY <1>4, <1>t DEF InsertReservation, Goto, TypeOK
  <2>2. PlanCovered(Cost[q])
    BY <2>1 DEF PlanInv, PlanRoom, PlanCovered, PassedPlan, OwnerPhases
  <2>3. PlanRead'
    BY <2>1, <1>o DEF PlanInv, PlanRead, ghosts
  <2>4. \A r \in Requests : phase'[r] \notin PassedPlan
    <3> SUFFICES ASSUME NEW r \in Requests, phase'[r] \in PassedPlan
                 PROVE  FALSE
      OBVIOUS
    <3>1. r # q /\ phase[r] \in PassedPlan
      BY <2>1, <1>o DEF PassedPlan, OwnerPhases
    <3>2. HoldsPlan(r) /\ HoldsPlan(q)
      BY <3>1, <2>1 DEF HoldsPlan, TxPhases, PassedPlan, OwnerPhases
    <3> QED BY <3>1, <3>2 DEF PlanInv, OnePlanCheck
  <2>5. PlanOvershootExplained'
    BY <2>1, <2>2, <1>t
    DEF PlanCovered, PlanOvershootExplained, ghosts, TenantTotalsTyped
  <2> QED BY <1>1, <2>3, <2>4, <2>5 DEF PlanInv, PlanRoom
<1>5. CASE ~ReadPlanUsed(q) /\ ~CheckPlan(q) /\ ~InsertReservation(q)
  <2>1. /\ UNCHANGED <<ledger, ghosts>>
        /\ \A r \in Requests : phase'[r] = "planUsed"
                                 => phase[r] = "planUsed" /\ seen'[r] = seen[r]
        /\ \A r \in Requests : phase'[r] \in PassedPlan
                                 => phase[r] \in PassedPlan
    BY <1>5, <1>t
    DEF ReserveStep, Abort, LockPlan, LockOwner, CheckKey, ReadUsed,
        CheckOwner, ReadScopeUsed, CheckScopeTokens, CheckScopeActive, Test,
        ReadSum, Goto, PassedPlan, OwnerPhases, TypeOK
  <2> QED BY <1>1, <2>1 DEF PlanInv, PlanRead, PlanRoom,
                            PlanOvershootExplained, ledger, ghosts
<1> QED BY <1>2, <1>3, <1>4, <1>5

LEMMA PlanAppendStep ==
  ASSUME PlanInv, TypeOK', managed, NEW q \in Requests, NEW n \in Nat,
         NEW h \in Nat, AppendUsage(q, n, h), Goto(q, "charged"),
         UNCHANGED seen
  PROVE  PlanInv'
<1> USE PlanConstants
<1>t. TypeOK /\ TenantTotalsTyped /\ TenantTotalsTyped'
  BY DEF PlanInv, TypeOK, TenantTotalsTyped
<1>1. \A r \in Requests : phase'[r] \in TxPhases => phase'[r] = phase[r]
  BY <1>t DEF Goto, TypeOK, TxPhases, OwnerPhases, PlanPhases
<1>2. OnePlanCheck'
  BY <1>1 DEF PlanInv, OnePlanCheck, HoldsPlan
<1>3. /\ month'[Tenant] = month[Tenant] + n
      /\ pending'[Tenant] = pending[Tenant] - h
      /\ excess'[Tenant] + skew'[Tenant] >= excess[Tenant] + skew[Tenant]
                                              + n - h
      /\ (\E r \in Requests : Between(r, Tenant)) =>
           excess'[Tenant] + skew'[Tenant]
             >= excess[Tenant] + skew[Tenant] + n
  <2>1. Share(q, Tenant, n) = n /\ Share(q, Tenant, h) = h
    BY DEF Share
  <2> QED BY <2>1, <1>t, AppendEffect DEF TenantTotalsTyped
<1>4. PlanRead'
  <2> SUFFICES ASSUME NEW r \in Requests, phase'[r] = "planUsed"
               PROVE  month'[Tenant] <= seen[r] + excess'[Tenant]
                                          + skew'[Tenant]
    BY DEF PlanRead
  <2>1. phase[r] = "planUsed"
    BY <1>1 DEF TxPhases, PlanPhases
  <2>2. Between(r, Tenant)
    BY <2>1 DEF Between
  <2>3. month[Tenant] <= seen[r] + excess[Tenant] + skew[Tenant]
    BY <2>1 DEF PlanInv, PlanRead
  <2>4. seen[r] \in Nat
    BY <1>t DEF TypeOK
  <2> QED BY <2>2, <2>3, <2>4, <1>3, <1>t DEF TenantTotalsTyped
<1>5. ASSUME NEW c \in Nat, PlanCovered(c)
      PROVE  month'[Tenant] + pending'[Tenant] + c
               <= PlanLimit + excess'[Tenant] + skew'[Tenant]
  BY <1>5, <1>3, <1>t DEF PlanCovered, TenantTotalsTyped
<1>6. PlanRoom'
  BY <1>1, <1>5 DEF PlanInv, PlanRoom, PlanCovered, TxPhases, PassedPlan
<1>7. PlanOvershootExplained'
  <2>1. PlanCovered(0)
    BY <1>t DEF PlanInv, PlanOvershootExplained, PlanCovered,
                TenantTotalsTyped
  <2>2. month'[Tenant] + pending'[Tenant] + 0
          <= PlanLimit + excess'[Tenant] + skew'[Tenant]
    BY <2>1, <1>5
  <2> QED BY <2>2, <1>t DEF PlanOvershootExplained, TenantTotalsTyped
<1> QED BY <1>2, <1>4, <1>6, <1>7 DEF PlanInv

LEMMA PlanReleaseStep ==
  ASSUME PlanInv, TypeOK', managed, NEW q \in Requests, ReleaseReservation(q)
  PROVE  PlanInv'
<1> USE PlanConstants
<1>t. TypeOK /\ TenantTotalsTyped
  BY DEF PlanInv
<1>1. /\ UNCHANGED <<seen, month, ghosts>>
      /\ pending'[Tenant] = pending[Tenant] - Cost[q]
      /\ \A r \in Requests : phase'[r] \in TxPhases => phase'[r] = phase[r]
  BY <1>t DEF ReleaseReservation, Share, Goto, TypeOK, TxPhases, OwnerPhases,
              PlanPhases
<1>2. OnePlanCheck' /\ PlanRead'
  BY <1>1 DEF PlanInv, OnePlanCheck, HoldsPlan, PlanRead, ghosts, TxPhases,
              PlanPhases
<1>3. PlanRoom'
  <2> SUFFICES ASSUME NEW r \in Requests, phase'[r] \in PassedPlan
               PROVE  month[Tenant] + pending'[Tenant] + Cost[r]
                        <= PlanLimit + excess[Tenant] + skew[Tenant]
    BY <1>1 DEF PlanRoom, ghosts
  <2>1. PlanCovered(Cost[r])
    BY <1>1 DEF PlanInv, PlanRoom, PlanCovered, TxPhases, PassedPlan
  <2> QED BY <1>1, <2>1, <1>t DEF PlanCovered, TenantTotalsTyped
<1>4. PlanOvershootExplained'
  BY <1>1, <1>t DEF PlanInv, PlanOvershootExplained, TenantTotalsTyped,
                    ghosts
<1> QED BY <1>2, <1>3, <1>4 DEF PlanInv

LEMMA PlanStep ==
  ASSUME PlanInv, [Next]_vars, TypeOK', managed
  PROVE  PlanInv'
<1>1. ASSUME NEW q \in Requests, ReserveStep(q) \/ Abort(q)
      PROVE  PlanInv'
  BY <1>1, PlanReserveStep
<1>2. ASSUME NEW q \in Requests, NEW n \in 0 .. MaxCharge,
             FinalizeUsage(q, n)
      PROVE  PlanInv'
  <2>1. n \in Nat /\ Cost[q] \in Nat
    BY ConstantsAssumption
  <2> QED BY <1>2, <2>1, PlanAppendStep DEF FinalizeUsage
<1>3. ASSUME NEW q \in Requests, FinalizeReleased(q)
      PROVE  PlanInv'
  <2>1. 0 \in Nat /\ Cost[q] \in Nat
    BY ConstantsAssumption
  <2> QED BY <1>3, <2>1, PlanAppendStep DEF FinalizeReleased
<1>4. ASSUME NEW q \in Requests, ReleaseReservation(q)
      PROVE  PlanInv'
  BY <1>4, PlanReleaseStep
<1>5. ASSUME \/ \E q \in Requests : Expire(q)
             \/ ExpiredReservations \/ NewDay \/ UNCHANGED vars
             \/ \E k \in Keys : RevokeVirtualKey(k)
      PROVE  PlanInv'
  <2>1. /\ UNCHANGED <<phase, seen, month, pending>>
        /\ excess'[Tenant] = excess[Tenant] /\ skew'[Tenant] = skew[Tenant]
    BY <1>5, PlanConstants
    DEF Expire, ExpiredReservations, NewDay, RevokeVirtualKey, vars, ledger,
        ghosts
  <2> QED BY <2>1 DEF PlanInv, OnePlanCheck, HoldsPlan, PlanRead, PlanRoom,
                      PlanOvershootExplained
<1> QED BY <1>1, <1>2, <1>3, <1>4, <1>5 DEF Next

LEMMA ManagedIsFixed == [Next]_vars => UNCHANGED managed
BY DEF Next, ReserveStep, Abort, LockPlan, ReadPlanUsed, CheckPlan, LockOwner,
       CheckKey, ReadUsed, CheckOwner, ReadScopeUsed, CheckScopeTokens,
       CheckScopeActive, InsertReservation, FinalizeUsage, FinalizeReleased,
       ReleaseReservation, Expire, ExpiredReservations, RevokeVirtualKey,
       NewDay, Test, ReadSum, vars

LEMMA PlanInvariant == Spec => [](managed => PlanInv)
<1> DEFINE Inv == managed => PlanInv
<1>1. Init => Inv
  BY PlanConstants
  DEF Init, PlanInv, TypeOK, Phases, Zero, OnePlanCheck, HoldsPlan, TxPhases,
      OwnerPhases, PlanPhases, PlanRead, PlanRoom, PassedPlan,
      PlanOvershootExplained
<1>2. Inv /\ [Next]_vars /\ TypeOK' => Inv'
  BY PlanStep, ManagedIsFixed
<1> HIDE DEF Inv
<1>3. Spec => []Inv
  BY <1>1, <1>2, TypeCorrect, PTL DEF Spec
<1> QED BY <1>3 DEF Inv

(* The monthly cap of a managed plan: over it only by charges above their  *)
(* reservation or between the two reads of a check.                        *)
THEOREM PlanLimitHolds == Spec => []PlanOvershootExplained
<1> DEFINE Inv == managed => PlanInv
<1>1. Inv => PlanOvershootExplained
  BY DEF PlanInv, PlanOvershootExplained
<1> QED BY <1>1, PlanInvariant, PTL

-----------------------------------------------------------------------------
(* The concurrency limit of a scope.  A request that has passed its test   *)
(* occupies a place although nobody sees it yet; there is one such request *)
(* for each owner's row at most, and for the plan's row if there is one.   *)
Ready == {q \in Requests : phase[q] = "ready"}

Places == ScopeActive + (IF managed THEN 0 ELSE Cardinality(Keys))

Occupied == Active \union Ready

OccupiedBounded == Cardinality(Occupied) <= Places

LEMMA Sizes ==
  /\ IsFiniteSet(Active) /\ IsFiniteSet(Ready) /\ IsFiniteSet(Occupied)
  /\ Active \subseteq Occupied
  /\ Cardinality(Active) \in Nat /\ Cardinality(Ready) \in Nat
  /\ Cardinality(Occupied) \in Nat /\ Cardinality(Keys) \in Nat
  /\ ScopeActive \in Nat
<1>1. /\ Active \in SUBSET Requests /\ Ready \in SUBSET Requests
      /\ Occupied \in SUBSET Requests
  BY DEF Active, Ready, Occupied
<1>2. IsFiniteSet(Active) /\ IsFiniteSet(Ready) /\ IsFiniteSet(Occupied)
  BY <1>1, ConstantsAssumption, FS_Subset
<1> QED BY <1>2, ConstantsAssumption, FS_CardinalityType DEF Occupied

(* The requests that are ready have different owners, and are alone under  *)
(* a managed plan.                                                         *)
LEMMA ReadyIsBounded ==
  ASSUME OneCheckPerOwner, managed => OnePlanCheck, managed \in BOOLEAN
  PROVE  Cardinality(Ready) <= 1 + (IF managed THEN 0 ELSE Cardinality(Keys))
<1> USE Sizes
<1>1. CASE managed
  <2>1. CASE Ready = {}
    BY <2>1, <1>1, FS_EmptySet
  <2>2. CASE Ready # {}
    <3>1. PICK q \in Ready : TRUE
      BY <2>2
    <3>2. \A r \in Ready : HoldsPlan(r)
      BY <1>1 DEF Ready, HoldsPlan, TxPhases, OwnerPhases
    <3>3. Ready = {q}
      BY <3>1, <3>2, <1>1 DEF OnePlanCheck, Ready
    <3> QED BY <3>3, <1>1, FS_Singleton
  <2> QED BY <2>1, <2>2
<1>2. CASE ~managed
  <2> DEFINE owner == [q \in Ready |-> OwnerOf[q]]
  <2>1. \A q \in Ready : HoldsOwner(q) /\ q \in Requests
    BY DEF Ready, HoldsOwner, OwnerPhases
  <2>2. owner \in [Ready -> Owners]
    BY <2>1, OwnersAreAccounts
  <2>3. \A q, r \in Ready : owner[q] = owner[r] => q = r
    BY <2>1 DEF OneCheckPerOwner
  <2>4. owner \in Injection(Ready, Owners)
    BY <2>2, <2>3, Z3 DEF Injection, IsInjective
  <2>5. IsFiniteSet(Owners) /\ Cardinality(Owners) = Cardinality(Keys) + 1
    BY ConstantsAssumption, FS_AddElement DEF Owners
  <2>6. Cardinality(Ready) <= Cardinality(Owners)
    BY <2>4, <2>5, FS_Injection
  <2> QED BY <2>5, <2>6, <1>2
<1> QED BY <1>1, <1>2

LEMMA OccupiedStep ==
  ASSUME TypeOK, TypeOK', [Next]_vars, OccupiedBounded, OneCheckPerOwner',
         (managed => OnePlanCheck)'
  PROVE  OccupiedBounded'
<1>m. managed' = managed /\ managed \in BOOLEAN
  BY ManagedIsFixed DEF TypeOK
<1>1. ASSUME Occupied' \subseteq Occupied
      PROVE  OccupiedBounded'
  <2>1. Cardinality(Occupied') <= Cardinality(Occupied)
    BY <1>1, Sizes, FS_Subset
  <2>2. Cardinality(Occupied') \in Nat
    BY <1>1, Sizes, FS_Subset, FS_CardinalityType
  <2>3. Places' = Places /\ Places \in Nat
    BY <1>m, Sizes DEF Places
  <2>4. Cardinality(Occupied) \in Nat /\ Cardinality(Occupied) <= Places
    BY Sizes DEF OccupiedBounded
  <2> QED BY <2>1, <2>2, <2>3, <2>4 DEF OccupiedBounded
<1>2. ASSUME NEW q \in Requests, CheckScopeActive(q)
      PROVE  OccupiedBounded'
  <2>1. Active' = Active
    BY <1>2 DEF CheckScopeActive, Test, Goto, Active, TypeOK
  <2>2. CASE Cardinality(Active) < ScopeActive
    <3>1. Cardinality(Ready') <= 1 + (IF managed THEN 0 ELSE Cardinality(Keys))
      <4>1. (managed \in BOOLEAN)'
        BY <1>m
      <4>2. (Cardinality(Ready)
               <= 1 + (IF managed THEN 0 ELSE Cardinality(Keys)))'
        BY <4>1, ReadyIsBounded, PTL
      <4> QED BY <4>2, <1>m
    <3>2. IsFiniteSet(Active') /\ IsFiniteSet(Ready')
      <4>1. Active' \in SUBSET Requests /\ Ready' \in SUBSET Requests
        BY DEF Active, Ready
      <4> QED BY <4>1, ConstantsAssumption, FS_Subset
    <3>3. /\ Cardinality(Active') \in Nat /\ Cardinality(Ready') \in Nat
          /\ Cardinality(Active' \cap Ready') \in Nat
      BY <3>2, FS_CardinalityType, FS_Intersection
    <3>4. Cardinality(Occupied')
            = Cardinality(Active') + Cardinality(Ready')
                - Cardinality(Active' \cap Ready')
      BY <3>2, FS_Union DEF Occupied
    <3>5. Cardinality(Active') < ScopeActive
      BY <2>1, <2>2
    <3> QED BY <3>1, <3>3, <3>4, <3>5, <1>m, Sizes
            DEF OccupiedBounded, Places
  <2>3. CASE ~(Cardinality(Active) < ScopeActive)
    <3>1. phase'[q] = "denied"
          /\ \A r \in Requests : r # q => phase'[r] = phase[r]
      BY <1>2, <2>3 DEF CheckScopeActive, Test, Goto, TypeOK
    <3>2. Occupied' \subseteq Occupied
      BY <2>1, <3>1 DEF Occupied, Ready
    <3> QED BY <3>2, <1>1
  <2> QED BY <2>2, <2>3
<1>3. ASSUME NEW q \in Requests,
             \/ ReserveStep(q) /\ ~CheckScopeActive(q)
             \/ Abort(q) \/ FinalizeReleased(q) \/ ReleaseReservation(q)
             \/ Expire(q) \/ \E n \in 0 .. MaxCharge : FinalizeUsage(q, n)
      PROVE  OccupiedBounded'
  <2>1. /\ \A r \in Requests : r # q => phase'[r] = phase[r]
        /\ phase'[q] = "ready" => phase[q] = "ready"
        /\ phase'[q] = "held" => phase[q] \in {"ready", "held"}
        /\ expired \subseteq expired'
    <3>1. CASE ReserveStep(q) /\ ~CheckScopeActive(q)
      BY <3>1
      DEF ReserveStep, LockPlan, ReadPlanUsed, CheckPlan, LockOwner, CheckKey,
          ReadUsed, CheckOwner, ReadScopeUsed, CheckScopeTokens,
          InsertReservation, Test, ReadSum, Goto, TypeOK
    <3>2. CASE Abort(q) \/ FinalizeReleased(q) \/ ReleaseReservation(q)
               \/ Expire(q) \/ \E n \in 0 .. MaxCharge : FinalizeUsage(q, n)
      BY <3>2
      DEF Abort, FinalizeReleased, ReleaseReservation, Expire, FinalizeUsage,
          Test, Goto, TypeOK
    <3> QED BY <1>3, <3>1, <3>2
  <2>2. Occupied' \subseteq Occupied
    BY <2>1 DEF Occupied, Active, Ready
  <2> QED BY <2>2, <1>1
<1>4. ASSUME \/ ExpiredReservations \/ NewDay \/ UNCHANGED vars
             \/ \E k \in Keys : RevokeVirtualKey(k)
      PROVE  OccupiedBounded'
  <2>1. UNCHANGED <<phase, expired>>
    BY <1>4 DEF ExpiredReservations, NewDay, vars, RevokeVirtualKey
  <2> QED BY <2>1, <1>1 DEF Occupied, Active, Ready
<1> QED BY <1>2, <1>3, <1>4 DEF Next

(* The requests in flight exceed the concurrent_limit of a scope by one    *)
(* per owner at most, and not at all under a managed plan.                 *)
THEOREM ActiveBounded == Spec => []ActiveOvershootBounded
<1> DEFINE PlanOnce == managed => OnePlanCheck
<1>1. Init => OccupiedBounded
  <2> SUFFICES ASSUME Init PROVE OccupiedBounded
    OBVIOUS
  <2>1. Occupied = {} /\ managed \in BOOLEAN
    BY DEF Init, Occupied, Active, Ready
  <2> QED BY <2>1, Sizes, FS_EmptySet DEF OccupiedBounded, Places
<1>2. TypeOK /\ OccupiedBounded => ActiveOvershootBounded
  <2> SUFFICES ASSUME TypeOK, OccupiedBounded PROVE ActiveOvershootBounded
    OBVIOUS
  <2>1. Cardinality(Active) <= Cardinality(Occupied)
    BY Sizes, FS_Subset
  <2> QED BY <2>1, Sizes
          DEF ActiveOvershootBounded, OccupiedBounded, Places, TypeOK
<1>3. Spec => []PlanOnce
  <2>1. PlanInv => OnePlanCheck
    BY DEF PlanInv
  <2> HIDE DEF PlanOnce
  <2>2. (managed => PlanInv) => PlanOnce
    BY <2>1 DEF PlanOnce
  <2> QED BY <2>2, PlanInvariant, PTL
<1> HIDE DEF PlanOnce
<1>4. TypeOK /\ TypeOK' /\ [Next]_vars /\ OccupiedBounded /\ OneCheckPerOwner'
        /\ PlanOnce' => OccupiedBounded'
  BY OccupiedStep DEF PlanOnce
<1> QED BY <1>1, <1>2, <1>3, <1>4, OneCheckPerOwnerHolds, TypeCorrect, PTL
        DEF Spec
=============================================================================
