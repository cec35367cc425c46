-------------------------- MODULE DeliveriesProofs ---------------------------
(***************************************************************************)
(* What the two outboxes promise for any number of events, addresses,      *)
(* requests, workers and attempts.                                         *)
(*                                                                         *)
(* Billing.  That an event reaches the webhook at most MaxAttempts times   *)
(* is not inductive: every worker that holds the event may still send it.  *)
(* AttemptInv counts these workers: each of them has a counted attempt of  *)
(* its own that has not been used yet.                                     *)
(*                                                                         *)
(* E-mail.  That a token vouches for the password of its account is not    *)
(* inductive either: the row of pending_registrations from which the       *)
(* account is made has to vouch for it too, and no later request may store *)
(* the token again (VouchedInv).                                           *)
(***************************************************************************)
EXTENDS Deliveries, FiniteSetTheorems, TLAPS

(* Workers that may still send e, and those that may still log an attempt. *)
Unsent(e)   == {w \in Workers : task[w] = e /\ pc[w] \in {"secret", "send"}}
Unlogged(e) == {w \in Workers : task[w] = e /\ pc[w] # "idle"}

IdleHoldsNothing == \A w \in Workers : pc[w] = "idle" <=> task[w] = NoEvent

EachHasAnAttempt ==
  \A e \in Events :
    /\ received[e] + Cardinality(Unsent(e)) <= attempts[e]
    /\ logged[e] + Cardinality(Unlogged(e)) <= attempts[e]

AttemptInv == TypeOK /\ IdleHoldsNothing /\ EachHasAnAttempt

(* A success that a worker is about to write was one.                      *)
AnswersWereTaken == \A w \in Workers : answer[w] => task[w] \in accepted

DeliveryInv ==
  TypeOK /\ IdleHoldsNothing /\ AnswersWereTaken /\ DeliveredWasTaken

-----------------------------------------------------------------------------
LEMMA HoldersAreFinite ==
  ASSUME NEW e
  PROVE  /\ IsFiniteSet(Unsent(e)) /\ Cardinality(Unsent(e)) \in Nat
         /\ IsFiniteSet(Unlogged(e)) /\ Cardinality(Unlogged(e)) \in Nat
<1>1. Unsent(e) \subseteq Workers /\ Unlogged(e) \subseteq Workers
  BY DEF Unsent, Unlogged
<1>2. IsFiniteSet(Unsent(e)) /\ IsFiniteSet(Unlogged(e))
  BY <1>1, FS_Subset, OutboxAssumption DEF OutboxAssumption
<1> QED BY <1>2, FS_CardinalityType

LEMMA CardinalityOfOneMore ==
  ASSUME NEW S, IsFiniteSet(S), NEW x
  PROVE  /\ Cardinality(S) \in Nat
         /\ Cardinality(S \union {x}) \in Nat
         /\ Cardinality(S \union {x}) <= Cardinality(S) + 1
<1>1. Cardinality(S) \in Nat
  BY FS_CardinalityType
<1>2. Cardinality(S \union {x})
        = IF x \in S THEN Cardinality(S) ELSE Cardinality(S) + 1
  BY FS_AddElement
<1> QED BY <1>1, <1>2

LEMMA CardinalityOfOneLess ==
  ASSUME NEW S, IsFiniteSet(S), NEW x
  PROVE  /\ Cardinality(S) \in Nat
         /\ Cardinality(S \ {x}) \in Nat
         /\ Cardinality(S \ {x}) <= Cardinality(S)
         /\ x \in S => Cardinality(S \ {x}) + 1 = Cardinality(S)
<1>1. Cardinality(S) \in Nat
  BY FS_CardinalityType
<1>2. IsFiniteSet(S \ {x})
  BY FS_Subset
<1>3. Cardinality(S \ {x}) \in Nat
  BY <1>2, FS_CardinalityType
<1>4. Cardinality(S \ {x})
        = IF x \in S THEN Cardinality(S) - 1 ELSE Cardinality(S)
  BY FS_RemoveElement
<1> QED BY <1>1, <1>3, <1>4

-----------------------------------------------------------------------------
LEMMA TypeInit == Init => TypeOK /\ IdleHoldsNothing
BY OutboxAssumption DEF Init, TypeOK, IdleHoldsNothing, Phases,
   OutboxAssumption

LEMMA TypeStep ==
  TypeOK /\ IdleHoldsNothing /\ [Next]_vars => TypeOK' /\ IdleHoldsNothing'
<1> SUFFICES ASSUME TypeOK, IdleHoldsNothing, [Next]_vars
             PROVE  TypeOK' /\ IdleHoldsNothing'
  OBVIOUS
<1> USE OutboxAssumption DEF OutboxAssumption, TypeOK, IdleHoldsNothing,
    Phases, outbox, remote
<1>1. ASSUME NEW w \in Workers, NEW e \in Events, NEW heard \in BOOLEAN,
             Claim(w, e, heard)
      PROVE  TypeOK' /\ IdleHoldsNothing'
  BY <1>1 DEF Claim, Claimable
<1>2. ASSUME NEW w \in Workers, Expose(w)
      PROVE  TypeOK' /\ IdleHoldsNothing'
  BY <1>2 DEF Expose
<1>3. ASSUME NEW w \in Workers, NEW arrives \in BOOLEAN,
             NEW takes \in BOOLEAN, NEW hears \in BOOLEAN,
             Send(w, arrives, takes, hears)
      PROVE  TypeOK' /\ IdleHoldsNothing'
  <2>1. task[w] \in Events
    BY <1>3 DEF Send
  <2> QED BY <1>3, <2>1 DEF Send
<1>4. ASSUME NEW w \in Workers, Finish(w)
      PROVE  TypeOK' /\ IdleHoldsNothing'
  <2>1. task[w] \in Events
    BY <1>4 DEF Finish
  <2> QED BY <1>4, <2>1 DEF Finish, DeliveredAfter
<1>5. ASSUME NEW w \in Workers, Abandon(w)
      PROVE  TypeOK' /\ IdleHoldsNothing'
  BY <1>5 DEF Abandon
<1>6. ASSUME NEW e \in Events, PassTime(e) \/ Retry(e)
      PROVE  TypeOK' /\ IdleHoldsNothing'
  BY <1>6 DEF PassTime, Retry
<1>7. CASE Toggle
  BY <1>7 DEF Toggle
<1>8. CASE UNCHANGED vars
  BY <1>8 DEF vars
<1> HIDE DEF TypeOK, IdleHoldsNothing
<1>9. ASSUME NEW w \in Workers, Work(w)
      PROVE  TypeOK' /\ IdleHoldsNothing'
  BY <1>1, <1>2, <1>3, <1>4, <1>9 DEF Work, ClaimAny
<1> QED
  BY <1>1, <1>5, <1>6, <1>7, <1>8, <1>9 DEF Next

(* Every reachable state of the outbox and its workers is well typed; the  *)
(* attempt_count of claim_due never exceeds maximum_attempts.              *)
THEOREM TypeCorrect == Spec => []TypeOK
<1>1. TypeOK /\ IdleHoldsNothing /\ [Next]_vars
        => (TypeOK /\ IdleHoldsNothing)'
  BY TypeStep
<1> QED BY TypeInit, <1>1, PTL DEF Spec

-----------------------------------------------------------------------------
LEMMA AttemptsInit == Init => EachHasAnAttempt
<1> SUFFICES ASSUME Init PROVE EachHasAnAttempt
  OBVIOUS
<1>1. \A e \in Events : Unsent(e) = {} /\ Unlogged(e) = {}
  BY OutboxAssumption DEF Init, Unsent, Unlogged, OutboxAssumption
<1> QED BY <1>1, FS_EmptySet DEF Init, EachHasAnAttempt

(* Steps that leave the workers and the counts alone.                      *)
LEMMA AttemptsStutter ==
  ASSUME EachHasAnAttempt, UNCHANGED <<attempts, logged, received, pc, task>>
  PROVE  EachHasAnAttempt'
BY DEF EachHasAnAttempt, Unsent, Unlogged

LEMMA AttemptsStep ==
  AttemptInv /\ [Next]_vars => EachHasAnAttempt'
<1> SUFFICES ASSUME AttemptInv, [Next]_vars PROVE EachHasAnAttempt'
  OBVIOUS
<1>t. TypeOK /\ IdleHoldsNothing /\ EachHasAnAttempt
  BY DEF AttemptInv
<1>n. \A e \in Events : /\ attempts[e] \in Nat /\ logged[e] \in Nat
                        /\ received[e] \in Nat
  BY <1>t, OutboxAssumption DEF TypeOK, OutboxAssumption
<1>1. ASSUME NEW w \in Workers, NEW e \in Events, NEW heard \in BOOLEAN,
             Claim(w, e, heard)
      PROVE  EachHasAnAttempt'
  <2> SUFFICES ASSUME NEW f \in Events
               PROVE  /\ received'[f] + Cardinality(Unsent(f)') <= attempts'[f]
                      /\ logged'[f] + Cardinality(Unlogged(f)') <= attempts'[f]
    BY DEF EachHasAnAttempt
  <2>1. UNCHANGED <<received, logged>>
    BY <1>1 DEF Claim, remote
  <2>2. attempts'[f] = IF f = e THEN attempts[f] + 1 ELSE attempts[f]
    BY <1>1, <1>t DEF Claim, TypeOK
  <2>3. CASE f = e /\ heard
    <3>1. Unsent(f)' = Unsent(f) \union {w}
      BY <1>1, <1>t, <2>3 DEF Claim, Unsent, TypeOK
    <3>2. Unlogged(f)' = Unlogged(f) \union {w}
      BY <1>1, <1>t, <2>3 DEF Claim, Unlogged, TypeOK
    <3>3. /\ Cardinality(Unsent(f)') \in Nat /\ Cardinality(Unsent(f)) \in Nat
          /\ Cardinality(Unsent(f)') <= Cardinality(Unsent(f)) + 1
      BY <3>1, HoldersAreFinite, CardinalityOfOneMore
    <3>4. /\ Cardinality(Unlogged(f)') \in Nat
          /\ Cardinality(Unlogged(f)) \in Nat
          /\ Cardinality(Unlogged(f)') <= Cardinality(Unlogged(f)) + 1
      BY <3>2, HoldersAreFinite, CardinalityOfOneMore
    <3> QED
      BY <1>t, <1>n, <2>1, <2>2, <2>3, <3>3, <3>4 DEF EachHasAnAttempt
  <2>4. CASE ~(f = e /\ heard)
    <3>1. Unsent(f)' = Unsent(f) /\ Unlogged(f)' = Unlogged(f)
      BY <1>1, <1>t, <2>4, OutboxAssumption
         DEF Claim, Unsent, Unlogged, TypeOK, IdleHoldsNothing,
             OutboxAssumption
    <3> QED
      BY <1>t, <1>n, <2>1, <2>2, <3>1, HoldersAreFinite
         DEF EachHasAnAttempt
  <2> QED BY <2>3, <2>4
<1>2. ASSUME NEW w \in Workers, Expose(w) PROVE EachHasAnAttempt'
  <2>1. \A f : Unsent(f)' = Unsent(f) /\ Unlogged(f)' = Unlogged(f)
    BY <1>2, <1>t DEF Expose, Unsent, Unlogged, TypeOK
  <2>2. UNCHANGED <<received, logged, attempts>>
    BY <1>2 DEF Expose, remote, outbox
  <2> QED BY <1>t, <2>1, <2>2 DEF EachHasAnAttempt
<1>3. ASSUME NEW w \in Workers, NEW arrives \in BOOLEAN,
             NEW takes \in BOOLEAN, NEW hears \in BOOLEAN,
             Send(w, arrives, takes, hears)
      PROVE  EachHasAnAttempt'
  <2> SUFFICES ASSUME NEW f \in Events
               PROVE  /\ received'[f] + Cardinality(Unsent(f)') <= attempts'[f]
                      /\ logged'[f] + Cardinality(Unlogged(f)') <= attempts'[f]
    BY DEF EachHasAnAttempt
  <2>1. UNCHANGED <<attempts, logged>>
    BY <1>3 DEF Send, outbox
  <2>2. Unlogged(f)' = Unlogged(f)
    BY <1>3, <1>t DEF Send, Unlogged, TypeOK
  <2>3. Unsent(f)' = Unsent(f) \ {w}
    BY <1>3, <1>t DEF Send, Unsent, TypeOK
  <2>4. CASE task[w] = f
    <3>1. received'[f] <= received[f] + 1 /\ received'[f] \in Nat
      BY <1>3, <1>t, <1>n, <2>4 DEF Send, TypeOK
    <3>2. w \in Unsent(f)
      BY <1>3, <2>4 DEF Send, Unsent
    <3> QED
      BY <1>t, <1>n, <2>1, <2>2, <2>3, <3>1, <3>2, HoldersAreFinite,
         CardinalityOfOneLess DEF EachHasAnAttempt
  <2>5. CASE task[w] # f
    <3>1. received'[f] = received[f]
      BY <1>3, <1>t, <2>5 DEF Send, TypeOK
    <3> QED
      BY <1>t, <1>n, <2>1, <2>2, <2>3, <3>1, HoldersAreFinite,
         CardinalityOfOneLess DEF EachHasAnAttempt
  <2> QED BY <2>4, <2>5
<1>4. ASSUME NEW w \in Workers, Finish(w) PROVE EachHasAnAttempt'
  <2> SUFFICES ASSUME NEW f \in Events
               PROVE  /\ received'[f] + Cardinality(Unsent(f)') <= attempts'[f]
                      /\ logged'[f] + Cardinality(Unlogged(f)') <= attempts'[f]
    BY DEF EachHasAnAttempt
  <2>1. UNCHANGED <<attempts, received>>
    BY <1>4 DEF Finish, remote
  <2>2. Unsent(f)' = Unsent(f)
    BY <1>4, <1>t DEF Finish, Unsent, TypeOK
  <2>3. Unlogged(f)' = Unlogged(f) \ {w}
    BY <1>4, <1>t DEF Finish, Unlogged, TypeOK
  <2>4. CASE task[w] = f
    <3>1. logged'[f] = logged[f] + 1
      BY <1>4, <1>t, <2>4 DEF Finish, TypeOK
    <3>2. w \in Unlogged(f)
      BY <1>4, <2>4 DEF Finish, Unlogged
    <3> QED
      BY <1>t, <1>n, <2>1, <2>2, <2>3, <3>1, <3>2, HoldersAreFinite,
         CardinalityOfOneLess DEF EachHasAnAttempt
  <2>5. CASE task[w] # f
    <3>1. logged'[f] = logged[f]
      BY <1>4, <1>t, <2>5 DEF Finish, TypeOK
    <3>2. Unlogged(f)' = Unlogged(f)
      BY <2>3, <2>5 DEF Unlogged
    <3> QED
      BY <1>t, <2>1, <2>2, <3>1, <3>2 DEF EachHasAnAttempt
  <2> QED BY <2>4, <2>5
<1>5. ASSUME NEW w \in Workers, Abandon(w) PROVE EachHasAnAttempt'
  <2> SUFFICES ASSUME NEW f \in Events
               PROVE  /\ received'[f] + Cardinality(Unsent(f)') <= attempts'[f]
                      /\ logged'[f] + Cardinality(Unlogged(f)') <= attempts'[f]
    BY DEF EachHasAnAttempt
  <2>1. UNCHANGED <<attempts, received, logged>>
    BY <1>5 DEF Abandon, outbox, remote
  <2>2. Unsent(f)' = Unsent(f) \ {w}
    BY <1>5, <1>t, OutboxAssumption
       DEF Abandon, Unsent, TypeOK, OutboxAssumption
  <2>3. Unlogged(f)' = Unlogged(f) \ {w}
    BY <1>5, <1>t, OutboxAssumption
       DEF Abandon, Unlogged, TypeOK, OutboxAssumption
  <2>4. /\ Cardinality(Unsent(f)') \in Nat /\ Cardinality(Unsent(f)) \in Nat
        /\ Cardinality(Unsent(f)') <= Cardinality(Unsent(f))
    BY <2>2, HoldersAreFinite, CardinalityOfOneLess
  <2>5. /\ Cardinality(Unlogged(f)') \in Nat
        /\ Cardinality(Unlogged(f)) \in Nat
        /\ Cardinality(Unlogged(f)') <= Cardinality(Unlogged(f))
    BY <2>3, HoldersAreFinite, CardinalityOfOneLess
  <2> QED
    BY <1>t, <1>n, <2>1, <2>4, <2>5 DEF EachHasAnAttempt
<1>6. ASSUME NEW e \in Events, PassTime(e) \/ Retry(e)
      PROVE  EachHasAnAttempt'
  BY <1>6, <1>t, AttemptsStutter DEF PassTime, Retry, remote
<1>7. CASE Toggle
  BY <1>7, <1>t, AttemptsStutter DEF Toggle, outbox, remote
<1>8. CASE UNCHANGED vars
  BY <1>8, <1>t, AttemptsStutter DEF vars, outbox, remote
<1> QED
  BY <1>1, <1>2, <1>3, <1>4, <1>5, <1>6, <1>7, <1>8
     DEF Next, Work, ClaimAny

LEMMA AttemptInvBounds == AttemptInv => AttemptsAreBounded
<1> SUFFICES ASSUME AttemptInv, NEW e \in Events
             PROVE  received[e] <= MaxAttempts /\ logged[e] <= attempts[e]
  BY DEF AttemptsAreBounded
<1>1. /\ received[e] \in Nat /\ logged[e] \in Nat
      /\ attempts[e] \in Nat /\ attempts[e] <= MaxAttempts /\ MaxAttempts \in Nat
  BY OutboxAssumption DEF AttemptInv, TypeOK, OutboxAssumption
<1> QED
  BY <1>1, HoldersAreFinite DEF AttemptInv, EachHasAnAttempt

(* claim_due counts an attempt before a worker sends anything: whatever    *)
(* crashes, overlaps and retries by hand there are, a webhook receives an  *)
(* event at most maximum_attempts times.                                   *)
THEOREM AttemptsAreBoundedHolds == Spec => []AttemptsAreBounded
<1>1. Init => AttemptInv
  BY TypeInit, AttemptsInit DEF AttemptInv
<1>2. AttemptInv /\ [Next]_vars => AttemptInv'
  BY TypeStep, AttemptsStep DEF AttemptInv
<1> QED BY <1>1, <1>2, AttemptInvBounds, PTL DEF Spec

-----------------------------------------------------------------------------
LEMMA DeliveryStep ==
  DeliveryInv /\ [Next]_vars => AnswersWereTaken' /\ DeliveredWasTaken'
<1> SUFFICES ASSUME DeliveryInv, [Next]_vars
             PROVE  AnswersWereTaken' /\ DeliveredWasTaken'
  OBVIOUS
<1> USE DEF DeliveryInv, AnswersWereTaken, DeliveredWasTaken, TypeOK,
    IdleHoldsNothing, outbox, remote
<1>1. ASSUME NEW w \in Workers, NEW e \in Events, NEW heard \in BOOLEAN,
             Claim(w, e, heard)
      PROVE  AnswersWereTaken' /\ DeliveredWasTaken'
  <2>1. UNCHANGED <<answer, accepted, delivered>>
    BY <1>1 DEF Claim
  <2>2. ASSUME NEW v \in Workers, answer[v] PROVE task'[v] \in accepted
    <3>1. task[v] \in accepted /\ task[v] \in Events
      BY <2>2
    <3>2. pc[v] # "idle"
      BY <3>1, OutboxAssumption DEF OutboxAssumption
    <3>3. task'[v] = task[v]
      BY <1>1, <3>2 DEF Claim
    <3> QED BY <3>1, <3>3
  <2> QED BY <2>1, <2>2
<1>2. ASSUME NEW w \in Workers, Expose(w)
      PROVE  AnswersWereTaken' /\ DeliveredWasTaken'
  BY <1>2 DEF Expose
<1>3. ASSUME NEW w \in Workers, NEW arrives \in BOOLEAN,
             NEW takes \in BOOLEAN, NEW hears \in BOOLEAN,
             Send(w, arrives, takes, hears)
      PROVE  AnswersWereTaken' /\ DeliveredWasTaken'
  BY <1>3 DEF Send
<1>4. ASSUME NEW w \in Workers, Finish(w)
      PROVE  AnswersWereTaken' /\ DeliveredWasTaken'
  BY <1>4 DEF Finish, DeliveredAfter
<1>5. ASSUME NEW w \in Workers, Abandon(w)
      PROVE  AnswersWereTaken' /\ DeliveredWasTaken'
  BY <1>5 DEF Abandon
<1>6. ASSUME NEW e \in Events, PassTime(e) \/ Retry(e)
      PROVE  AnswersWereTaken' /\ DeliveredWasTaken'
  BY <1>6 DEF PassTime, Retry
<1>7. CASE Toggle
  BY <1>7 DEF Toggle
<1>8. CASE UNCHANGED vars
  BY <1>8 DEF vars
<1> QED
  BY <1>1, <1>2, <1>3, <1>4, <1>5, <1>6, <1>7, <1>8
     DEF Next, Work, ClaimAny

(* finish_delivery marks as delivered only what the webhook took in, even  *)
(* when several workers overlap on one event.                              *)
THEOREM DeliveredWasTakenHolds == Spec => []DeliveredWasTaken
<1>1. Init => DeliveryInv
  BY TypeInit DEF Init, DeliveryInv, AnswersWereTaken, DeliveredWasTaken
<1>2. DeliveryInv /\ [Next]_vars => DeliveryInv'
  BY TypeStep, DeliveryStep DEF DeliveryInv
<1>3. DeliveryInv => DeliveredWasTaken
  BY DEF DeliveryInv
<1> QED BY <1>1, <1>2, <1>3, PTL DEF Spec

-----------------------------------------------------------------------------
LEMMA FinalStep ==
  TypeOK /\ [Next]_vars =>
    [\A e \in delivered : e \in delivered' /\ attempts'[e] = attempts[e]]_vars
<1> SUFFICES ASSUME TypeOK, Next, NEW e \in delivered
             PROVE  e \in delivered' /\ attempts'[e] = attempts[e]
  OBVIOUS
<1> USE DEF outbox, TypeOK
<1>1. ASSUME NEW w \in Workers, NEW f \in Events, NEW heard \in BOOLEAN,
             Claim(w, f, heard)
      PROVE  e \in delivered' /\ attempts'[e] = attempts[e]
  BY <1>1 DEF Claim, Claimable
<1>2. ASSUME NEW w \in Workers, Finish(w)
      PROVE  e \in delivered' /\ attempts'[e] = attempts[e]
  BY <1>2 DEF Finish, DeliveredAfter
<1>3. ASSUME UNCHANGED <<delivered, attempts>>
      PROVE  e \in delivered' /\ attempts'[e] = attempts[e]
  BY <1>3
<1> QED
  BY <1>1, <1>2, <1>3
     DEF Next, Work, ClaimAny, Expose, Send, Abandon, PassTime, Retry, Toggle

(* A delivered event stays delivered, whatever slower workers report, and  *)
(* claim_due does not take it again.                                       *)
THEOREM DeliveredIsFinalHolds == Spec => DeliveredIsFinal
BY TypeCorrect, FinalStep, PTL DEF Spec, DeliveredIsFinal

-----------------------------------------------------------------------------
(* Registration.  The phases of a request; one that has stored its token   *)
(* is past "store" and "resend", and never comes back to them.             *)
MailPhases == Mail!Ops \union {"idle", "store", "enqueue", "done", "died"}

Stored(t) == t \in Requests /\ handler[t] \in {"enqueue", "done", "died"}

MailTypes ==
  /\ pending \in [Emails -> Mail!Pending \union {Nothing}]
  /\ account \in [Emails -> Mail!Account \union {Nothing, Mail!Outside}]
  /\ handler \in [Requests -> MailPhases]
  /\ asked \in [Requests -> [op : Mail!Ops, email : Emails] \union {Nothing}]
  /\ vouched \in [Requests -> Requests \union {Nothing}]

AskedOfAnAddress ==
  \A r \in Requests :
    handler[r] # "idle" => asked[r] \in [op : Mail!Ops, email : Emails]

PendingVouches ==
  \A e \in Emails :
    pending[e] # Nothing =>
      /\ Stored(pending[e].token)
      /\ vouched[pending[e].token] = pending[e].password

AccountsWereStored ==
  \A e \in Emails : account[e] \in Mail!Account => Stored(account[e].token)

VouchedInv ==
  /\ MailTypes /\ AskedOfAnAddress /\ PendingVouches /\ AccountsWereStored
  /\ TokenVouchesForPassword

USE DEF MailPhases, Mail!Ops, Mail!Pending, Mail!Account, Mail!Outside

(* A step that stores no row, writes no account and takes no request back. *)
LEMMA MailQuietStep ==
  ASSUME VouchedInv, UNCHANGED <<pending, account, vouched>>,
         MailTypes', AskedOfAnAddress',
         \A r \in Requests : Stored(r) => Stored(r)'
  PROVE  VouchedInv'
<1>1. PendingVouches'
  BY DEF VouchedInv, PendingVouches, Stored
<1>2. AccountsWereStored' /\ TokenVouchesForPassword'
  BY DEF VouchedInv, AccountsWereStored, TokenVouchesForPassword,
         Mail!TokenVouchesForPassword, Stored
<1> QED BY <1>1, <1>2 DEF VouchedInv

LEMMA MailStoreStep ==
  ASSUME VouchedInv, NEW r \in Requests,
         Mail!StorePending(r) \/ Mail!RefreshPending(r)
  PROVE  VouchedInv'
<1> DEFINE e == asked[r].email
<1>t. MailTypes /\ AskedOfAnAddress
  BY DEF VouchedInv
<1>1. /\ handler[r] \in {"store", "resend"} /\ e \in Emails
      /\ handler' = [handler EXCEPT ![r] = handler'[r]]
      /\ handler'[r] \in {"enqueue", "done"}
      /\ UNCHANGED <<account, asked>>
  BY <1>t DEF Mail!StorePending, Mail!RefreshPending, Mail!Goto, Mail!Email,
              MailTypes, AskedOfAnAddress
<1>2. ~Stored(r) /\ Stored(r)'
  BY <1>1 DEF Stored
<1>3. \A t \in Requests : Stored(t) => t # r /\ Stored(t)'
  BY <1>1, <1>2, <1>t DEF Stored, MailTypes
<1>4. CASE UNCHANGED <<pending, vouched>>
  <2>1. MailTypes' /\ AskedOfAnAddress'
    BY <1>1, <1>4, <1>t DEF MailTypes, AskedOfAnAddress
  <2> QED BY <2>1, <1>1, <1>3, <1>4, MailQuietStep
<1>5. ASSUME NEW p \in Requests, NEW row \in Mail!Pending,
             row.password = p, row.token = r,
             pending' = [pending EXCEPT ![e] = row],
             vouched' = [vouched EXCEPT ![r] = p]
      PROVE  VouchedInv'
  <2>1. /\ pending'[e] = row /\ vouched'[r] = p
        /\ \A d \in Emails : d # e => pending'[d] = pending[d]
        /\ \A t \in Requests : t # r => vouched'[t] = vouched[t]
    BY <1>1, <1>5, <1>t DEF MailTypes
  <2>2. MailTypes' /\ AskedOfAnAddress'
    BY <1>1, <1>5, <1>t DEF MailTypes, AskedOfAnAddress
  <2>3. PendingVouches'
    <3> SUFFICES ASSUME NEW d \in Emails, pending'[d] # Nothing
                 PROVE  /\ Stored(pending[d].token)'
                        /\ vouched'[pending'[d].token] = pending'[d].password
      BY DEF PendingVouches, Stored
    <3>1. CASE d = e
      BY <3>1, <2>1, <1>2, <1>5
    <3>2. CASE d # e
      <4>1. pending'[d] = pending[d] /\ Stored(pending[d].token)
            /\ vouched[pending[d].token] = pending[d].password
        BY <3>2, <2>1 DEF VouchedInv, PendingVouches
      <4>2. PICK t \in Requests : t = pending[d].token /\ Stored(t)
        BY <4>1 DEF Stored
      <4>3. t # r /\ Stored(t)' /\ vouched'[t] = vouched[t]
        BY <4>2, <1>3, <2>1
      <4> QED BY <4>1, <4>2, <4>3 DEF Stored
    <3> QED BY <3>1, <3>2
  <2>4. AccountsWereStored' /\ TokenVouchesForPassword'
    <3> SUFFICES ASSUME NEW d \in Emails, account'[d] \in Mail!Account
                 PROVE  /\ Stored(account[d].token)'
                        /\ vouched'[account'[d].token] = account'[d].password
      BY DEF AccountsWereStored, TokenVouchesForPassword, Stored,
             Mail!TokenVouchesForPassword
    <3>1. account'[d] = account[d] /\ Stored(account[d].token)
          /\ vouched[account[d].token] = account[d].password
      BY <1>1 DEF VouchedInv, AccountsWereStored, TokenVouchesForPassword,
                  Mail!TokenVouchesForPassword
    <3>2. PICK t \in Requests : t = account[d].token /\ Stored(t)
      BY <3>1 DEF Stored
    <3>3. t # r /\ Stored(t)' /\ vouched'[t] = vouched[t]
      BY <3>2, <1>3, <2>1
    <3> QED BY <3>1, <3>2, <3>3 DEF Stored
  <2> QED BY <2>2, <2>3, <2>4 DEF VouchedInv
<1>6. CASE Mail!StorePending(r)
  <2> DEFINE row == Mail!Upsert(r)
  <2>1. row \in Mail!Pending /\ row.password = r /\ row.token = r
    BY DEF Mail!Upsert
  <2>2. /\ pending' = [pending EXCEPT ![e] = row]
        /\ vouched' = [vouched EXCEPT ![r] = r]
    BY <1>6 DEF Mail!StorePending, Mail!Email
  <2> QED BY <2>1, <2>2, <1>5
<1>7. CASE Mail!RefreshPending(r)
  <2>1. CASE pending[e] = Nothing
    BY <1>4, <1>7, <2>1 DEF Mail!RefreshPending, Mail!Email
  <2>2. CASE pending[e] # Nothing
    <3> DEFINE row == [[pending[e] EXCEPT !.token = r] EXCEPT !.live = TRUE]
    <3>1. pending[e] \in Mail!Pending /\ pending[e].password \in Requests
      BY <2>2, <1>1, <1>t DEF MailTypes
    <3>2. row \in Mail!Pending /\ row.token = r
          /\ row.password = pending[e].password
      BY <3>1
    <3>3. /\ pending' = [pending EXCEPT ![e].token = r, ![e].live = TRUE]
          /\ vouched' = [vouched EXCEPT ![r] = pending[e].password]
      BY <1>7, <2>2 DEF Mail!RefreshPending, Mail!Email
    <3>4. pending' = [pending EXCEPT ![e] = row]
      BY <3>3, <1>1, <1>t DEF MailTypes
    <3> QED BY <3>1, <3>2, <3>3, <3>4, <1>5
  <2> QED BY <2>1, <2>2
<1> QED BY <1>6, <1>7

LEMMA MailVerifyStep ==
  ASSUME VouchedInv, NEW t \in Requests, Mail!Verify(t)
  PROVE  VouchedInv'
<1> DEFINE e == asked[t].email
<1>t. MailTypes
  BY DEF VouchedInv
<1>1. /\ pending[e] # Nothing /\ pending[e].token = t
      /\ account' = [account EXCEPT ![e] = [password |-> pending[e].password,
                                            token |-> t]]
      /\ pending' = [pending EXCEPT ![e] = Nothing]
      /\ UNCHANGED <<handler, asked, vouched>>
  BY DEF Mail!Verify, Mail!Email
<1>2. e \in Emails => /\ pending[e] \in Mail!Pending
                      /\ Stored(t) /\ vouched[t] = pending[e].password
  BY <1>1, <1>t DEF VouchedInv, PendingVouches, MailTypes
<1>3. MailTypes' /\ AskedOfAnAddress'
  BY <1>1, <1>2, <1>t DEF VouchedInv, MailTypes, AskedOfAnAddress
<1>4. PendingVouches'
  BY <1>1, <1>t DEF VouchedInv, PendingVouches, MailTypes, Stored
<1>5. AccountsWereStored' /\ TokenVouchesForPassword'
  BY <1>1, <1>2, <1>t
  DEF VouchedInv, AccountsWereStored, TokenVouchesForPassword,
      Mail!TokenVouchesForPassword, MailTypes, Stored
<1> QED BY <1>3, <1>4, <1>5 DEF VouchedInv

(* An expiry, and an account made otherwise.                               *)
LEMMA MailOutsideStep ==
  ASSUME VouchedInv, NEW e \in Emails,
         Mail!PendingExpires(e) \/ Mail!RegisterElsewhere(e)
  PROVE  VouchedInv'
<1>t. MailTypes
  BY DEF VouchedInv
<1>o. Mail!Outside \notin Mail!Account
  BY MailAssumption DEF Mail!RegistrationAssumption
<1>1. CASE Mail!PendingExpires(e)
  <2>1. /\ \A d \in Emails : /\ pending'[d] # Nothing => pending[d] # Nothing
                             /\ pending'[d].token = pending[d].token
                             /\ pending'[d].password = pending[d].password
        /\ UNCHANGED <<account, handler, asked, vouched>>
    BY <1>1, <1>t DEF Mail!PendingExpires, MailTypes
  <2> DEFINE row == [pending[e] EXCEPT !.live = FALSE]
  <2>a. row \in Mail!Pending
    <3>1. pending[e] \in Mail!Pending
      BY <1>1, <1>t DEF Mail!PendingExpires, MailTypes
    <3> QED BY <3>1
  <2>b. pending' = [pending EXCEPT ![e] = row]
    BY <1>1, <1>t DEF Mail!PendingExpires, MailTypes
  <2> HIDE DEF row
  <2>2. MailTypes' /\ AskedOfAnAddress'
    BY <2>a, <2>b, <2>1, <1>t DEF VouchedInv, MailTypes, AskedOfAnAddress
  <2>3. PendingVouches'
    BY <2>1 DEF VouchedInv, PendingVouches, Stored
  <2>4. AccountsWereStored' /\ TokenVouchesForPassword'
    BY <2>1 DEF VouchedInv, AccountsWereStored, TokenVouchesForPassword,
                Mail!TokenVouchesForPassword, Stored
  <2> QED BY <2>2, <2>3, <2>4 DEF VouchedInv
<1>2. CASE Mail!RegisterElsewhere(e)
  <2>1. /\ account' = [account EXCEPT ![e] = Mail!Outside]
        /\ UNCHANGED <<pending, handler, asked, vouched>>
    BY <1>2 DEF Mail!RegisterElsewhere
  <2>2. MailTypes' /\ AskedOfAnAddress' /\ PendingVouches'
    BY <2>1, <1>t DEF VouchedInv, MailTypes, AskedOfAnAddress,
                      PendingVouches, Stored
  <2>3. AccountsWereStored' /\ TokenVouchesForPassword'
    BY <2>1, <1>o, <1>t
    DEF VouchedInv, AccountsWereStored, TokenVouchesForPassword,
        Mail!TokenVouchesForPassword, MailTypes, Stored
  <2> QED BY <2>2, <2>3 DEF VouchedInv
<1> QED BY <1>1, <1>2

LEMMA MailStep ==
  ASSUME VouchedInv, [Mail!Next]_mailVars
  PROVE  VouchedInv'
<1>t. MailTypes /\ AskedOfAnAddress
  BY DEF VouchedInv
<1>1. ASSUME UNCHANGED <<pending, account, asked, vouched>>,
             NEW r \in Requests, NEW p \in MailPhases,
             handler' = [handler EXCEPT ![r] = p], handler[r] # "idle",
             Stored(r) => p \in {"done", "died"}
      PROVE  VouchedInv'
  <2>1. MailTypes' /\ AskedOfAnAddress'
    BY <1>1, <1>t DEF MailTypes, AskedOfAnAddress
  <2>2. \A q \in Requests : Stored(q) => Stored(q)'
    BY <1>1, <1>t DEF Stored, MailTypes
  <2> QED BY <1>1, <2>1, <2>2, MailQuietStep
<1>2. ASSUME NEW r \in Requests, Mail!CheckUser(r)
      PROVE  VouchedInv'
  BY <1>1, <1>2 DEF Mail!CheckUser, Mail!Goto, Stored
<1>3. ASSUME NEW r \in Requests, Mail!Enqueue(r)
      PROVE  VouchedInv'
  BY <1>1, <1>3 DEF Mail!Enqueue, Mail!Goto
<1>4. ASSUME NEW r \in Requests, Mail!RequestDies(r)
      PROVE  VouchedInv'
  BY <1>1, <1>4 DEF Mail!RequestDies, Mail!Goto
<1>5. ASSUME NEW r \in Requests, NEW op \in Mail!Ops, NEW e \in Emails,
             Mail!Receive(r, op, e)
      PROVE  VouchedInv'
  <2>1. MailTypes' /\ AskedOfAnAddress'
    BY <1>5, <1>t DEF Mail!Receive, Mail!Goto, MailTypes,
                      AskedOfAnAddress
  <2>2. \A q \in Requests : Stored(q) => Stored(q)'
    BY <1>5, <1>t DEF Mail!Receive, Mail!Goto, Stored, MailTypes
  <2> QED BY <1>5, <2>1, <2>2, MailQuietStep DEF Mail!Receive
<1>6. ASSUME UNCHANGED <<pending, account, handler, asked, vouched>>
      PROVE  VouchedInv'
  <2>1. MailTypes' /\ AskedOfAnAddress'
    BY <1>6, <1>t DEF MailTypes, AskedOfAnAddress
  <2> QED BY <1>6, <2>1, MailQuietStep DEF Stored
<1>7. ASSUME NEW w \in Workers,
             \/ \E t \in Requests : Mail!Claim(w, t)
             \/ Mail!Answer(w) \/ Mail!WorkerDies(w)
      PROVE  VouchedInv'
  BY <1>6, <1>7 DEF Mail!Claim, Mail!Answer, Mail!Deliver,
                    Mail!DeliveryFails, Mail!WorkerDies
<1>8. ASSUME NEW t \in Requests, Mail!NextAttemptDue(t)
      PROVE  VouchedInv'
  BY <1>6, <1>8 DEF Mail!NextAttemptDue
<1>9. CASE UNCHANGED mailVars
  BY <1>6, <1>9 DEF mailVars
<1> QED BY <1>2, <1>3, <1>4, <1>5, <1>7, <1>8, <1>9, MailStoreStep,
           MailVerifyStep, MailOutsideStep DEF Mail!Next, Mail!Handle

(* A verification link activates the password its token was stored with,   *)
(* however sign-ups and resends of an address overtake each other.         *)
THEOREM TokensVouch == Deliveries => []TokenVouchesForPassword
<1>1. Start => VouchedInv
  <2> SUFFICES ASSUME Mail!Init PROVE VouchedInv
    BY DEF Start
  <2>1. Nothing \notin Mail!Account
    BY MailAssumption DEF Mail!RegistrationAssumption
  <2> QED BY <2>1
          DEF Mail!Init, VouchedInv, MailTypes, AskedOfAnAddress,
              PendingVouches, AccountsWereStored, TokenVouchesForPassword,
              Mail!TokenVouchesForPassword
<1>2. VouchedInv /\ [Move]_allVars => VouchedInv'
  BY MailStep DEF Move, allVars
<1>3. VouchedInv => TokenVouchesForPassword
  BY DEF VouchedInv
<1> QED BY <1>1, <1>2, <1>3, PTL DEF Deliveries
=============================================================================
