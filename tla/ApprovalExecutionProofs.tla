----------------------- MODULE ApprovalExecutionProofs -----------------------
(***************************************************************************)
(* What ApprovalExecution promises for any number of calls, approvals,     *)
(* keys and administrators, whatever approval policy asks for and with     *)
(* clients that send references with unrelated calls.                      *)
(*                                                                         *)
(* Three facts carry the proofs.  An approved request stays approved, so   *)
(* what Load has compared still holds when a call reaches the tool         *)
(* (PermittedCalls).  A row of approval_executions is only there for an    *)
(* approved request, and is never removed (RowsAreApproved).  Claim lets a *)
(* call through only if there was no row (OneHolder).                      *)
(***************************************************************************)
EXTENDS ApprovalExecution, TLAPS

AfterClaim == {"quota", "invoke", "inspect", "fail", "complete"}

HaveReferences ==
  \A c \in Calls :
    /\ pc[c] \in {"load", "claim", "compare"} => ref[c] # None
    /\ needs[c] /\ pc[c] \in AfterClaim => ref[c] # None

CompletedHaveResults ==
  \A a \in Approvals :
    execution[a] # NoRow /\ execution[a].state = "completed" =>
      execution[a].result \in Calls

TypeInv == TypeOK /\ HaveReferences /\ CompletedHaveResults

Permitted(c) ==
  ref[c] # None /\ status[Id(c)] = "approved" /\ Related(c, ref[c])

UsesClaim(c) == needs[c] /\ pc[c] \in AfterClaim

PermittedCalls ==
  \A c \in Calls :
    /\ pc[c] \in {"claim", "compare"} \/ UsesClaim(c) => Permitted(c)
    /\ pc[c] = "compare" \/ UsesClaim(c) => execution[Id(c)] # NoRow

RowsAreApproved ==
  \A a \in Approvals : execution[a] # NoRow =>
    /\ status[a] = "approved"
    /\ execution[a].principal = owner[a] /\ execution[a].hash = hash[a]

(* Calls that may use, or have used, the claim of a.                       *)
Holds(c, a) ==
  \/ UsesClaim(c) /\ Id(c) = a
  \/ <<c, a>> \in ran

OneHolder ==
  \A a \in Approvals, c \in Calls : Holds(c, a) =>
    /\ execution[a] # NoRow
    /\ \A d \in Calls : Holds(d, a) => c = d

AnsweredCalls ==
  \A c \in Calls : /\ pc[c] \in {"inspect", "complete"} => c \in answered
                   /\ c \in answered => pc[c] # "start"

ResultsOfRows ==
  \A a \in Approvals :
    execution[a] # NoRow /\ execution[a].state = "completed" =>
      LET x == execution[a].result
      IN /\ x \in answered
         /\ needs[x] => Who[x] = owner[a] /\ Hash[x] = hash[a]

ApprovalInv ==
  /\ TypeInv /\ PermittedCalls /\ RowsAreApproved /\ OneHolder
  /\ OnlyApprovedCallsRun

ReplayInv ==
  ApprovalInv /\ AnsweredCalls /\ ResultsOfRows /\ ReplayIsOfTheSameCall

-----------------------------------------------------------------------------
LEMMA RowsAreNotNoRow ==
  /\ \A row \in Rows : row # NoRow
  /\ \A c \in Calls : ref[c] \in References =>
       /\ Id(c) \in Approvals /\ Key(c) \in Keys
       /\ ref[c] # None
       /\ NewRow(c) \in Rows /\ NewRow(c) # NoRow
       /\ NewRow(c).principal = Who[c] /\ NewRow(c).hash = Hash[c]
       /\ NewRow(c).state = "claimed"
<1>1. \A row \in Rows : row # NoRow
  BY DEF Rows, NoRow
<1>2. ASSUME NEW c \in Calls, ref[c] \in References
      PROVE  /\ Id(c) \in Approvals /\ Key(c) \in Keys /\ ref[c] # None
  BY <1>2, ApprovalAssumption DEF References, Id, Key, ApprovalAssumption
<1>3. ASSUME NEW c \in Calls, ref[c] \in References
      PROVE  /\ NewRow(c) \in Rows
             /\ NewRow(c).principal = Who[c] /\ NewRow(c).hash = Hash[c]
             /\ NewRow(c).state = "claimed"
  BY <1>2, <1>3 DEF NewRow, Rows
<1> QED BY <1>1, <1>2, <1>3

(* What a statement that settles an execution leaves of its row.           *)
LEMMA SettledRow ==
  ASSUME TypeOK, NEW c \in Calls,
         NEW s \in {"completed", "indeterminate"},
         NEW r \in Calls \union {None},
         Settle(c, s, r)
  PROVE  /\ execution' \in [Approvals -> Rows \union {NoRow}]
         /\ \A a \in Approvals :
              \/ execution'[a] = execution[a]
              \/ /\ a = Id(c) /\ ClaimedRow(c)
                 /\ execution[a] \in Rows /\ execution'[a] \in Rows
                 /\ execution[a].state = "claimed"
                 /\ execution'[a].state = s /\ execution'[a].result = r
                 /\ execution'[a].principal = execution[a].principal
                 /\ execution'[a].hash = execution[a].hash
<1>1. CASE ~ClaimedRow(c)
  BY <1>1 DEF Settle, TypeOK
<1>2. CASE ClaimedRow(c)
  <2>1. ref[c] \in References /\ Id(c) \in Approvals
    BY <1>2, RowsAreNotNoRow DEF ClaimedRow, TypeOK
  <2>2. execution[Id(c)] \in Rows
    BY <1>2, <2>1 DEF ClaimedRow, TypeOK
  <2> DEFINE row == execution[Id(c)]
             new == [row EXCEPT !.state = s, !.result = r]
  <2>3. /\ new \in Rows /\ new.state = s /\ new.result = r
        /\ new.principal = row.principal /\ new.hash = row.hash
    BY <2>2 DEF Rows
  <2>4. execution' = [execution EXCEPT ![Id(c)] = new]
    BY <1>2 DEF Settle
  <2>5. row.state = "claimed"
    BY <1>2 DEF ClaimedRow
  <2> HIDE DEF new
  <2>6. execution' \in [Approvals -> Rows \union {NoRow}]
    BY <2>1, <2>3, <2>4 DEF TypeOK
  <2>7. /\ execution'[Id(c)] = new
        /\ \A a \in Approvals : a # Id(c) => execution'[a] = execution[a]
    BY <2>1, <2>4 DEF TypeOK
  <2> QED BY <1>2, <2>2, <2>3, <2>5, <2>6, <2>7
<1> QED BY <1>1, <1>2

LEMMA ExpiryKeepsApproved ==
  ASSUME TypeOK, ExpirePending
  PROVE  /\ status' \in [Approvals -> Statuses]
         /\ \A a \in Approvals : status[a] = "approved" => status'[a] = "approved"
         /\ \A a \in Approvals :
              \/ status'[a] = status[a]
              \/ status[a] = "pending" /\ status'[a] = "expired"
BY DEF TypeOK, ExpirePending, Expired, Statuses

-----------------------------------------------------------------------------
LEMMA TypeInit == Init => TypeInv
BY ApprovalAssumption
   DEF Init, TypeInv, TypeOK, HaveReferences, CompletedHaveResults, Statuses,
       Phases, Answers, Rows

LEMMA TypeStep == TypeInv /\ [Next]_vars => TypeInv'
<1> SUFFICES ASSUME TypeInv, [Next]_vars PROVE TypeInv'
  OBVIOUS
<1> USE DEF TypeInv, Goto, requests, history, AfterClaim
<1>s. ASSUME NEW c \in Calls, NEW s \in {"completed", "indeterminate"},
             NEW r \in Calls \union {None}, Settle(c, s, r),
             s = "completed" => r \in Calls
      PROVE  /\ execution' \in [Approvals -> Rows \union {NoRow}]
             /\ CompletedHaveResults'
  BY <1>s, SettledRow DEF CompletedHaveResults
<1>1. ASSUME NEW c \in Calls, NEW r \in References \union {None},
             NEW need \in BOOLEAN, Start(c, r, need)
      PROVE  TypeInv'
  BY <1>1 DEF Start, TypeOK, HaveReferences, CompletedHaveResults, Phases
<1>2. ASSUME NEW c \in Calls, NEW a \in Approvals, Create(c, a)
      PROVE  TypeInv'
  BY <1>2 DEF Create, TypeOK, HaveReferences, CompletedHaveResults, Phases,
              Statuses
<1>3. ASSUME NEW c \in Calls, Load(c) PROVE TypeInv'
  BY <1>3, ExpiryKeepsApproved
     DEF Load, TypeOK, HaveReferences, CompletedHaveResults, Phases
<1>4. ASSUME NEW c \in Calls, Claim(c) PROVE TypeInv'
  <2>1. ref[c] \in References
    BY <1>4 DEF Claim, HaveReferences, TypeOK
  <2>2. /\ Id(c) \in Approvals /\ NewRow(c) \in Rows
        /\ NewRow(c).state = "claimed"
    BY <2>1, RowsAreNotNoRow
  <2>3. /\ execution' \in [Approvals -> Rows \union {NoRow}]
        /\ \A a \in Approvals :
             execution'[a] = execution[a] \/ execution'[a] = NewRow(c)
    BY <1>4, <2>2 DEF Claim, TypeOK
  <2> QED
    BY <1>4, <2>2, <2>3
       DEF Claim, TypeOK, HaveReferences, CompletedHaveResults, Phases
<1>5. ASSUME NEW c \in Calls, Compare(c) PROVE TypeInv'
  <2>1. Id(c) \in Approvals
    BY <1>5, RowsAreNotNoRow DEF Compare, HaveReferences, TypeOK
  <2>2. execution[Id(c)].state = "completed" =>
          execution[Id(c)].result \in Calls
    BY <2>1 DEF CompletedHaveResults, NoRow
  <2>3. answer' \in [Calls -> Answers]
    BY <1>5, <2>2 DEF Compare, TypeOK, Answers
  <2> QED
    BY <1>5, <2>3
       DEF Compare, TypeOK, HaveReferences, CompletedHaveResults, Phases
<1>6. ASSUME NEW c \in Calls, NEW ok \in BOOLEAN,
             Reserve(c, ok) \/ Invoke(c, ok) \/ Inspect(c, ok)
      PROVE  TypeInv'
  <2>1. Invoke(c, ok) /\ needs[c] => Id(c) \in Approvals
    BY RowsAreNotNoRow DEF Invoke, TypeOK, HaveReferences
  <2> QED
    BY <1>6, <2>1
       DEF Reserve, Invoke, Inspect, TypeOK, HaveReferences,
           CompletedHaveResults, Phases
<1>7. ASSUME NEW c \in Calls, NEW ok \in BOOLEAN, Complete(c, ok)
      PROVE  TypeInv'
  <2>1. /\ execution' \in [Approvals -> Rows \union {NoRow}]
        /\ CompletedHaveResults'
    BY <1>7, <1>s DEF Complete
  <2>2. answer' \in [Calls -> Answers]
    BY <1>7 DEF Complete, TypeOK, Answers
  <2> QED
    BY <1>7, <2>1, <2>2 DEF Complete, TypeOK, HaveReferences, Phases
<1>8. ASSUME NEW c \in Calls, Fail(c) PROVE TypeInv'
  <2>1. /\ execution' \in [Approvals -> Rows \union {NoRow}]
        /\ CompletedHaveResults'
    BY <1>8, <1>s DEF Fail
  <2> QED BY <1>8, <2>1 DEF Fail, TypeOK, HaveReferences, Phases
<1>9. ASSUME NEW c \in Calls, Abandon(c) PROVE TypeInv'
  BY <1>9 DEF Abandon, TypeOK, HaveReferences, CompletedHaveResults, Phases
<1>10. CASE List
  BY <1>10, ExpiryKeepsApproved
     DEF List, TypeOK, HaveReferences, CompletedHaveResults
<1>11. ASSUME NEW a \in Approvals, PassTime(a) PROVE TypeInv'
  BY <1>11 DEF PassTime, TypeOK, HaveReferences, CompletedHaveResults
<1>12. ASSUME NEW d \in Admins, NEW a \in Approvals, NEW v \in Verdicts,
              StartDecision(d, a, v)
       PROVE  TypeInv'
  BY <1>12, ExpiryKeepsApproved
     DEF StartDecision, TypeOK, HaveReferences, CompletedHaveResults
<1>13. ASSUME NEW d \in Admins, Decide(d) PROVE TypeInv'
  <2>1. ruling[d][1] \in Approvals /\ ruling[d][2] \in Verdicts
    BY <1>13 DEF Decide
  <2>2. /\ status' \in [Approvals -> Statuses]
        /\ ruling' \in [Admins ->
             (Approvals \X (Verdicts \union {"written"})) \union {None}]
    BY <1>13, <2>1 DEF Decide, TypeOK, Statuses, Verdicts
  <2> QED
    BY <1>13, <2>2 DEF Decide, TypeOK, HaveReferences, CompletedHaveResults
<1>14. CASE UNCHANGED vars
  BY <1>14 DEF vars, TypeOK, HaveReferences, CompletedHaveResults
<1> QED
  BY <1>1, <1>2, <1>3, <1>4, <1>5, <1>6, <1>7, <1>8, <1>9, <1>10, <1>11,
     <1>12, <1>13, <1>14 DEF Next, CallStep

(* Every variable has its type.                                            *)
THEOREM TypeCorrect == Spec => []TypeOK
<1>1. TypeInv => TypeOK
  BY DEF TypeInv
<1> QED BY TypeInit, TypeStep, <1>1, PTL DEF Spec

-----------------------------------------------------------------------------
LEMMA ApprovalInit == Init => ApprovalInv
<1> SUFFICES ASSUME Init PROVE ApprovalInv
  OBVIOUS
<1>1. PermittedCalls /\ RowsAreApproved /\ OneHolder /\ OnlyApprovedCallsRun
  BY DEF Init, PermittedCalls, RowsAreApproved, OneHolder, Holds, UsesClaim,
         AfterClaim, OnlyApprovedCallsRun
<1> QED BY <1>1, TypeInit DEF ApprovalInv

RequestsStay ==
  \A a \in Approvals : status[a] = "approved" =>
    status'[a] = "approved" /\ owner'[a] = owner[a] /\ hash'[a] = hash[a]

RowsStay ==
  \A a \in Approvals : execution[a] # NoRow =>
    /\ execution'[a] # NoRow
    /\ execution'[a].principal = execution[a].principal
    /\ execution'[a].hash = execution[a].hash

LEMMA PermissionStays ==
  ASSUME ApprovalInv, RequestsStay, NEW c \in Calls, Permitted(c), ref'[c] = ref[c]
  PROVE  Permitted(c)' /\ Id(c) \in Approvals /\ Id(c)' = Id(c)
<1>1. Id(c) \in Approvals /\ Id(c)' = Id(c)
  BY RowsAreNotNoRow DEF Permitted, ApprovalInv, TypeInv, TypeOK, Id
<1> QED BY <1>1 DEF Permitted, Related, RequestsStay, Id

(* Most steps take no approval back, remove no row and insert none, and    *)
(* let no call go on but one that has been compared with its approval.     *)
LEMMA NothingIsClaimed ==
  ASSUME ApprovalInv, TypeInv', RequestsStay, RowsStay,
         \A a \in Approvals : execution[a] = NoRow => execution'[a] = NoRow,
         UNCHANGED <<ran, unapproved>>,
         \A c \in Calls :
           \/ UNCHANGED <<pc[c], ref[c], needs[c]>>
           \/ pc'[c] \notin {"claim", "compare"} /\ ~UsesClaim(c)'
           \/ pc'[c] = "claim" /\ Permitted(c)'
           \/ /\ pc[c] \in AfterClaim /\ pc'[c] \in AfterClaim
              /\ UNCHANGED <<ref[c], needs[c]>>
  PROVE  ApprovalInv'
<1> USE DEF ApprovalInv
<1>1. PermittedCalls'
  <2> SUFFICES ASSUME NEW c \in Calls
               PROVE  /\ pc'[c] \in {"claim", "compare"} \/ UsesClaim(c)' =>
                           Permitted(c)'
                      /\ pc'[c] = "compare" \/ UsesClaim(c)' =>
                           execution'[Id(c)'] # NoRow
    BY DEF PermittedCalls
  <2>1. CASE UNCHANGED <<pc[c], ref[c], needs[c]>>
    BY <2>1, PermissionStays DEF PermittedCalls, UsesClaim, RowsStay
  <2>2. CASE pc'[c] \notin {"claim", "compare"} /\ ~UsesClaim(c)'
    BY <2>2
  <2>3. CASE pc'[c] = "claim" /\ Permitted(c)'
    BY <2>3 DEF UsesClaim, AfterClaim
  <2>4. CASE /\ pc[c] \in AfterClaim /\ pc'[c] \in AfterClaim
             /\ UNCHANGED <<ref[c], needs[c]>>
    BY <2>4, PermissionStays
       DEF PermittedCalls, UsesClaim, RowsStay, AfterClaim
  <2> QED BY <2>1, <2>2, <2>3, <2>4
<1>2. RowsAreApproved'
  BY DEF RowsAreApproved, RequestsStay, RowsStay
<1>3. ASSUME NEW c \in Calls, NEW a \in Approvals, Holds(c, a)'
      PROVE  Holds(c, a)
  BY <1>3 DEF Holds, UsesClaim, AfterClaim, Id
<1>4. OneHolder'
  BY <1>3 DEF OneHolder, RowsStay
<1> QED BY <1>1, <1>2, <1>4 DEF OnlyApprovedCallsRun

-----------------------------------------------------------------------------
LEMMA ClaimStep ==
  ASSUME ApprovalInv, TypeInv', NEW c \in Calls, Claim(c)
  PROVE  ApprovalInv' /\ RowsStay
<1> USE DEF ApprovalInv, requests, history
<1>1. /\ Permitted(c) /\ ref[c] \in References
      /\ Id(c) \in Approvals /\ pc[c] = "claim"
      /\ NewRow(c) # NoRow /\ NewRow(c) \in Rows
      /\ NewRow(c).principal = Who[c] /\ NewRow(c).hash = Hash[c]
  BY RowsAreNotNoRow
     DEF Claim, PermittedCalls, Permitted, TypeInv, TypeOK
<1>2. /\ UNCHANGED <<status, owner, hash, ref, needs, ran, unapproved>>
      /\ \A d \in Calls : d # c => pc'[d] = pc[d]
      /\ \A a \in Approvals : a # Id(c) => execution'[a] = execution[a]
      /\ \/ /\ execution[Id(c)] = NoRow /\ execution'[Id(c)] = NewRow(c)
            /\ pc'[c] = "quota"
         \/ /\ execution[Id(c)] # NoRow /\ execution' = execution
            /\ pc'[c] = "compare"
  BY <1>1 DEF Claim, Goto, TypeInv, TypeOK
<1>3. RowsStay /\ RequestsStay
  BY <1>2 DEF RowsStay, RequestsStay
<1>4. PermittedCalls'
  <2> SUFFICES ASSUME NEW d \in Calls
               PROVE  /\ pc'[d] \in {"claim", "compare"} \/ UsesClaim(d)' =>
                           Permitted(d)'
                      /\ pc'[d] = "compare" \/ UsesClaim(d)' =>
                           execution'[Id(d)'] # NoRow
    BY DEF PermittedCalls
  <2>1. CASE d = c
    BY <1>1, <1>2, <1>3, <2>1, PermissionStays
  <2>2. CASE d # c
    BY <1>2, <1>3, <2>2, PermissionStays
       DEF PermittedCalls, UsesClaim, RowsStay
  <2> QED BY <2>1, <2>2
<1>5. RowsAreApproved'
  BY <1>1, <1>2 DEF RowsAreApproved, Permitted, Related, Id
<1>6. ASSUME NEW d \in Calls, NEW a \in Approvals, Holds(d, a)'
      PROVE  \/ Holds(d, a)
             \/ d = c /\ a = Id(c) /\ execution[a] = NoRow
  BY <1>1, <1>2, <1>6 DEF Holds, UsesClaim, AfterClaim, Id
<1>7. OneHolder'
  BY <1>3, <1>6, <1>2, <1>1 DEF OneHolder, RowsStay
<1> QED BY <1>2, <1>3, <1>4, <1>5, <1>7 DEF OnlyApprovedCallsRun

LEMMA InvokeStep ==
  ASSUME ApprovalInv, TypeInv', NEW c \in Calls, NEW ok \in BOOLEAN, Invoke(c, ok)
  PROVE  ApprovalInv'
<1> USE DEF ApprovalInv, requests, history
<1>1. /\ UNCHANGED <<status, owner, hash, execution, ref, needs>>
      /\ \A d \in Calls : d # c => pc'[d] = pc[d]
      /\ pc[c] = "invoke" /\ pc'[c] \in {"inspect", "fail"}
      /\ ran' = IF needs[c] THEN ran \union {<<c, Id(c)>>} ELSE ran
  BY DEF Invoke, Goto, TypeInv, TypeOK
<1>2. RowsStay /\ RequestsStay
  BY <1>1 DEF RowsStay, RequestsStay
<1>3. PermittedCalls'
  BY <1>1, <1>2, PermissionStays
     DEF PermittedCalls, UsesClaim, AfterClaim, RowsStay
<1>4. OnlyApprovedCallsRun'
  BY DEF Invoke, OnlyApprovedCallsRun, PermittedCalls, Permitted, UsesClaim,
         AfterClaim
<1>5. ASSUME NEW d \in Calls, NEW a \in Approvals, Holds(d, a)'
      PROVE  Holds(d, a)
  BY <1>1, <1>5 DEF Holds, UsesClaim, AfterClaim, Id
<1>6. OneHolder'
  BY <1>1, <1>5 DEF OneHolder
<1> QED BY <1>1, <1>3, <1>4, <1>6 DEF RowsAreApproved

LEMMA ApprovalStep == ApprovalInv /\ [Next]_vars => ApprovalInv'
<1> SUFFICES ASSUME ApprovalInv, [Next]_vars PROVE ApprovalInv'
  OBVIOUS
<1> USE DEF requests, history
<1>t. TypeInv /\ TypeInv' /\ TypeOK
  BY TypeStep DEF ApprovalInv, TypeInv
<1>e. ASSUME ExpirePending, UNCHANGED <<owner, hash>> PROVE RequestsStay
  BY <1>e, <1>t, ExpiryKeepsApproved DEF RequestsStay
<1>s. ASSUME NEW c \in Calls, NEW s \in {"completed", "indeterminate"},
             NEW r \in Calls \union {None}, Settle(c, s, r)
      PROVE  /\ RowsStay
             /\ \A a \in Approvals : execution[a] = NoRow => execution'[a] = NoRow
  BY <1>s, <1>t, SettledRow, RowsAreNotNoRow DEF RowsStay
<1>1. ASSUME NEW c \in Calls, NEW r \in References \union {None},
             NEW need \in BOOLEAN, Start(c, r, need)
      PROVE  ApprovalInv'
  BY <1>1, <1>t, NothingIsClaimed
     DEF Start, Goto, TypeOK, UsesClaim, AfterClaim, RequestsStay, RowsStay
<1>2. ASSUME NEW c \in Calls, NEW a \in Approvals, Create(c, a)
      PROVE  ApprovalInv'
  BY <1>2, <1>t, NothingIsClaimed
     DEF Create, Goto, TypeOK, UsesClaim, AfterClaim, RequestsStay, RowsStay
<1>3. ASSUME NEW c \in Calls, Load(c) PROVE ApprovalInv'
  <2>1. ref[c] # None
    BY <1>3, <1>t DEF Load, TypeInv, HaveReferences
  <2>2. \/ pc'[c] = "claim" /\ Permitted(c)'
        \/ pc'[c] = "done"
    BY <1>3, <1>t, <2>1 DEF Load, Goto, TypeOK, Permitted, Related, Id
  <2> QED
    BY <1>3, <1>t, <1>e, <2>2, NothingIsClaimed
       DEF Load, Goto, TypeOK, UsesClaim, AfterClaim, RowsStay
<1>4. ASSUME NEW c \in Calls, Compare(c) PROVE ApprovalInv'
  BY <1>4, <1>t, NothingIsClaimed
     DEF Compare, Goto, TypeOK, UsesClaim, AfterClaim, RequestsStay, RowsStay
<1>5. ASSUME NEW c \in Calls, NEW ok \in BOOLEAN,
             Reserve(c, ok) \/ Inspect(c, ok)
      PROVE  ApprovalInv'
  BY <1>5, <1>t, NothingIsClaimed
     DEF Reserve, Inspect, Goto, TypeOK, UsesClaim, AfterClaim, RequestsStay,
         RowsStay
<1>6. ASSUME NEW c \in Calls, NEW ok \in BOOLEAN, Complete(c, ok)
      PROVE  ApprovalInv'
  BY <1>6, <1>t, <1>s, NothingIsClaimed
     DEF Complete, Goto, TypeOK, UsesClaim, AfterClaim, RequestsStay
<1>7. ASSUME NEW c \in Calls, Fail(c) PROVE ApprovalInv'
  BY <1>7, <1>t, <1>s, NothingIsClaimed
     DEF Fail, Goto, TypeOK, UsesClaim, AfterClaim, RequestsStay
<1>8. ASSUME NEW c \in Calls, Abandon(c) PROVE ApprovalInv'
  BY <1>8, <1>t, NothingIsClaimed
     DEF Abandon, Goto, TypeOK, UsesClaim, AfterClaim, RequestsStay, RowsStay
<1>9. CASE List
  BY <1>9, <1>t, <1>e, NothingIsClaimed DEF List, RowsStay
<1>10. ASSUME NEW a \in Approvals, PassTime(a) PROVE ApprovalInv'
  BY <1>10, <1>t, NothingIsClaimed DEF PassTime, RequestsStay, RowsStay
<1>11. ASSUME NEW d \in Admins, NEW a \in Approvals, NEW v \in Verdicts,
              StartDecision(d, a, v)
       PROVE  ApprovalInv'
  BY <1>11, <1>t, <1>e, NothingIsClaimed DEF StartDecision, RowsStay
<1>12. ASSUME NEW d \in Admins, Decide(d) PROVE ApprovalInv'
  BY <1>12, <1>t, NothingIsClaimed DEF Decide, TypeOK, RequestsStay, RowsStay
<1>13. CASE UNCHANGED vars
  BY <1>13, <1>t, NothingIsClaimed DEF vars, RequestsStay, RowsStay
<1> QED
  BY <1>t, <1>1, <1>2, <1>3, <1>4, <1>5, <1>6, <1>7, <1>8, <1>9, <1>10,
     <1>11, <1>12, <1>13, ClaimStep, InvokeStep DEF Next, CallStep

(* One approval lets one call through to the tool, whatever the number of  *)
(* retries, their keys and the places where callers or processes die.      *)
THEOREM OneRunPerApprovalHolds == Spec => []OneRunPerApproval
<1>1. ApprovalInv => OneRunPerApproval
  BY DEF ApprovalInv, OneHolder, Holds, OneRunPerApproval
<1> QED BY ApprovalInit, ApprovalStep, <1>1, PTL DEF Spec

(* A call that needs approval reaches the tool only under an approval that *)
(* was granted for its principal and its request.                          *)
THEOREM OnlyApprovedCallsRunHolds == Spec => []OnlyApprovedCallsRun
<1>1. ApprovalInv => OnlyApprovedCallsRun
  BY DEF ApprovalInv
<1> QED BY ApprovalInit, ApprovalStep, <1>1, PTL DEF Spec

-----------------------------------------------------------------------------
(* x may be the result that is stored for the approval a.                  *)
MayBeStored(x, a) ==
  x \in answered /\ (needs[x] => Who[x] = owner[a] /\ Hash[x] = hash[a])

LEMMA ReplayInit == Init => ReplayInv
BY ApprovalInit
   DEF Init, ReplayInv, AnsweredCalls, ResultsOfRows, ReplayIsOfTheSameCall,
       NoAnswer

(* Results are stored, and stored results returned, by two actions only.   *)
LEMMA StoredResultsStay ==
  ASSUME ReplayInv, TypeOK', RequestsStay,
         answered \subseteq answered',
         \A x \in answered : needs'[x] = needs[x],
         \A a \in Approvals :
           execution'[a] # NoRow /\ execution'[a].state = "completed" =>
             \/ execution'[a] = execution[a]
             \/ status[a] = "approved" /\ MayBeStored(execution'[a].result, a),
         \A c \in Calls :
           answer'[c].kind = "stored" =>
             \/ answer'[c] = answer[c]
             \/ \E a \in Approvals :
                  /\ MayBeStored(answer'[c].call, a)
                  /\ owner[a] = Who[c] /\ hash[a] = Hash[c]
  PROVE  ResultsOfRows' /\ ReplayIsOfTheSameCall'
<1> USE DEF ReplayInv, ApprovalInv
<1>1. ASSUME NEW a \in Approvals,
             execution'[a] # NoRow, execution'[a].state = "completed"
      PROVE  MayBeStored(execution[a].result, a)'
  <2>1. status[a] = "approved" /\ MayBeStored(execution'[a].result, a)
    BY <1>1 DEF RowsAreApproved, ResultsOfRows, MayBeStored
  <2> QED BY <2>1 DEF MayBeStored, RequestsStay
<1>2. ResultsOfRows'
  BY <1>1 DEF ResultsOfRows, MayBeStored
<1>3. ReplayIsOfTheSameCall'
  BY DEF ReplayIsOfTheSameCall, MayBeStored
<1> QED BY <1>2, <1>3

LEMMA ReplayStep == ReplayInv /\ [Next]_vars => ReplayInv'
<1> SUFFICES ASSUME ReplayInv, [Next]_vars PROVE ReplayInv'
  OBVIOUS
<1> USE DEF requests, history
<1>t. /\ ApprovalInv /\ ApprovalInv' /\ TypeOK /\ TypeOK'
      /\ TypeInv /\ AnsweredCalls
  BY ApprovalStep DEF ApprovalInv, TypeInv, ReplayInv
<1>q. SUFFICES AnsweredCalls' /\ ResultsOfRows' /\ ReplayIsOfTheSameCall'
  BY <1>t DEF ReplayInv
<1>e. ASSUME ExpirePending, UNCHANGED <<owner, hash>> PROVE RequestsStay
  BY <1>e, <1>t, ExpiryKeepsApproved DEF RequestsStay
<1>1. ASSUME NEW c \in Calls, NEW r \in References \union {None},
             NEW need \in BOOLEAN, Start(c, r, need)
      PROVE  AnsweredCalls' /\ ResultsOfRows' /\ ReplayIsOfTheSameCall'
  <2>1. AnsweredCalls' /\ c \notin answered
    BY <1>1, <1>t DEF Start, Goto, TypeOK, AnsweredCalls
  <2> QED
    BY <1>1, <1>t, <2>1, StoredResultsStay
       DEF Start, TypeOK, RequestsStay
<1>2. ASSUME NEW c \in Calls, NEW a \in Approvals, Create(c, a)
      PROVE  AnsweredCalls' /\ ResultsOfRows' /\ ReplayIsOfTheSameCall'
  BY <1>2, <1>t, StoredResultsStay
     DEF Create, Goto, TypeOK, AnsweredCalls, RequestsStay
<1>3. ASSUME NEW c \in Calls, Load(c)
      PROVE  AnsweredCalls' /\ ResultsOfRows' /\ ReplayIsOfTheSameCall'
  BY <1>3, <1>t, <1>e, StoredResultsStay
     DEF Load, Goto, TypeOK, AnsweredCalls
<1>4. ASSUME NEW c \in Calls, Claim(c)
      PROVE  AnsweredCalls' /\ ResultsOfRows' /\ ReplayIsOfTheSameCall'
  <2>1. Id(c) \in Approvals /\ NewRow(c).state = "claimed"
    BY <1>4, <1>t, RowsAreNotNoRow DEF Claim, TypeInv, TypeOK, HaveReferences
  <2>2. \A a \in Approvals :
          execution'[a] = execution[a] \/ execution'[a].state = "claimed"
    BY <1>4, <1>t, <2>1 DEF Claim, TypeOK
  <2> QED
    BY <1>4, <1>t, <2>2, StoredResultsStay
       DEF Claim, Goto, TypeOK, AnsweredCalls, RequestsStay
<1>5. ASSUME NEW c \in Calls, Compare(c)
      PROVE  AnsweredCalls' /\ ResultsOfRows' /\ ReplayIsOfTheSameCall'
  <2> DEFINE row == execution[Id(c)]
  <2>1. /\ Id(c) \in Approvals /\ row # NoRow /\ Permitted(c)
    BY <1>5, <1>t, RowsAreNotNoRow
       DEF Compare, TypeInv, TypeOK, HaveReferences, ApprovalInv, PermittedCalls
  <2>2. owner[Id(c)] = Who[c] /\ hash[Id(c)] = Hash[c]
    BY <2>1 DEF Permitted, Related, Id
  <2>3. \/ answer' = answer
        \/ /\ row.state = "completed"
           /\ answer' = [answer EXCEPT ![c] =
                           [kind |-> "stored", call |-> row.result]]
    BY <1>5 DEF Compare
  <2>4. row.state = "completed" => MayBeStored(row.result, Id(c))
    BY <2>1 DEF ReplayInv, ResultsOfRows, MayBeStored
  <2>5. \A d \in Calls :
          \/ answer'[d] = answer[d]
          \/ d = c /\ MayBeStored(answer'[d].call, Id(c))
    BY <1>t, <2>3, <2>4 DEF TypeOK
  <2>6. AnsweredCalls'
    BY <1>5, <1>t DEF Compare, Goto, TypeOK, AnsweredCalls
  <2>7. /\ RequestsStay
        /\ UNCHANGED <<answered, needs, execution>>
    BY <1>5 DEF Compare, RequestsStay
  <2> QED BY <1>t, <2>1, <2>2, <2>5, <2>6, <2>7, StoredResultsStay
<1>6. ASSUME NEW c \in Calls, NEW ok \in BOOLEAN,
             Reserve(c, ok) \/ Invoke(c, ok) \/ Inspect(c, ok)
      PROVE  AnsweredCalls' /\ ResultsOfRows' /\ ReplayIsOfTheSameCall'
  BY <1>6, <1>t, StoredResultsStay
     DEF Reserve, Invoke, Inspect, Goto, TypeOK, AnsweredCalls, RequestsStay
<1>7. ASSUME NEW c \in Calls, NEW ok \in BOOLEAN, Complete(c, ok)
      PROVE  AnsweredCalls' /\ ResultsOfRows' /\ ReplayIsOfTheSameCall'
  <2>1. AnsweredCalls' /\ c \in answered /\ pc[c] = "complete"
    BY <1>7, <1>t DEF Complete, Goto, TypeOK, AnsweredCalls
  <2>2. ASSUME NEW a \in Approvals, execution'[a] # execution[a]
        PROVE  /\ execution'[a].result = c /\ status[a] = "approved"
               /\ MayBeStored(c, a)
    <3>1. /\ a = Id(c) /\ ClaimedRow(c) /\ execution'[a].result = c
      BY <1>7, <1>t, <2>2, SettledRow DEF Complete
    <3>2. status[a] = "approved"
      BY <1>t, <3>1 DEF ClaimedRow, ApprovalInv, RowsAreApproved
    <3>3. needs[c] => Permitted(c)
      BY <1>t, <2>1 DEF ApprovalInv, PermittedCalls, UsesClaim, AfterClaim
    <3> QED
      BY <2>1, <3>1, <3>2, <3>3 DEF MayBeStored, Permitted, Related, Id
  <2>3. \A d \in Calls : answer'[d] = answer[d] \/ answer'[d].kind = "fresh"
    BY <1>7, <1>t DEF Complete, TypeOK
  <2>4. RequestsStay /\ UNCHANGED <<answered, needs>>
    BY <1>7 DEF Complete, RequestsStay
  <2> QED BY <1>t, <2>1, <2>2, <2>3, <2>4, StoredResultsStay
<1>8. ASSUME NEW c \in Calls, Fail(c)
      PROVE  AnsweredCalls' /\ ResultsOfRows' /\ ReplayIsOfTheSameCall'
  <2>1. \A a \in Approvals :
          \/ execution'[a] = execution[a]
          \/ execution'[a].state = "indeterminate"
    BY <1>8, <1>t, SettledRow DEF Fail
  <2> QED
    BY <1>8, <1>t, <2>1, StoredResultsStay
       DEF Fail, Goto, TypeOK, AnsweredCalls, RequestsStay
<1>9. ASSUME NEW c \in Calls, Abandon(c)
      PROVE  AnsweredCalls' /\ ResultsOfRows' /\ ReplayIsOfTheSameCall'
  BY <1>9, <1>t, StoredResultsStay
     DEF Abandon, Goto, TypeOK, AnsweredCalls, RequestsStay
<1>10. CASE List
  BY <1>10, <1>t, <1>e, StoredResultsStay DEF List, AnsweredCalls
<1>11. ASSUME NEW a \in Approvals, PassTime(a)
       PROVE  AnsweredCalls' /\ ResultsOfRows' /\ ReplayIsOfTheSameCall'
  BY <1>11, <1>t, StoredResultsStay DEF PassTime, AnsweredCalls, RequestsStay
<1>12. ASSUME NEW d \in Admins, NEW a \in Approvals, NEW v \in Verdicts,
              StartDecision(d, a, v)
       PROVE  AnsweredCalls' /\ ResultsOfRows' /\ ReplayIsOfTheSameCall'
  BY <1>12, <1>t, <1>e, StoredResultsStay DEF StartDecision, AnsweredCalls
<1>13. ASSUME NEW d \in Admins, Decide(d)
       PROVE  AnsweredCalls' /\ ResultsOfRows' /\ ReplayIsOfTheSameCall'
  BY <1>13, <1>t, StoredResultsStay
     DEF Decide, TypeOK, AnsweredCalls, RequestsStay
<1>14. CASE UNCHANGED vars
  BY <1>14, <1>t, StoredResultsStay DEF vars, AnsweredCalls, RequestsStay
<1> QED
  BY <1>1, <1>2, <1>3, <1>4, <1>5, <1>6, <1>7, <1>8, <1>9, <1>10, <1>11,
     <1>12, <1>13, <1>14 DEF Next, CallStep

(* A stored result that is returned was answered by the tool, for the same *)
(* principal and the same request if that call needed approval.            *)
THEOREM ReplayIsOfTheSameCallHolds == Spec => []ReplayIsOfTheSameCall
<1>1. ReplayInv => ReplayIsOfTheSameCall
  BY DEF ReplayInv
<1> QED BY ReplayInit, ReplayStep, <1>1, PTL DEF Spec

-----------------------------------------------------------------------------
(* The state ApprovalLifecycle sees.                                       *)
Abs == [a \in Approvals |-> StateOf(a)]

Moves(a, from, to) ==
  /\ StateOf(a) = from /\ StateOf(a)' = to
  /\ \A b \in Approvals : b # a => StateOf(b)' = StateOf(b)

LEMMA MovesAreMoves ==
  ASSUME NEW a \in Approvals, NEW from, NEW to, Moves(a, from, to)
  PROVE  Lifecycle!Move(a, from, to)
<1>1. Abs[a] = from /\ Abs' = [Abs EXCEPT ![a] = to]
  BY DEF Moves, Abs
<1> QED BY <1>1 DEF Lifecycle!Move, Abs

LEMMA StatesStay ==
  ASSUME UNCHANGED <<status, execution>>
  PROVE  UNCHANGED Abs
BY DEF Abs, StateOf

(* expire_approvals meets pending approvals only, which have no row.       *)
LEMMA ExpiryExpires ==
  ASSUME ApprovalInv, ExpirePending, UNCHANGED execution
  PROVE  Lifecycle!Expire
<1> DEFINE due == {a \in Approvals : Expired(a)}
<1>1. \A a \in Approvals : Expired(a) => execution[a] = NoRow
  BY DEF ApprovalInv, RowsAreApproved, Expired
<1>2. due \in SUBSET {a \in Approvals : Abs[a] = "pending"}
  BY <1>1 DEF Abs, StateOf, Expired
<1>3. Abs' = [a \in Approvals |-> IF a \in due THEN "expired" ELSE Abs[a]]
  BY <1>1 DEF Abs, StateOf, ExpirePending
<1> QED BY <1>2, <1>3 DEF Lifecycle!Expire, Abs

LEMMA SettlingSettles ==
  ASSUME TypeOK, NEW c \in Calls, NEW s \in {"completed", "indeterminate"},
         NEW r \in Calls \union {None}, Settle(c, s, r), UNCHANGED status
  PROVE  \/ UNCHANGED Abs
         \/ \E a \in Approvals : Lifecycle!Settle(a)
<1>1. CASE ~ClaimedRow(c)
  BY <1>1, StatesStay DEF Settle
<1>2. CASE ClaimedRow(c)
  <2>1. Id(c) \in Approvals
    BY <1>2, RowsAreNotNoRow DEF ClaimedRow, TypeOK
  <2>2. execution[Id(c)].state = "claimed" /\ execution[Id(c)] # NoRow
    BY <1>2 DEF ClaimedRow
  <2>3. execution' = [execution EXCEPT
           ![Id(c)] = [execution[Id(c)] EXCEPT !.state = s, !.result = r]]
    BY <1>2 DEF Settle
  <2>4. CASE execution' = execution
    BY <2>4, StatesStay
  <2>5. CASE execution' # execution
    <3>1. /\ execution'[Id(c)] \in Rows /\ execution'[Id(c)].state = s
          /\ \A b \in Approvals : b # Id(c) => execution'[b] = execution[b]
      BY <2>1, <2>3, <2>5, SettledRow DEF TypeOK
    <3>2. PICK a \in Approvals : a = Id(c)
      BY <2>1
    <3>3. Moves(a, "claimed", s)
      BY <2>2, <3>1, <3>2, RowsAreNotNoRow DEF Moves, StateOf
    <3> QED BY <3>3, MovesAreMoves DEF Lifecycle!Settle
  <2> QED BY <2>4, <2>5
<1> QED BY <1>1, <1>2

LEMMA LifecycleInit == Init => Lifecycle!Init
BY DEF Init, Lifecycle!Init, StateOf

LEMMA LifecycleStep ==
  ApprovalInv /\ [Next]_vars => [Lifecycle!Next]_Abs
<1> SUFFICES ASSUME ApprovalInv, Next PROVE Lifecycle!Next \/ UNCHANGED Abs
  BY StatesStay DEF vars, requests
<1> USE DEF requests, history
<1>t. TypeInv /\ TypeOK
  BY DEF ApprovalInv, TypeInv
<1>1. ASSUME NEW c \in Calls, NEW a \in Approvals, Create(c, a)
      PROVE  Lifecycle!Next
  <2>1. execution[a] = NoRow
    BY <1>1 DEF Create, ApprovalInv, RowsAreApproved
  <2>2. Moves(a, "none", "pending")
    BY <1>1, <1>t, <2>1 DEF Create, Moves, StateOf, TypeOK
  <2> QED BY <2>2, MovesAreMoves DEF Lifecycle!Next, Lifecycle!Create
<1>2. ASSUME NEW c \in Calls, Claim(c) PROVE Lifecycle!Next \/ UNCHANGED Abs
  <2>1. CASE execution[Id(c)] # NoRow
    BY <1>2, <2>1, StatesStay DEF Claim
  <2>2. CASE execution[Id(c)] = NoRow
    <3>1. Permitted(c)
      BY <1>2 DEF Claim, ApprovalInv, PermittedCalls
    <3>2. /\ Id(c) \in Approvals /\ NewRow(c) # NoRow
          /\ NewRow(c).state = "claimed"
      BY <1>t, <3>1, RowsAreNotNoRow DEF Permitted, TypeOK
    <3>3. PICK a \in Approvals : a = Id(c)
      BY <3>2
    <3>4. Moves(a, "approved", "claimed")
      BY <1>2, <1>t, <2>2, <3>1, <3>2, <3>3
         DEF Claim, Moves, StateOf, TypeOK, Permitted
    <3> QED BY <3>4, MovesAreMoves DEF Lifecycle!Next, Lifecycle!Claim
  <2> QED BY <2>1, <2>2
<1>3. ASSUME NEW c \in Calls, NEW ok \in BOOLEAN, Complete(c, ok) \/ Fail(c)
      PROVE  Lifecycle!Next \/ UNCHANGED Abs
  BY <1>3, <1>t, SettlingSettles DEF Complete, Fail, Lifecycle!Next
<1>4. ASSUME NEW d \in Admins, Decide(d)
      PROVE  Lifecycle!Next \/ UNCHANGED Abs
  <2> DEFINE a == ruling[d][1]
             v == ruling[d][2]
  <2>1. a \in Approvals /\ v \in Verdicts
    BY <1>4 DEF Decide
  <2>2. CASE status[a] # "pending"
    BY <1>4, <2>2, StatesStay DEF Decide
  <2>3. CASE status[a] = "pending"
    <3>1. execution[a] = NoRow
      BY <2>1, <2>3 DEF ApprovalInv, RowsAreApproved
    <3>2. Moves(a, "pending", v)
      BY <1>4, <1>t, <2>1, <2>3, <3>1 DEF Decide, Moves, StateOf, TypeOK
    <3> QED
      BY <2>1, <3>2, MovesAreMoves
         DEF Lifecycle!Next, Lifecycle!Decide, Verdicts
  <2> QED BY <2>2, <2>3
<1>5. ASSUME ExpirePending, UNCHANGED execution PROVE Lifecycle!Next
  BY <1>5, ExpiryExpires DEF Lifecycle!Next
<1>6. ASSUME NEW c \in Calls, Load(c) PROVE Lifecycle!Next
  BY <1>5, <1>6 DEF Load
<1>7. CASE List
  BY <1>5, <1>7 DEF List
<1>8. ASSUME NEW d \in Admins, NEW a \in Approvals, NEW v \in Verdicts,
             StartDecision(d, a, v)
      PROVE  Lifecycle!Next
  BY <1>5, <1>8 DEF StartDecision
<1>9. ASSUME NEW c \in Calls,
             \/ \E r \in References \union {None}, need \in BOOLEAN :
                  Start(c, r, need)
             \/ Compare(c) \/ Abandon(c)
             \/ \E ok \in BOOLEAN :
                  Reserve(c, ok) \/ Invoke(c, ok) \/ Inspect(c, ok)
      PROVE  UNCHANGED Abs
  BY <1>9, StatesStay DEF Start, Compare, Abandon, Reserve, Invoke, Inspect
<1>10. ASSUME NEW a \in Approvals, PassTime(a) PROVE UNCHANGED Abs
  BY <1>10, StatesStay DEF PassTime
<1> QED
  BY <1>1, <1>2, <1>3, <1>4, <1>6, <1>7, <1>8, <1>9, <1>10 DEF Next, CallStep

(* Requests are decided once, claimed once and settled once: decisions,    *)
(* expiry, claims and outcomes implement ApprovalLifecycle.                *)
THEOREM LifecycleHolds == Spec => ImplementsLifecycle
<1>1. Spec => Lifecycle!Init /\ [][Lifecycle!Next]_Abs
  BY LifecycleInit, ApprovalInit, ApprovalStep, LifecycleStep, PTL DEF Spec
<1> QED BY <1>1, PTL DEF ImplementsLifecycle, Lifecycle!Spec, Abs

=============================================================================
