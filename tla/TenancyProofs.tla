---------------------------- MODULE TenancyProofs ----------------------------
(***************************************************************************)
(* What Tenancy promises for any users, organisations, invitations and     *)
(* number of requests.                                                     *)
(*                                                                         *)
(* Both proofs are about a row lock.  The lock of installation_state makes *)
(* at most one bootstrap write, and only while the installation is not     *)
(* initialized (OneInstalls).  The lock of an invitation makes at most one *)
(* request use it (OneHolder), and only while it has not been used or      *)
(* withdrawn (HeldIsUsable).                                               *)
(***************************************************************************)
EXTENDS Tenancy, FiniteSetTheorems, TLAPS

Holding == {"accepting", "registering"}
NamesInvitation == {"invite", "revoke", "accept", "register"} \union Holding
Holds(r) == request[r].op \in Holding

WellFormed(what) ==
  /\ what.op \in NamesInvitation => what.row \in Invitations
  /\ what.op = "invite" => what.value \in Row /\ what.value.status = "open"

TypeInv ==
  /\ DOMAIN request = Requests
  /\ \A r \in Requests : WellFormed(request[r])
  /\ invitation \in [Invitations -> Row \union {Unused}]
  /\ grants \in [Invitations -> Nat]
  /\ withdrawn \subseteq Invitations

OneInstalls ==
  /\ ~initialized => admins = {}
  /\ \A r \in Requests : At(r, "install") => ~initialized
  /\ \A r, s \in Requests : At(r, "install") /\ At(s, "install") => r = s
  /\ \A u, v \in admins : u = v

OneHolder ==
  \A r, s \in Requests :
    Holds(r) /\ Holds(s) /\ request[r].row = request[s].row => r = s

HeldIsUsable ==
  \A r \in Requests :
    Holds(r) => invitation[request[r].row].status \in {"open", "expired"}

UsedIsClosed ==
  \A i \in Invitations :
    /\ grants[i] <= 1
    /\ grants[i] # 0 => invitation[i].status \in {"accepted", "deleted"}

WithdrawnIsDeleted ==
  \A i \in withdrawn : invitation[i].status = "deleted" /\ grants[i] = 0

TenancyInv ==
  TypeInv /\ OneInstalls /\ OneHolder /\ HeldIsUsable /\ UsedIsClosed /\ WithdrawnIsDeleted

-----------------------------------------------------------------------------
LEMMA RequestsAfter ==
  ASSUME TypeInv, NEW r \in Requests, NEW next, Step(r, next), WellFormed(next)
  PROVE  /\ DOMAIN request' = Requests
         /\ request'[r] = next
         /\ \A s \in Requests : s # r => request'[s] = request[s]
         /\ \A s \in Requests : WellFormed(request'[s])
BY DEF TypeInv, Step

LEMMA IdleIsWellFormed == WellFormed(Idle) /\ Idle.op = "idle"
BY DEF WellFormed, Idle, NamesInvitation, Holding

(* A request moves on, and takes no lock.                                  *)
LEMMA QuietStep ==
  ASSUME TenancyInv, NEW r \in Requests, NEW next, Step(r, next), WellFormed(next),
         next.op \notin Holding \union {"install"},
         UNCHANGED <<initialized, admins, invitation, grants, withdrawn>>
  PROVE  TenancyInv'
<1> USE DEF TenancyInv
<1>1. /\ DOMAIN request' = Requests
      /\ request'[r] = next
      /\ \A s \in Requests : s # r => request'[s] = request[s]
      /\ \A s \in Requests : WellFormed(request'[s])
  BY RequestsAfter
<1>2. TypeInv'
  BY <1>1 DEF TypeInv
<1>3. OneInstalls'
  BY <1>1 DEF OneInstalls, At
<1>4. OneHolder' /\ HeldIsUsable'
  BY <1>1 DEF OneHolder, HeldIsUsable, Holds
<1>5. UsedIsClosed' /\ WithdrawnIsDeleted'
  BY DEF UsedIsClosed, WithdrawnIsDeleted
<1> QED BY <1>2, <1>3, <1>4, <1>5

(* A request ends, and writes nothing that the invariant is about.         *)
LEMMA EndStep ==
  ASSUME TenancyInv, NEW r \in Requests, End(r),
         UNCHANGED <<initialized, admins, invitation, grants, withdrawn>>
  PROVE  TenancyInv'
BY QuietStep, IdleIsWellFormed DEF End, Holding

LEMMA InitInv == Init => TenancyInv
<1> SUFFICES ASSUME Init PROVE TenancyInv
  OBVIOUS
<1>1. \A r \in Requests : request[r] = Idle
  BY DEF Init
<1>2. TypeInv
  BY <1>1, IdleIsWellFormed DEF Init, TypeInv
<1> QED BY <1>1, <1>2, IdleIsWellFormed
     DEF Init, TenancyInv, OneInstalls, OneHolder, HeldIsUsable, UsedIsClosed,
         WithdrawnIsDeleted, Holds, Holding, At

LEMMA AuthorizeKeeps ==
  ASSUME TenancyInv, NEW r \in Requests, Authorize(r)
  PROVE  TenancyInv'
<1>1. ASSUME NEW u \in Users, NEW t \in Tenants, BeginBootstrap(r, u, t) \/ BeginDelete(r, u, t)
      PROVE  TenancyInv'
  BY <1>1, QuietStep DEF BeginBootstrap, BeginDelete, Begin, database, WellFormed,
     NamesInvitation, Holding
<1>2. ASSUME NEW u \in Users, NEW t \in Tenants, NEW i \in Invitations, BeginRevoke(r, u, t, i)
      PROVE  TenancyInv'
  BY <1>2, QuietStep DEF BeginRevoke, Begin, database, WellFormed, NamesInvitation, Holding
<1>3. ASSUME NEW u \in Users, NEW t \in Tenants, NEW v \in Users, BeginRemove(r, u, t, v)
      PROVE  TenancyInv'
  BY <1>3, QuietStep DEF BeginRemove, Begin, database, WellFormed, NamesInvitation, Holding
<1>4. ASSUME NEW u \in Users, NEW t \in Tenants, NEW v \in Users, NEW as \in Roles,
             BeginUpdate(r, u, t, v, as)
      PROVE  TenancyInv'
  BY <1>4, QuietStep DEF BeginUpdate, Begin, database, WellFormed, NamesInvitation, Holding
<1>5. ASSUME NEW u \in Users, NEW t \in Tenants, NEW v \in Users, NEW as \in Roles,
             NEW i \in Invitations, BeginInvite(r, u, t, i, v, as)
      PROVE  TenancyInv'
  <2> DEFINE row == [tenant |-> t, user |-> v, role |-> as, status |-> "open"]
             next == [op |-> "invite", row |-> i, value |-> row]
  <2>1. row \in Row /\ row.status = "open"
    BY <1>5 DEF BeginInvite, Row, Statuses
  <2>2. /\ Step(r, next)
        /\ UNCHANGED <<initialized, admins, invitation, grants, withdrawn>>
    BY <1>5 DEF BeginInvite, Begin, database
  <2>3. next.op = "invite" /\ next.row \in Invitations /\ next.value = row
    OBVIOUS
  <2> HIDE DEF row, next
  <2>4. WellFormed(next) /\ next.op \notin Holding \union {"install"}
    BY <2>1, <2>3 DEF WellFormed, Holding
  <2> QED BY <2>2, <2>4, QuietStep
<1>6. ASSUME NEW i \in Invitations, BeginRegister(r, i)
      PROVE  TenancyInv'
  BY <1>6, QuietStep DEF BeginRegister, database, WellFormed, NamesInvitation, Holding
<1>7. ASSUME NEW i \in Invitations, NEW u \in Users, BeginAccept(r, u, i)
      PROVE  TenancyInv'
  BY <1>7, QuietStep DEF BeginAccept, database, WellFormed, NamesInvitation, Holding
<1> QED BY <1>1, <1>2, <1>3, <1>4, <1>5, <1>6, <1>7 DEF Authorize

-----------------------------------------------------------------------------
(* Bootstrap.                                                              *)
LEMMA BootstrapKeeps ==
  ASSUME TenancyInv, NEW r \in Requests, LockInstallation(r) \/ BootstrapAccount(r)
  PROVE  TenancyInv'
<1> USE DEF TenancyInv
<1>1. CASE LockInstallation(r) /\ ~initialized
  <2> DEFINE next == [request[r] EXCEPT !.op = "install"]
  <2>1. /\ Step(r, next) /\ request[r].op = "bootstrap"
        /\ \A s \in Requests : ~At(s, "install")
        /\ UNCHANGED <<initialized, admins, invitation, grants, withdrawn>>
    BY <1>1 DEF LockInstallation, database, At
  <2>2. next.op \notin NamesInvitation /\ next.op # "idle"
    BY DEF NamesInvitation, Holding
  <2>3. WellFormed(next) /\ ~(next.op \in Holding)
    BY <2>2 DEF WellFormed, NamesInvitation
  <2> HIDE DEF next
  <2>4. /\ DOMAIN request' = Requests /\ request'[r] = next
        /\ \A s \in Requests : s # r => request'[s] = request[s]
        /\ \A s \in Requests : WellFormed(request'[s])
    BY <2>1, <2>3, RequestsAfter
  <2>5. TypeInv'
    BY <2>1, <2>4 DEF TypeInv
  <2>6. OneInstalls'
    BY <1>1, <2>1, <2>4 DEF OneInstalls, At
  <2>7. OneHolder' /\ HeldIsUsable' /\ UsedIsClosed' /\ WithdrawnIsDeleted'
    BY <2>1, <2>3, <2>4 DEF OneHolder, HeldIsUsable, Holds, UsedIsClosed, WithdrawnIsDeleted
  <2> QED BY <2>5, <2>6, <2>7
<1>2. CASE LockInstallation(r) /\ initialized
  BY <1>2, EndStep DEF LockInstallation, database
<1>3. CASE BootstrapAccount(r) /\ request[r].user \in accounts
  BY <1>3, EndStep DEF BootstrapAccount, database
<1>4. CASE BootstrapAccount(r) /\ request[r].user \notin accounts
  <2>1. /\ Step(r, Idle) /\ At(r, "install") /\ initialized' = TRUE
        /\ admins' = admins \union {request[r].user}
        /\ UNCHANGED <<invitation, grants, withdrawn>>
    BY <1>4 DEF BootstrapAccount, End
  <2>2. /\ DOMAIN request' = Requests /\ request'[r] = Idle
        /\ \A s \in Requests : s # r => request'[s] = request[s]
        /\ \A s \in Requests : WellFormed(request'[s])
    BY <2>1, IdleIsWellFormed, RequestsAfter
  <2>3. admins = {} /\ \A s \in Requests : ~At(s, "install")'
    BY <2>1, <2>2, IdleIsWellFormed DEF OneInstalls, At
  <2>4. TypeInv' /\ OneInstalls'
    BY <2>1, <2>2, <2>3 DEF TypeInv, OneInstalls
  <2>5. OneHolder' /\ HeldIsUsable' /\ UsedIsClosed' /\ WithdrawnIsDeleted'
    BY <2>1, <2>2, IdleIsWellFormed
       DEF OneHolder, HeldIsUsable, Holds, Holding, UsedIsClosed, WithdrawnIsDeleted
  <2> QED BY <2>4, <2>5
<1> QED BY <1>1, <1>2, <1>3, <1>4

-----------------------------------------------------------------------------
(* Invitations.                                                            *)

LEMMA InvitationWritten ==
  ASSUME TypeInv, NEW i \in Invitations, NEW row \in Row \union {Unused},
         invitation' = [invitation EXCEPT ![i] = row]
  PROVE  /\ invitation' \in [Invitations -> Row \union {Unused}]
         /\ invitation'[i] = row
         /\ \A j \in Invitations : j # i => invitation'[j] = invitation[j]
BY DEF TypeInv

(* A row that has been used keeps its other columns.                       *)
LEMMA StatusWritten ==
  ASSUME TypeInv, NEW i \in Invitations, invitation[i] # Unused, NEW status \in Statuses,
         invitation' = [invitation EXCEPT ![i].status = status]
  PROVE  /\ invitation' \in [Invitations -> Row \union {Unused}]
         /\ invitation'[i].status = status /\ invitation'[i].tenant = invitation[i].tenant
         /\ \A j \in Invitations : j # i => invitation'[j] = invitation[j]
<1> DEFINE row == [invitation[i] EXCEPT !.status = status]
<1>1. invitation[i] \in Row
  BY DEF TypeInv
<1>2. row \in Row /\ row.status = status /\ row.tenant = invitation[i].tenant
  BY <1>1 DEF Row
<1>3. invitation' = [invitation EXCEPT ![i] = row]
  BY <1>1 DEF TypeInv
<1> HIDE DEF row
<1> QED BY <1>2, <1>3, InvitationWritten

(* A request ends, and the rows that others hold stay usable.              *)
LEMMA WritingStep ==
  ASSUME TenancyInv, NEW r \in Requests, End(r), UNCHANGED <<initialized, admins>>,
         invitation' \in [Invitations -> Row \union {Unused}],
         grants' \in [Invitations -> Nat], withdrawn' \subseteq Invitations,
         \A s \in Requests : s # r /\ Holds(s) =>
           invitation'[request[s].row].status \in {"open", "expired"},
         UsedIsClosed', WithdrawnIsDeleted'
  PROVE  TenancyInv'
<1> USE DEF TenancyInv
<1>1. /\ DOMAIN request' = Requests /\ request'[r] = Idle
      /\ \A s \in Requests : s # r => request'[s] = request[s]
      /\ \A s \in Requests : WellFormed(request'[s])
  BY IdleIsWellFormed, RequestsAfter DEF End
<1>2. \A s \in Requests : Holds(s)' => s # r /\ Holds(s) /\ request'[s].row = request[s].row
  BY <1>1, IdleIsWellFormed DEF Holds, Holding
<1>3. TypeInv'
  BY <1>1 DEF TypeInv
<1>4. OneInstalls'
  BY <1>1, IdleIsWellFormed DEF OneInstalls, At
<1>5. OneHolder'
  BY <1>2 DEF OneHolder
<1>6. HeldIsUsable'
  BY <1>2 DEF HeldIsUsable
<1> QED BY <1>3, <1>4, <1>5, <1>6

LEMMA HeldRows ==
  ASSUME TypeInv, HeldIsUsable, NEW s \in Requests, Holds(s)
  PROVE  /\ request[s].row \in Invitations
         /\ invitation[request[s].row].status \in {"open", "expired"}
         /\ invitation[request[s].row] # Unused
BY DEF TypeInv, WellFormed, HeldIsUsable, Holds, NamesInvitation, Unused

LEMMA CreateKeeps ==
  ASSUME TenancyInv, NEW r \in Requests, CreateInvitation(r)
  PROVE  TenancyInv'
<1> USE DEF TenancyInv
<1> DEFINE i == request[r].row
           v == request[r].value
<1>1. i \in Invitations /\ v \in Row /\ v.status = "open"
  BY DEF CreateInvitation, At, TypeInv, WellFormed, NamesInvitation
<1>2. End(r) /\ UNCHANGED <<initialized, admins, grants, withdrawn>>
  BY DEF CreateInvitation
<1>3. CASE UNCHANGED invitation
  BY <1>2, <1>3, EndStep
<1>4. CASE invitation[i] = Unused /\ invitation' = [invitation EXCEPT ![i] = v]
  <2>1. /\ invitation' \in [Invitations -> Row \union {Unused}]
        /\ \A j \in Invitations : j # i => invitation'[j] = invitation[j]
    BY <1>1, <1>4, InvitationWritten
  <2>2. grants[i] = 0 /\ i \notin withdrawn
    BY <1>1, <1>4 DEF Unused, UsedIsClosed, WithdrawnIsDeleted, TypeInv
  <2>3. ASSUME NEW s \in Requests, Holds(s)
        PROVE  invitation'[request[s].row].status \in {"open", "expired"}
    BY <2>1, <2>3, <1>4, HeldRows
  <2>4. UsedIsClosed' /\ WithdrawnIsDeleted'
    BY <1>2, <2>1, <2>2 DEF UsedIsClosed, WithdrawnIsDeleted, TypeInv
  <2> QED BY <1>2, <2>1, <2>3, <2>4, WritingStep DEF TypeInv
<1> QED BY <1>3, <1>4 DEF CreateInvitation

LEMMA DeleteKeeps ==
  ASSUME TenancyInv, NEW r \in Requests, DeleteInvitation(r)
  PROVE  TenancyInv'
<1> USE DEF TenancyInv
<1> DEFINE i == request[r].row
<1>1. i \in Invitations
  BY DEF DeleteInvitation, At, TypeInv, WellFormed, NamesInvitation
<1>2. End(r) /\ LockedBy(i) = {} /\ UNCHANGED <<initialized, admins, grants>>
  BY DEF DeleteInvitation
<1>3. CASE UNCHANGED <<invitation, withdrawn>>
  BY <1>2, <1>3, EndStep
<1>4. CASE /\ invitation[i].status \in {"open", "expired"}
           /\ invitation' = [invitation EXCEPT ![i].status = "deleted"]
           /\ withdrawn' = withdrawn \union {i}
  <2>1. /\ invitation' \in [Invitations -> Row \union {Unused}]
        /\ invitation'[i].status = "deleted"
        /\ \A j \in Invitations : j # i => invitation'[j] = invitation[j]
    <3>1. invitation[i] # Unused /\ "deleted" \in Statuses
      BY <1>4 DEF Unused, Statuses
    <3> QED BY <1>1, <1>4, <3>1, StatusWritten
  <2>2. grants[i] = 0
    BY <1>1, <1>4 DEF UsedIsClosed
  <2>3. ASSUME NEW s \in Requests, Holds(s)
        PROVE  invitation'[request[s].row].status \in {"open", "expired"}
    BY <1>2, <2>1, <2>3, HeldRows DEF LockedBy, Holds, Holding
  <2>4. UsedIsClosed' /\ WithdrawnIsDeleted'
    BY <1>2, <1>4, <2>1, <2>2 DEF UsedIsClosed, WithdrawnIsDeleted, TypeInv
  <2> QED BY <1>1, <1>2, <1>4, <2>1, <2>3, <2>4, WritingStep DEF TypeInv
<1> QED BY <1>3, <1>4 DEF DeleteInvitation

(* The rows of an organisation go when nobody holds one of them.           *)
LEMMA DeleteOrganizationKeeps ==
  ASSUME TenancyInv, NEW r \in Requests, DeleteOrganization(r)
  PROVE  TenancyInv'
<1> USE DEF TenancyInv
<1> DEFINE t == request[r].tenant
           Goes(i) == invitation[i] # Unused /\ invitation[i].tenant = t
<1>1. /\ End(r) /\ UNCHANGED <<initialized, admins, grants, withdrawn>>
      /\ \A i \in Invitations : LockedBy(i) # {} => invitation[i].tenant # t
  BY DEF DeleteOrganization
<1>2. invitation' = [i \in Invitations |->
        IF Goes(i) THEN [invitation[i] EXCEPT !.status = "deleted"] ELSE invitation[i]]
  BY DEF DeleteOrganization
<1>3. ASSUME NEW i \in Invitations
      PROVE  /\ invitation'[i] \in Row \union {Unused}
             /\ Goes(i) => invitation'[i].status = "deleted"
             /\ ~Goes(i) => invitation'[i] = invitation[i]
             /\ Goes(i) => invitation[i] \in Row
  BY <1>2 DEF TypeInv, Row, Statuses
<1> HIDE DEF Goes
<1>4. invitation' \in [Invitations -> Row \union {Unused}]
  BY <1>2, <1>3
<1>5. ASSUME NEW s \in Requests, Holds(s)
      PROVE  invitation'[request[s].row].status \in {"open", "expired"}
  <2>1. ~Goes(request[s].row)
    BY <1>1, <1>5, HeldRows DEF Goes, LockedBy, Holds, Holding
  <2> QED BY <1>3, <1>5, <2>1, HeldRows
<1>6. UsedIsClosed' /\ WithdrawnIsDeleted'
  BY <1>1, <1>3 DEF UsedIsClosed, WithdrawnIsDeleted, TypeInv
<1> QED BY <1>1, <1>4, <1>5, <1>6, WritingStep DEF TypeInv

LEMMA LockKeeps ==
  ASSUME TenancyInv, NEW r \in Requests,
         NEW op \in {"accept", "register"}, NEW locked \in Holding,
         LockInvitation(r, op, locked)
  PROVE  TenancyInv'
<1> USE DEF TenancyInv
<1> DEFINE i == request[r].row
           next == [request[r] EXCEPT !.op = locked]
<1>1. /\ request[r].op = op /\ LockedBy(i) = {} /\ i \in Invitations
      /\ UNCHANGED <<initialized, admins, invitation, grants, withdrawn>>
  BY DEF LockInvitation, database, At, TypeInv, WellFormed, NamesInvitation
<1>2. CASE End(r)
  BY <1>1, <1>2, EndStep
<1>3. CASE invitation[i].status = "open" /\ Step(r, next)
  <2>1. next.op = locked /\ next.row = i /\ WellFormed(next)
    BY <1>1 DEF WellFormed, Holding
  <2> HIDE DEF next
  <2>2. /\ DOMAIN request' = Requests /\ request'[r] = next
        /\ \A s \in Requests : s # r => request'[s] = request[s]
        /\ \A s \in Requests : WellFormed(request'[s])
    BY <1>3, <2>1, RequestsAfter
  <2>3. TypeInv'
    BY <1>1, <2>2 DEF TypeInv
  <2>4. OneInstalls'
    BY <1>1, <2>1, <2>2 DEF OneInstalls, At, Holding
  <2>5. OneHolder'
    BY <1>1, <2>1, <2>2 DEF OneHolder, Holds, LockedBy, Holding
  <2>6. HeldIsUsable'
    BY <1>1, <1>3, <2>1, <2>2 DEF HeldIsUsable, Holds
  <2>7. UsedIsClosed' /\ WithdrawnIsDeleted'
    BY <1>1 DEF UsedIsClosed, WithdrawnIsDeleted
  <2> QED BY <2>3, <2>4, <2>5, <2>6, <2>7
<1> QED BY <1>2, <1>3 DEF LockInvitation

(* Whoever uses an invitation is the only one to hold it, and it has       *)
(* brought nothing yet.                                                    *)
LEMMA AcceptKeeps ==
  ASSUME TenancyInv, NEW r \in Requests, Holds(r), NEW u,
         Accept(request[r].row, u), End(r), UNCHANGED <<initialized, admins, withdrawn>>
  PROVE  TenancyInv'
<1> USE DEF TenancyInv
<1> DEFINE i == request[r].row
<1>1. i \in Invitations /\ invitation[i].status \in {"open", "expired"}
      /\ invitation[i] # Unused
  BY HeldRows
<1>2. invitation' = [invitation EXCEPT ![i].status = "accepted"]
  BY <1>1 DEF Accept
<1>3. /\ invitation' \in [Invitations -> Row \union {Unused}]
      /\ invitation'[i].status = "accepted"
      /\ \A j \in Invitations : j # i => invitation'[j] = invitation[j]
  BY <1>1, <1>2, StatusWritten DEF Statuses
<1>4. grants[i] = 0 /\ i \notin withdrawn
  BY <1>1 DEF UsedIsClosed, WithdrawnIsDeleted
<1>5. grants' = grants \/ grants' = [grants EXCEPT ![i] = @ + 1]
  BY DEF Accept
<1>6. /\ grants' \in [Invitations -> Nat] /\ grants'[i] <= 1
      /\ \A j \in Invitations : j # i => grants'[j] = grants[j]
  BY <1>1, <1>4, <1>5 DEF TypeInv
<1>7. UsedIsClosed' /\ WithdrawnIsDeleted'
  BY <1>3, <1>4, <1>6 DEF UsedIsClosed, WithdrawnIsDeleted, TypeInv
<1>8. ASSUME NEW s \in Requests, s # r, Holds(s)
      PROVE  invitation'[request[s].row].status \in {"open", "expired"}
  BY <1>3, <1>8, HeldRows DEF OneHolder
<1> QED BY <1>3, <1>6, <1>7, <1>8, WritingStep DEF TypeInv

LEMMA ExpireKeeps ==
  ASSUME TenancyInv, NEW i \in Invitations, InvitationExpires(i)
  PROVE  TenancyInv'
<1> USE DEF TenancyInv
<1>1. /\ invitation[i].status = "open"
      /\ invitation' = [invitation EXCEPT ![i].status = "expired"]
      /\ UNCHANGED <<initialized, admins, request, grants, withdrawn>>
  BY DEF InvitationExpires
<1>2. /\ invitation' \in [Invitations -> Row \union {Unused}]
      /\ invitation'[i].status = "expired"
      /\ \A j \in Invitations : j # i => invitation'[j] = invitation[j]
  <2>1. invitation[i] # Unused /\ "expired" \in Statuses
    BY <1>1 DEF Unused, Statuses
  <2> QED BY <1>1, <2>1, StatusWritten
<1>3. TypeInv' /\ OneInstalls' /\ OneHolder'
  BY <1>1, <1>2 DEF TypeInv, OneInstalls, OneHolder, Holds, At
<1>4. HeldIsUsable'
  BY <1>1, <1>2, HeldRows DEF HeldIsUsable, Holds
<1>5. UsedIsClosed' /\ WithdrawnIsDeleted'
  BY <1>1, <1>2 DEF UsedIsClosed, WithdrawnIsDeleted, TypeInv
<1> QED BY <1>3, <1>4, <1>5

-----------------------------------------------------------------------------
LEMMA ActKeeps ==
  ASSUME TenancyInv, NEW r \in Requests, Act(r)
  PROVE  TenancyInv'
<1>1. CASE LockInstallation(r) \/ BootstrapAccount(r)
  BY <1>1, BootstrapKeeps
<1>2. CASE CreateInvitation(r)
  BY <1>2, CreateKeeps
<1>3. CASE DeleteInvitation(r)
  BY <1>3, DeleteKeeps
<1>4. CASE UpdateMember(r) \/ DeleteMember(r)
  BY <1>4, EndStep DEF UpdateMember, DeleteMember
<1>5. CASE LockMember(r) \/ CountOwners(r)
  <2>1. UNCHANGED <<initialized, admins, invitation, grants, withdrawn>>
    BY <1>5 DEF LockMember, CountOwners, database
  <2>2. \/ End(r)
        \/ \E op \in {"removing", "counted"} : Step(r, [request[r] EXCEPT !.op = op])
    BY <1>5 DEF LockMember, CountOwners
  <2>3. ASSUME NEW op \in {"removing", "counted"}, Step(r, [request[r] EXCEPT !.op = op])
        PROVE  TenancyInv'
    <3> DEFINE next == [request[r] EXCEPT !.op = op]
    <3>1. Step(r, next) /\ request[r].op \in {"remove", "removing"}
      BY <1>5, <2>3 DEF LockMember, CountOwners, At
    <3>2. next.op \notin NamesInvitation \union {"install"}
      BY DEF NamesInvitation, Holding
    <3> HIDE DEF next
    <3>3. WellFormed(next)
      BY <3>2 DEF WellFormed, NamesInvitation
    <3> QED BY <2>1, <3>1, <3>2, <3>3, QuietStep DEF NamesInvitation
  <2> QED BY <2>1, <2>2, <2>3, EndStep
<1>6. CASE DeleteOrganization(r)
  BY <1>6, DeleteOrganizationKeeps
<1>7. CASE \/ LockInvitation(r, "accept", "accepting")
           \/ LockInvitation(r, "register", "registering")
  BY <1>7, LockKeeps DEF Holding
<1>8. CASE AcceptInvitation(r)
  BY <1>8, AcceptKeeps DEF AcceptInvitation, At, Holds, Holding
<1>9. CASE RegisterInvitation(r)
  <2>1. CASE request[r].user \in accounts
    BY <1>9, <2>1, EndStep DEF RegisterInvitation, database
  <2>2. CASE request[r].user \notin accounts
    BY <1>9, <2>2, AcceptKeeps DEF RegisterInvitation, At, Holds, Holding
  <2> QED BY <2>1, <2>2
<1> QED BY <1>1, <1>2, <1>3, <1>4, <1>5, <1>6, <1>7, <1>8, <1>9 DEF Act

LEMMA NextInv ==
  ASSUME TenancyInv, [Next]_vars
  PROVE  TenancyInv'
<1>1. ASSUME NEW r \in Requests, Authorize(r) PROVE TenancyInv'
  BY <1>1, AuthorizeKeeps
<1>2. ASSUME NEW r \in Requests, Act(r) PROVE TenancyInv'
  BY <1>2, ActKeeps
<1>3. ASSUME NEW r \in Requests, RequestDies(r) PROVE TenancyInv'
  BY <1>3, EndStep DEF RequestDies, database
<1>4. ASSUME UNCHANGED <<initialized, admins, request, invitation, grants, withdrawn>>
      PROVE  TenancyInv'
  BY <1>4 DEF TenancyInv, TypeInv, OneInstalls, OneHolder, HeldIsUsable, Holds, At,
     UsedIsClosed, WithdrawnIsDeleted
<1>5. ASSUME NEW u \in Users,
             \/ Login(u) \/ SessionEnds(u)
             \/ \E t \in Tenants : VerifyRegistration(u, t) \/ CreateTenant(u, t)
      PROVE  TenancyInv'
  BY <1>4, <1>5 DEF Login, SessionEnds, VerifyRegistration, CreateTenant
<1>6. ASSUME NEW i \in Invitations, InvitationExpires(i) PROVE TenancyInv'
  BY <1>6, ExpireKeeps
<1>7. CASE UNCHANGED vars
  BY <1>4, <1>7 DEF vars, database
<1> QED BY <1>1, <1>2, <1>3, <1>5, <1>6, <1>7 DEF Next

(* The invariant of the two locks.                                         *)
THEOREM TenancyInvariant == Spec => []TenancyInv
<1>1. Init => TenancyInv
  BY InitInv
<1>2. TenancyInv /\ [Next]_vars => TenancyInv'
  BY NextInv
<1> QED BY <1>1, <1>2, PTL DEF Spec

(* For any number of concurrent bootstraps: at most one user becomes       *)
(* gateway administrator (bootstrap_account, store-postgres identity.rs).  *)
THEOREM OneGatewayAdminHolds == Spec => []OneGatewayAdmin
<1>1. TenancyInv => OneGatewayAdmin
  <2> SUFFICES ASSUME \A u, v \in admins : u = v
               PROVE  Cardinality(admins) <= 1
    BY DEF TenancyInv, OneInstalls, OneGatewayAdmin
  <2>1. CASE admins = {}
    BY <2>1, FS_EmptySet
  <2>2. CASE admins # {}
    <3>1. PICK u : admins = {u}
      BY <2>2
    <3>2. Cardinality({u}) = 1
      BY FS_Singleton
    <3> QED BY <3>1, <3>2
  <2> QED BY <2>1, <2>2
<1> QED BY <1>1, TenancyInvariant, PTL

(* For any number of requests that accept, register with, revoke or        *)
(* cascade away one invitation: it brings at most one membership, and none *)
(* after its revocation was confirmed (accept_invitation,                  *)
(* register_invitation and revoke_invitation, store-postgres identity.rs). *)
THEOREM InvitationsGrantOnceHolds == Spec => []InvitationsGrantOnce
<1>1. TenancyInv => InvitationsGrantOnce
  BY DEF TenancyInv, UsedIsClosed, WithdrawnIsDeleted, InvitationsGrantOnce
<1> QED BY <1>1, TenancyInvariant, PTL

=============================================================================
