----------------------- MODULE InferencePipelineProofs -----------------------
(***************************************************************************)
(* What InferencePipeline promises for any number of requests, routes,     *)
(* gateway processes and webhooks, and Completion for any plan, text and   *)
(* channel.                                                                *)
(*                                                                         *)
(* Three facts carry the proofs.  A reservation is always one of the route *)
(* its request is on (ReservationsAreCurrent), because a request only goes *)
(* to the next route when the reservation of the former is gone.  A        *)
(* handler that has reserved finds its reservation, or the event that      *)
(* somebody charged for it, until it ends (HeldOrCharged).  And if the TTL *)
(* covers a call, what a reconciler has listed belongs to a request that   *)
(* will not change its route any more (ListedAreSettled).                  *)
(*                                                                         *)
(* The second half is about the content of a request.  The pieces of its   *)
(* text lie in order along the way to the client: so many are in its       *)
(* frames, the next ones in the channel, then those about to be sent, and  *)
(* the rest is in the chunk that was read last (Flow).  Where the output   *)
(* is inspected nothing is on the way before the verdict, and then one     *)
(* piece: the whole content.  Complete says what a stream that is over may *)
(* still lack, and ContentUsage and ContentBilled tie the reports under    *)
(* way to the last report that was taken and to the account.               *)
(* The routes that are tried are the beginning of the sorted targets of    *)
(* one scope (SortedFacts, PlacesAreScope, RoutesInv).                     *)
(***************************************************************************)
EXTENDS Inference, SequenceTheorems, FiniteSetTheorems, WellFoundedInduction, TLAPS

Holding == {"dispatch", "calling", "release", "streaming", "record"}
Ended   == {"done", "lost"}

(* The request has left the phases its TTL covers.                         *)
Beyond(q) ==
  pc[q] \in {"streaming", "done", "lost"} \/ (pc[q] = "record" /\ q \in streams)

PhasesFit ==
  \A q \in Requests :
    /\ pc[q] = "release" => route[q] < Routes
    /\ pc[q] = "streaming" => q \in streams

ReservationsAreCurrent ==
  \A r \in reservations : r = Current(r[1]) /\ pc[r[1]] # "reserve"

HeldOrCharged ==
  \A q \in Requests :
    pc[q] \in Holding => Current(q) \in reservations \/ events[q] # NoEvent

ServedAreKept ==
  \A q \in served :
    /\ pc[q] \in {"streaming", "record", "done", "lost"}
    /\ Current(q) \in reservations \/ events[q] # NoEvent

Listed(r) == r \in expired \/ \E g \in Gateways : r \in listed[g]

ListedAreSettled ==
  ttlCovers =>
    \A r \in Attempts : Listed(r) =>
      /\ r = Current(r[1]) /\ Beyond(r[1])
      /\ r \in reservations \/ events[r[1]] # NoEvent

EventsAreOfRoutes ==
  \A q \in Requests : events[q] # NoEvent =>
    IF events[q].kind = "estimate"
    THEN ttlCovers => events[q].attempt = route[q] /\ Beyond(q)
    ELSE events[q].attempt = route[q] /\ pc[q] \in Ended

TypeInv == TypeOK /\ ttlCovers \in BOOLEAN /\ PhasesFit

AccountInv ==
  /\ TypeInv /\ ReservationsAreCurrent /\ HeldOrCharged /\ ServedAreKept
  /\ ListedAreSettled /\ EventsAreOfRoutes

-----------------------------------------------------------------------------
(* What finalize_usage does to the ledger.                                 *)
LEMMA FinalizeCharges ==
  ASSUME TypeOK, NEW r \in Attempts, NEW kind \in Kinds, Finalize(r, kind)
  PROVE  /\ reservations' = reservations \ {r} /\ expired' = expired \ {r}
         /\ events' \in [Requests -> Usage \union {NoEvent}]
         /\ outbox' \subseteq Row
         /\ events'[r[1]] # NoEvent
         /\ \A p \in Requests :
              \/ events'[p] = events[p]
              \/ /\ p = r[1] /\ events[p] = NoEvent
                 /\ events'[p] = [attempt |-> r[2], kind |-> kind]
<1> DEFINE e == [attempt |-> r[2], kind |-> kind]
<1>1. r[1] \in Requests /\ r[2] \in 1 .. Routes
  BY DEF Attempts
<1>2. e \in Usage /\ e # NoEvent
  BY <1>1 DEF Usage, NoEvent, Kinds
<1>3. AppendEvent(r[1], e) /\ AddOutboxRows(r[1], e) /\ DeleteReservation(r)
  BY DEF Finalize
<1>4. reservations' = reservations \ {r} /\ expired' = expired \ {r}
  BY <1>3 DEF DeleteReservation
<1> DEFINE sent == {row.webhook : row \in {x \in outbox : x.request = r[1]}}
           new  == [webhook : enabled \ sent, request : {r[1]}, payload : {e}]
<1>5. outbox' = outbox \union new
  BY <1>3 DEF AddOutboxRows
<1>6. new \subseteq Row
  BY <1>1, <1>2 DEF TypeOK, Row
<1>7. outbox' \subseteq Row
  BY <1>5, <1>6 DEF TypeOK
<1>8. events' = IF events[r[1]] = NoEvent THEN [events EXCEPT ![r[1]] = e] ELSE events
  BY <1>3 DEF AppendEvent
<1> HIDE DEF e
<1>9. /\ events' \in [Requests -> Usage \union {NoEvent}]
      /\ events'[r[1]] # NoEvent
      /\ \A p \in Requests :
           \/ events'[p] = events[p]
           \/ p = r[1] /\ events[p] = NoEvent /\ events'[p] = e
  BY <1>1, <1>2, <1>8 DEF TypeOK
<1> QED BY <1>4, <1>7, <1>9 DEF e

LEMMA InitEstablishes == Init => AccountInv
<1> SUFFICES ASSUME Init PROVE AccountInv
  OBVIOUS
<1> USE DEF Init
<1>1. TypeInv
  BY PipelineAssumption
     DEF TypeInv, TypeOK, PhasesFit, PipelineAssumption, Phases, Results
<1>2. ReservationsAreCurrent /\ HeldOrCharged /\ ServedAreKept /\ EventsAreOfRoutes
  BY DEF ReservationsAreCurrent, HeldOrCharged, ServedAreKept, EventsAreOfRoutes,
         Holding
<1>3. ListedAreSettled
  BY DEF ListedAreSettled, Listed
<1> QED BY <1>1, <1>2, <1>3 DEF AccountInv

-----------------------------------------------------------------------------
(* Every step preserves the invariant.                                     *)

(* A step of one handler that leaves the ledger and its route alone.       *)
LEMMA PhaseStep ==
  ASSUME AccountInv, NEW q \in Requests, NEW to \in Phases,
         UNCHANGED <<given, database, route, listed>>,
         result' \in [Requests -> Results],
         Goto(q, to),
         pc[q] \notin Ended, to # "reserve",
         to \in Holding => pc[q] \in Holding,
         to = "release" => route[q] < Routes,
         to = "streaming" => q \in streams,
         Beyond(q) => to \in Ended \/ (to = "record" /\ q \in streams),
         served' = served
           \/ (served' = served \union {q} /\ to \in Ended /\ events[q] # NoEvent),
         q \in served => to \in {"record", "done", "lost"}
  PROVE  AccountInv'
<1> USE DEF AccountInv
<1>0. /\ pc' = [pc EXCEPT ![q] = to] /\ pc \in [Requests -> Phases]
      /\ pc'[q] = to /\ \A p \in Requests : p # q => pc'[p] = pc[p]
  BY DEF Goto, TypeInv, TypeOK
<1>1. TypeInv'
  BY <1>0 DEF TypeInv, TypeOK, PhasesFit, given, database
<1>2. ReservationsAreCurrent'
  BY <1>0 DEF ReservationsAreCurrent, TypeInv, TypeOK, Attempts, Current, database
<1>3. HeldOrCharged'
  BY <1>0 DEF HeldOrCharged, Current, database
<1>4. ServedAreKept'
  BY <1>0 DEF ServedAreKept, Current, database, Ended, TypeInv, TypeOK
<1>5. ListedAreSettled'
  BY <1>0 DEF ListedAreSettled, Listed, Beyond, Current, database, given, Attempts,
              Ended
<1>6. EventsAreOfRoutes'
  BY <1>0 DEF EventsAreOfRoutes, Beyond, database, given, Ended
<1> QED BY <1>1, <1>2, <1>3, <1>4, <1>5, <1>6
LEMMA ReserveStep ==
  ASSUME AccountInv, NEW q \in Requests, NEW ok \in BOOLEAN, Reserve(q, ok)
  PROVE  AccountInv'
<1> USE DEF AccountInv
<1> DEFINE to == IF ok THEN "dispatch" ELSE "done"
<1>0. /\ pc \in [Requests -> Phases] /\ pc[q] = "reserve"
      /\ pc' = [pc EXCEPT ![q] = to] /\ to \in {"dispatch", "done"}
      /\ pc'[q] = to /\ \A p \in Requests : p # q => pc'[p] = pc[p]
      /\ reservations' = reservations \union {Current(q)}
      /\ Current(q) \in Attempts /\ Current(q)[1] = q
      /\ UNCHANGED <<given, expired, events, outbox, enabled, route, result, listed, served>>
  BY DEF Reserve, Goto, TypeInv, TypeOK, Current, Attempts
<1>1. TypeInv'
  BY <1>0 DEF TypeInv, TypeOK, PhasesFit, given, Phases, CallPhases
<1>2. ReservationsAreCurrent'
  BY <1>0 DEF ReservationsAreCurrent, TypeInv, TypeOK, Attempts, Current
<1>3. HeldOrCharged'
  BY <1>0 DEF HeldOrCharged, Current
<1>4. ServedAreKept'
  BY <1>0 DEF ServedAreKept, Current
<1>5. ListedAreSettled'
  BY <1>0 DEF ListedAreSettled, Listed, Beyond, Current, given, Attempts
<1>6. EventsAreOfRoutes'
  BY <1>0 DEF EventsAreOfRoutes, Beyond, given, Ended
<1> QED BY <1>1, <1>2, <1>3, <1>4, <1>5, <1>6

LEMMA ReleaseStep ==
  ASSUME AccountInv, NEW q \in Requests, Release(q)
  PROVE  AccountInv'
<1> USE DEF AccountInv
<1>0. /\ pc \in [Requests -> Phases] /\ pc[q] = "release"
      /\ pc' = [pc EXCEPT ![q] = "reserve"]
      /\ pc'[q] = "reserve" /\ \A p \in Requests : p # q => pc'[p] = pc[p]
      /\ route' = [route EXCEPT ![q] = @ + 1]
      /\ route'[q] = route[q] + 1 /\ \A p \in Requests : p # q => route'[p] = route[p]
      /\ reservations' = reservations \ {Current(q)}
      /\ expired' = expired \ {Current(q)}
      /\ route[q] \in 1 .. Routes /\ route[q] < Routes
      /\ UNCHANGED <<given, events, outbox, enabled, result, listed, served>>
  BY DEF Release, DeleteReservation, Goto, TypeInv, TypeOK, PhasesFit
<1>1. TypeInv'
  BY <1>0, PipelineAssumption
     DEF TypeInv, TypeOK, PhasesFit, given, Phases, PipelineAssumption
<1>2. ReservationsAreCurrent'
  BY <1>0 DEF ReservationsAreCurrent, TypeInv, TypeOK, Attempts, Current
<1>3. HeldOrCharged'
  BY <1>0 DEF HeldOrCharged, Current, Holding
<1>4. ServedAreKept'
  BY <1>0 DEF ServedAreKept, Current, TypeInv, TypeOK
<1>5. ListedAreSettled'
  BY <1>0 DEF ListedAreSettled, Listed, Beyond, Current, given, Attempts
<1>6. EventsAreOfRoutes'
  BY <1>0 DEF EventsAreOfRoutes, Beyond, given, Ended
<1> QED BY <1>1, <1>2, <1>3, <1>4, <1>5, <1>6

LEMMA ReleaseFailsStep ==
  ASSUME AccountInv, NEW q \in Requests, ReleaseFails(q)
  PROVE  AccountInv'
<1> USE DEF AccountInv
<1>0. /\ pc \in [Requests -> Phases] /\ pc[q] = "release"
      /\ pc' = [pc EXCEPT ![q] = "done"]
      /\ pc'[q] = "done" /\ \A p \in Requests : p # q => pc'[p] = pc[p]
      /\ \/ reservations' = reservations /\ expired' = expired
         \/ /\ reservations' = reservations \ {Current(q)}
            /\ expired' = expired \ {Current(q)}
      /\ UNCHANGED <<given, events, outbox, enabled, route, result, listed, served>>
  BY DEF ReleaseFails, DeleteReservation, Goto, TypeInv, TypeOK
<1>1. TypeInv'
  BY <1>0 DEF TypeInv, TypeOK, PhasesFit, given, Phases
<1>2. ReservationsAreCurrent'
  BY <1>0 DEF ReservationsAreCurrent, TypeInv, TypeOK, Attempts, Current
<1>3. HeldOrCharged'
  BY <1>0 DEF HeldOrCharged, Current, Holding
<1>4. ServedAreKept'
  BY <1>0 DEF ServedAreKept, Current, TypeInv, TypeOK
<1>5. ListedAreSettled'
  BY <1>0 DEF ListedAreSettled, Listed, Beyond, Current, given, Attempts
<1>6. EventsAreOfRoutes'
  BY <1>0 DEF EventsAreOfRoutes, Beyond, given, Ended
<1> QED BY <1>1, <1>2, <1>3, <1>4, <1>5, <1>6

(* A handler charges its own reservation, and hands the answer out or not. *)
LEMMA RecordStep ==
  ASSUME AccountInv, NEW q \in Requests, pc[q] = "record",
         Finalize(Current(q), RecordedKind(q)),
         Goto(q, "done"),
         served' \in {served, served \union {q}},
         UNCHANGED <<given, route, result, listed>>
  PROVE  AccountInv'
<1> USE DEF AccountInv
<1> DEFINE r == Current(q)
           kind == RecordedKind(q)
<1>0. /\ pc \in [Requests -> Phases] /\ pc' = [pc EXCEPT ![q] = "done"]
      /\ pc'[q] = "done" /\ \A p \in Requests : p # q => pc'[p] = pc[p]
      /\ r \in Attempts /\ r = <<q, route[q]>> /\ r[1] = q /\ r[2] = route[q]
      /\ kind \in Kinds /\ kind # "estimate" /\ Finalize(r, kind) /\ TypeOK
  BY DEF Goto, TypeInv, TypeOK, Current, Attempts, RecordedKind, Kinds
<1>a. /\ reservations' = reservations \ {r} /\ expired' = expired \ {r}
      /\ events' \in [Requests -> Usage \union {NoEvent}]
      /\ outbox' \subseteq Row
      /\ events'[q] # NoEvent
      /\ \A p \in Requests :
           \/ events'[p] = events[p]
           \/ /\ p = q /\ events[p] = NoEvent
              /\ events'[p] = [attempt |-> route[q], kind |-> kind]
  BY <1>0, FinalizeCharges
<1>b. UNCHANGED enabled
  BY <1>0 DEF Finalize
<1> HIDE DEF r, kind
<1>1. TypeInv'
  BY <1>0, <1>a, <1>b DEF TypeInv, TypeOK, PhasesFit, given, Phases
<1>2. ReservationsAreCurrent'
  BY <1>0, <1>a DEF ReservationsAreCurrent, TypeInv, TypeOK, Attempts, Current
<1>3. HeldOrCharged'
  BY <1>0, <1>a DEF HeldOrCharged, Current, Holding
<1>4. ServedAreKept'
  BY <1>0, <1>a DEF ServedAreKept, Current, TypeInv, TypeOK
<1>5. ListedAreSettled'
  BY <1>0, <1>a DEF ListedAreSettled, Listed, Beyond, Current, given, Attempts
<1>6. EventsAreOfRoutes'
  BY <1>0, <1>a DEF EventsAreOfRoutes, Beyond, given, Ended
<1> QED BY <1>1, <1>2, <1>3, <1>4, <1>5, <1>6

LEMMA ReconcileStep ==
  ASSUME AccountInv, NEW g \in Gateways, NEW r \in Attempts, Reconcile(g, r)
  PROVE  AccountInv'
<1> USE DEF AccountInv
<1>0. /\ r \in listed[g] /\ listed \in [Gateways -> SUBSET Attempts]
      /\ listed' = [listed EXCEPT ![g] = @ \ {r}]
      /\ \A x \in Attempts, k \in Gateways : x \in listed'[k] => x \in listed[k]
      /\ r[1] \in Requests /\ r[2] \in 1 .. Routes /\ r = <<r[1], r[2]>>
      /\ UNCHANGED <<given, pc, route, result, served, enabled>>
      /\ TypeOK /\ "estimate" \in Kinds /\ Finalize(r, "estimate")
  BY DEF Reconcile, TypeInv, TypeOK, Attempts, Kinds, Finalize
<1>a. /\ reservations' = reservations \ {r} /\ expired' = expired \ {r}
      /\ events' \in [Requests -> Usage \union {NoEvent}]
      /\ outbox' \subseteq Row
      /\ events'[r[1]] # NoEvent
      /\ \A p \in Requests :
           \/ events'[p] = events[p]
           \/ /\ p = r[1] /\ events[p] = NoEvent
              /\ events'[p] = [attempt |-> r[2], kind |-> "estimate"]
  BY <1>0, FinalizeCharges
<1>1. TypeInv'
  BY <1>0, <1>a DEF TypeInv, TypeOK, PhasesFit, given
<1>2. ReservationsAreCurrent'
  BY <1>0, <1>a DEF ReservationsAreCurrent, TypeInv, TypeOK, Attempts, Current
<1>3. HeldOrCharged'
  BY <1>0, <1>a DEF HeldOrCharged, Current
<1>4. ServedAreKept'
  BY <1>0, <1>a DEF ServedAreKept, Current, TypeInv, TypeOK
<1>5. ListedAreSettled'
  BY <1>0, <1>a DEF ListedAreSettled, Listed, Beyond, Current, given, Attempts
<1>6. EventsAreOfRoutes'
  <2>1. ttlCovers => r[2] = route[r[1]] /\ Beyond(r[1])
    BY <1>0 DEF ListedAreSettled, Listed, Current
  <2> QED BY <1>0, <1>a, <2>1 DEF EventsAreOfRoutes, Beyond, given, Ended
<1> QED BY <1>1, <1>2, <1>3, <1>4, <1>5, <1>6

(* What changes neither a request nor a charge.                            *)
LEMMA ListStep ==
  ASSUME AccountInv,
         \/ \E g \in Gateways : ListExpired(g)
         \/ \E r \in Attempts : Expire(r)
         \/ \E g \in Gateways, r \in Attempts : ReconcileFails(g, r)
         \/ \E w \in Webhooks \ OldWebhooks : ToggleWebhook(w)
         \/ \E g \in Gateways : Crash(g)
         \/ UNCHANGED vars
  PROVE  AccountInv'
<1> USE DEF AccountInv
<1>1. ASSUME NEW g \in Gateways, ListExpired(g)
      PROVE  AccountInv'
  <2>0. /\ listed' \in [Gateways -> SUBSET Attempts]
        /\ \A x \in Attempts : Listed(x)' => Listed(x)
        /\ UNCHANGED <<given, database, pc, route, result, served>>
    <3>1. PICK batch \in SUBSET expired : listed' = [listed EXCEPT ![g] = batch]
      BY <1>1 DEF ListExpired
    <3>2. /\ batch \subseteq expired /\ expired \subseteq Attempts
          /\ listed \in [Gateways -> SUBSET Attempts]
          /\ UNCHANGED <<given, database, pc, route, result, served>>
      BY <1>1 DEF ListExpired, TypeInv, TypeOK
    <3> QED BY <3>1, <3>2 DEF Listed, database
  <2>1. TypeInv'
    BY <2>0 DEF TypeInv, TypeOK, PhasesFit, given, database
  <2>2. ListedAreSettled'
    BY <2>0 DEF ListedAreSettled, Beyond, Current, given, database
  <2> QED BY <2>0, <2>1, <2>2 DEF ReservationsAreCurrent, HeldOrCharged, ServedAreKept,
             EventsAreOfRoutes, Beyond, Current, given, database
<1>2. ASSUME NEW r \in Attempts, Expire(r)
      PROVE  AccountInv'
  <2>0. /\ r \in reservations /\ expired' = expired \union {r}
        /\ ttlCovers => ~CallIsRunning(r[1])
        /\ r[1] \in Requests
        /\ UNCHANGED <<given, reservations, events, outbox, enabled, pc, route, result,
                       listed, served>>
    BY <1>2 DEF Expire, Attempts
  <2>1. TypeInv'
    BY <2>0 DEF TypeInv, TypeOK, PhasesFit, given
  <2>2. ttlCovers => r = Current(r[1]) /\ Beyond(r[1])
    BY <2>0 DEF ReservationsAreCurrent, CallIsRunning, Beyond, TypeInv, TypeOK, Phases,
                CallPhases
  <2>3. ListedAreSettled'
    BY <2>0, <2>2 DEF ListedAreSettled, Listed, Beyond, Current, given
  <2> QED BY <2>0, <2>1, <2>3 DEF ReservationsAreCurrent, HeldOrCharged, ServedAreKept,
             EventsAreOfRoutes, Beyond, Current, given
<1>3. ASSUME NEW g \in Gateways, NEW r \in Attempts, ReconcileFails(g, r)
      PROVE  AccountInv'
  <2>0. /\ listed' = [listed EXCEPT ![g] = @ \ {r}]
        /\ \A x \in Attempts : Listed(x)' => Listed(x)
        /\ UNCHANGED <<given, database, pc, route, result, served>>
    BY <1>3 DEF ReconcileFails, Listed, TypeInv, TypeOK, database
  <2>1. TypeInv'
    BY <2>0 DEF TypeInv, TypeOK, PhasesFit, given, database
  <2>2. ListedAreSettled'
    BY <2>0 DEF ListedAreSettled, Beyond, Current, given, database
  <2> QED BY <2>0, <2>1, <2>2 DEF ReservationsAreCurrent, HeldOrCharged, ServedAreKept,
             EventsAreOfRoutes, Beyond, Current, given, database
<1>4. ASSUME NEW w \in Webhooks \ OldWebhooks, ToggleWebhook(w)
      PROVE  AccountInv'
  <2>0. /\ enabled' \subseteq Webhooks
        /\ UNCHANGED <<given, reservations, expired, events, outbox, pc, route, result,
                       listed, served>>
    BY <1>4 DEF ToggleWebhook, TypeInv, TypeOK
  <2> QED BY <2>0 DEF TypeInv, TypeOK, PhasesFit, ReservationsAreCurrent, HeldOrCharged,
             ServedAreKept, ListedAreSettled, Listed, EventsAreOfRoutes, Beyond, Current,
             given
<1>5. ASSUME NEW g \in Gateways, Crash(g)
      PROVE  AccountInv'
  <2>0. /\ pc \in [Requests -> Phases] /\ pc' \in [Requests -> Phases]
        /\ \A p \in Requests : pc'[p] = pc[p] \/ (pc'[p] = "lost" /\ pc[p] \notin Ended)
        /\ listed' = [listed EXCEPT ![g] = {}]
        /\ \A x \in Attempts : Listed(x)' => Listed(x)
        /\ UNCHANGED <<given, database, route, result, served>>
    BY <1>5 DEF Crash, Listed, TypeInv, TypeOK, database, Phases, Ended
  <2>1. TypeInv'
    BY <2>0 DEF TypeInv, TypeOK, PhasesFit, given, database
  <2>2. ReservationsAreCurrent'
    BY <2>0 DEF ReservationsAreCurrent, TypeInv, TypeOK, Attempts, Current, database
  <2>3. HeldOrCharged' /\ ServedAreKept'
    BY <2>0 DEF HeldOrCharged, ServedAreKept, Current, database, Holding, TypeInv, TypeOK
  <2>4. ListedAreSettled'
    BY <2>0 DEF ListedAreSettled, Beyond, Current, given, database, Attempts
  <2>5. EventsAreOfRoutes'
    BY <2>0 DEF EventsAreOfRoutes, Beyond, given, database, Ended
  <2> QED BY <2>1, <2>2, <2>3, <2>4, <2>5
<1>6. ASSUME UNCHANGED vars
      PROVE  AccountInv'
  BY <1>6 DEF vars, TypeInv, TypeOK, PhasesFit, ReservationsAreCurrent, HeldOrCharged,
     ServedAreKept, ListedAreSettled, Listed, EventsAreOfRoutes, Beyond, Current, given,
     database
<1> QED BY <1>1, <1>2, <1>3, <1>4, <1>5, <1>6

(* Steps of a handler that touch neither its route nor the ledger.         *)
LEMMA HandlerStep ==
  ASSUME AccountInv, NEW q \in Requests,
         \/ Refuse(q) \/ (\E registered \in BOOLEAN : Dispatch(q, registered))
         \/ CallEnds(q) \/ StreamItem(q) \/ StreamEnds(q) \/ ClientGone(q)
  PROVE  AccountInv'
<1> USE DEF AccountInv
<1> USE DEF Phases, CallPhases, Holding, Ended, Results
<1>0. /\ pc \in [Requests -> Phases] /\ result \in [Requests -> Results]
      /\ q \in served => pc[q] \in {"streaming", "record", "done", "lost"}
      /\ pc[q] = "streaming" => q \in streams
  BY DEF TypeInv, TypeOK, ServedAreKept, PhasesFit
<1>1. CASE Refuse(q)
  BY <1>0, <1>1, PhaseStep DEF Refuse, Beyond
<1>2. ASSUME NEW registered \in BOOLEAN, Dispatch(q, registered)
      PROVE  AccountInv'
  BY <1>0, <1>2, PhaseStep DEF Dispatch, Beyond
<1>3. CASE CallEnds(q)
  <2>1. ASSUME NEW i \in {"answer", "blocked"}, CallSucceeds(q, i)
        PROVE  AccountInv'
    BY <1>0, <2>1, PhaseStep DEF CallSucceeds, Beyond
  <2>2. ASSUME NEW retryable \in BOOLEAN, CallFails(q, retryable)
        PROVE  AccountInv'
    BY <1>0, <2>2, PhaseStep DEF CallFails, Beyond
  <2> QED BY <1>3, <2>1, <2>2 DEF CallEnds
<1>4. CASE StreamEnds(q)
  BY <1>0, <1>4, PhaseStep DEF StreamEnds, Beyond
<1>5. CASE ClientGone(q)
  BY <1>0, <1>5, PhaseStep DEF ClientGone, Beyond
<1>6. CASE StreamItem(q)
  BY <1>6 DEF StreamItem, TypeInv, TypeOK, PhasesFit, ReservationsAreCurrent,
     HeldOrCharged, ServedAreKept, ListedAreSettled, Listed, EventsAreOfRoutes, Beyond,
     Current, given, database
<1> QED BY <1>1, <1>2, <1>3, <1>4, <1>5, <1>6

LEMMA Records ==
  ASSUME AccountInv, NEW q \in Requests, Record(q) \/ RecordFails(q)
  PROVE  AccountInv'
<1>1. CASE Finalize(Current(q), RecordedKind(q))
  BY <1>1, RecordStep DEF Record, RecordFails
<1>2. CASE UNCHANGED database /\ RecordFails(q)
  BY <1>2, PhaseStep
     DEF RecordFails, AccountInv, TypeInv, TypeOK, Beyond, Phases, Holding, Ended
<1> QED BY <1>1, <1>2 DEF Record, RecordFails

THEOREM AccountInvariant == Spec => []AccountInv
<1>1. ASSUME AccountInv, [Next]_vars
      PROVE  AccountInv'
  <2>1. ASSUME NEW q \in Requests, Handle(q) PROVE AccountInv'
    BY <1>1, <2>1, HandlerStep, ReserveStep, ReleaseStep, ReleaseFailsStep, Records
       DEF Handle
  <2>2. ASSUME NEW q \in Requests, StreamItem(q) \/ StreamEnds(q) \/ ClientGone(q)
        PROVE  AccountInv'
    BY <1>1, <2>2, HandlerStep
  <2> QED BY <1>1, <2>1, <2>2, ReconcileStep, ListStep DEF Next
<1> QED BY <1>1, InitEstablishes, PTL DEF Spec

(* Every variable keeps its type.                                          *)
THEOREM TypeCorrect == Spec => []TypeOK
<1>1. AccountInv => TypeOK
  BY DEF AccountInv, TypeInv
<1> QED BY <1>1, AccountInvariant, PTL

(* Whoever received model output is charged, or will be, for the route     *)
(* that served it.                                                         *)
THEOREM ServedIsAccountedHolds == Spec => []ServedIsAccounted
<1>1. ASSUME AccountInv PROVE ServedIsAccounted
  <2> SUFFICES ASSUME NEW q \in served
               PROVE  /\ events[q] # NoEvent \/ \E r \in reservations : r[1] = q
                      /\ events[q] # NoEvent /\ (ttlCovers \/ events[q].kind # "estimate")
                           => events[q].attempt = route[q]
    BY DEF ServedIsAccounted
  <2>1. q \in Requests
    BY <1>1 DEF AccountInv, TypeInv, TypeOK
  <2>2. events[q] # NoEvent \/ \E r \in reservations : r[1] = q
    BY <1>1 DEF AccountInv, ServedAreKept, Current
  <2>3. events[q] # NoEvent /\ (ttlCovers \/ events[q].kind # "estimate")
          => events[q].attempt = route[q]
    BY <1>1, <2>1 DEF AccountInv, EventsAreOfRoutes
  <2> QED BY <2>2, <2>3
<1> QED BY <1>1, AccountInvariant, PTL

-----------------------------------------------------------------------------
(* The outbox.                                                             *)

RowsOf(w, q) == {x \in outbox : x.webhook = w /\ x.request = q}

OldRowsFollow ==
  /\ OldWebhooks \subseteq enabled
  /\ \A w \in OldWebhooks, q \in Requests :
       /\ \A x \in RowsOf(w, q) : events[q] # NoEvent /\ x.payload = events[q]
       /\ events[q] # NoEvent => RowsOf(w, q) # {}

(* finalize_usage adds the row of an old webhook with the event or not at  *)
(* all.                                                                    *)
LEMMA FinalizeBills ==
  ASSUME TypeOK, OldRowsFollow, NEW r \in Attempts, NEW kind \in Kinds,
         Finalize(r, kind)
  PROVE  OldRowsFollow'
<1> DEFINE e    == [attempt |-> r[2], kind |-> kind]
           sent == {row.webhook : row \in {x \in outbox : x.request = r[1]}}
           new  == [webhook : enabled \ sent, request : {r[1]}, payload : {e}]
<1>1. /\ outbox' = outbox \union new /\ enabled' = enabled
      /\ events' = IF events[r[1]] = NoEvent THEN [events EXCEPT ![r[1]] = e] ELSE events
      /\ r[1] \in Requests /\ events \in [Requests -> Usage \union {NoEvent}]
  BY DEF Finalize, AddOutboxRows, AppendEvent, Attempts, TypeOK
<1>2. e # NoEvent
  BY DEF Kinds, NoEvent
<1> SUFFICES ASSUME NEW w \in OldWebhooks, NEW q \in Requests
             PROVE  /\ \A x \in RowsOf(w, q)' : events'[q] # NoEvent /\ x.payload = events'[q]
                    /\ events'[q] # NoEvent => RowsOf(w, q)' # {}
  BY <1>1 DEF OldRowsFollow
<1>3. /\ w \in enabled
      /\ \A x \in RowsOf(w, q) : events[q] # NoEvent /\ x.payload = events[q]
      /\ events[q] # NoEvent => RowsOf(w, q) # {}
  BY DEF OldRowsFollow
<1>4. CASE q # r[1] \/ events[q] # NoEvent
  <2>1. events'[q] = events[q]
    BY <1>1, <1>4
  <2>2. \A x \in new : ~(x.webhook = w /\ x.request = q)
    BY <1>3, <1>4 DEF RowsOf
  <2>3. RowsOf(w, q)' = RowsOf(w, q)
    BY <1>1, <2>2 DEF RowsOf
  <2> QED BY <1>3, <2>1, <2>3
<1>5. CASE q = r[1] /\ events[q] = NoEvent
  <2>1. events'[q] = e
    BY <1>1, <1>5
  <2>2. w \notin sent
    BY <1>3, <1>5 DEF RowsOf
  <2> DEFINE row == [webhook |-> w, request |-> q, payload |-> e]
  <2>3. row \in new
    BY <1>3, <1>5, <2>2
  <2>4. row \in RowsOf(w, q)'
    BY <1>1, <2>3 DEF RowsOf
  <2>5. \A x \in RowsOf(w, q)' : x.payload = e
    BY <1>1, <1>3, <1>5 DEF RowsOf
  <2> QED BY <1>2, <2>1, <2>4, <2>5
<1> QED BY <1>4, <1>5

(* For any webhooks that come and go: the outbox of an old one follows the *)
(* ledger.                                                                 *)
THEOREM BillingFollowsLedgerHolds == Spec => []BillingFollowsLedger
<1>1. Init => OldRowsFollow
  BY DEF Init, OldRowsFollow, RowsOf
<1>2. ASSUME TypeOK, OldRowsFollow, [Next]_vars
      PROVE  OldRowsFollow'
  <2>1. CASE UNCHANGED <<events, outbox>> /\ OldWebhooks \subseteq enabled'
    BY <1>2, <2>1 DEF OldRowsFollow, RowsOf
  <2>2. ASSUME NEW w \in Webhooks \ OldWebhooks, ToggleWebhook(w)
        PROVE  OldRowsFollow'
    BY <1>2, <2>1, <2>2 DEF ToggleWebhook, OldRowsFollow
  <2>3. ASSUME NEW q \in Requests, Handle(q)
        PROVE  OldRowsFollow'
    <3>1. Current(q) \in Attempts /\ RecordedKind(q) \in Kinds
      BY <1>2 DEF TypeOK, Current, Attempts, RecordedKind, Kinds
    <3>2. CASE Finalize(Current(q), RecordedKind(q))
      BY <1>2, <3>1, <3>2, FinalizeBills
    <3>3. CASE UNCHANGED <<events, outbox, enabled>>
      BY <1>2, <2>1, <3>3 DEF OldRowsFollow
    <3> QED BY <2>3, <3>2, <3>3 DEF Handle, Refuse, Reserve, Dispatch, CallEnds,
               CallSucceeds, CallFails, Release, ReleaseFails, Record, RecordFails,
               database
  <2>4. ASSUME NEW q \in Requests, StreamItem(q) \/ StreamEnds(q) \/ ClientGone(q)
        PROVE  OldRowsFollow'
    BY <1>2, <2>1, <2>4 DEF StreamItem, StreamEnds, ClientGone, database, OldRowsFollow
  <2>5. ASSUME NEW g \in Gateways, Crash(g) \/ ListExpired(g)
        PROVE  OldRowsFollow'
    BY <1>2, <2>1, <2>5 DEF Crash, ListExpired, database, OldRowsFollow
  <2>6. ASSUME NEW r \in Attempts, Expire(r)
        PROVE  OldRowsFollow'
    BY <1>2, <2>1, <2>6 DEF Expire, OldRowsFollow
  <2>7. ASSUME NEW g \in Gateways, NEW r \in Attempts, Reconcile(g, r)
        PROVE  OldRowsFollow'
    BY <1>2, <2>7, FinalizeBills DEF Reconcile, Kinds
  <2>8. ASSUME NEW g \in Gateways, NEW r \in Attempts, ReconcileFails(g, r)
        PROVE  OldRowsFollow'
    BY <1>2, <2>1, <2>8 DEF ReconcileFails, database, OldRowsFollow
  <2>9. CASE UNCHANGED vars
    BY <1>2, <2>1, <2>9 DEF vars, database, OldRowsFollow
  <2> QED BY <1>2, <2>2, <2>3, <2>4, <2>5, <2>6, <2>7, <2>8, <2>9 DEF Next
<1>3. OldRowsFollow => BillingFollowsLedger
  <2> SUFFICES ASSUME OldRowsFollow, NEW w \in OldWebhooks, NEW q \in Requests
               PROVE  {x.payload : x \in {y \in outbox : y.webhook = w /\ y.request = q}}
                        = {events[q]} \ {NoEvent}
    BY DEF BillingFollowsLedger
  <2>1. /\ \A x \in RowsOf(w, q) : events[q] # NoEvent /\ x.payload = events[q]
        /\ events[q] # NoEvent => \E x \in RowsOf(w, q) : TRUE
    BY DEF OldRowsFollow
  <2> QED BY <2>1 DEF RowsOf
<1> QED BY <1>1, <1>2, <1>3, TypeCorrect, PTL DEF Spec

-----------------------------------------------------------------------------
(* The refinement of UsageLedger: its initial states and its steps.        *)

LedgerVars == <<[q \in Requests |-> AccountOf(q)], ~ttlCovers>>

LEMMA AccountMoves ==
  ASSUME NEW q \in Requests, ttlCovers' = ttlCovers,
         \A p \in Requests : p # q => AccountOf(p)' = AccountOf(p),
         \/ AccountOf(q)' = AccountOf(q)
         \/ AccountOf(q) = "free" /\ AccountOf(q)' = "open"
         \/ AccountOf(q) = "open" /\ AccountOf(q)' = "free"
         \/ AccountOf(q) = "open" /\ AccountOf(q)' = "charged"
         \/ AccountOf(q) = "free" /\ AccountOf(q)' = "charged" /\ ~ttlCovers
  PROVE  Ledger!Next \/ UNCHANGED LedgerVars
<1> DEFINE acc == [p \in Requests |-> AccountOf(p)]
<1>1. \A p \in Requests : acc[p] = AccountOf(p) /\ acc'[p] = AccountOf(p)'
  OBVIOUS
<1>2. acc' = [acc EXCEPT ![q] = AccountOf(q)']
  OBVIOUS
<1>3. CASE AccountOf(q)' = AccountOf(q)
  <2>1. acc' = acc
    BY <1>2, <1>3
  <2> QED BY <2>1 DEF LedgerVars
<1>4. CASE AccountOf(q) = "free" /\ AccountOf(q)' = "open"
  <2>1. Ledger!Open(q)
    BY <1>2, <1>4 DEF Ledger!Open, Ledger!Move
  <2> QED BY <2>1 DEF Ledger!Next
<1>5. CASE AccountOf(q) = "open" /\ AccountOf(q)' = "free"
  <2>1. Ledger!Close(q)
    BY <1>2, <1>5 DEF Ledger!Close, Ledger!Move
  <2> QED BY <2>1 DEF Ledger!Next
<1>6. CASE /\ AccountOf(q)' = "charged"
           /\ AccountOf(q) = "open" \/ (AccountOf(q) = "free" /\ ~ttlCovers)
  <2>1. Ledger!Charge(q)
    BY <1>2, <1>6 DEF Ledger!Charge, Ledger!Move
  <2> QED BY <2>1 DEF Ledger!Next
<1> QED BY <1>3, <1>4, <1>5, <1>6

(* Steps that leave reservations and events alone.                         *)
LEMMA AccountRests ==
  ASSUME UNCHANGED <<given, reservations, events>>
  PROVE  UNCHANGED LedgerVars
BY DEF LedgerVars, AccountOf, given

(* A charge, of a reservation that is there or of one that may be late.    *)
LEMMA ChargeMoves ==
  ASSUME TypeOK, NEW r \in Attempts, NEW kind \in Kinds, Finalize(r, kind),
         UNCHANGED given,
         ttlCovers \/ kind # "estimate" => r \in reservations \/ events[r[1]] # NoEvent
  PROVE  Ledger!Next \/ UNCHANGED LedgerVars
<1>1. /\ r[1] \in Requests
      /\ reservations' = reservations \ {r}
      /\ events'[r[1]] # NoEvent
      /\ \A p \in Requests : p # r[1] => events'[p] = events[p]
      /\ events[r[1]] # NoEvent => events'[r[1]] = events[r[1]]
  BY FinalizeCharges DEF Attempts
<1>2. \A p \in Requests : p # r[1] => AccountOf(p)' = AccountOf(p)
  BY <1>1 DEF AccountOf
<1>3. AccountOf(r[1])' = "charged"
  BY <1>1 DEF AccountOf
<1>4. AccountOf(r[1]) \in {"charged", "open"} \/ (AccountOf(r[1]) = "free" /\ ~ttlCovers)
  BY DEF AccountOf
<1> QED BY <1>1, <1>2, <1>3, <1>4, AccountMoves DEF given

LEMMA ReservationGoes ==
  ASSUME AccountInv, NEW q \in Requests, pc[q] = "release",
         reservations' = reservations \ {Current(q)}, UNCHANGED <<given, events>>
  PROVE  Ledger!Next \/ UNCHANGED LedgerVars
<1>1. \A r \in reservations' : r[1] # q
  BY DEF AccountInv, ReservationsAreCurrent
<1>2. events[q] = NoEvent => Current(q) \in reservations
  BY DEF AccountInv, HeldOrCharged, Holding
<1>3. \A p \in Requests : p # q => AccountOf(p)' = AccountOf(p)
  BY DEF AccountOf, Current
<1>4. CASE events[q] # NoEvent
  BY <1>3, <1>4, AccountMoves DEF AccountOf, given
<1>5. CASE events[q] = NoEvent
  <2>1. AccountOf(q) = "open" /\ AccountOf(q)' = "free"
    BY <1>1, <1>2, <1>5 DEF AccountOf, Current
  <2> QED BY <1>3, <2>1, AccountMoves DEF given
<1> QED BY <1>4, <1>5

LEMMA ReservationComes ==
  ASSUME NEW q \in Requests, NEW ok \in BOOLEAN, Reserve(q, ok)
  PROVE  Ledger!Next \/ UNCHANGED LedgerVars
<1>1. /\ ~ \E r \in reservations : r[1] = q
      /\ reservations' = reservations \union {Current(q)} /\ Current(q)[1] = q
      /\ UNCHANGED <<given, events>>
  BY DEF Reserve, Current
<1>2. \A p \in Requests : p # q => AccountOf(p)' = AccountOf(p)
  BY <1>1 DEF AccountOf
<1>3. CASE events[q] # NoEvent
  BY <1>1, <1>2, <1>3, AccountMoves DEF AccountOf, given
<1>4. CASE events[q] = NoEvent
  <2>1. AccountOf(q) = "free" /\ AccountOf(q)' = "open"
    BY <1>1, <1>4 DEF AccountOf
  <2> QED BY <1>1, <1>2, <2>1, AccountMoves DEF given
<1> QED BY <1>3, <1>4

(* For any number of requests, routes and processes: budget is opened,     *)
(* charged for good or given back, and charged late only where the TTL     *)
(* does not cover a call.                                                  *)
THEOREM LedgerIsImplemented == Spec => Ledger!Spec
<1>1. Init => Ledger!Init
  BY DEF Init, Ledger!Init, AccountOf
<1>2. ASSUME AccountInv, [Next]_vars
      PROVE  Ledger!Next \/ UNCHANGED LedgerVars
  <2>0. TypeOK
    BY <1>2 DEF AccountInv, TypeInv
  <2>1. ASSUME NEW q \in Requests, Handle(q)
        PROVE  Ledger!Next \/ UNCHANGED LedgerVars
    <3>1. /\ Current(q) \in Attempts /\ Current(q)[1] = q
          /\ RecordedKind(q) \in Kinds /\ RecordedKind(q) # "estimate"
      BY <2>0 DEF TypeOK, Current, Attempts, RecordedKind, Kinds
    <3>2. CASE (Record(q) \/ RecordFails(q)) /\ Finalize(Current(q), RecordedKind(q))
      <4>1. Current(q) \in reservations \/ events[Current(q)[1]] # NoEvent
        BY <1>2, <3>1, <3>2 DEF AccountInv, HeldOrCharged, Holding, Record, RecordFails
      <4> QED BY <2>0, <3>1, <3>2, <4>1, ChargeMoves DEF Record, RecordFails
    <3>3. CASE UNCHANGED <<given, reservations, events>>
      BY <3>3, AccountRests
    <3>4. CASE Release(q) \/ ReleaseFails(q)
      BY <1>2, <3>3, <3>4, ReservationGoes DEF Release, ReleaseFails, DeleteReservation
    <3>5. CASE \E ok \in BOOLEAN : Reserve(q, ok)
      BY <3>5, ReservationComes
    <3> QED BY <2>1, <3>2, <3>3, <3>4, <3>5 DEF Handle, Refuse, Dispatch, CallEnds,
               CallSucceeds, CallFails, Record, RecordFails, database
  <2>2. ASSUME NEW g \in Gateways, NEW r \in Attempts, Reconcile(g, r)
        PROVE  Ledger!Next \/ UNCHANGED LedgerVars
    <3>1. ttlCovers => r \in reservations \/ events[r[1]] # NoEvent
      BY <1>2, <2>2 DEF AccountInv, ListedAreSettled, Listed, Reconcile
    <3> QED BY <2>0, <2>2, <3>1, ChargeMoves DEF Reconcile, Kinds
  <2>3. CASE UNCHANGED <<given, reservations, events>>
    BY <2>3, AccountRests
  <2> QED BY <1>2, <2>1, <2>2, <2>3 DEF Next, StreamItem, StreamEnds, ClientGone, Crash,
             ListExpired, Expire, ReconcileFails, ToggleWebhook, database, vars
<1>3. AccountInv /\ [Next]_vars => [Ledger!Next]_LedgerVars
  BY <1>2
<1> QED BY <1>1, <1>3, AccountInvariant, PTL DEF Spec, Ledger!Spec, LedgerVars

-----------------------------------------------------------------------------
(* What a client gets.                                                     *)

EventKinds == {"started", "usage", "delta", "finished", "error"}
StreamEvent == [kind : EventKinds, body : Seq(Nat)]
Done == Content!Event("done", <<>>)
Streamed == Content!Streamed(ask)

(* The deltas of s are pieces number a + 1 to b of a text.                 *)
Numbers(c, s, pieces, a, b) ==
  /\ c \in [0..Len(s) -> Nat]
  /\ c[0] = a /\ c[Len(s)] = b
  /\ \A i, j \in 0..Len(s) : i <= j => c[i] <= c[j]
  /\ \A i \in 1..Len(s) :
       IF s[i].kind = "delta" THEN c[i] = c[i - 1] + 1 /\ s[i].body = pieces[c[i]]
       ELSE c[i] = c[i - 1]

Carries(s, pieces, a, b) == \E c \in [0..Len(s) -> Nat] : Numbers(c, s, pieces, a, b)

EventsOf(s) == {s[i] : i \in 1..Len(s)}

(* A piece count never falls along a sequence.                             *)
LEMMA CarriesTypes ==
  ASSUME NEW s \in Seq(StreamEvent), NEW pieces, NEW a, NEW b, Carries(s, pieces, a, b)
  PROVE  a \in Nat /\ b \in Nat /\ a <= b
<1>1. Len(s) \in Nat
  OBVIOUS
<1> QED BY <1>1 DEF Carries, Numbers

LEMMA NothingCarries ==
  ASSUME NEW pieces, NEW a \in Nat
  PROVE  Carries(<<>>, pieces, a, a)
<1> DEFINE c == [i \in 0..0 |-> a]
<1>1. Len(<<>>) = 0
  OBVIOUS
<1>2. Numbers(c, <<>>, pieces, a, a)
  BY <1>1 DEF Numbers
<1> QED BY <1>1, <1>2 DEF Carries, Numbers

LEMMA EmptyCarriesNothing ==
  ASSUME NEW pieces, NEW a, NEW b, Carries(<<>>, pieces, a, b)
  PROVE  a = b
BY DEF Carries, Numbers

(* An event at the end carries the next piece, or none.                    *)
LEMMA AppendCarries ==
  ASSUME NEW s \in Seq(StreamEvent), NEW pieces, NEW a, NEW b, Carries(s, pieces, a, b),
         NEW e \in StreamEvent
  PROVE  /\ e.kind = "delta" /\ e.body = pieces[b + 1]
              => Carries(Append(s, e), pieces, a, b + 1)
         /\ e.kind # "delta" => Carries(Append(s, e), pieces, a, b)
<1> DEFINE n == Len(s)
           t == Append(s, e)
<1>1. /\ n \in Nat /\ t \in Seq(StreamEvent) /\ Len(t) = n + 1 /\ t[n + 1] = e
      /\ \A i \in 1..n : t[i] = s[i]
  OBVIOUS
<1>2. PICK c \in [0..n -> Nat] : Numbers(c, s, pieces, a, b)
  BY DEF Carries
<1>3. /\ c[0] = a /\ c[n] = b /\ b \in Nat
      /\ \A i, j \in 0..n : i <= j => c[i] <= c[j]
      /\ \A i \in 1..n :
           IF s[i].kind = "delta" THEN c[i] = c[i - 1] + 1 /\ s[i].body = pieces[c[i]]
           ELSE c[i] = c[i - 1]
  BY <1>1, <1>2 DEF Numbers
<1> HIDE DEF n, t
<1>4. ASSUME NEW k \in {b, b + 1},
             IF e.kind = "delta" THEN k = b + 1 /\ e.body = pieces[k] ELSE k = b
      PROVE  Carries(t, pieces, a, k)
  <2> DEFINE d == [i \in 0..n + 1 |-> IF i <= n THEN c[i] ELSE k]
  <2>1. d \in [0..n + 1 -> Nat] /\ d[0] = a /\ d[n + 1] = k
    BY <1>1, <1>3, <1>4
  <2>2. \A i, j \in 0..n + 1 : i <= j => d[i] <= d[j]
    <3> TAKE i, j \in 0..n + 1
    <3>1. CASE j <= n
      BY <1>1, <1>3, <3>1
    <3>2. CASE i <= n /\ j = n + 1
      <4>1. c[i] <= c[n]
        BY <1>1, <1>3, <3>2
      <4> QED BY <1>1, <1>3, <1>4, <3>2, <4>1
    <3>3. CASE i = n + 1
      BY <1>1, <1>3, <1>4, <3>3
    <3> QED BY <1>1, <3>1, <3>2, <3>3
  <2>3. ASSUME NEW i \in 1..n + 1
        PROVE  IF t[i].kind = "delta" THEN d[i] = d[i - 1] + 1 /\ t[i].body = pieces[d[i]]
               ELSE d[i] = d[i - 1]
    <3>1. CASE i <= n
      <4>1. d[i] = c[i] /\ d[i - 1] = c[i - 1] /\ t[i] = s[i] /\ i \in 1..n
        BY <1>1, <3>1
      <4> HIDE DEF d
      <4> QED BY <1>3, <4>1
    <3>2. CASE i = n + 1
      <4>1. d[i] = k /\ d[i - 1] = b /\ t[i] = e
        BY <1>1, <1>3, <3>2
      <4> HIDE DEF d
      <4> QED BY <1>4, <4>1
    <3> QED BY <1>1, <3>1, <3>2
  <2> HIDE DEF d
  <2>4. Numbers(d, t, pieces, a, k)
    BY <1>1, <2>1, <2>2, <2>3 DEF Numbers
  <2> QED BY <1>1, <2>1, <2>4 DEF Carries
<1> QED BY <1>4 DEF t

(* What a reader takes off carries the piece that follows what it has.     *)
LEMMA HeadCarries ==
  ASSUME NEW s \in Seq(StreamEvent), s # <<>>, NEW pieces, NEW a, NEW b,
         Carries(s, pieces, a, b)
  PROVE  /\ Head(s).kind = "delta" =>
              Head(s).body = pieces[a + 1] /\ Carries(Tail(s), pieces, a + 1, b)
         /\ Head(s).kind # "delta" => Carries(Tail(s), pieces, a, b)
<1> DEFINE n == Len(s)
           t == Tail(s)
<1>1. /\ n \in Nat /\ n > 0 /\ t \in Seq(StreamEvent) /\ Len(t) = n - 1 /\ Head(s) = s[1]
      /\ \A i \in 1..n - 1 : t[i] = s[i + 1]
  OBVIOUS
<1>2. PICK c \in [0..n -> Nat] : Numbers(c, s, pieces, a, b)
  BY DEF Carries
<1>3. /\ c[0] = a /\ c[n] = b
      /\ \A i, j \in 0..n : i <= j => c[i] <= c[j]
      /\ \A i \in 1..n :
           IF s[i].kind = "delta" THEN c[i] = c[i - 1] + 1 /\ s[i].body = pieces[c[i]]
           ELSE c[i] = c[i - 1]
  BY <1>1, <1>2 DEF Numbers
<1> HIDE DEF n, t
<1>4. Carries(t, pieces, c[1], b)
  <2> DEFINE d == [i \in 0..n - 1 |-> c[i + 1]]
  <2>1. d \in [0..n - 1 -> Nat] /\ d[0] = c[1] /\ d[n - 1] = b
    BY <1>1, <1>3
  <2>2. \A i, j \in 0..n - 1 : i <= j => d[i] <= d[j]
    BY <1>1, <1>3
  <2>3. ASSUME NEW i \in 1..n - 1
        PROVE  IF t[i].kind = "delta" THEN d[i] = d[i - 1] + 1 /\ t[i].body = pieces[d[i]]
               ELSE d[i] = d[i - 1]
    <3>1. d[i] = c[i + 1] /\ d[i - 1] = c[i] /\ t[i] = s[i + 1] /\ i + 1 \in 1..n
          /\ (i + 1) - 1 = i
      BY <1>1
    <3> HIDE DEF d
    <3>2. IF s[i + 1].kind = "delta"
          THEN c[i + 1] = c[(i + 1) - 1] + 1 /\ s[i + 1].body = pieces[c[i + 1]]
          ELSE c[i + 1] = c[(i + 1) - 1]
      BY <1>3, <3>1
    <3> QED BY <3>1, <3>2
  <2> HIDE DEF d
  <2>4. Numbers(d, t, pieces, c[1], b)
    BY <1>1, <2>1, <2>2, <2>3 DEF Numbers
  <2> QED BY <1>1, <2>1, <2>4 DEF Carries
<1>5. IF s[1].kind = "delta" THEN c[1] = c[0] + 1 /\ s[1].body = pieces[c[1]]
      ELSE c[1] = c[0]
  <2>1. 1 \in 1..n /\ 1 - 1 = 0
    BY <1>1
  <2>2. IF s[1].kind = "delta" THEN c[1] = c[1 - 1] + 1 /\ s[1].body = pieces[c[1]]
        ELSE c[1] = c[1 - 1]
    BY <1>3, <2>1
  <2> QED BY <2>1, <2>2
<1>6. Head(s) = s[1]
  BY <1>1
<1>7. c[1] = (IF s[1].kind = "delta" THEN a + 1 ELSE a)
  BY <1>3, <1>5
<1>8. Head(s).kind = "delta" => Head(s).body = pieces[a + 1]
  BY <1>3, <1>5, <1>6
<1> QED BY <1>4, <1>6, <1>7, <1>8 DEF t

(* Of a sequence without a delta, or of one delta among others.            *)
LEMMA OthersCarryNothing ==
  ASSUME NEW s \in Seq(StreamEvent), NEW pieces, NEW a \in Nat,
         \A i \in 1..Len(s) : s[i].kind # "delta"
  PROVE  Carries(s, pieces, a, a)
<1> DEFINE c == [i \in 0..Len(s) |-> a]
<1>1. Len(s) \in Nat
  OBVIOUS
<1>2. Numbers(c, s, pieces, a, a)
  BY <1>1 DEF Numbers
<1> QED BY <1>1, <1>2 DEF Carries

LEMMA OneDeltaIsCarried ==
  ASSUME NEW s \in Seq(StreamEvent), NEW pieces, NEW k \in 1..Len(s),
         \A i \in 1..Len(s) : s[i].kind = "delta" <=> i = k,
         s[k].body = pieces[1]
  PROVE  Carries(s, pieces, 0, 1)
<1> DEFINE n == Len(s)
           c == [i \in 0..n |-> IF i < k THEN 0 ELSE 1]
<1>1. n \in Nat
  OBVIOUS
<1>2. c \in [0..n -> Nat] /\ c[0] = 0 /\ c[n] = 1
  BY <1>1
<1>3. \A i, j \in 0..n : i <= j => c[i] <= c[j]
  BY <1>1
<1>4. ASSUME NEW i \in 1..n
      PROVE  IF s[i].kind = "delta" THEN c[i] = c[i - 1] + 1 /\ s[i].body = pieces[c[i]]
             ELSE c[i] = c[i - 1]
  <2>1. c[i] = (IF i < k THEN 0 ELSE 1) /\ c[i - 1] = (IF i - 1 < k THEN 0 ELSE 1)
    BY <1>1
  <2> HIDE DEF c
  <2> QED BY <1>1, <2>1
<1> HIDE DEF c
<1>5. Numbers(c, s, pieces, 0, 1)
  BY <1>2, <1>3, <1>4 DEF Numbers
<1> QED BY <1>2, <1>5 DEF Carries

(* The events of a longer and of a shorter sequence.                       *)
LEMMA EventsOfAppend ==
  ASSUME NEW S, NEW s \in Seq(S), NEW e \in S
  PROVE  EventsOf(Append(s, e)) = EventsOf(s) \union {e}
<1>1. /\ Len(s) \in Nat /\ Len(Append(s, e)) = Len(s) + 1 /\ Append(s, e)[Len(s) + 1] = e
      /\ \A i \in 1..Len(s) : Append(s, e)[i] = s[i]
  OBVIOUS
<1> QED BY <1>1 DEF EventsOf

LEMMA EventsOfTail ==
  ASSUME NEW S, NEW s \in Seq(S), s # <<>>
  PROVE  EventsOf(s) = EventsOf(Tail(s)) \union {Head(s)}
<1> DEFINE n == Len(s)
<1>1. /\ n \in Nat /\ n > 0 /\ Len(Tail(s)) = n - 1 /\ Head(s) = s[1]
      /\ \A i \in 1..n - 1 : Tail(s)[i] = s[i + 1]
  OBVIOUS
<1>2. ASSUME NEW i \in 1..n PROVE s[i] \in EventsOf(Tail(s)) \union {Head(s)}
  <2>1. CASE i = 1
    BY <1>1, <2>1
  <2>2. CASE i # 1
    <3>1. i - 1 \in 1..n - 1 /\ Tail(s)[i - 1] = s[i]
      BY <1>1, <2>2
    <3> QED BY <1>1, <3>1 DEF EventsOf
  <2> QED BY <2>1, <2>2
<1>3. ASSUME NEW i \in 1..n - 1 PROVE Tail(s)[i] \in EventsOf(s)
  BY <1>1 DEF EventsOf
<1>4. Head(s) \in EventsOf(s)
  BY <1>1 DEF EventsOf
<1> QED BY <1>1, <1>2, <1>3, <1>4 DEF EventsOf

(* Content!Min chooses a least element: the well-order of Nat.             *)
LEMMA LeastExists ==
  ASSUME NEW I, I \subseteq Nat, I # {}
  PROVE  Content!Min(I) \in I /\ \A y \in I : Content!Min(I) <= y
<1>1. PICK x \in I : \A y \in I : ~ (<<y, x>> \in OpToRel(<, Nat))
  BY NatLessThanWellFounded, WFMin, Zenon
<1>2. \A y \in I : ~ (y < x)
  BY <1>1, Zenon DEF OpToRel
<1>3. \A y \in I : x <= y
  BY <1>2
<1> QED BY <1>3, Zenon DEF Content!Min

Outgoing == [event : StreamEvent, checked : BOOLEAN]
EventSeq(s) == [i \in 1..Len(s) |-> s[i].event]
Sent == EventSeq(sending)

(* What the client has been sent, in whatever order it was cleared.        *)
UnderWay == EventsOf(frames) \union EventsOf(channel) \union EventsOf(Sent)
Unsent == frames = <<>> /\ shown = <<>> /\ channel = <<>> /\ sending = <<>>

Early == {"routing", "calling", "relay", "inspect"}
Stages == Early \union {"flush", "record", "closing", "answer", "ended"}

Accounts == [estimated : BOOLEAN, amount : Nat,
             status : {"none", "unrecorded", "succeeded", "failed", "interrupted"}]

ContentTypes ==
  /\ stage \in Stages /\ receiver \in {"open", "gone", "done"}
  /\ text \in Nat /\ reports \in Nat /\ chunks \in Nat /\ usage \in Nat
  /\ ready \in Seq(StreamEvent) /\ held \in Seq(StreamEvent)
  /\ sending \in Seq(Outgoing)
  /\ channel \in Seq(StreamEvent) /\ frames \in Seq(StreamEvent \union {Done})
  /\ shown \in Seq(Nat)
  /\ status \in {"succeeded", "failed", "interrupted"} /\ account \in Accounts
  /\ \E S : tried \in Seq(S)

(* What every stage of a request takes for granted.                        *)
ContentStages ==
  /\ stage \in {"routing", "calling"} =>
       text = 0 /\ reports = 0 /\ held = <<>> /\ account = Content!NoAccount
  /\ stage \in {"routing", "calling", "answer"} \/ (stage = "inspect" /\ ~Streamed) =>
       Unsent /\ ready = <<>> /\ usage = 0 /\ receiver = "open"
  /\ stage \in {"relay", "flush", "record", "closing"} => Streamed
  /\ stage \in {"record", "ended"} => sending = <<>>
  /\ stage = "inspect" => ask.guarded
  /\ ask.guarded /\ stage \in Early => Unsent
  /\ ask.guarded /\ Streamed => \A e \in EventsOf(held) : e.kind # "delta"
  /\ ~ask.guarded /\ stage # "relay" /\ receiver # "gone" => ready = <<>>
  /\ receiver = "done" => stage = "ended"
  /\ stage = "ended" /\ ~Streamed => receiver = "done"

(* A usage frame never says more than the last report that was taken.      *)
ContentUsage ==
  /\ usage <= reports
  /\ \A e \in UnderWay \union EventsOf(held) :
       e.kind = "usage" => e.body[1] \in 1..usage
  /\ \A e \in EventsOf(ready) : e.kind = "usage" => e.body[1] = reports /\ reports > 0

FirstPieces(n) == [i \in 1..n |-> i]
ContentsOf(n) == {FirstPieces(n), IF n = 0 THEN <<>> ELSE <<0>>}
Contents == ContentsOf(text)

Pieces(content) == [k \in Nat \ {0} |-> IF ask.guarded THEN content ELSE <<k>>]

Upto(content, a) ==
  IF ask.guarded THEN IF a = 0 THEN <<>> ELSE content ELSE FirstPieces(a)

(* The pieces of the text lie in order along the way to the client.        *)
Flow(content, a, b, c) ==
  /\ shown = Upto(content, a)
  /\ Carries(channel, Pieces(content), a, b)
  /\ Carries(Sent, Pieces(content), b, c)
  /\ IF ask.guarded THEN c <= 1 ELSE Carries(ready, Pieces(content), c, text)

(* Nothing of the text is left out unless the stream says so.              *)
Complete(content, c) ==
  ask.guarded /\ stage \notin Early /\ status # "interrupted" =>
    c = 1 \/ content = <<>> \/ \E e \in UnderWay : e.kind = "error"

ContentFlows ==
  Streamed /\ receiver = "open" /\ stage # "answer" =>
    \E content \in Contents : \E a, b, c \in Nat :
      Flow(content, a, b, c) /\ Complete(content, c)

(* What may be shown of a text of n pieces.                                *)
Fits(guarded, n, piece) ==
  IF guarded THEN piece = <<>> \/ piece \in ContentsOf(n)
  ELSE \E a \in 0..n : piece = FirstPieces(a)

ContentShown ==
  /\ Fits(ask.guarded, text, shown)
  /\ stage = "answer" => 
       Len(held) = 1 /\ Fits(ask.guarded, text, Content!TextOf(held[1]))

ContentDone ==
  Done \in EventsOf(frames) =>
    /\ receiver = "done"
    /\ \/ \E e \in EventsOf(frames) : e.kind = "error"
       \/ status = "interrupted" \/ shown \in Contents

(* What a chat is charged, once that is known.                             *)
ContentBilled ==
  /\ ask.call \in {"chat", "chat_stream"} /\ tried # <<>>
  /\ Dialect[Content!Last(tried).provider] = "openai"
  /\ stage \in {"answer", "closing", "ended"} \/ (stage = "inspect" /\ ~Streamed)
  => IF usage > 0 THEN ~account.estimated /\ account.amount = usage
     ELSE account.amount = text

ContentInv ==
  /\ ContentTypes /\ ContentStages /\ ContentUsage /\ ContentFlows
  /\ ContentShown /\ ContentDone /\ ContentBilled

-----------------------------------------------------------------------------
LEMMA HeadAndTail ==
  ASSUME NEW S, NEW s \in Seq(S), s # <<>>
  PROVE  Head(s) \in S /\ Tail(s) \in Seq(S)
OBVIOUS

LEMMA OneIsSome ==
  ASSUME NEW s, Len(s) = 1
  PROVE  s # <<>>
OBVIOUS

LEMMA NoEvents == EventsOf(<<>>) = {} /\ EventSeq(<<>>) = <<>>
<1>1. Len(<<>>) = 0
  OBVIOUS
<1> QED BY <1>1 DEF EventsOf, EventSeq

LEMMA OneEvent ==
  ASSUME NEW e
  PROVE  EventsOf(<<e>>) = {e}
<1>1. Len(<<e>>) = 1 /\ <<e>>[1] = e
  OBVIOUS
<1> QED BY <1>1 DEF EventsOf

LEMMA OneOutgoing ==
  ASSUME NEW o \in Outgoing
  PROVE  EventSeq(<<o>>) = <<o.event>>
<1>1. Len(<<o>>) = 1 /\ <<o>>[1] = o
  OBVIOUS
<1> QED BY <1>1 DEF EventSeq

(* What is about to be sent, without its marks.                            *)
LEMMA EventSeqTypes ==
  ASSUME NEW s \in Seq(Outgoing)
  PROVE  EventSeq(s) \in Seq(StreamEvent) /\ Len(EventSeq(s)) = Len(s)
<1>1. Len(s) \in Nat /\ \A i \in 1..Len(s) : s[i] \in Outgoing
  OBVIOUS
<1>2. \A i \in 1..Len(s) : s[i].event \in StreamEvent
  BY <1>1 DEF Outgoing
<1> QED BY <1>1, <1>2 DEF EventSeq

LEMMA EventSeqOfTail ==
  ASSUME NEW s \in Seq(Outgoing), s # <<>>
  PROVE  /\ EventSeq(s) # <<>> /\ Head(EventSeq(s)) = Head(s).event
         /\ Head(s) \in Outgoing /\ Head(s).event \in StreamEvent
         /\ EventSeq(Tail(s)) = Tail(EventSeq(s))
<1> DEFINE n == Len(s)
           f == EventSeq(s)
           g == EventSeq(Tail(s))
<1>1. /\ n \in Nat /\ n > 0 /\ Head(s) = s[1] /\ Head(s) \in Outgoing
      /\ Tail(s) \in Seq(Outgoing) /\ Len(Tail(s)) = n - 1
      /\ \A i \in 1..n - 1 : Tail(s)[i] = s[i + 1]
  OBVIOUS
<1>2. f \in Seq(StreamEvent) /\ Len(f) = n /\ \A i \in 1..n : f[i] = s[i].event
  BY EventSeqTypes DEF EventSeq
<1>3. /\ g \in Seq(StreamEvent) /\ Len(g) = n - 1
      /\ \A i \in 1..n - 1 : g[i] = s[i + 1].event
  BY <1>1, EventSeqTypes DEF EventSeq
<1> HIDE DEF n, f, g
<1>4. f # <<>> /\ Head(f) = s[1].event
  BY <1>1, <1>2
<1>5. /\ Tail(f) \in Seq(StreamEvent) /\ Len(Tail(f)) = n - 1
      /\ \A i \in 1..n - 1 : Tail(f)[i] = f[i + 1]
  BY <1>1, <1>2, <1>4
<1>6. \A i \in 1..n - 1 : Tail(f)[i] = g[i]
  BY <1>1, <1>2, <1>3, <1>5
<1>7. g = Tail(f)
  BY <1>3, <1>5, <1>6, SeqEqual
<1>8. Head(s).event \in StreamEvent
  BY <1>1 DEF Outgoing
<1> QED BY <1>1, <1>4, <1>7, <1>8 DEF f, g

(* Of the text before e, and of the text with it.                          *)
LEMMA MaybeOneMore ==
  ASSUME NEW s \in Seq(StreamEvent), NEW e \in StreamEvent, NEW there,
         NEW pieces, NEW a, NEW b, Carries(s, pieces, a, b),
         e.kind = "delta" => e.body = pieces[b + 1]
  PROVE  LET t == s \o (IF there THEN <<e>> ELSE <<>>)
         IN /\ t \in Seq(StreamEvent)
            /\ EventsOf(t) = EventsOf(s) \union (IF there THEN {e} ELSE {})
            /\ Carries(t, pieces, a, IF there /\ e.kind = "delta" THEN b + 1 ELSE b)
<1>1. CASE there
  <2>1. s \o <<e>> = Append(s, e) /\ Append(s, e) \in Seq(StreamEvent)
    OBVIOUS
  <2>2. EventsOf(Append(s, e)) = EventsOf(s) \union {e}
    BY EventsOfAppend
  <2>3. Carries(Append(s, e), pieces, a, IF e.kind = "delta" THEN b + 1 ELSE b)
    BY AppendCarries
  <2> QED BY <1>1, <2>1, <2>2, <2>3
<1>2. CASE ~there
  <2>1. s \o <<>> = s
    OBVIOUS
  <2> QED BY <1>2, <2>1
<1> QED BY <1>1, <1>2

(* The events of one chunk carry its piece of text, if it has one, and its *)
(* report.                                                                 *)
LEMMA ChunkFacts ==
  ASSUME NEW c \in Content!Chunk, text \in Nat, reports \in Nat, NEW pieces,
         pieces[text + 1] = <<text + 1>>
  PROVE  /\ Content!ChunkEvents(c) \in Seq(StreamEvent)
         /\ \A e \in EventsOf(Content!ChunkEvents(c)) :
              e.kind = "usage" => c.usage /\ e.body[1] = reports + 1
         /\ Carries(Content!ChunkEvents(c), pieces, text,
                    IF c.text THEN text + 1 ELSE text)
<1> DEFINE e1 == Content!Event("started", <<>>)
           e2 == Content!Event("usage", <<reports + 1>>)
           e3 == Content!Event("delta", <<text + 1>>)
           e4 == Content!Event("finished", <<>>)
           s1 == IF chunks = 0 THEN <<e1>> ELSE <<>>
           s2 == s1 \o (IF c.usage THEN <<e2>> ELSE <<>>)
           s3 == s2 \o (IF c.text THEN <<e3>> ELSE <<>>)
           s4 == s3 \o (IF c.finish THEN <<e4>> ELSE <<>>)
           t == IF c.text THEN text + 1 ELSE text
<1>1. s4 = Content!ChunkEvents(c)
  BY DEF Content!ChunkEvents
<1>2. /\ e1 \in StreamEvent /\ e1.kind = "started"
      /\ e4 \in StreamEvent /\ e4.kind = "finished"
  BY DEF StreamEvent, EventKinds, Content!Event
<1>3. e2 \in StreamEvent /\ e2.kind = "usage" /\ e2.body[1] = reports + 1
  BY DEF StreamEvent, EventKinds, Content!Event
<1>4. e3 \in StreamEvent /\ e3.kind = "delta" /\ e3.body = pieces[text + 1]
  BY DEF StreamEvent, EventKinds, Content!Event
<1> HIDE DEF e1, e2, e3, e4
<1>5. s1 \in Seq(StreamEvent) /\ (\A e \in EventsOf(s1) : e.kind # "usage")
      /\ Carries(s1, pieces, text, text)
  <2>1. CASE chunks = 0
    <3>1. s1 = <<e1>> /\ s1 \in Seq(StreamEvent) /\ EventsOf(s1) = {e1}
      BY <1>2, <2>1, OneEvent
    <3>2. \A i \in 1..Len(s1) : s1[i].kind # "delta"
      BY <1>2, <3>1
    <3> QED BY <1>2, <3>1, <3>2, OthersCarryNothing
  <2>2. CASE chunks # 0
    BY <2>2, NoEvents, NothingCarries
  <2> QED BY <2>1, <2>2
<1> HIDE DEF s1
<1>6. s2 \in Seq(StreamEvent)
      /\ EventsOf(s2) = EventsOf(s1) \union (IF c.usage THEN {e2} ELSE {})
      /\ Carries(s2, pieces, text, text)
  BY <1>3, <1>5, MaybeOneMore
<1> HIDE DEF s2
<1>7. s3 \in Seq(StreamEvent)
      /\ EventsOf(s3) = EventsOf(s2) \union (IF c.text THEN {e3} ELSE {})
      /\ Carries(s3, pieces, text, t)
  BY <1>4, <1>6, MaybeOneMore
<1> HIDE DEF s3, t
<1>8. s4 \in Seq(StreamEvent)
      /\ EventsOf(s4) = EventsOf(s3) \union (IF c.finish THEN {e4} ELSE {})
      /\ Carries(s4, pieces, text, t)
  BY <1>2, <1>7, MaybeOneMore
<1>9. \A e \in EventsOf(s4) : e.kind = "usage" => c.usage /\ e.body[1] = reports + 1
  BY <1>2, <1>3, <1>4, <1>5, <1>6, <1>7, <1>8
<1> QED BY <1>1, <1>8, <1>9 DEF t

(* What Flush sends: held, with the text before one of its events or after *)
(* the last, or held alone when there is no text.                          *)
LEMMA FlushPlaces ==
  ASSUME held \in Seq(StreamEvent), NEW content
  PROVE  LET Checked(s) == [i \in DOMAIN s |-> [event |-> s[i], checked |-> TRUE]]
             delta == <<[event |-> Content!Event("delta", content), checked |-> FALSE]>>
         IN \/ content = <<>> /\ Content!Flush(content) = Checked(held)
            \/ Content!Flush(content) = Checked(held) \o delta
            \/ \E k \in 1..Len(held) :
                 Content!Flush(content) = Checked(SubSeq(held, 1, k - 1)) \o delta
                                            \o Checked(SubSeq(held, k, Len(held)))
<1> DEFINE Checked(s) == [i \in DOMAIN s |-> [event |-> s[i], checked |-> TRUE]]
           delta == <<[event |-> Content!Event("delta", content), checked |-> FALSE]>>
           I == {i \in 1..Len(held) : held[i].kind = "finished"}
           first == IF I # {} THEN Content!Min(I) ELSE 0
           whole == Checked(SubSeq(held, 1, first - 1)) \o delta
                      \o Checked(SubSeq(held, first, Len(held)))
           plain == Checked(held) \o (IF content = <<>> THEN <<>> ELSE delta)
<1>1. Content!Flush(content) = IF first > 0 THEN whole ELSE plain
  BY DEF Content!Flush, Content!SelectInSeq
<1>2. Len(held) \in Nat /\ DOMAIN held = 1..Len(held)
  OBVIOUS
<1>3. CASE first > 0
  <2>1. I \subseteq Nat /\ I # {} /\ first = Content!Min(I)
    BY <1>2, <1>3
  <2>2. first \in I
    BY <2>1, LeastExists
  <2>3. first \in 1..Len(held)
    BY <2>2
  <2> HIDE DEF first, I
  <2> QED BY <1>1, <1>3, <2>3
<1>4. CASE ~ (first > 0)
  <2>1. Content!Flush(content) = plain
    BY <1>1, <1>4
  <2>2. CASE content = <<>>
    <3>1. Checked(held) \o <<>> = Checked(held)
      <4>1. Checked(held) \in Seq([event : StreamEvent, checked : {TRUE}])
        BY <1>2
      <4> QED BY <4>1
    <3> QED BY <2>1, <2>2, <3>1
  <2>3. CASE content # <<>>
    BY <2>1, <2>3
  <2> QED BY <2>2, <2>3
<1> QED BY <1>3, <1>4

LEMMA CheckedTypes ==
  ASSUME NEW s \in Seq(StreamEvent)
  PROVE  LET f == [i \in DOMAIN s |-> [event |-> s[i], checked |-> TRUE]]
         IN f \in Seq(Outgoing) /\ Len(f) = Len(s) /\ EventSeq(f) = s
<1> DEFINE f == [i \in DOMAIN s |-> [event |-> s[i], checked |-> TRUE]]
<1>1. /\ Len(s) \in Nat /\ DOMAIN s = 1..Len(s)
      /\ \A i \in 1..Len(s) : s[i] \in StreamEvent
  OBVIOUS
<1>2. \A i \in 1..Len(s) : f[i] \in Outgoing /\ f[i].event = s[i]
  BY <1>1 DEF Outgoing
<1>3. f \in Seq(Outgoing) /\ Len(f) = Len(s)
  BY <1>1, <1>2
<1> HIDE DEF f
<1>4. EventSeq(f) \in Seq(StreamEvent) /\ Len(EventSeq(f)) = Len(s)
  BY <1>3, EventSeqTypes
<1>5. \A i \in 1..Len(s) : EventSeq(f)[i] = s[i]
  BY <1>1, <1>2, <1>3 DEF EventSeq
<1>6. EventSeq(f) = s
  BY <1>4, <1>5, SeqEqual
<1> QED BY <1>3, <1>6 DEF f

LEMMA EventSeqOfConcat ==
  ASSUME NEW s \in Seq(Outgoing), NEW t \in Seq(Outgoing)
  PROVE  s \o t \in Seq(Outgoing) /\ EventSeq(s \o t) = EventSeq(s) \o EventSeq(t)
<1>1. /\ s \o t \in Seq(Outgoing) /\ Len(s) \in Nat /\ Len(t) \in Nat
      /\ Len(s \o t) = Len(s) + Len(t)
      /\ \A i \in 1..Len(s) + Len(t) :
           (s \o t)[i] = IF i <= Len(s) THEN s[i] ELSE t[i - Len(s)]
  OBVIOUS
<1> DEFINE f == EventSeq(s \o t)
           g == EventSeq(s) \o EventSeq(t)
<1>2. /\ EventSeq(s) \in Seq(StreamEvent) /\ Len(EventSeq(s)) = Len(s)
      /\ EventSeq(t) \in Seq(StreamEvent) /\ Len(EventSeq(t)) = Len(t)
      /\ f \in Seq(StreamEvent) /\ Len(f) = Len(s) + Len(t)
  BY <1>1, EventSeqTypes
<1>3. /\ g \in Seq(StreamEvent) /\ Len(g) = Len(s) + Len(t)
      /\ \A i \in 1..Len(s) + Len(t) :
           g[i] = IF i <= Len(s) THEN EventSeq(s)[i] ELSE EventSeq(t)[i - Len(s)]
  BY <1>1, <1>2
<1>4. ASSUME NEW i \in 1..Len(s) + Len(t) PROVE f[i] = g[i]
  <2>1. f[i] = (s \o t)[i].event
    BY <1>1 DEF EventSeq
  <2>2. CASE i <= Len(s)
    <3>1. i \in 1..Len(s)
      BY <1>1, <2>2
    <3>2. EventSeq(s)[i] = s[i].event
      BY <3>1 DEF EventSeq
    <3> QED BY <1>1, <1>3, <2>1, <2>2, <3>2
  <2>3. CASE ~ (i <= Len(s))
    <3>1. i - Len(s) \in 1..Len(t)
      BY <1>1, <2>3
    <3>2. EventSeq(t)[i - Len(s)] = t[i - Len(s)].event
      BY <3>1 DEF EventSeq
    <3> QED BY <1>1, <1>3, <2>1, <2>3, <3>2
  <2> QED BY <2>2, <2>3
<1> HIDE DEF f, g
<1>5. f = g
  BY <1>2, <1>3, <1>4, SeqEqual
<1> QED BY <1>1, <1>5 DEF f, g

(* Flush sends what was held and the whole text once, or nothing for an    *)
(* empty one.                                                              *)
LEMMA FlushFacts ==
  ASSUME held \in Seq(StreamEvent), \A e \in EventsOf(held) : e.kind # "delta",
         NEW content \in Seq(Nat), NEW pieces, pieces[1] = content
  PROVE  /\ Content!Flush(content) \in Seq(Outgoing)
         /\ \A e \in EventsOf(EventSeq(Content!Flush(content))) :
              e \in EventsOf(held) \/ e.kind = "delta"
         /\ \/ Carries(EventSeq(Content!Flush(content)), pieces, 0, 1)
            \/ content = <<>> /\ Carries(EventSeq(Content!Flush(content)), pieces, 0, 0)
<1> DEFINE Checked(s) == [i \in DOMAIN s |-> [event |-> s[i], checked |-> TRUE]]
           D == Content!Event("delta", content)
           o == [event |-> D, checked |-> FALSE]
           f == Content!Flush(content)
           n == Len(held)
<1>1. /\ n \in Nat /\ \A i \in 1..n : held[i] \in EventsOf(held)
      /\ \A i \in 1..n : held[i] \in StreamEvent /\ held[i].kind # "delta"
  BY DEF EventsOf
<1>2. D \in StreamEvent /\ D.kind = "delta" /\ D.body = content
  BY DEF Content!Event, StreamEvent, EventKinds
<1> HIDE DEF D
<1>3. o \in Outgoing /\ <<o>> \in Seq(Outgoing) /\ o.event = D
  BY <1>2 DEF Outgoing
<1> HIDE DEF o
<1>4. EventSeq(<<o>>) = <<D>>
  BY <1>3, OneOutgoing
<1>5. \/ content = <<>> /\ f = Checked(held)
      \/ f = Checked(held) \o <<o>>
      \/ \E k \in 1..n : f = Checked(SubSeq(held, 1, k - 1)) \o <<o>> \o Checked(SubSeq(held, k, n))
  BY FlushPlaces DEF o, D
<1> HIDE DEF f
<1>6. Checked(held) \in Seq(Outgoing) /\ EventSeq(Checked(held)) = held
  BY CheckedTypes
<1>7. CASE content = <<>> /\ f = Checked(held)
  <2>1. f \in Seq(Outgoing) /\ EventSeq(f) = held
    BY <1>6, <1>7
  <2>2. Carries(held, pieces, 0, 0)
    BY <1>1, OthersCarryNothing
  <2> QED BY <1>7, <2>1, <2>2 DEF f
<1>8. ASSUME NEW k \in 1..n + 1, f \in Seq(Outgoing), EventSeq(f) \in Seq(StreamEvent),
             Len(EventSeq(f)) = n + 1,
             \A i \in 1..n + 1 :
               EventSeq(f)[i] = IF i < k THEN held[i] ELSE IF i = k THEN D ELSE held[i - 1]
      PROVE  /\ Carries(EventSeq(f), pieces, 0, 1)
             /\ \A e \in EventsOf(EventSeq(f)) : e \in EventsOf(held) \/ e.kind = "delta"
  <2> DEFINE s == EventSeq(f)
  <2>1. s \in Seq(StreamEvent) /\ Len(s) = n + 1
    BY <1>8
  <2>2. ASSUME NEW i \in 1..n + 1
        PROVE  /\ i = k => s[i] = D
               /\ i # k => s[i] \in EventsOf(held) /\ s[i].kind # "delta"
    <3>1. CASE i < k
      <4>1. s[i] = held[i] /\ i \in 1..n
        BY <1>1, <1>8, <3>1
      <4> HIDE DEF s
      <4> QED BY <1>1, <3>1, <4>1
    <3>2. CASE i = k
      BY <1>8, <3>2
    <3>3. CASE i > k
      <4>1. s[i] = held[i - 1] /\ i - 1 \in 1..n
        BY <1>1, <1>8, <3>3
      <4> HIDE DEF s
      <4> QED BY <1>1, <3>3, <4>1
    <3> QED BY <1>1, <3>1, <3>2, <3>3
  <2> HIDE DEF s
  <2>3. k \in 1..Len(s) /\ s[k].body = pieces[1]
    BY <1>2, <2>1, <2>2
  <2>4. \A i \in 1..Len(s) : s[i].kind = "delta" <=> i = k
    BY <1>2, <2>1, <2>2
  <2>5. Carries(s, pieces, 0, 1)
    BY <2>1, <2>3, <2>4, OneDeltaIsCarried
  <2>6. \A e \in EventsOf(s) : e \in EventsOf(held) \/ e.kind = "delta"
    BY <1>2, <2>1, <2>2 DEF EventsOf
  <2> QED BY <2>5, <2>6 DEF s
<1>9. CASE f = Checked(held) \o <<o>>
  <2>1. f \in Seq(Outgoing) /\ EventSeq(f) = held \o <<D>>
    BY <1>3, <1>4, <1>6, <1>9, EventSeqOfConcat
  <2>2. /\ held \o <<D>> \in Seq(StreamEvent) /\ Len(held \o <<D>>) = n + 1
        /\ \A i \in 1..n + 1 : (held \o <<D>>)[i] = IF i < n + 1 THEN held[i] ELSE D
    BY <1>2
  <2>3. n + 1 \in 1..n + 1
    BY <1>1
  <2>4. \A i \in 1..n + 1 : EventSeq(f)[i] =
          IF i < n + 1 THEN held[i] ELSE IF i = n + 1 THEN D ELSE held[i - 1]
    BY <1>1, <2>1, <2>2
  <2>5. EventSeq(f) \in Seq(StreamEvent) /\ Len(EventSeq(f)) = n + 1
    BY <2>1, <2>2
  <2> HIDE DEF n
  <2> QED BY <1>8, <2>1, <2>3, <2>4, <2>5 DEF f
<1>10. ASSUME NEW k \in 1..n,
              f = Checked(SubSeq(held, 1, k - 1)) \o <<o>> \o Checked(SubSeq(held, k, n))
       PROVE  /\ f \in Seq(Outgoing) /\ Carries(EventSeq(f), pieces, 0, 1)
              /\ \A e \in EventsOf(EventSeq(f)) : e \in EventsOf(held) \/ e.kind = "delta"
  <2> DEFINE x == SubSeq(held, 1, k - 1)
             y == SubSeq(held, k, n)
             z == x \o <<D>>
             s == z \o y
  <2>1. /\ x \in Seq(StreamEvent) /\ Len(x) = k - 1 /\ \A i \in 1..k - 1 : x[i] = held[i]
        /\ y \in Seq(StreamEvent) /\ Len(y) = n - k + 1
        /\ \A i \in 1..n - k + 1 : y[i] = held[k + i - 1]
    BY <1>1
  <2> HIDE DEF x, y
  <2>2. Checked(x) \in Seq(Outgoing) /\ EventSeq(Checked(x)) = x
    BY <2>1, CheckedTypes
  <2>3. Checked(y) \in Seq(Outgoing) /\ EventSeq(Checked(y)) = y
    BY <2>1, CheckedTypes
  <2>4. f = (Checked(x) \o <<o>>) \o Checked(y)
    BY <1>10 DEF x, y
  <2> HIDE DEF Checked
  <2>5. Checked(x) \o <<o>> \in Seq(Outgoing) /\ EventSeq(Checked(x) \o <<o>>) = z
    BY <1>3, <1>4, <2>2, EventSeqOfConcat
  <2>6. f \in Seq(Outgoing) /\ EventSeq(f) = s
    BY <2>3, <2>4, <2>5, EventSeqOfConcat
  <2>7. /\ z \in Seq(StreamEvent) /\ Len(z) = k
        /\ \A i \in 1..k : z[i] = IF i < k THEN held[i] ELSE D
    BY <1>1, <1>2, <2>1
  <2> HIDE DEF z
  <2>8. /\ s \in Seq(StreamEvent) /\ Len(s) = k + (n - k + 1)
        /\ \A i \in 1..k : s[i] = z[i]
        /\ \A i \in k + 1..k + (n - k + 1) : s[i] = y[i - k]
    <3>1. /\ s \in Seq(StreamEvent) /\ Len(s) = Len(z) + Len(y)
          /\ \A i \in 1..Len(z) + Len(y) : s[i] = IF i <= Len(z) THEN z[i] ELSE y[i - Len(z)]
      BY <2>1, <2>7, ConcatProperties
    <3> HIDE DEF s
    <3>2. Len(z) = k /\ Len(y) = n - k + 1 /\ k \in Nat /\ n - k + 1 \in Nat
      BY <1>1, <2>1, <2>7
    <3> QED BY <3>1, <3>2
  <2> HIDE DEF s
  <2>11. k + (n - k + 1) = n + 1
    BY <1>1
  <2>9. ASSUME NEW i \in 1..n + 1
        PROVE  s[i] = IF i < k THEN held[i] ELSE IF i = k THEN D ELSE held[i - 1]
    <3>1. CASE i <= k
      <4>1. i \in 1..k
        BY <3>1
      <4>2. s[i] = IF i < k THEN held[i] ELSE D
        BY <2>7, <2>8, <4>1
      <4> QED BY <3>1, <4>2
    <3>2. CASE i > k
      <4>1. /\ i - k \in 1..n - k + 1 /\ k + (i - k) - 1 = i - 1
            /\ i \in k + 1..k + (n - k + 1) /\ ~ (i < k) /\ i # k
        BY <1>1, <3>2
      <4>2. s[i] = y[i - k]
        BY <2>8, <4>1
      <4>3. y[i - k] = held[k + (i - k) - 1]
        BY <2>1, <4>1
      <4> QED BY <4>1, <4>2, <4>3
    <3> QED BY <1>1, <3>1, <3>2
  <2>10. k \in 1..n + 1
    BY <1>1
  <2> HIDE DEF n
  <2> QED BY <1>8, <2>6, <2>8, <2>9, <2>10, <2>11
<1> QED BY <1>5, <1>7, <1>8, <1>9, <1>10 DEF f

-----------------------------------------------------------------------------
LEMMA EventTypes ==
  /\ Content!Error \in StreamEvent /\ Content!Error.kind = "error"
  /\ Done.kind = "done"
  /\ \A content \in Seq(Nat) :
       /\ Content!Event("delta", content) \in StreamEvent
       /\ Content!Event("delta", content).kind = "delta"
       /\ Content!Event("delta", content).body = content
BY DEF Content!Error, Content!Event, Done, StreamEvent, EventKinds

(* Whole and Redacted are the contents the invariant speaks of.            *)
LEMMA ContentsAreTexts ==
  ASSUME text \in Nat
  PROVE  /\ Contents = {Content!Whole, Content!Redacted}
         /\ Content!Whole = FirstPieces(text)
         /\ \A content \in Contents : content \in Seq(Nat) /\ Len(content) <= text
<1>1. /\ Content!Whole = FirstPieces(text)
      /\ Content!Redacted = IF text = 0 THEN <<>> ELSE <<0>>
  BY DEF Content!Whole, Content!Redacted, FirstPieces
<1>2. FirstPieces(text) \in Seq(Nat) /\ Len(FirstPieces(text)) = text
  BY DEF FirstPieces
<1>3. /\ <<0>> \in Seq(Nat) /\ Len(<<0>>) = 1
      /\ <<>> \in Seq(Nat) /\ Len(<<>>) = 0
  OBVIOUS
<1> QED BY <1>1, <1>2, <1>3 DEF Contents, ContentsOf

(* What one more frame adds to what the client has.                        *)
LEMMA FrameFacts ==
  ASSUME NEW e \in StreamEvent \union {Done}, Content!Frame(e),
         frames \in Seq(StreamEvent \union {Done}), shown \in Seq(Nat)
  PROVE  /\ frames' \in Seq(StreamEvent \union {Done}) /\ shown' \in Seq(Nat)
         /\ EventsOf(frames') = EventsOf(frames) \union {e}
         /\ e.kind = "delta" => shown' = shown \o e.body
         /\ e.kind # "delta" => shown' = shown
<1>1. frames' = Append(frames, e) /\ shown' = shown \o Content!TextOf(e)
  BY DEF Content!Frame
<1>2. frames' \in Seq(StreamEvent \union {Done})
  BY <1>1
<1> DEFINE T == StreamEvent \union {Done}
<1>3. EventsOf(frames') = EventsOf(frames) \union {e}
  <2>1. frames' = Append(frames, e) /\ frames \in Seq(T) /\ e \in T
    BY <1>1
  <2> HIDE DEF T
  <2> QED BY <2>1, EventsOfAppend
<1>4. CASE e.kind = "delta"
  <2>1. e.body \in Seq(Nat)
    BY <1>4, EventTypes DEF StreamEvent
  <2>2. Content!TextOf(e) = e.body
    BY <1>4 DEF Content!TextOf
  <2> QED BY <1>1, <1>2, <1>3, <1>4, <2>1, <2>2
<1>5. CASE e.kind # "delta"
  <2>1. Content!TextOf(e) = <<>>
    BY <1>5 DEF Content!TextOf
  <2>2. shown \o <<>> = shown
    OBVIOUS
  <2> QED BY <1>1, <1>2, <1>3, <1>5, <2>1, <2>2
<1> QED BY <1>4, <1>5

LEMMA TriedGrows ==
  ASSUME ContentTypes, NEW e
  PROVE  /\ \E S : Append(tried, e) \in Seq(S)
         /\ Append(tried, e) # <<>> /\ Content!Last(Append(tried, e)) = e
<1>1. PICK S : tried \in Seq(S)
  BY DEF ContentTypes
<1> DEFINE T == S \union {e}
<1>2. tried \in Seq(T) /\ e \in T
  BY <1>1, SeqMonotonic
<1> HIDE DEF T
<1>3. /\ Append(tried, e) \in Seq(T) /\ Append(tried, e) # <<>>
      /\ Append(tried, e)[Len(Append(tried, e))] = e
  BY <1>2
<1> QED BY <1>3 DEF Content!Last

LEMMA ContentTypesInit ==
  ASSUME Content!Init
  PROVE  ContentTypes
<1>1. /\ stage = "routing" /\ receiver = "open" /\ status = "succeeded"
      /\ text = 0 /\ reports = 0 /\ chunks = 0 /\ usage = 0
      /\ ready = <<>> /\ held = <<>> /\ sending = <<>> /\ channel = <<>>
      /\ frames = <<>> /\ shown = <<>> /\ tried = <<>>
      /\ account = Content!NoAccount
  BY DEF Content!Init
<1>2. account \in Accounts
  BY <1>1 DEF Content!NoAccount, Accounts
<1>3. \E S : tried \in Seq(S)
  <2>1. tried \in Seq({})
    BY <1>1
  <2> QED BY <2>1
<1> QED BY <1>1, <1>2, <1>3 DEF ContentTypes, Stages, Early

(* The step of a consumer on one event, its LET opened.                    *)
LEMMA TakeFacts ==
  ASSUME ContentTypes, ContentUsage, Content!TakeEvent
  PROVE  LET e == Head(ready)
         IN /\ stage = "relay" /\ sending = <<>> /\ ready # <<>> /\ ready' = Tail(ready)
            /\ e \in StreamEvent /\ e \in EventsOf(ready)
            /\ usage' = (IF e.kind = "usage" THEN reports ELSE usage)
            /\ e.kind = "usage" => reports > 0
            /\ \/ held' = held
               \/ held' = Append(held, e) /\ e.kind # "delta" /\ ask.guarded
            /\ \/ sending' = <<>> /\ (ask.guarded \/ e.kind # "delta")
               \/ sending' = <<[event |-> e, checked |-> TRUE]>> /\ ~ask.guarded
            /\ \/ stage' = stage /\ status' = status
               \/ stage' = "record" /\ status' = "interrupted" /\ ask.guarded
<1> DEFINE e == Head(ready)
<1>1. /\ stage = "relay" /\ sending = <<>> /\ ready # <<>> /\ ready' = Tail(ready)
      /\ usage' = (IF e.kind = "usage" THEN e.body[1] ELSE usage)
  BY DEF Content!TakeEvent
<1>2. e \in StreamEvent /\ e \in EventsOf(ready)
  <2>1. e \in StreamEvent /\ e = ready[1] /\ 1 \in 1..Len(ready)
    BY <1>1 DEF ContentTypes
  <2> QED BY <2>1 DEF EventsOf
<1>3. e.kind = "usage" => e.body[1] = reports /\ reports > 0
  BY <1>2 DEF ContentUsage
<1>4. \/ held' = held
      \/ held' = Append(held, e) /\ e.kind # "delta" /\ ask.guarded
  BY DEF Content!TakeEvent
<1>5. \/ sending' = <<>> /\ (ask.guarded \/ e.kind # "delta")
      \/ sending' = <<[event |-> e, checked |-> TRUE]>> /\ ~ask.guarded
  BY DEF Content!TakeEvent
<1>6. \/ stage' = stage /\ status' = status
      \/ stage' = "record" /\ status' = "interrupted" /\ ask.guarded
  BY DEF Content!TakeEvent
<1> HIDE DEF e
<1>7. usage' = (IF e.kind = "usage" THEN reports ELSE usage)
  BY <1>1, <1>3
<1> QED BY <1>1, <1>2, <1>3, <1>4, <1>5, <1>6, <1>7 DEF e

(* Every step keeps the types, one case per action.                        *)
LEMMA ContentTypesStep ==
  ASSUME ContentTypes, ContentStages, ContentUsage, ContentShown, Content!Next
  PROVE  ContentTypes'
<1> USE DEF ContentTypes, Stages, Early, Content!provider, Content!consumer,
            Content!received, Content!passage
<1>1. CASE Content!FindRoutes
  <2>1. CASE Content!Planned = <<>>
    <3>1. frames' \in Seq(StreamEvent \union {Done}) /\ shown' \in Seq(Nat)
      BY <1>1, <2>1, FrameFacts, EventTypes DEF Content!FindRoutes
    <3> QED BY <1>1, <2>1, <3>1 DEF Content!FindRoutes
  <2>2. CASE Content!Planned # <<>>
    BY <1>1, <2>2 DEF Content!FindRoutes
  <2> QED BY <2>1, <2>2
<1>2. ASSUME NEW outcome \in Content!Outcomes, Content!CallFails(outcome) PROVE ContentTypes'
  <2>1. \E S : tried' \in Seq(S)
    BY <1>2, TriedGrows DEF Content!CallFails
  <2>2. <<Content!Error>> \in Seq(StreamEvent)
    BY EventTypes
  <2>3. /\ stage' \in Stages /\ status' \in {"succeeded", "failed", "interrupted"}
        /\ held' \in Seq(StreamEvent)
    BY <1>2, <2>2 DEF Content!CallFails
  <2> QED BY <1>2, <2>1, <2>3 DEF Content!CallFails
<1>3. ASSUME NEW n \in 0..MaxText, NEW reported \in BOOLEAN,
             Content!CallAnswers(n, reported)
      PROVE  ContentTypes'
  <2> DEFINE piece == [i \in 1..n |-> i]
             u == IF reported THEN Content!Reported(n)
                  ELSE Content!MissingUsage(Dialect[Content!Route.provider], ask.call, n)
  <2>1. n \in Nat
    BY ContentAssumption DEF Content!CompletionAssumption
  <2>2. piece \in Seq(Nat)
    BY <2>1
  <2> HIDE DEF piece
  <2>3. <<Content!Event("delta", piece)>> \in Seq(StreamEvent)
    BY <2>2, EventTypes
  <2>4. held' \in Seq(StreamEvent)
    BY <1>3, <2>3 DEF Content!CallAnswers, piece
  <2>5. u.estimated \in BOOLEAN /\ u.amount \in Nat
    BY <2>1 DEF Content!Reported, Content!MissingUsage
  <2> HIDE DEF u
  <2>6. account' = Content!Recorded(u, "unrecorded")
    BY <1>3 DEF Content!CallAnswers, u
  <2>7. account' \in Accounts
    BY <2>5, <2>6 DEF Content!Recorded, Accounts
  <2>8. \E S : tried' \in Seq(S)
    BY <1>3, TriedGrows DEF Content!CallAnswers, Content!Succeeded
  <2>9. stage' \in Stages /\ text' \in Nat
    BY <1>3, <2>1 DEF Content!CallAnswers
  <2> QED BY <1>3, <2>4, <2>7, <2>8, <2>9 DEF Content!CallAnswers
<1>4. CASE Content!StreamOpens
  <2>1. \E S : tried' \in Seq(S)
    BY <1>4, TriedGrows DEF Content!StreamOpens, Content!Succeeded
  <2> QED BY <1>4, <2>1 DEF Content!StreamOpens
<1>5. ASSUME NEW c \in Content!Chunk, Content!ReadChunk(c) PROVE ContentTypes'
  <2> DEFINE pieces == [k \in Nat \ {0} |-> <<k>>]
  <2>1. pieces[text + 1] = <<text + 1>>
    OBVIOUS
  <2> HIDE DEF pieces
  <2>2. ready' \in Seq(StreamEvent)
    BY <1>5, <2>1, ChunkFacts DEF Content!ReadChunk
  <2> QED BY <1>5, <2>2 DEF Content!ReadChunk
<1>6. ASSUME NEW failed \in BOOLEAN, Content!UpstreamEnds(failed) PROVE ContentTypes'
  <2>1. <<[event |-> Content!Error, checked |-> FALSE]>> \in Seq(Outgoing)
    BY EventTypes DEF Outgoing
  <2>2. /\ sending' \in Seq(Outgoing) /\ stage' \in Stages
        /\ status' \in {"succeeded", "failed", "interrupted"}
    BY <1>6, <2>1 DEF Content!UpstreamEnds
  <2> QED BY <1>6, <2>2 DEF Content!UpstreamEnds
<1>7. CASE Content!TakeEvent
  <2> DEFINE e == Head(ready)
             o == [event |-> e, checked |-> TRUE]
  <2>1. e \in StreamEvent /\ ready # <<>> /\ ready' = Tail(ready) /\ usage' \in Nat
        /\ (stage' = "record" \/ stage' = stage)
        /\ (status' = "interrupted" \/ status' = status)
    BY <1>7, TakeFacts
  <2>2. held' = held \/ held' = Append(held, e)
    BY <1>7, TakeFacts
  <2>3. sending' = <<>> \/ sending' = <<o>>
    BY <1>7, TakeFacts
  <2> HIDE DEF e
  <2>4. o \in Outgoing
    BY <2>1 DEF Outgoing
  <2> HIDE DEF o
  <2>5. sending' \in Seq(Outgoing)
    <3>1. <<o>> \in Seq(Outgoing) /\ <<>> \in Seq(Outgoing)
      BY <2>4
    <3> QED BY <2>3, <3>1
  <2>6. held' \in Seq(StreamEvent) /\ ready' \in Seq(StreamEvent)
    <3>1. held \in Seq(StreamEvent) /\ Append(held, e) \in Seq(StreamEvent)
      BY <2>1
    <3>2. Tail(ready) \in Seq(StreamEvent)
      BY <2>1
    <3> QED BY <2>1, <2>2, <3>1, <3>2
  <2>7. UNCHANGED <<ask, tried, text, reports, chunks, channel, receiver, frames, shown, account>>
    BY <1>7 DEF Content!TakeEvent
  <2> QED BY <2>1, <2>5, <2>6, <2>7
<1>8. ASSUME NEW verdict, Content!Inspect(verdict) PROVE ContentTypes'
  <2> DEFINE content == IF verdict = "redacted" THEN Content!Redacted ELSE Content!Whole
             d == Content!Event("delta", content)
             o == [event |-> Content!Error, checked |-> FALSE]
  <2>1. content \in Seq(Nat)
    BY ContentsAreTexts
  <2>2. /\ IF Streamed
              THEN /\ stage' = "flush" /\ held' = <<>>
                   /\ sending' = IF verdict = "refused" THEN <<o>> ELSE Content!Flush(content)
            ELSE /\ stage' = "answer" /\ sending' = sending
                 /\ held' = IF verdict = "refused" THEN <<Content!Error>> ELSE <<d>>
        /\ stage = "inspect"
        /\ UNCHANGED <<ask, tried, text, reports, chunks, ready, usage, status, channel, receiver,
                       frames, shown, account>>
    BY <1>8 DEF Content!Inspect, Streamed
  <2>3. o \in Outgoing /\ <<o>> \in Seq(Outgoing)
    BY EventTypes DEF Outgoing
  <2> HIDE DEF content, o
  <2>4. d \in StreamEvent
    BY <2>1, EventTypes
  <2> HIDE DEF d
  <2>5. CASE Streamed
    <3>1. Content!Flush(content) \in Seq(Outgoing)
      <4> DEFINE pieces == [k \in {1} |-> content]
      <4>1. pieces[1] = content
        OBVIOUS
      <4> HIDE DEF pieces
      <4>2. \A e \in EventsOf(held) : e.kind # "delta"
        BY <2>2, <2>5 DEF ContentStages
      <4> QED BY <2>1, <4>1, <4>2, FlushFacts
    <3>2. sending' \in Seq(Outgoing)
      BY <2>2, <2>3, <2>5, <3>1
    <3>3. held' \in Seq(StreamEvent)
      BY <2>2, <2>5
    <3> QED BY <2>2, <2>5, <3>2, <3>3
  <2>6. CASE ~Streamed
    <3>1. <<Content!Error>> \in Seq(StreamEvent) /\ <<d>> \in Seq(StreamEvent)
      BY <2>4, EventTypes
    <3>2. held' \in Seq(StreamEvent)
      BY <2>2, <2>6, <3>1
    <3> QED BY <2>2, <2>6, <3>2
  <2> QED BY <2>5, <2>6
<1>9. CASE Content!SendEvent
  <2> DEFINE e == Head(sending).event
  <2>1. sending # <<>> /\ channel' = Append(channel, e) /\ sending' = Tail(sending)
    BY <1>9 DEF Content!SendEvent
  <2>2. e \in StreamEvent
    BY <2>1, EventSeqOfTail
  <2> HIDE DEF e
  <2>3. channel' \in Seq(StreamEvent) /\ sending' \in Seq(Outgoing)
    BY <2>1, <2>2
  <2> QED BY <1>9, <2>3 DEF Content!SendEvent
<1>10. CASE Content!SendFails
  <2>1. sending # <<>> /\ (sending' = <<>> \/ sending' = Tail(sending))
    BY <1>10 DEF Content!SendFails
  <2>2. sending' \in Seq(Outgoing)
    <3>1. Tail(sending) \in Seq(Outgoing) /\ <<>> \in Seq(Outgoing)
      BY <2>1, HeadAndTail
    <3> QED BY <2>1, <3>1
  <2>3. /\ stage' = "record" \/ stage' = stage
        /\ status' = "interrupted" \/ status' = status
    BY <1>10 DEF Content!SendFails
  <2>4. UNCHANGED <<ask, tried, text, reports, chunks, ready, held, usage, channel, receiver,
                    frames, shown, account>>
    BY <1>10 DEF Content!SendFails
  <2> QED BY <2>2, <2>3, <2>4
<1>11. CASE Content!Flushed
  BY <1>11 DEF Content!Flushed
<1>12. ASSUME NEW ok \in BOOLEAN, Content!RecordStream(ok) PROVE ContentTypes'
  <2> DEFINE u == Content!StreamUsage
             how == IF ok THEN status ELSE "unrecorded"
             o == [event |-> Content!Error, checked |-> FALSE]
  <2>1. u.estimated \in BOOLEAN /\ u.amount \in Nat
    BY DEF Content!StreamUsage, Content!Reported
  <2>2. how \in {"none", "unrecorded", "succeeded", "failed", "interrupted"}
    OBVIOUS
  <2>3. account' = Content!Recorded(u, how)
    BY <1>12 DEF Content!RecordStream
  <2>4. o \in Outgoing
    BY EventTypes DEF Outgoing
  <2>5. /\ sending' = IF ok THEN <<>> ELSE <<o>>
        /\ stage' \in {"ended", "closing"}
        /\ UNCHANGED <<ask, tried, text, reports, chunks, ready, held, usage, status, channel,
                       receiver, frames, shown>>
    BY <1>12 DEF Content!RecordStream
  <2> HIDE DEF u, how, o
  <2>6. account' \in Accounts
    BY <2>1, <2>2, <2>3 DEF Content!Recorded, Accounts
  <2>7. sending' \in Seq(Outgoing) /\ stage' \in Stages
    BY <2>4, <2>5
  <2> QED BY <2>5, <2>6, <2>7
<1>13. ASSUME NEW ok \in BOOLEAN, Content!Answer(ok) PROVE ContentTypes'
  <2> DEFINE how == IF ok THEN status ELSE "unrecorded"
             e == IF ok THEN Head(held) ELSE Content!Error
  <2>1. how \in {"none", "unrecorded", "succeeded", "failed", "interrupted"}
    OBVIOUS
  <2>2. /\ account' = [account EXCEPT !.status = how] /\ Content!Frame(e)
        /\ stage = "answer" /\ stage' = "ended" /\ receiver' = "done"
        /\ UNCHANGED <<ask, tried, text, reports, chunks, ready, held, usage, status, sending,
                       channel>>
    BY <1>13 DEF Content!Answer
  <2> HIDE DEF how
  <2>3. account' \in Accounts
    BY <2>1, <2>2 DEF Accounts
  <2>4. e \in StreamEvent
    <3>1. Len(held) = 1
      BY <2>2 DEF ContentShown
    <3>2. held \in Seq(StreamEvent) /\ held # <<>>
      BY <3>1, OneIsSome
    <3>3. Head(held) \in StreamEvent
      BY <3>2, HeadAndTail
    <3> QED BY <3>3, EventTypes
  <2> HIDE DEF e
  <2>5. frames' \in Seq(StreamEvent \union {Done}) /\ shown' \in Seq(Nat)
    BY <2>2, <2>4, FrameFacts
  <2> QED BY <2>2, <2>3, <2>5
<1>14. CASE Content!Closed
  BY <1>14 DEF Content!Closed
<1>15. CASE Content!Encode
  <2> DEFINE e == Head(channel)
  <2>1. /\ channel # <<>> /\ Content!Frame(e) /\ channel' = Tail(channel)
        /\ UNCHANGED <<ask, stage, tried, text, reports, chunks, ready, held, usage, status,
                       sending, receiver, account>>
    BY <1>15 DEF Content!Encode
  <2>2. e \in StreamEvent /\ channel' \in Seq(StreamEvent)
    BY <2>1
  <2> HIDE DEF e
  <2>3. frames' \in Seq(StreamEvent \union {Done}) /\ shown' \in Seq(Nat)
    BY <2>1, <2>2, FrameFacts
  <2> QED BY <2>1, <2>2, <2>3
<1>16. CASE Content!EncodeDone
  <2>1. /\ Content!Frame(Done) /\ receiver' = "done"
        /\ UNCHANGED <<ask, stage, tried, text, reports, chunks, ready, held, usage, status,
                       sending, channel, account>>
    BY <1>16 DEF Content!EncodeDone, Done
  <2>2. frames' \in Seq(StreamEvent \union {Done}) /\ shown' \in Seq(Nat)
    BY <2>1, FrameFacts
  <2> QED BY <2>1, <2>2
<1>17. CASE Content!ClientLeaves
  BY <1>17 DEF Content!ClientLeaves
<1> HIDE DEF ContentTypes
<1> QED BY <1>1, <1>2, <1>3, <1>4, <1>5, <1>6, <1>7, <1>8, <1>9, <1>10, <1>11, <1>12, <1>13,
           <1>14, <1>15, <1>16, <1>17, Zenon
        DEF Content!Next, Content!Step, Content!Client

-----------------------------------------------------------------------------
OthersInv == ContentStages /\ ContentUsage /\ ContentFlows /\ ContentShown /\ ContentDone
               /\ ContentBilled

(* A step that leaves what a conjunct reads alone keeps the conjunct.      *)
LEMMA DoneStays ==
  ASSUME ContentTypes, ContentStages, ContentDone, stage # "ended" \/ receiver # "done",
         UNCHANGED frames
  PROVE  ContentDone'
BY DEF ContentDone, ContentStages

LEMMA FlowsStay ==
  ASSUME ContentFlows, stage # "answer",
         UNCHANGED <<ask, text, shown, channel, sending, ready, frames, receiver>>,
         ask.guarded /\ stage' \notin Early /\ status' # "interrupted" =>
           stage \notin Early /\ status # "interrupted"
  PROVE  ContentFlows'
<1> SUFFICES ASSUME Streamed', receiver' = "open"
             PROVE  \E content \in Contents' : \E a, b, c \in Nat :
                      Flow(content, a, b, c)' /\ Complete(content, c)'
  BY DEF ContentFlows
<1>1. Streamed /\ receiver = "open"
  BY DEF Streamed, Content!Streamed
<1>2. PICK content \in Contents, a, b, c \in Nat : Flow(content, a, b, c) /\ Complete(content, c)
  BY <1>1 DEF ContentFlows
<1>3. Contents' = Contents
  BY DEF Contents
<1>4. Pieces(content)' = Pieces(content) /\ Upto(content, a)' = Upto(content, a)
  BY DEF Pieces, Upto
<1>5. Flow(content, a, b, c)'
  BY <1>2, <1>4 DEF Flow, Sent
<1>6. UnderWay' = UnderWay
  BY DEF UnderWay, Sent
<1>7. Complete(content, c)'
  BY <1>2, <1>6 DEF Complete
<1> QED BY <1>2, <1>3, <1>5, <1>7

LEMMA ShownStays ==
  ASSUME ContentShown, UNCHANGED <<ask, text, shown>>,
         stage' = "answer" => stage = "answer" /\ UNCHANGED held
  PROVE  ContentShown'
BY DEF ContentShown

(* One lemma per action: it keeps the other conjuncts.                     *)
LEMMA FindRoutesKeeps ==
  ASSUME ContentTypes, OthersInv, Content!FindRoutes
  PROVE  OthersInv'
<1>1. /\ stage = "routing" /\ receiver = "open" /\ text = 0 /\ reports = 0 /\ usage = 0
      /\ ready = <<>> /\ held = <<>> /\ sending = <<>> /\ channel = <<>>
      /\ frames = <<>> /\ shown = <<>> /\ account.amount = 0
  BY DEF OthersInv, ContentStages, Unsent, Content!FindRoutes, Content!NoAccount
<1>2. UNCHANGED <<ask, tried, text, reports, ready, held, usage, status, sending, channel, account>>
  BY DEF Content!FindRoutes, Content!provider, Content!consumer
<1>3. \/ stage' = "calling" /\ UNCHANGED <<receiver, frames, shown>>
      \/ stage' = "ended" /\ receiver' = "done" /\ Content!Frame(Content!Error)
  BY DEF Content!FindRoutes, Content!received
<1>4. shown' = <<>> /\ (EventsOf(frames') = {} \/ EventsOf(frames') = {Content!Error})
  <2>1. EventsOf(frames) = {}
    BY <1>1, NoEvents
  <2>2. CASE UNCHANGED <<receiver, frames, shown>>
    BY <1>1, <2>1, <2>2
  <2>3. CASE Content!Frame(Content!Error)
    BY <1>1, <2>1, <2>3, EventTypes, FrameFacts DEF ContentTypes
  <2> QED BY <1>3, <2>2, <2>3
<1>5. ContentStages'
  <2>1. stage' = "calling" => Unsent'
    BY <1>1, <1>2, <1>3 DEF Unsent
  <2>2. account = Content!NoAccount
    BY <1>1 DEF OthersInv, ContentStages
  <2>3. EventsOf(held) = {}
    BY <1>1, NoEvents
  <2> QED BY <1>1, <1>2, <1>3, <2>1, <2>2, <2>3 DEF ContentStages, Early, Streamed, Content!Streamed
<1>6. ContentUsage'
  <2>1. EventsOf(channel) = {} /\ EventsOf(Sent) = {} /\ EventsOf(held) = {} /\ EventsOf(ready) = {}
    BY <1>1, NoEvents DEF Sent
  <2>2. UnderWay' = EventsOf(frames')
    BY <1>2, <2>1 DEF UnderWay, Sent
  <2> QED BY <1>1, <1>2, <1>4, <2>1, <2>2, EventTypes DEF ContentUsage
<1>7. ContentFlows'
  <2>1. CASE receiver' = "done"
    BY <2>1 DEF ContentFlows
  <2>2. CASE receiver' # "done"
    BY <1>1, <1>2, <1>3, <2>2, FlowsStay DEF OthersInv, Early
  <2> QED BY <2>1, <2>2
<1>8. ContentShown'
  BY <1>1, <1>2, <1>3, <1>4, ShownStays DEF OthersInv
<1>9. ContentDone'
  BY <1>4, EventTypes DEF ContentDone
<1>10. ContentBilled'
  BY <1>1, <1>2 DEF ContentBilled
<1> QED BY <1>5, <1>6, <1>7, <1>8, <1>9, <1>10 DEF OthersInv

LEMMA CallFailsKeeps ==
  ASSUME ContentTypes, OthersInv, NEW outcome, Content!CallFails(outcome)
  PROVE  OthersInv'
<1>1. /\ stage = "calling" /\ receiver = "open" /\ text = 0 /\ reports = 0 /\ usage = 0
      /\ ready = <<>> /\ held = <<>> /\ sending = <<>> /\ channel = <<>>
      /\ frames = <<>> /\ shown = <<>> /\ account = Content!NoAccount /\ account.amount = 0
  BY DEF OthersInv, ContentStages, Unsent, Content!CallFails, Content!NoAccount
<1>2. /\ UNCHANGED <<ask, text, reports, ready, usage, sending, channel, receiver, frames, shown,
                     account>>
      /\ \/ stage' = "calling" /\ held' = held /\ status' = status
         \/ stage' = "answer" /\ held' = <<Content!Error>>
  BY <1>1 DEF Content!CallFails, Content!provider, Content!passage, Content!received
<1>3. EventsOf(held') = {} \/ EventsOf(held') = {Content!Error}
  BY <1>1, <1>2, NoEvents, OneEvent
<1>4. ContentStages'
  <2>1. Unsent'
    BY <1>1, <1>2 DEF Unsent
  <2>2. \A e \in EventsOf(held') : e.kind # "delta"
    BY <1>3, EventTypes
  <2>3. stage' = "calling" => held' = <<>>
    BY <1>1, <1>2
  <2> QED BY <1>1, <1>2, <2>1, <2>2, <2>3 DEF ContentStages, Early, Streamed, Content!Streamed
<1>5. ContentUsage'
  <2>1. /\ EventsOf(channel) = {} /\ EventsOf(Sent) = {} /\ EventsOf(frames) = {}
        /\ EventsOf(ready) = {}
    BY <1>1, NoEvents DEF Sent
  <2>2. UnderWay' = {}
    BY <1>2, <2>1 DEF UnderWay, Sent
  <2> QED BY <1>1, <1>2, <1>3, <2>1, <2>2, EventTypes DEF ContentUsage
<1>6. ContentFlows'
  <2>1. CASE stage' = "answer"
    BY <2>1 DEF ContentFlows
  <2>2. CASE stage' = "calling"
    BY <1>1, <1>2, <2>2, FlowsStay DEF OthersInv, Early
  <2> QED BY <1>2, <2>1, <2>2
<1>7. ContentShown'
  <2>1. CASE stage' = "answer"
    <3>1. /\ held' = <<Content!Error>> /\ Len(held') = 1 /\ held'[1] = Content!Error
      BY <1>2, <2>1
    <3>2. Content!TextOf(held'[1]) = <<>>
      BY <3>1, EventTypes DEF Content!TextOf
    <3>3. Content!TextOf(held[1])' = <<>>
      BY <3>2 DEF Content!TextOf
    <3> QED BY <1>1, <1>2, <3>1, <3>3 DEF OthersInv, ContentShown
  <2>2. CASE stage' = "calling"
    BY <1>2, <2>2, ShownStays DEF OthersInv
  <2> QED BY <1>2, <2>1, <2>2
<1>8. ContentDone'
  BY <1>1, <1>2, DoneStays DEF OthersInv
<1>9. ContentBilled'
  BY <1>1, <1>2 DEF ContentBilled
<1> QED BY <1>4, <1>5, <1>6, <1>7, <1>8, <1>9 DEF OthersInv

LEMMA StreamOpensKeeps ==
  ASSUME ContentTypes, OthersInv, Content!StreamOpens
  PROVE  OthersInv'
<1>1. /\ stage = "calling" /\ Streamed /\ stage' = "relay"
      /\ UNCHANGED <<ask, text, reports, ready, held, usage, status, sending, channel, receiver,
                     frames, shown, account>>
  BY DEF Content!StreamOpens, Content!Succeeded, Content!provider, Content!consumer,
         Content!passage, Content!received, Streamed
<1>2. ContentStages'
  <2>1. Unsent'
    BY <1>1 DEF OthersInv, ContentStages, Unsent
  <2>2. EventsOf(held') = {} /\ receiver = "open"
    BY <1>1, NoEvents DEF OthersInv, ContentStages
  <2> QED BY <1>1, <2>1, <2>2 DEF ContentStages, Early, Streamed, Content!Streamed
<1>3. ContentUsage'
  BY <1>1 DEF OthersInv, ContentUsage, UnderWay, Sent
<1>4. ContentFlows'
  BY <1>1, FlowsStay DEF OthersInv, Early
<1>5. ContentShown'
  BY <1>1, ShownStays DEF OthersInv
<1>6. ContentDone'
  BY <1>1, DoneStays DEF OthersInv
<1>7. ContentBilled'
  BY <1>1 DEF ContentBilled
<1> QED BY <1>2, <1>3, <1>4, <1>5, <1>6, <1>7 DEF OthersInv

LEMMA NoPieces == FirstPieces(0) = <<>>
BY DEF FirstPieces

LEMMA CallAnswersKeeps ==
  ASSUME ContentTypes, OthersInv, NEW n \in 0..MaxText, NEW reported \in BOOLEAN,
         Content!CallAnswers(n, reported)
  PROVE  OthersInv'
<1> DEFINE piece == FirstPieces(n)
           d == Content!Event("delta", piece)
           u == IF reported THEN Content!Reported(n)
                ELSE Content!MissingUsage(Dialect[Content!Route.provider], ask.call, n)
<1>1. /\ stage = "calling" /\ ~Streamed /\ receiver = "open" /\ reports = 0 /\ usage = 0
      /\ ready = <<>> /\ sending = <<>> /\ channel = <<>>
      /\ frames = <<>> /\ shown = <<>>
  BY DEF OthersInv, ContentStages, Unsent, Content!CallAnswers, Content!Succeeded, Streamed
<1>2. n \in Nat
  BY ContentAssumption DEF Content!CompletionAssumption
<1>3. /\ UNCHANGED <<ask, reports, ready, usage, status, sending, channel, receiver, frames, shown>>
      /\ text' = n /\ held' = <<d>> /\ account' = Content!Recorded(u, "unrecorded")
      /\ stage' = IF ask.guarded THEN "inspect" ELSE "answer"
  BY <1>1 DEF Content!CallAnswers, Content!passage, Content!received, FirstPieces
<1>4. d.kind = "delta" /\ d.body = piece
  BY DEF Content!Event
<1> HIDE DEF d
<1>5. EventsOf(held') = {d} /\ Len(held') = 1 /\ held'[1] = d
  BY <1>3, OneEvent
<1>6. ContentStages'
  <2>1. Unsent'
    BY <1>1, <1>3 DEF Unsent
  <2> QED BY <1>1, <1>3, <2>1 DEF ContentStages, Early, Streamed, Content!Streamed
<1>7. ContentUsage'
  <2>1. /\ EventsOf(channel) = {} /\ EventsOf(Sent) = {} /\ EventsOf(frames) = {}
        /\ EventsOf(ready) = {}
    BY <1>1, NoEvents DEF Sent
  <2>2. UnderWay' = {}
    BY <1>3, <2>1 DEF UnderWay, Sent
  <2> QED BY <1>1, <1>3, <1>4, <1>5, <2>1, <2>2 DEF ContentUsage
<1>8. ContentFlows'
  BY <1>1, <1>3 DEF ContentFlows, Streamed, Content!Streamed
<1>9. ContentShown'
  <2>1. Fits(ask.guarded, n, <<>>)
    BY <1>2, NoPieces DEF Fits
  <2>2. Fits(ask.guarded, n, piece)
    BY <1>2 DEF Fits, ContentsOf
  <2> HIDE DEF piece
  <2>3. Content!TextOf(held[1])' = piece
    BY <1>4, <1>5 DEF Content!TextOf
  <2> QED BY <1>1, <1>3, <1>5, <2>1, <2>2, <2>3 DEF ContentShown
<1>10. ContentDone'
  BY <1>1, <1>3, DoneStays DEF OthersInv
<1>11. ContentBilled'
  <2> SUFFICES ASSUME ask'.call \in {"chat", "chat_stream"},
                      Dialect[Content!Last(tried').provider] = "openai"
               PROVE  account'.amount = n
    BY <1>1, <1>3 DEF ContentBilled, Content!Last
  <2>1. ask.call = "chat"
    BY <1>1, <1>3 DEF Streamed, Content!Streamed
  <2>2. tried' = Append(tried, [provider |-> Content!Route.provider, outcome |-> "ok"])
    BY DEF Content!CallAnswers, Content!Succeeded
  <2>3. Content!Last(tried').provider = Content!Route.provider
    BY <2>2, TriedGrows
  <2>4. u.amount = n
    BY <2>1, <2>3 DEF Content!MissingUsage, Content!Reported
  <2> HIDE DEF u
  <2> QED BY <1>3, <2>4 DEF Content!Recorded
<1> QED BY <1>6, <1>7, <1>8, <1>9, <1>10, <1>11 DEF OthersInv

LEMMA UnguardedPieces ==
  ASSUME ~ask.guarded
  PROVE  /\ \A content : Pieces(content) = [k \in Nat \ {0} |-> <<k>>]
         /\ \A content, a : Upto(content, a) = FirstPieces(a)
BY DEF Pieces, Upto

LEMMA ReadChunkKeeps ==
  ASSUME ContentTypes, OthersInv, NEW c \in Content!Chunk, Content!ReadChunk(c)
  PROVE  OthersInv'
<1> DEFINE singles == [k \in Nat \ {0} |-> <<k>>]
<1>1. /\ stage = "relay" /\ ready = <<>> /\ sending = <<>> /\ Streamed
      /\ text \in Nat /\ reports \in Nat /\ usage \in Nat
  BY DEF OthersInv, ContentStages, Content!ReadChunk, Content!Idle, ContentTypes
<1>2. UNCHANGED <<ask, stage, tried, held, usage, status, sending, channel, receiver, frames, shown,
                 account>>
  BY DEF Content!ReadChunk, Content!consumer, Content!passage, Content!received
<1>3. /\ text' = (IF c.text THEN text + 1 ELSE text)
      /\ reports' = (IF c.usage THEN reports + 1 ELSE reports)
      /\ ready' = Content!ChunkEvents(c)
  BY DEF Content!ReadChunk
<1>4. /\ \A e \in EventsOf(ready') : e.kind = "usage" => c.usage /\ e.body[1] = reports + 1
      /\ Carries(ready', singles, text, text')
  <2>1. singles[text + 1] = <<text + 1>>
    BY <1>1
  <2> HIDE DEF singles
  <2> QED BY <1>1, <1>3, <2>1, ChunkFacts
<1>5. text' \in Nat /\ text <= text' /\ reports <= reports'
  BY <1>1, <1>3
<1>6. ContentStages'
  <2>1. ask.guarded => Unsent'
    BY <1>1, <1>2 DEF OthersInv, ContentStages, Early, Unsent
  <2> QED BY <1>1, <1>2, <2>1 DEF OthersInv, ContentStages, Early, Streamed, Content!Streamed
<1>7. ContentUsage'
  <2>1. UnderWay' = UnderWay
    BY <1>2 DEF UnderWay, Sent
  <2>2. usage' <= reports'
    BY <1>1, <1>2, <1>3 DEF OthersInv, ContentUsage
  <2>3. \A e \in EventsOf(ready') : e.kind = "usage" => e.body[1] = reports' /\ reports' > 0
    BY <1>1, <1>3, <1>4
  <2> QED BY <1>2, <2>1, <2>2, <2>3 DEF OthersInv, ContentUsage
<1>8. ContentFlows'
  <2> SUFFICES ASSUME receiver = "open"
               PROVE  \E content \in Contents' : \E a, b, d \in Nat :
                        Flow(content, a, b, d)' /\ Complete(content, d)'
    BY <1>2 DEF ContentFlows
  <2>1. PICK content : content \in Contents'
    BY DEF Contents, ContentsOf
  <2>2. \A d : Complete(content, d)'
    BY <1>1, <1>2 DEF Complete, Early
  <2>3. CASE ask.guarded
    <3>1. shown' = <<>> /\ channel' = <<>> /\ sending' = <<>>
      BY <1>1, <1>2, <2>3 DEF OthersInv, ContentStages, Early, Unsent
    <3>2. \A p : Carries(<<>>, p, 0, 0)
      BY NothingCarries
    <3>3. Sent' = <<>>
      BY <3>1, NoEvents DEF Sent
    <3>4. Flow(content, 0, 0, 0)'
      BY <1>2, <2>3, <3>1, <3>2, <3>3 DEF Flow, Upto
    <3> QED BY <2>1, <2>2, <3>4
  <2>4. CASE ~ask.guarded
    <3>1. PICK old \in Contents, a, b, d \in Nat : Flow(old, a, b, d)
      BY <1>1 DEF OthersInv, ContentFlows
    <3>2. d = text
      BY <1>1, <2>4, <3>1, EmptyCarriesNothing DEF Flow
    <3>3. /\ Pieces(old) = singles /\ Pieces(content)' = singles
          /\ Upto(old, a) = FirstPieces(a) /\ Upto(content, a)' = FirstPieces(a)
      BY <1>2, <2>4 DEF Pieces, Upto
    <3> HIDE DEF singles
    <3>4. Flow(content, a, b, d)'
      BY <1>2, <1>4, <2>4, <3>1, <3>2, <3>3 DEF Flow, Sent
    <3> QED BY <2>1, <2>2, <3>4
  <2> QED BY <2>3, <2>4
<1>9. ContentShown'
  <2>1. CASE ask.guarded
    <3>1. shown' = <<>>
      BY <1>1, <1>2, <2>1 DEF OthersInv, ContentStages, Early, Unsent
    <3> QED BY <1>1, <1>2, <2>1, <3>1 DEF ContentShown, Fits
  <2>2. CASE ~ask.guarded
    <3>1. PICK a \in 0..text : shown = FirstPieces(a)
      BY <2>2 DEF OthersInv, ContentShown, Fits
    <3>2. a \in 0..text'
      BY <1>1, <1>5
    <3> QED BY <1>1, <1>2, <2>2, <3>1, <3>2 DEF ContentShown, Fits
  <2> QED BY <2>1, <2>2
<1>10. ContentDone'
  BY <1>1, <1>2, DoneStays DEF OthersInv
<1>11. ContentBilled'
  BY <1>1, <1>2 DEF ContentBilled
<1> QED BY <1>6, <1>7, <1>8, <1>9, <1>10, <1>11 DEF OthersInv

(* What it takes to send an event next: of the text, or of anything else.  *)
LEMMA OneIsCarried ==
  ASSUME NEW e \in StreamEvent, NEW pieces, NEW a \in Nat
  PROVE  /\ <<e>> \in Seq(StreamEvent)
         /\ e.kind # "delta" => Carries(<<e>>, pieces, a, a)
         /\ e.kind = "delta" /\ e.body = pieces[a + 1] => Carries(<<e>>, pieces, a, a + 1)
<1>1. Carries(<<>>, pieces, a, a)
  BY NothingCarries
<1>2. Append(<<>>, e) = <<e>> /\ <<>> \in Seq(StreamEvent)
  OBVIOUS
<1>3. /\ e.kind = "delta" /\ e.body = pieces[a + 1]
           => Carries(Append(<<>>, e), pieces, a, a + 1)
      /\ e.kind # "delta" => Carries(Append(<<>>, e), pieces, a, a)
  BY <1>1, <1>2, AppendCarries
<1>4. <<e>> \in Seq(StreamEvent)
  OBVIOUS
<1> HIDE DEF StreamEvent
<1> QED BY <1>2, <1>3, <1>4

LEMMA FlowTypes ==
  ASSUME ContentTypes, NEW content, NEW a \in Nat, NEW b, NEW c, Flow(content, a, b, c)
  PROVE  b \in Nat /\ c \in Nat /\ a <= b /\ b <= c
<1>1. Sent \in Seq(StreamEvent) /\ channel \in Seq(StreamEvent)
  BY EventSeqTypes DEF ContentTypes, Sent
<1> QED BY <1>1, CarriesTypes DEF Flow

(* An error is sent to whoever still listens.                              *)
LEMMA ErrorFlows ==
  ASSUME ContentTypes, ContentUsage, ContentFlows, stage # "answer", sending = <<>>,
         sending' = <<[event |-> Content!Error, checked |-> FALSE]>>,
         UNCHANGED <<ask, text, shown, channel, ready, frames, receiver>>
  PROVE  ContentFlows' /\ UnderWay' \subseteq UnderWay \union {Content!Error}
<1> DEFINE o == [event |-> Content!Error, checked |-> FALSE]
<1>1. o \in Outgoing /\ o.event = Content!Error
  BY EventTypes DEF Outgoing
<1>2. sending' = <<o>>
  OBVIOUS
<1> HIDE DEF o
<1>3. Sent' = <<Content!Error>> /\ EventsOf(Sent)' = {Content!Error}
  BY <1>1, <1>2, OneOutgoing, OneEvent DEF Sent
<1>4. UnderWay' \subseteq UnderWay \union {Content!Error} /\ Content!Error \in UnderWay'
  BY <1>3 DEF UnderWay
<1>5. ContentFlows'
  <2> SUFFICES ASSUME Streamed, receiver = "open"
               PROVE  \E content \in Contents' : \E a, b, c \in Nat :
                        Flow(content, a, b, c)' /\ Complete(content, c)'
    BY DEF ContentFlows, Streamed, Content!Streamed
  <2>1. PICK content \in Contents, a, b, c \in Nat : Flow(content, a, b, c)
    BY DEF ContentFlows
  <2>2. Sent = <<>>
    BY NoEvents DEF Sent
  <2>3. b = c
    BY <2>1, <2>2, EmptyCarriesNothing DEF Flow
  <2>4. Carries(<<Content!Error>>, Pieces(content), b, b)
    BY EventTypes, OneIsCarried
  <2>5. /\ Pieces(content)' = Pieces(content) /\ Upto(content, a)' = Upto(content, a)
        /\ Contents' = Contents
    BY DEF Pieces, Upto, Contents
  <2>6. Flow(content, a, b, c)'
    BY <1>3, <2>1, <2>3, <2>4, <2>5 DEF Flow
  <2>7. Complete(content, c)'
    BY <1>4, EventTypes DEF Complete
  <2> QED BY <2>1, <2>5, <2>6, <2>7
<1> QED BY <1>4, <1>5

LEMMA UpstreamEndsKeeps ==
  ASSUME ContentTypes, OthersInv, NEW failed \in BOOLEAN, Content!UpstreamEnds(failed)
  PROVE  OthersInv'
<1>1. stage = "relay" /\ ready = <<>> /\ sending = <<>> /\ Streamed
  BY DEF OthersInv, ContentStages, Content!UpstreamEnds, Content!Idle, ContentTypes
<1>2. UNCHANGED <<ask, tried, text, reports, ready, held, usage, channel, receiver, frames, shown,
                 account>>
  BY DEF Content!UpstreamEnds, Content!provider, Content!passage, Content!received
<1>3. \/ stage' = "flush" /\ sending' = <<[event |-> Content!Error, checked |-> FALSE]>>
      \/ stage' = "inspect" /\ ask.guarded /\ UNCHANGED <<status, sending>>
      \/ stage' = "record" /\ ~ask.guarded /\ UNCHANGED <<status, sending>>
  BY DEF Content!UpstreamEnds
<1>4. ContentFlows' /\ UnderWay' \subseteq UnderWay \union {Content!Error}
  <2>1. CASE stage' = "flush"
    BY <1>1, <1>2, <1>3, <2>1, ErrorFlows DEF OthersInv
  <2>2. CASE stage' # "flush"
    <3>1. UnderWay' = UnderWay
      BY <1>2, <1>3, <2>2 DEF UnderWay, Sent
    <3> QED BY <1>1, <1>2, <1>3, <2>2, <3>1, FlowsStay DEF OthersInv, Early
  <2> QED BY <2>1, <2>2
<1>5. ContentStages'
  <2>1. stage' = "inspect" => Unsent'
    BY <1>1, <1>2, <1>3 DEF OthersInv, ContentStages, Early, Unsent
  <2> QED BY <1>1, <1>2, <1>3, <2>1 DEF OthersInv, ContentStages, Early, Streamed, Content!Streamed
<1>6. ContentUsage'
  BY <1>2, <1>4, EventTypes DEF OthersInv, ContentUsage
<1>7. ContentShown'
  BY <1>1, <1>2, <1>3, ShownStays DEF OthersInv
<1>8. ContentDone'
  BY <1>1, <1>2, DoneStays DEF OthersInv
<1>9. ContentBilled'
  BY <1>1, <1>2, <1>3 DEF ContentBilled, Streamed, Content!Streamed
<1> QED BY <1>4, <1>5, <1>6, <1>7, <1>8, <1>9 DEF OthersInv

LEMMA TakeEventKeeps ==
  ASSUME ContentTypes, OthersInv, Content!TakeEvent
  PROVE  OthersInv'
<1> DEFINE e == Head(ready)
           o == [event |-> e, checked |-> TRUE]
<1>1. /\ stage = "relay" /\ sending = <<>> /\ ready # <<>> /\ ready' = Tail(ready)
      /\ e \in StreamEvent /\ e \in EventsOf(ready)
  BY TakeFacts DEF OthersInv
<1>2. usage' = (IF e.kind = "usage" THEN reports ELSE usage) /\ (e.kind = "usage" => reports > 0)
  BY TakeFacts DEF OthersInv
<1>3. held' = held \/ (held' = Append(held, e) /\ e.kind # "delta" /\ ask.guarded)
  BY TakeFacts DEF OthersInv
<1>4. \/ sending' = <<>> /\ (ask.guarded \/ e.kind # "delta")
      \/ sending' = <<o>> /\ ~ask.guarded
  BY TakeFacts DEF OthersInv
<1>5. \/ stage' = stage /\ status' = status
      \/ stage' = "record" /\ status' = "interrupted" /\ ask.guarded
  BY TakeFacts DEF OthersInv
<1>6. UNCHANGED <<ask, tried, text, reports, channel, receiver, frames, shown, account>>
  BY DEF Content!TakeEvent, Content!passage, Content!received
<1>7. Streamed /\ text \in Nat /\ reports \in Nat /\ usage \in Nat
      /\ ready \in Seq(StreamEvent) /\ held \in Seq(StreamEvent)
  BY <1>1 DEF OthersInv, ContentStages, ContentTypes
<1>8. e.kind = "usage" => e.body[1] = reports
  BY <1>1 DEF OthersInv, ContentUsage
<1>9. EventsOf(ready) = EventsOf(ready') \union {e}
  BY <1>1, <1>7, EventsOfTail
<1> HIDE DEF e
<1>10. o \in Outgoing /\ o.event = e
  BY <1>1 DEF Outgoing
<1> HIDE DEF o
<1>11. sending' = <<o>> => Sent' = <<e>> /\ EventsOf(Sent)' = {e}
  BY <1>10, OneOutgoing, OneEvent DEF Sent
<1>12. sending' = <<>> => Sent' = <<>> /\ EventsOf(Sent)' = {}
  BY NoEvents DEF Sent
<1>13. EventsOf(held') \subseteq EventsOf(held) \union {e}
       /\ (e.kind = "delta" => EventsOf(held') = EventsOf(held))
  <2>1. EventsOf(Append(held, e)) = EventsOf(held) \union {e}
    BY <1>1, <1>7, EventsOfAppend
  <2> QED BY <1>3, <2>1
<1>14. ContentStages'
  <2>1. ask.guarded => Unsent'
    BY <1>1, <1>4, <1>6 DEF OthersInv, ContentStages, Early, Unsent
  <2>2. ask.guarded => \A x \in EventsOf(held') : x.kind # "delta"
    BY <1>7, <1>13 DEF OthersInv, ContentStages
  <2>3. stage' = "record" => sending' = <<>>
    BY <1>1, <1>4, <1>5
  <2> QED BY <1>1, <1>5, <1>6, <1>7, <2>1, <2>2, <2>3
          DEF OthersInv, ContentStages, Early, Streamed, Content!Streamed
<1>15. ContentUsage'
  <2>1. usage <= usage' /\ usage' <= reports' /\ usage' \in Nat
    BY <1>2, <1>6, <1>7 DEF OthersInv, ContentUsage
  <2>2. \A x \in UnderWay' \union EventsOf(held') : x \in UnderWay \union EventsOf(held) \/ x = e
    BY <1>4, <1>6, <1>11, <1>12, <1>13 DEF UnderWay
  <2>3. \A x \in UnderWay \union EventsOf(held) : x.kind = "usage" => x.body[1] \in 1..usage'
    BY <1>7, <2>1 DEF OthersInv, ContentUsage
  <2>4. e.kind = "usage" => e.body[1] \in 1..usage'
    BY <1>2, <1>7, <1>8
  <2>5. \A x \in EventsOf(ready') : x.kind = "usage" => x.body[1] = reports' /\ reports' > 0
    BY <1>6, <1>9 DEF OthersInv, ContentUsage
  <2> QED BY <2>1, <2>2, <2>3, <2>4, <2>5 DEF ContentUsage
<1>16. ContentFlows'
  <2> SUFFICES ASSUME receiver = "open"
               PROVE  \E content \in Contents' : \E a, b, c \in Nat :
                        Flow(content, a, b, c)' /\ Complete(content, c)'
    BY <1>6 DEF ContentFlows
  <2>1. PICK content \in Contents, a, b, c \in Nat : Flow(content, a, b, c)
    BY <1>1, <1>7 DEF OthersInv, ContentFlows
  <2>2. Contents' = Contents
    BY <1>6 DEF Contents
  <2>3. \A d : Complete(content, d)'
    BY <1>1, <1>5, <1>6 DEF Complete, Early
  <2>4. CASE ask.guarded
    <3>1. shown' = <<>> /\ channel' = <<>> /\ Sent' = <<>>
      BY <1>1, <1>4, <1>6, <1>12, <2>4 DEF OthersInv, ContentStages, Early, Unsent
    <3>2. \A p : Carries(<<>>, p, 0, 0)
      BY NothingCarries
    <3>3. Flow(content, 0, 0, 0)'
      BY <1>6, <2>4, <3>1, <3>2 DEF Flow, Upto
    <3> QED BY <2>2, <2>3, <3>3
  <2>5. CASE ~ask.guarded
    <3> DEFINE p == Pieces(content)
    <3>1. Sent = <<>>
      BY <1>1, NoEvents DEF Sent
    <3>2. b = c
      BY <2>1, <3>1, EmptyCarriesNothing DEF Flow
    <3>3. Pieces(content)' = p /\ Upto(content, a)' = Upto(content, a)
      BY <1>6 DEF Pieces, Upto
    <3>4. shown = Upto(content, a) /\ Carries(channel, p, a, b) /\ Carries(ready, p, c, text)
      BY <2>1, <2>5 DEF Flow
    <3> HIDE DEF p
    <3>5. /\ e.kind = "delta" => e.body = p[c + 1] /\ Carries(ready', p, c + 1, text)
          /\ e.kind # "delta" => Carries(ready', p, c, text)
      BY <1>1, <1>7, <3>4, HeadCarries DEF e
    <3>6. CASE sending' = <<o>>
      <4>1. /\ e.kind = "delta" => Carries(<<e>>, p, b, c + 1)
            /\ e.kind # "delta" => Carries(<<e>>, p, b, c)
        BY <1>1, <3>2, <3>5, OneIsCarried
      <4>2. CASE e.kind = "delta"
        <5>1. Flow(content, a, b, c + 1)'
          BY <1>6, <1>11, <2>5, <3>3, <3>4, <3>5, <3>6, <4>1, <4>2 DEF Flow
        <5> QED BY <2>2, <2>3, <5>1
      <4>3. CASE e.kind # "delta"
        <5>1. Flow(content, a, b, c)'
          BY <1>6, <1>11, <2>5, <3>3, <3>4, <3>5, <3>6, <4>1, <4>3 DEF Flow
        <5> QED BY <2>2, <2>3, <5>1
      <4> QED BY <4>2, <4>3
    <3>7. CASE sending' = <<>> /\ e.kind # "delta"
      <4>1. Carries(<<>>, p, b, c)
        BY <3>2, NothingCarries
      <4>2. Flow(content, a, b, c)'
        BY <1>6, <1>12, <2>5, <3>3, <3>4, <3>5, <3>7, <4>1 DEF Flow
      <4> QED BY <2>2, <2>3, <4>2
    <3> QED BY <1>4, <2>5, <3>6, <3>7
  <2> QED BY <2>4, <2>5
<1>17. ContentShown'
  BY <1>1, <1>5, <1>6, ShownStays DEF OthersInv
<1>18. ContentDone'
  BY <1>1, <1>6, DoneStays DEF OthersInv
<1>19. ContentBilled'
  BY <1>1, <1>5 DEF ContentBilled
<1> QED BY <1>14, <1>15, <1>16, <1>17, <1>18, <1>19 DEF OthersInv

LEMMA InspectKeeps ==
  ASSUME ContentTypes, OthersInv, NEW verdict, Content!Inspect(verdict)
  PROVE  OthersInv'
<1>0. PICK content :
        content = IF verdict = "redacted" THEN Content!Redacted ELSE Content!Whole
  OBVIOUS
<1> DEFINE d == Content!Event("delta", content)
           o == [event |-> Content!Error, checked |-> FALSE]
<1>1. /\ stage = "inspect" /\ ask.guarded
      /\ frames = <<>> /\ shown = <<>> /\ channel = <<>> /\ sending = <<>>
  BY DEF OthersInv, ContentStages, Early, Unsent, Content!Inspect
<1>2. /\ IF Streamed
            THEN /\ stage' = "flush" /\ held' = <<>>
                 /\ sending' = IF verdict = "refused" THEN <<o>> ELSE Content!Flush(content)
          ELSE /\ stage' = "answer" /\ sending' = sending
               /\ held' = IF verdict = "refused" THEN <<Content!Error>> ELSE <<d>>
      /\ UNCHANGED <<ask, tried, text, reports, ready, usage, status, channel, receiver,
                     frames, shown, account>>
  BY <1>0 DEF Content!Inspect, Streamed, Content!provider, Content!passage, Content!received
<1>3. content \in Contents /\ content \in Seq(Nat)
  BY <1>0, ContentsAreTexts DEF ContentTypes
<1>4. ContentDone'
  BY <1>1, <1>2, DoneStays DEF OthersInv
<1>5. CASE Streamed
  <2> DEFINE f == Content!Flush(content)
  <2>1. /\ stage' = "flush" /\ held' = <<>>
        /\ sending' = IF verdict = "refused" THEN <<o>> ELSE f
    BY <1>2, <1>5
  <2>2. Pieces(content)[1] = content
    BY <1>1 DEF Pieces
  <2>3. /\ \A e \in EventsOf(EventSeq(f)) : e \in EventsOf(held) \/ e.kind = "delta"
        /\ \/ Carries(EventSeq(f), Pieces(content), 0, 1)
           \/ content = <<>> /\ Carries(EventSeq(f), Pieces(content), 0, 0)
    <3>1. \A e \in EventsOf(held) : e.kind # "delta"
      BY <1>1, <1>5 DEF OthersInv, ContentStages
    <3>2. held \in Seq(StreamEvent)
      BY DEF ContentTypes
    <3> HIDE DEF f
    <3> QED BY <1>3, <2>2, <3>1, <3>2, FlushFacts DEF f
  <2> HIDE DEF f
  <2>5. ASSUME verdict # "refused"
        PROVE  /\ ContentFlows'
               /\ \A e \in UnderWay' : e \in EventsOf(held) \/ e.kind = "delta"
    <3>1. sending' = f /\ Sent' = EventSeq(f)
      BY <2>1, <2>5 DEF Sent
    <3>2. EventsOf(Sent)' = EventsOf(EventSeq(f))
      BY <3>1
    <3>3. EventsOf(frames) = {} /\ EventsOf(channel) = {}
      BY <1>1, NoEvents
    <3>4. UnderWay' = EventsOf(EventSeq(f))
      BY <1>2, <3>2, <3>3 DEF UnderWay
    <3>5. Pieces(content)' = Pieces(content) /\ Contents' = Contents
      BY <1>2 DEF Pieces, Contents
    <3>6. Carries(<<>>, Pieces(content), 0, 0)
      BY NothingCarries
    <3>7. ASSUME NEW c \in {0, 1}, Carries(EventSeq(f), Pieces(content), 0, c)
          PROVE  Flow(content, 0, 0, c)'
      BY <1>1, <1>2, <3>1, <3>5, <3>6, <3>7 DEF Flow, Upto
    <3>8. ContentFlows'
      <4>1. CASE Carries(EventSeq(f), Pieces(content), 0, 1)
        <5>1. Flow(content, 0, 0, 1)' /\ Complete(content, 1)'
          BY <3>7, <4>1 DEF Complete
        <5> QED BY <1>3, <3>5, <5>1 DEF ContentFlows
      <4>2. CASE content = <<>> /\ Carries(EventSeq(f), Pieces(content), 0, 0)
        <5>1. Flow(content, 0, 0, 0)' /\ Complete(content, 0)'
          BY <3>7, <4>2 DEF Complete
        <5> QED BY <1>3, <3>5, <5>1 DEF ContentFlows
      <4> QED BY <2>3, <4>1, <4>2
    <3> QED BY <2>3, <3>4, <3>8
  <2>6. /\ ContentFlows'
        /\ \A e \in UnderWay' : \/ e \in UnderWay \union EventsOf(held)
                                \/ e.kind \in {"delta", "error"}
    <3>1. \A e \in UnderWay \union {Content!Error} :
            e \in UnderWay \union EventsOf(held) \/ e.kind \in {"delta", "error"}
      BY EventTypes
    <3>2. CASE verdict = "refused"
      <4>1. ContentFlows' /\ UnderWay' \subseteq UnderWay \union {Content!Error}
        BY <1>1, <1>2, <2>1, <3>2, ErrorFlows DEF OthersInv
      <4> QED BY <3>1, <4>1
    <3> QED BY <2>5, <3>2
  <2>7. ContentStages'
    <3>1. EventsOf(held') = {}
      BY <2>1, NoEvents
    <3> QED BY <1>1, <1>2, <1>5, <2>1, <3>1
            DEF OthersInv, ContentStages, Early, Streamed, Content!Streamed
  <2>8. ContentUsage'
    <3>1. EventsOf(held') = {}
      BY <2>1, NoEvents
    <3> QED BY <1>2, <2>6, <3>1 DEF OthersInv, ContentUsage
  <2>9. ContentShown'
    BY <1>2, <2>1, ShownStays DEF OthersInv
  <2>10. ContentBilled'
    BY <1>2, <2>1 DEF ContentBilled
  <2> QED BY <1>4, <2>6, <2>7, <2>8, <2>9, <2>10 DEF OthersInv
<1>6. CASE ~Streamed
  <2>1. /\ stage' = "answer" /\ sending' = sending
        /\ held' = <<Content!Error>> \/ held' = <<d>>
    BY <1>2, <1>6
  <2>2. d.kind = "delta" /\ d.body = content
    BY DEF Content!Event
  <2> HIDE DEF d
  <2>3. PICK e \in {Content!Error, d} : held' = <<e>>
    BY <2>1
  <2>4. EventsOf(held') = {e} /\ Len(held') = 1 /\ held'[1] = e
    BY <2>3, OneEvent
  <2>5. ContentStages'
    <3>1. Unsent'
      BY <1>1, <1>2, <2>1 DEF Unsent
    <3> QED BY <1>1, <1>2, <1>6, <2>1, <3>1
            DEF OthersInv, ContentStages, Early, Streamed, Content!Streamed
  <2>6. ContentUsage'
    <3>1. UnderWay' = UnderWay
      BY <1>2, <2>1 DEF UnderWay, Sent
    <3> QED BY <1>2, <2>2, <2>3, <2>4, <3>1, EventTypes DEF OthersInv, ContentUsage
  <2>7. ContentFlows'
    BY <2>1 DEF ContentFlows
  <2>8. ContentShown'
    <3>1. Content!TextOf(held[1])' \in {<<>>, content}
      BY <2>2, <2>3, <2>4, EventTypes DEF Content!TextOf
    <3> QED BY <1>1, <1>2, <1>3, <2>4, <3>1 DEF OthersInv, ContentShown, Fits, Contents
  <2>9. ContentBilled'
    BY <1>1, <1>2, <1>6, <2>1 DEF OthersInv, ContentBilled
  <2> QED BY <1>4, <2>5, <2>6, <2>7, <2>8, <2>9 DEF OthersInv
<1> QED BY <1>5, <1>6

(* An event that is sent or received belongs to a stream.                  *)
LEMMA SendersStream ==
  ASSUME ContentTypes, ContentStages,
         sending # <<>> \/ (channel # <<>> /\ receiver = "open")
  PROVE  /\ Streamed /\ stage # "answer" /\ (ask.guarded => stage \notin Early)
         /\ sending # <<>> => stage \notin {"record", "ended"}
<1>1. stage \notin {"routing", "calling", "answer"} /\ ~ (stage = "inspect" /\ ~Streamed)
  BY DEF ContentStages, Unsent
<1>2. ask.guarded => stage \notin Early
  BY DEF ContentStages, Unsent
<1>3. sending # <<>> => stage \notin {"record", "ended"}
  BY DEF ContentStages
<1>4. Streamed
  BY <1>1, <1>3 DEF ContentStages, ContentTypes, Stages, Early
<1> QED BY <1>1, <1>2, <1>3, <1>4

LEMMA SendEventKeeps ==
  ASSUME ContentTypes, OthersInv, Content!SendEvent
  PROVE  OthersInv'
<1> DEFINE e == Head(Sent)
<1>1. /\ sending # <<>> /\ receiver = "open" /\ sending' = Tail(sending)
      /\ channel' = Append(channel, Head(sending).event)
      /\ UNCHANGED <<ask, stage, tried, text, reports, ready, held, usage, status, receiver,
                     frames, shown, account>>
  BY DEF Content!SendEvent, Content!provider, Content!received
<1>2. Streamed /\ stage \notin {"answer", "record", "ended"} /\ (ask.guarded => stage \notin Early)
  BY <1>1, SendersStream DEF OthersInv
<1>3. sending \in Seq(Outgoing) /\ channel \in Seq(StreamEvent)
  BY DEF ContentTypes
<1>4. /\ Sent \in Seq(StreamEvent) /\ Sent # <<>> /\ e \in StreamEvent
      /\ Sent' = Tail(Sent) /\ channel' = Append(channel, e)
  BY <1>1, <1>3, EventSeqTypes, EventSeqOfTail DEF Sent
<1> HIDE DEF e
<1>5. UnderWay' = UnderWay
  <2>1. EventsOf(channel') = EventsOf(channel) \union {e}
    BY <1>3, <1>4, EventsOfAppend
  <2>2. EventsOf(Sent) = EventsOf(Tail(Sent)) \union {e}
    BY <1>4, EventsOfTail DEF e
  <2>3. EventsOf(Sent)' = EventsOf(Tail(Sent))
    BY <1>4
  <2>4. EventsOf(frames)' = EventsOf(frames)
    BY <1>1
  <2> QED BY <2>1, <2>2, <2>3, <2>4 DEF UnderWay
<1>6. ContentStages'
  <2>1. ContentStages /\ Streamed' = Streamed
    BY <1>1 DEF OthersInv, Streamed, Content!Streamed
  <2>2. stage \notin {"routing", "calling", "answer", "record", "ended"}
    BY <1>1, <1>2, <2>1 DEF ContentStages, Unsent
  <2> HIDE DEF Streamed
  <2> QED BY <1>1, <1>2, <2>1, <2>2 DEF ContentStages
<1>7. ContentUsage'
  BY <1>1, <1>5 DEF OthersInv, ContentUsage
<1>8. ContentFlows'
  <2>1. PICK content \in Contents, a, b, c \in Nat : Flow(content, a, b, c) /\ Complete(content, c)
    BY <1>1, <1>2 DEF OthersInv, ContentFlows
  <2> DEFINE p == Pieces(content)
  <2>2. /\ Pieces(content)' = p /\ Upto(content, a)' = Upto(content, a)
        /\ Contents' = Contents
    BY <1>1 DEF Pieces, Upto, Contents
  <2>3. Carries(channel, p, a, b) /\ Carries(Sent, p, b, c)
    BY <2>1 DEF Flow
  <2> HIDE DEF p
  <2>4. /\ e.kind = "delta" => e.body = p[b + 1] /\ Carries(Tail(Sent), p, b + 1, c)
        /\ e.kind # "delta" => Carries(Tail(Sent), p, b, c)
    BY <1>4, <2>3, HeadCarries DEF e
  <2>5. PICK k \in {b, b + 1} : Carries(channel', p, a, k) /\ Carries(Tail(Sent), p, k, c)
    <3>1. /\ e.kind = "delta" /\ e.body = p[b + 1] => Carries(Append(channel, e), p, a, b + 1)
          /\ e.kind # "delta" => Carries(Append(channel, e), p, a, b)
      BY <1>3, <1>4, <2>3, AppendCarries
    <3> QED BY <1>4, <2>4, <3>1
  <2>6. Flow(content, a, k, c)'
    <3>1. shown' = Upto(content, a)'
      BY <1>1, <2>1, <2>2 DEF Flow
    <3>2. Carries(channel, Pieces(content), a, k)' /\ Carries(Sent, Pieces(content), k, c)'
      BY <1>4, <2>2, <2>5
    <3>3. (IF ask.guarded THEN c <= 1 ELSE Carries(ready, Pieces(content), c, text))'
      BY <1>1, <2>1, <2>2 DEF Flow, p
    <3> QED BY <3>1, <3>2, <3>3 DEF Flow
  <2>7. Complete(content, c)'
    BY <1>1, <1>5, <2>1 DEF Complete
  <2> QED BY <2>1, <2>2, <2>5, <2>6, <2>7 DEF ContentFlows
<1>9. ContentShown'
  BY <1>1, ShownStays DEF OthersInv
<1>10. ContentDone'
  BY <1>1, <1>2, DoneStays DEF OthersInv
<1>11. ContentBilled'
  BY <1>1, <1>2 DEF OthersInv, ContentBilled, Streamed, Content!Streamed
<1> QED BY <1>6, <1>7, <1>8, <1>9, <1>10, <1>11 DEF OthersInv

LEMMA SendFailsKeeps ==
  ASSUME ContentTypes, OthersInv, Content!SendFails
  PROVE  OthersInv'
<1>1. /\ sending # <<>> /\ receiver # "open"
      /\ UNCHANGED <<ask, tried, text, reports, ready, held, usage, receiver, channel,
                     frames, shown, account>>
      /\ \/ sending' = <<>> /\ stage' = "record"
         \/ sending' = Tail(sending) /\ stage' = stage
  BY DEF Content!SendFails, Content!provider, Content!passage, Content!received
<1>2. Streamed /\ stage \notin {"answer", "record", "ended"} /\ (ask.guarded => stage \notin Early)
  BY <1>1, SendersStream DEF OthersInv
<1>3. receiver = "gone"
  BY <1>1, <1>2 DEF OthersInv, ContentStages, ContentTypes
<1>4. UnderWay' \subseteq UnderWay
  <2>1. sending \in Seq(Outgoing) /\ Sent \in Seq(StreamEvent)
    BY EventSeqTypes DEF ContentTypes, Sent
  <2>2. CASE sending' = <<>>
    BY <1>1, <2>2, NoEvents DEF UnderWay, Sent
  <2>3. CASE sending' = Tail(sending)
    <3>1. Sent # <<>> /\ Sent' = Tail(Sent)
      BY <1>1, <2>1, <2>3, EventSeqOfTail DEF Sent
    <3>2. EventsOf(Sent) = EventsOf(Tail(Sent)) \union {Head(Sent)}
      BY <2>1, <3>1, EventsOfTail
    <3>3. EventsOf(Sent)' = EventsOf(Tail(Sent))
      BY <3>1
    <3> QED BY <1>1, <3>2, <3>3 DEF UnderWay
  <2> QED BY <1>1, <2>2, <2>3
<1>5. ContentStages'
  BY <1>1, <1>2, <1>3
     DEF OthersInv, ContentStages, ContentTypes, Early, Stages, Streamed, Content!Streamed
<1>6. ContentUsage'
  BY <1>1, <1>4 DEF OthersInv, ContentUsage
<1>7. ContentFlows'
  BY <1>1 DEF ContentFlows
<1>8. ContentShown'
  BY <1>1, <1>2, ShownStays DEF OthersInv
<1>9. ContentDone'
  BY <1>1, <1>2, DoneStays DEF OthersInv
<1>10. ContentBilled'
  BY <1>1, <1>2 DEF OthersInv, ContentBilled, Streamed, Content!Streamed
<1> QED BY <1>5, <1>6, <1>7, <1>8, <1>9, <1>10 DEF OthersInv

(* Flushed and Closed.                                                     *)
LEMMA StagePasses ==
  ASSUME ContentTypes, OthersInv, sending = <<>>,
         \/ stage = "flush" /\ stage' = "record"
         \/ stage = "closing" /\ stage' = "ended",
         UNCHANGED <<ask, tried, text, reports, ready, held, usage, status, sending, channel,
                     receiver, frames, shown, account>>
  PROVE  OthersInv'
<1>1. Streamed
  BY DEF OthersInv, ContentStages
<1>2. ContentStages'
  BY <1>1 DEF OthersInv, ContentStages, Early, Streamed, Content!Streamed
<1>3. ContentUsage'
  BY DEF OthersInv, ContentUsage, UnderWay, Sent
<1>4. ContentFlows'
  BY FlowsStay DEF OthersInv, Early
<1>5. ContentShown'
  BY ShownStays DEF OthersInv
<1>6. ContentDone'
  BY DoneStays DEF OthersInv
<1>7. ContentBilled'
  BY DEF OthersInv, ContentBilled
<1> QED BY <1>2, <1>3, <1>4, <1>5, <1>6, <1>7 DEF OthersInv

LEMMA RecordStreamKeeps ==
  ASSUME ContentTypes, OthersInv, NEW ok \in BOOLEAN, Content!RecordStream(ok)
  PROVE  OthersInv'
<1> DEFINE u == Content!StreamUsage
           how == IF ok THEN status ELSE "unrecorded"
<1>1. stage = "record" /\ Streamed /\ sending = <<>>
  BY DEF OthersInv, ContentStages, Content!RecordStream
<1>2. UNCHANGED <<ask, tried, text, reports, ready, held, usage, status, channel,
                 receiver, frames, shown>>
  BY DEF Content!RecordStream, Content!provider, Content!passage, Content!received
<1>3. \/ stage' = "ended" /\ sending' = <<>>
      \/ stage' = "closing" /\ sending' = <<[event |-> Content!Error, checked |-> FALSE]>>
  BY DEF Content!RecordStream
<1>4. ContentFlows' /\ UnderWay' \subseteq UnderWay \union {Content!Error}
  <2>1. CASE stage' = "closing"
    BY <1>1, <1>2, <1>3, <2>1, ErrorFlows DEF OthersInv
  <2>2. CASE stage' # "closing"
    <3>1. sending' = sending
      BY <1>1, <1>3, <2>2
    <3>2. UnderWay' = UnderWay
      BY <1>2, <3>1 DEF UnderWay, Sent
    <3> QED BY <1>1, <1>2, <3>1, <3>2, FlowsStay DEF OthersInv, Early
  <2> QED BY <2>1, <2>2
<1>5. ContentStages'
  BY <1>1, <1>2, <1>3
     DEF OthersInv, ContentStages, ContentTypes, Early, Streamed, Content!Streamed
<1>6. ContentUsage'
  BY <1>2, <1>4, EventTypes DEF OthersInv, ContentUsage
<1>7. ContentShown'
  BY <1>1, <1>2, <1>3, ShownStays DEF OthersInv
<1>8. ContentDone'
  BY <1>1, <1>2, DoneStays DEF OthersInv
<1>9. ContentBilled'
  <2>1. account' = Content!Recorded(u, how)
    BY DEF Content!RecordStream
  <2>2. IF usage > 0 THEN ~u.estimated /\ u.amount = usage ELSE u.amount = text
    BY DEF Content!StreamUsage, Content!Reported
  <2> HIDE DEF u, how
  <2>3. (account'.estimated <=> u.estimated) /\ account'.amount = u.amount
    BY <2>1 DEF Content!Recorded
  <2> QED BY <1>2, <2>2, <2>3 DEF ContentBilled
<1> QED BY <1>4, <1>5, <1>6, <1>7, <1>8, <1>9 DEF OthersInv

LEMMA AnswerKeeps ==
  ASSUME ContentTypes, OthersInv, NEW ok \in BOOLEAN, Content!Answer(ok)
  PROVE  OthersInv'
<1>1. /\ stage = "answer" /\ stage' = "ended" /\ receiver' = "done"
      /\ UNCHANGED <<ask, tried, text, reports, ready, held, usage, status, sending, channel>>
  BY DEF Content!Answer, Content!provider, Content!consumer
<1>2. /\ frames = <<>> /\ shown = <<>> /\ channel = <<>> /\ sending = <<>> /\ ready = <<>>
      /\ Len(held) = 1 /\ held \in Seq(StreamEvent)
  BY <1>1 DEF OthersInv, ContentStages, ContentShown, ContentTypes, Unsent
<1>3. PICK e : e = IF ok THEN Head(held) ELSE Content!Error
  OBVIOUS
<1>4. held # <<>> /\ Head(held) = held[1] /\ Head(held) \in StreamEvent
      /\ Head(held) \in EventsOf(held)
  <2>1. held # <<>> /\ Head(held) = held[1]
    BY <1>2, OneIsSome
  <2>2. Head(held) \in StreamEvent
    BY <1>2, <2>1, HeadAndTail
  <2>3. 1 \in 1..Len(held)
    BY <1>2
  <2> QED BY <2>1, <2>2, <2>3 DEF EventsOf
<1>5. e \in StreamEvent /\ ((e = held[1] /\ e \in EventsOf(held)) \/ e.kind = "error")
  BY <1>3, <1>4, EventTypes
<1>6. Content!Frame(e)
  BY <1>3 DEF Content!Answer
<1>7. /\ EventsOf(frames') = EventsOf(frames) \union {e}
      /\ shown' = <<>> \/ (e.kind = "delta" /\ shown' = <<>> \o e.body)
  BY <1>2, <1>5, <1>6, FrameFacts DEF ContentTypes
<1>8. EventsOf(frames') = {e} /\ UnderWay' = {e}
  <2>1. EventsOf(frames) = {} /\ EventsOf(channel) = {} /\ EventsOf(Sent) = {}
    BY <1>2, NoEvents DEF Sent
  <2>2. EventsOf(channel)' = {} /\ EventsOf(Sent)' = {}
    BY <1>1, <2>1 DEF Sent
  <2> QED BY <1>7, <2>1, <2>2 DEF UnderWay
<1>9. ContentStages'
  BY <1>1, <1>2 DEF OthersInv, ContentStages, Early, Streamed, Content!Streamed
<1>10. ContentUsage'
  BY <1>1, <1>5, <1>8 DEF OthersInv, ContentUsage
<1>11. ContentFlows'
  BY <1>1 DEF ContentFlows
<1>12. ContentShown'
  <2>1. shown' = <<>> \/ (e = held[1] /\ shown' = Content!TextOf(held[1]))
    <3>1. ASSUME e.kind = "delta" PROVE <<>> \o e.body = e.body
      BY <1>5 DEF StreamEvent
    <3> QED BY <1>5, <1>7, <3>1 DEF Content!TextOf
  <2>2. Fits(ask.guarded, text, shown) /\ Fits(ask.guarded, text, Content!TextOf(held[1]))
    BY <1>1 DEF OthersInv, ContentShown
  <2>3. Fits(ask.guarded, text, shown')
    BY <1>2, <2>1, <2>2
  <2> QED BY <1>1, <2>3 DEF ContentShown
<1>13. ContentDone'
  BY <1>5, <1>8, EventTypes DEF ContentDone, StreamEvent, EventKinds
<1>14. ContentBilled'
  <2>1. account' = [account EXCEPT !.status = IF ok THEN status ELSE "unrecorded"]
    BY DEF Content!Answer
  <2>2. (account'.estimated <=> account.estimated) /\ account'.amount = account.amount
    BY <2>1 DEF ContentTypes, Accounts
  <2> QED BY <1>1, <2>2 DEF OthersInv, ContentBilled
<1> QED BY <1>9, <1>10, <1>11, <1>12, <1>13, <1>14 DEF OthersInv

LEMMA EncodeKeeps ==
  ASSUME ContentTypes, OthersInv, Content!Encode
  PROVE  OthersInv'
<1> DEFINE e == Head(channel)
<1>1. /\ receiver = "open" /\ channel # <<>> /\ channel' = Tail(channel) /\ Content!Frame(e)
      /\ UNCHANGED <<ask, stage, tried, text, reports, ready, held, usage, status, sending,
                     receiver, account>>
  BY DEF Content!Encode, Content!provider, Content!consumer
<1>2. Streamed /\ stage # "answer" /\ (ask.guarded => stage \notin Early)
  BY <1>1, SendersStream DEF OthersInv
<1>3. channel \in Seq(StreamEvent) /\ e \in StreamEvent
  BY <1>1 DEF ContentTypes
<1>4. EventsOf(channel) = EventsOf(Tail(channel)) \union {e}
  BY <1>1, <1>3, EventsOfTail
<1> HIDE DEF e
<1>5. /\ EventsOf(frames') = EventsOf(frames) \union {e}
      /\ e.kind = "delta" => shown' = shown \o e.body
      /\ e.kind # "delta" => shown' = shown
  BY <1>1, <1>3, FrameFacts DEF ContentTypes
<1>6. UnderWay' = UnderWay
  <2>1. EventsOf(channel)' = EventsOf(Tail(channel)) /\ EventsOf(Sent)' = EventsOf(Sent)
    BY <1>1 DEF Sent
  <2> QED BY <1>4, <1>5, <2>1 DEF UnderWay
<1>7. PICK content \in Contents, a, b, c \in Nat : Flow(content, a, b, c) /\ Complete(content, c)
  BY <1>1, <1>2 DEF OthersInv, ContentFlows
<1> DEFINE p == Pieces(content)
<1>8. /\ Pieces(content)' = p /\ Contents' = Contents
      /\ \A k : Upto(content, k)' = Upto(content, k)
  BY <1>1 DEF Pieces, Upto, Contents
<1>9. /\ shown = Upto(content, a) /\ Carries(channel, p, a, b) /\ Carries(Sent, p, b, c)
      /\ IF ask.guarded THEN c <= 1 ELSE Carries(ready, p, c, text)
  BY <1>7 DEF Flow
<1>10. content \in Seq(Nat) /\ text \in Nat
  BY <1>7, ContentsAreTexts DEF ContentTypes
<1> HIDE DEF p
<1>11. PICK k \in Nat : /\ k = IF e.kind = "delta" THEN a + 1 ELSE a
                        /\ Carries(Tail(channel), p, k, b)
                        /\ e.kind = "delta" => e.body = p[k]
  BY <1>1, <1>3, <1>9, HeadCarries DEF e
<1>12. k <= b /\ b <= c
  <2>1. Tail(channel) \in Seq(StreamEvent) /\ Sent \in Seq(StreamEvent)
    BY <1>1, <1>3, EventSeqTypes DEF ContentTypes, Sent
  <2> QED BY <1>9, <1>11, <2>1, CarriesTypes
<1>13. k <= IF ask.guarded THEN 1 ELSE text
  <2>1. CASE ask.guarded
    BY <1>9, <1>12, <2>1
  <2>2. CASE ~ask.guarded
    <3>1. c <= text
      BY <1>9, <2>2, CarriesTypes DEF ContentTypes
    <3> QED BY <1>10, <1>12, <2>2, <3>1
  <2> QED BY <2>1, <2>2
<1>14. shown' = Upto(content, k)
  <2>1. CASE e.kind # "delta"
    BY <1>5, <1>9, <1>11, <2>1
  <2>2. CASE e.kind = "delta" /\ ask.guarded
    <3>1. a = 0 /\ k = 1
      BY <1>11, <1>13, <2>2
    <3>2. shown = <<>> /\ e.body = content
      BY <1>9, <1>11, <2>2, <3>1 DEF Upto, Pieces, p
    <3>3. <<>> \o content = content
      BY <1>10
    <3> QED BY <1>5, <2>2, <3>1, <3>2, <3>3 DEF Upto
  <2>3. CASE e.kind = "delta" /\ ~ask.guarded
    <3>1. k = a + 1 /\ shown = FirstPieces(a) /\ e.body = <<k>>
      BY <1>9, <1>11, <2>3 DEF Upto, Pieces, p
    <3>2. FirstPieces(a) \o <<a + 1>> = FirstPieces(a + 1)
      BY DEF FirstPieces
    <3> QED BY <1>5, <2>3, <3>1, <3>2 DEF Upto
  <2> QED BY <2>1, <2>2, <2>3
<1>15. ContentStages'
  <2>1. ContentStages /\ Streamed' = Streamed
    BY <1>1 DEF OthersInv, Streamed, Content!Streamed
  <2>2. stage \notin {"routing", "calling", "answer"}
    BY <1>1, <1>2, <2>1 DEF ContentStages, Unsent
  <2> HIDE DEF Streamed
  <2> QED BY <1>1, <1>2, <2>1, <2>2 DEF ContentStages
<1>16. ContentUsage'
  BY <1>1, <1>6 DEF OthersInv, ContentUsage
<1>17. ContentFlows'
  <2>1. Flow(content, k, b, c)'
    <3>1. Carries(channel, Pieces(content), k, b)' /\ Carries(Sent, Pieces(content), b, c)'
      BY <1>1, <1>8, <1>9, <1>11 DEF Sent
    <3>2. (IF ask.guarded THEN c <= 1 ELSE Carries(ready, Pieces(content), c, text))'
      BY <1>1, <1>8, <1>9
    <3> QED BY <1>8, <1>14, <3>1, <3>2 DEF Flow
  <2>2. Complete(content, c)'
    BY <1>1, <1>6, <1>7 DEF Complete
  <2> QED BY <1>7, <1>8, <2>1, <2>2 DEF ContentFlows
<1>18. ContentShown'
  <2>1. Fits(ask.guarded, text, shown')
    BY <1>7, <1>10, <1>13, <1>14 DEF Fits, Upto, Contents
  <2> QED BY <1>1, <1>2, <2>1 DEF ContentShown
<1>19. ContentDone'
  <2>1. Done \notin EventsOf(frames)
    BY <1>1 DEF OthersInv, ContentDone
  <2>2. e # Done
    BY <1>3, EventTypes DEF StreamEvent, EventKinds
  <2> QED BY <1>5, <2>1, <2>2 DEF ContentDone
<1>20. ContentBilled'
  BY <1>1 DEF OthersInv, ContentBilled, Streamed, Content!Streamed
<1> QED BY <1>15, <1>16, <1>17, <1>18, <1>19, <1>20 DEF OthersInv

LEMMA EncodeDoneKeeps ==
  ASSUME ContentTypes, OthersInv, Content!EncodeDone
  PROVE  OthersInv'
<1>1. /\ receiver = "open" /\ channel = <<>> /\ stage = "ended" /\ receiver' = "done"
      /\ Content!Frame(Done)
      /\ UNCHANGED <<ask, stage, tried, text, reports, ready, held, usage, status, sending,
                     channel, account>>
  BY DEF Content!EncodeDone, Content!provider, Content!consumer, Done
<1>2. sending = <<>> /\ Streamed /\ (~ask.guarded => ready = <<>>)
  BY <1>1 DEF OthersInv, ContentStages
<1>3. shown' = shown /\ EventsOf(frames') = EventsOf(frames) \union {Done}
  BY <1>1, FrameFacts, EventTypes DEF ContentTypes
<1>4. UnderWay' = UnderWay \union {Done}
  BY <1>1, <1>3 DEF UnderWay, Sent
<1>5. ContentStages'
  BY <1>1, <1>2 DEF OthersInv, ContentStages, Early, Streamed, Content!Streamed
<1>6. ContentUsage'
  BY <1>1, <1>4, EventTypes DEF OthersInv, ContentUsage
<1>7. ContentFlows'
  BY <1>1 DEF ContentFlows
<1>8. ContentShown'
  BY <1>1, <1>3, ShownStays DEF OthersInv
<1>9. ContentDone'
  <2>1. PICK content \in Contents, a, b, c \in Nat : Flow(content, a, b, c) /\ Complete(content, c)
    BY <1>1, <1>2 DEF OthersInv, ContentFlows
  <2>2. a = b /\ b = c /\ shown = Upto(content, a)
    <3>1. Sent = <<>>
      BY <1>2, NoEvents DEF Sent
    <3> QED BY <1>1, <2>1, <3>1, EmptyCarriesNothing DEF Flow
  <2>3. \/ \E x \in EventsOf(frames) : x.kind = "error"
        \/ status = "interrupted" \/ shown \in Contents
    <3>1. CASE ~ask.guarded
      <4>1. c = text
        BY <1>2, <2>1, <3>1, EmptyCarriesNothing DEF Flow
      <4>2. shown = FirstPieces(text)
        BY <2>2, <3>1, <4>1 DEF Upto
      <4> QED BY <4>2 DEF Contents, ContentsOf
    <3>2. CASE ask.guarded
      <4>1. \/ c = 1 \/ content = <<>> \/ status = "interrupted"
            \/ \E x \in UnderWay : x.kind = "error"
        BY <1>1, <2>1, <3>2 DEF Complete, Early
      <4>2. c = 1 \/ content = <<>> => shown = content
        BY <2>2, <3>2 DEF Upto
      <4>3. UnderWay = EventsOf(frames)
        BY <1>1, <1>2, NoEvents DEF UnderWay, Sent
      <4> QED BY <2>1, <4>1, <4>2, <4>3
    <3> QED BY <3>1, <3>2
  <2>4. Contents' = Contents
    BY <1>1 DEF Contents
  <2> QED BY <1>1, <1>3, <2>3, <2>4 DEF ContentDone
<1>10. ContentBilled'
  BY <1>1 DEF OthersInv, ContentBilled, Streamed, Content!Streamed
<1> QED BY <1>5, <1>6, <1>7, <1>8, <1>9, <1>10 DEF OthersInv

LEMMA ClientLeavesKeeps ==
  ASSUME ContentTypes, OthersInv, Content!ClientLeaves
  PROVE  OthersInv'
<1>1. /\ receiver = "open" /\ Streamed /\ receiver' = "gone" /\ channel' = <<>>
      /\ stage \in {"relay", "inspect", "flush", "record", "closing", "ended"}
      /\ UNCHANGED <<ask, stage, tried, text, reports, ready, held, usage, status, sending,
                     frames, shown, account>>
  BY DEF Content!ClientLeaves, Content!provider, Content!consumer, Content!received, Streamed
<1>2. UnderWay' \subseteq UnderWay
  BY <1>1, NoEvents DEF UnderWay, Sent
<1>3. ContentStages'
  BY <1>1 DEF OthersInv, ContentStages, Unsent, Streamed, Content!Streamed
<1>4. ContentUsage'
  BY <1>1, <1>2 DEF OthersInv, ContentUsage
<1>5. ContentFlows'
  BY <1>1 DEF ContentFlows
<1>6. ContentShown'
  BY <1>1, ShownStays DEF OthersInv
<1>7. ContentDone'
  BY <1>1 DEF OthersInv, ContentDone
<1>8. ContentBilled'
  BY <1>1 DEF OthersInv, ContentBilled, Streamed, Content!Streamed
<1> QED BY <1>3, <1>4, <1>5, <1>6, <1>7, <1>8 DEF OthersInv

-----------------------------------------------------------------------------
(* The invariant of a request's content.                                   *)

LEMMA OthersInvInit ==
  ASSUME Content!Init
  PROVE  OthersInv
<1>1. /\ stage = "routing" /\ receiver = "open"
      /\ text = 0 /\ reports = 0 /\ usage = 0
      /\ ready = <<>> /\ held = <<>> /\ sending = <<>> /\ channel = <<>>
      /\ frames = <<>> /\ shown = <<>> /\ tried = <<>>
      /\ account = Content!NoAccount
  BY DEF Content!Init
<1>2. /\ EventsOf(frames) = {} /\ EventsOf(channel) = {} /\ EventsOf(Sent) = {}
      /\ EventsOf(held) = {} /\ EventsOf(ready) = {}
  BY <1>1, NoEvents DEF Sent
<1>3. ContentStages
  BY <1>1, <1>2 DEF ContentStages, Unsent
<1>4. ContentUsage
  BY <1>1, <1>2 DEF ContentUsage, UnderWay
<1>5. ContentFlows
  <2>1. FirstPieces(0) \in Contents /\ Upto(FirstPieces(0), 0) = <<>>
    BY <1>1, NoPieces DEF Contents, ContentsOf, Upto
  <2>2. Carries(<<>>, Pieces(FirstPieces(0)), 0, 0) /\ Sent = <<>>
    BY <1>1, NothingCarries, NoEvents DEF Sent
  <2>3. Flow(FirstPieces(0), 0, 0, 0)
    BY <1>1, <2>1, <2>2 DEF Flow
  <2>4. Complete(FirstPieces(0), 0)
    BY <1>1 DEF Complete, Early
  <2> QED BY <2>1, <2>3, <2>4 DEF ContentFlows
<1>6. ContentShown
  <2>1. Fits(ask.guarded, text, <<>>)
    BY <1>1, NoPieces DEF Fits
  <2> QED BY <1>1, <2>1 DEF ContentShown
<1>7. ContentDone
  BY <1>2 DEF ContentDone
<1>8. ContentBilled
  BY <1>1 DEF ContentBilled
<1> QED BY <1>3, <1>4, <1>5, <1>6, <1>7, <1>8 DEF OthersInv

LEMMA OthersInvStep ==
  ASSUME ContentTypes, OthersInv, Content!Next
  PROVE  OthersInv'
<1>1. CASE Content!FindRoutes
  BY <1>1, FindRoutesKeeps
<1>2. CASE \E outcome \in Content!Outcomes : Content!CallFails(outcome)
  BY <1>2, CallFailsKeeps
<1>3. CASE \E n \in 0..MaxText, reported \in BOOLEAN : Content!CallAnswers(n, reported)
  BY <1>3, CallAnswersKeeps
<1>4. CASE Content!StreamOpens
  BY <1>4, StreamOpensKeeps
<1>5. CASE \E c \in Content!Chunk : Content!ReadChunk(c)
  BY <1>5, ReadChunkKeeps
<1>6. CASE \E failed \in BOOLEAN : Content!UpstreamEnds(failed)
  BY <1>6, UpstreamEndsKeeps
<1>7. CASE Content!TakeEvent
  BY <1>7, TakeEventKeeps
<1>8. CASE \E verdict \in {"clear", "redacted", "refused"} : Content!Inspect(verdict)
  BY <1>8, InspectKeeps
<1>9. CASE Content!SendEvent
  BY <1>9, SendEventKeeps
<1>10. CASE Content!SendFails
  BY <1>10, SendFailsKeeps
<1>11. CASE Content!Flushed \/ Content!Closed
  <2>1. /\ sending = <<>>
        /\ \/ stage = "flush" /\ stage' = "record"
           \/ stage = "closing" /\ stage' = "ended"
        /\ UNCHANGED <<ask, tried, text, reports, ready, held, usage, status, sending,
                       channel, receiver, frames, shown, account>>
    BY <1>11 DEF Content!Flushed, Content!Closed, Content!provider, Content!consumer,
                 Content!passage, Content!received
  <2> QED BY <2>1, StagePasses
<1>12. CASE \E ok \in BOOLEAN : Content!RecordStream(ok)
  BY <1>12, RecordStreamKeeps
<1>13. CASE \E ok \in BOOLEAN : Content!Answer(ok)
  BY <1>13, AnswerKeeps
<1>14. CASE Content!Encode
  BY <1>14, EncodeKeeps
<1>15. CASE Content!EncodeDone
  BY <1>15, EncodeDoneKeeps
<1>16. CASE Content!ClientLeaves
  BY <1>16, ClientLeavesKeeps
<1> QED BY <1>1, <1>2, <1>3, <1>4, <1>5, <1>6, <1>7, <1>8, <1>9, <1>10, <1>11, <1>12, <1>13,
           <1>14, <1>15, <1>16, Zenon
        DEF Content!Next, Content!Step, Content!Client

LEMMA ContentInvStutters ==
  ASSUME ContentInv, UNCHANGED contentVars
  PROVE  ContentInv'
<1>1. UNCHANGED <<ask, stage, tried, text, reports, chunks, ready, held, usage, status,
                  sending, channel, receiver, frames, account, shown>>
  BY DEF contentVars
<1>2. Sent' = Sent /\ UnderWay' = UnderWay
  BY <1>1 DEF Sent, UnderWay
<1>3. ContentTypes'
  BY <1>1 DEF ContentInv, ContentTypes
<1>4. ContentStages'
  BY <1>1 DEF ContentInv, ContentStages, Streamed, Content!Streamed, Unsent
<1>5. ContentUsage'
  BY <1>1, <1>2 DEF ContentInv, ContentUsage
<1>6. ContentFlows'
  <2>1. CASE stage = "answer"
    BY <1>1, <2>1 DEF ContentFlows
  <2>2. CASE stage # "answer"
    BY <1>1, <2>2, FlowsStay DEF ContentInv
  <2> QED BY <2>1, <2>2
<1>7. ContentShown'
  BY <1>1 DEF ContentInv, ContentShown
<1>8. ContentDone'
  BY <1>1 DEF ContentInv, ContentDone, Contents
<1>9. ContentBilled'
  BY <1>1 DEF ContentInv, ContentBilled, Streamed, Content!Streamed
<1> QED BY <1>3, <1>4, <1>5, <1>6, <1>7, <1>8, <1>9 DEF ContentInv

LEMMA ContentInvHolds == Inference => []ContentInv
<1>1. Start => ContentInv
  <2> SUFFICES ASSUME Start PROVE ContentInv
    OBVIOUS
  <2>1. ContentTypes /\ OthersInv
    BY ContentTypesInit, OthersInvInit DEF Start
  <2> QED BY <2>1 DEF ContentInv, OthersInv
<1>2. ContentInv /\ [Move]_allVars => ContentInv'
  <2> SUFFICES ASSUME ContentInv, [Move]_allVars PROVE ContentInv'
    OBVIOUS
  <2>1. Content!Next \/ UNCHANGED contentVars
    BY DEF Move, allVars
  <2>2. CASE Content!Next
    <3>1. ContentTypes /\ OthersInv
      BY DEF ContentInv, OthersInv
    <3>2. ContentTypes' /\ OthersInv'
      BY <2>2, <3>1, ContentTypesStep, OthersInvStep DEF OthersInv
    <3> QED BY <3>2 DEF ContentInv, OthersInv
  <2>3. CASE UNCHANGED contentVars
    BY <2>3, ContentInvStutters
  <2> QED BY <2>1, <2>2, <2>3
<1> QED BY <1>1, <1>2, PTL DEF Inference

(* The text a client has is all of, or the beginning of, a content.        *)
LEMMA ShownIsOfTheText ==
  ASSUME ContentInv
  PROVE  /\ shown \in Seq(Nat) /\ Len(shown) <= text /\ text \in Nat
         /\ ask.guarded => shown \in {<<>>, Content!Whole, Content!Redacted}
         /\ ~ask.guarded => Content!IsPrefix(shown, Content!Whole)
<1>1. text \in Nat /\ shown \in Seq(Nat) /\ Fits(ask.guarded, text, shown)
  BY DEF ContentInv, ContentTypes, ContentShown
<1>2. CASE ask.guarded
  <2>1. shown = <<>> \/ shown \in Contents
    BY <1>1, <1>2 DEF Fits, Contents
  <2>2. Len(<<>>) <= text
    BY <1>1
  <2>3. Len(shown) <= text
    BY <1>1, <2>1, <2>2, ContentsAreTexts
  <2>4. shown \in {<<>>, Content!Whole, Content!Redacted}
    BY <1>1, <2>1, ContentsAreTexts
  <2> QED BY <1>1, <1>2, <2>3, <2>4
<1>3. CASE ~ask.guarded
  <2>1. PICK a \in 0..text : shown = FirstPieces(a)
    BY <1>1, <1>3 DEF Fits
  <2>2. /\ Len(FirstPieces(a)) = a /\ Len(FirstPieces(text)) = text /\ a <= text /\ a \in Nat
        /\ SubSeq(FirstPieces(a), 1, a) = SubSeq(FirstPieces(text), 1, a)
    BY <1>1, <2>1 DEF FirstPieces
  <2>3. Content!Whole = FirstPieces(text)
    BY <1>1, ContentsAreTexts
  <2> QED BY <1>1, <1>3, <2>1, <2>2, <2>3 DEF Content!IsPrefix
<1> QED BY <1>2, <1>3

(* A client never gets text its provider did not send, nor out of order,   *)
(* nor, where the output is inspected, any of it before the whole was      *)
(* cleared; and what ends with [DONE] and no error is all of it, unless    *)
(* the gateway gave up on it: for every plan, text and channel.            *)
THEOREM ClientGetsTheTextHolds == Inference => []ClientGetsTheText
<1>1. ContentInv => ClientGetsTheText
  <2> SUFFICES ASSUME ContentInv PROVE Content!ClientGetsTheText
    BY DEF ClientGetsTheText
  <2>1. /\ IF ask.guarded THEN shown \in {<<>>, Content!Whole, Content!Redacted}
           ELSE Content!IsPrefix(shown, Content!Whole)
        /\ text \in Nat
    BY ShownIsOfTheText
  <2>2. stage \in {"calling", "relay", "inspect"} /\ ask.guarded => shown = <<>>
    BY DEF ContentInv, ContentStages, Unsent, Early
  <2>3. ASSUME "done" \in Content!FrameKinds, "error" \notin Content!FrameKinds
        PROVE  status = "interrupted" \/ shown \in {Content!Whole, Content!Redacted}
    <3>1. /\ frames \in Seq(StreamEvent \union {Done})
          /\ DOMAIN frames = 1..Len(frames)
          /\ \A i \in 1..Len(frames) : frames[i] \in StreamEvent \union {Done}
      BY DEF ContentInv, ContentTypes
    <3>2. PICK i \in 1..Len(frames) : frames[i].kind = "done"
      BY <2>3, <3>1 DEF Content!FrameKinds
    <3>3. frames[i] = Done
      BY <3>1, <3>2 DEF StreamEvent, EventKinds
    <3>4. ~ \E e \in EventsOf(frames) : e.kind = "error"
      BY <2>3, <3>1 DEF Content!FrameKinds, EventsOf
    <3>5. Done \in EventsOf(frames)
      BY <3>3 DEF EventsOf
    <3> QED BY <2>1, <3>4, <3>5, ContentsAreTexts DEF ContentInv, ContentDone
  <2> QED BY <2>1, <2>2, <2>3 DEF Content!ClientGetsTheText
<1> QED BY <1>1, ContentInvHolds, PTL

(* What the client of an OpenAI-compatible chat was sent is charged: by    *)
(* the last report, never by less than a report the client saw, and by the *)
(* text that was read when there was none.                                 *)
THEOREM DeliveredIsChargedHolds == Inference => []DeliveredIsCharged
<1>1. ContentInv => DeliveredIsCharged
  <2> SUFFICES ASSUME ContentInv PROVE Content!DeliveredIsCharged
    BY DEF DeliveredIsCharged
  <2> SUFFICES ASSUME ask.call \in {"chat", "chat_stream"}, stage = "ended", tried # <<>>,
                      Dialect[Content!Last(tried).provider] = "openai"
               PROVE  /\ account.estimated => account.amount >= Len(shown)
                      /\ ~account.estimated => account.amount > 0 \/ shown = <<>>
                      /\ \A i \in DOMAIN frames :
                           frames[i].kind = "usage" =>
                             ~account.estimated /\ account.amount >= frames[i].body[1]
    BY DEF Content!DeliveredIsCharged
  <2>1. shown \in Seq(Nat) /\ Len(shown) <= text /\ text \in Nat /\ usage \in Nat
    BY ShownIsOfTheText DEF ContentInv, ContentTypes
  <2>2. /\ usage > 0 => ~account.estimated /\ account.amount = usage
        /\ ~ (usage > 0) => account.amount = text
    BY DEF ContentInv, ContentBilled
  <2>3. ASSUME NEW i \in DOMAIN frames, frames[i].kind = "usage"
        PROVE  frames[i].body[1] \in 1..usage
    <3>1. DOMAIN frames = 1..Len(frames)
      BY DEF ContentInv, ContentTypes
    <3>2. frames[i] \in UnderWay
      BY <3>1 DEF UnderWay, EventsOf
    <3> QED BY <2>3, <3>2 DEF ContentInv, ContentUsage
  <2>4. \A i \in DOMAIN frames :
          frames[i].kind = "usage" => usage > 0 /\ usage >= frames[i].body[1]
    BY <2>1, <2>3
  <2>5. text = 0 => shown = <<>>
    BY <2>1
  <2>6. CASE usage > 0
    BY <2>2, <2>4, <2>6
  <2>7. CASE ~ (usage > 0)
    <3>1. account.amount = text
      BY <2>2, <2>7
    <3>2. \A i \in DOMAIN frames : frames[i].kind # "usage"
      BY <2>4, <2>7
    <3>3. account.amount >= Len(shown) /\ (account.amount > 0 \/ shown = <<>>)
      BY <2>1, <2>5, <3>1
    <3> QED BY <3>2, <3>3
  <2> QED BY <2>6, <2>7
<1> QED BY <1>1, ContentInvHolds, PTL

-----------------------------------------------------------------------------
(* Which routes are tried.                                                 *)

(* FiniteSets, as Completion and as this module extend it.                 *)
LEMMA SameFiniteSets ==
  ASSUME NEW S
  PROVE  /\ Content!IsFiniteSet(S) <=> IsFiniteSet(S)
         /\ Content!Cardinality(S) = Cardinality(S)
<1>1. Content!IsFiniteSet(S) <=> IsFiniteSet(S)
  BY Zenon DEF Content!IsFiniteSet, IsFiniteSet
<1>2. Content!Cardinality(S) = Cardinality(S)
  BY <1>1, Zenon DEF Content!Cardinality, Cardinality, Content!IsFiniteSet, IsFiniteSet
<1> QED BY <1>1, <1>2

(* A plan has finitely many targets.                                       *)
LEMMA PlansAreFinite ==
  ASSUME NEW plan \in Plans
  PROVE  /\ DOMAIN plan \subseteq Nat /\ IsFiniteSet(DOMAIN plan)
         /\ \A i \in DOMAIN plan : plan[i].priority \in Nat
BY ContentAssumption, SameFiniteSets DEF Content!CompletionAssumption

(* Priority and place order the targets strictly and totally.              *)
LEMMA TargetsAreOrdered ==
  ASSUME NEW plan \in Plans
  PROVE  /\ \A i \in DOMAIN plan : ~Content!Before(plan, i, i)
         /\ \A i, j \in DOMAIN plan :
              i # j => Content!Before(plan, i, j) \/ Content!Before(plan, j, i)
         /\ \A i, j, k \in DOMAIN plan :
              Content!Before(plan, i, j) /\ Content!Before(plan, j, k)
                => Content!Before(plan, i, k)
<1>1. \A i \in DOMAIN plan : i \in Nat /\ plan[i].priority \in Nat
  BY PlansAreFinite
<1>2. \A i \in DOMAIN plan : ~Content!Before(plan, i, i)
  BY <1>1 DEF Content!Before
<1>3. \A i, j \in DOMAIN plan :
        i # j => Content!Before(plan, i, j) \/ Content!Before(plan, j, i)
  BY <1>1 DEF Content!Before
<1>4. \A i, j, k \in DOMAIN plan :
        Content!Before(plan, i, j) /\ Content!Before(plan, j, k) => Content!Before(plan, i, k)
  BY <1>1 DEF Content!Before
<1> QED BY <1>2, <1>3, <1>4

(* Sorted lists the targets in places I, each once, none before one of a   *)
(* lower priority: no two have as many before them, so their places are    *)
(* the numbers from 1 to the number of I.                                  *)
LEMMA SortedFacts ==
  ASSUME NEW plan \in Plans, NEW I \in SUBSET DOMAIN plan,
         NEW s, s = Content!Sorted(plan, I)
  PROVE  /\ \E S : s \in Seq(S)
         /\ \A k \in 1..Len(s) : \E i \in I : s[k] = plan[i]
         /\ \A i \in I : \E k \in 1..Len(s) : s[k] = plan[i]
         /\ \A k, l \in 1..Len(s) : k < l => s[k].priority <= s[l].priority
         /\ s = <<>> <=> I = {}
<1> DEFINE Earlier(i) == {j \in I : Content!Before(plan, j, i)}
           n == Cardinality(I)
           f == [i \in I |-> Cardinality(Earlier(i)) + 1]
<1>1. IsFiniteSet(I) /\ n \in Nat
  BY PlansAreFinite, FS_Subset, FS_CardinalityType
<1>2. /\ \A i \in I : ~Content!Before(plan, i, i)
      /\ \A i, j \in I : i # j => Content!Before(plan, i, j) \/ Content!Before(plan, j, i)
      /\ \A i, j, k \in I :
           Content!Before(plan, i, j) /\ Content!Before(plan, j, k) => Content!Before(plan, i, k)
  BY TargetsAreOrdered
<1>3. \A i \in I : /\ IsFiniteSet(Earlier(i)) /\ Cardinality(Earlier(i)) \in Nat
                   /\ Cardinality(Earlier(i)) < n
  <2> TAKE i \in I
  <2>1. IsFiniteSet(I \ {i}) /\ Cardinality(I \ {i}) = n - 1
    BY <1>1, FS_RemoveElement
  <2>2. Earlier(i) \in SUBSET (I \ {i})
    BY <1>2
  <2>3. IsFiniteSet(Earlier(i)) /\ Cardinality(Earlier(i)) <= Cardinality(I \ {i})
    BY <2>1, <2>2, FS_Subset
  <2> QED BY <1>1, <2>1, <2>3, FS_CardinalityType
<1>4. \A i, j \in I : Content!Before(plan, i, j) => Cardinality(Earlier(i)) < Cardinality(Earlier(j))
  <2> SUFFICES ASSUME NEW i \in I, NEW j \in I, Content!Before(plan, i, j)
               PROVE  Cardinality(Earlier(i)) < Cardinality(Earlier(j))
    OBVIOUS
  <2>1. Earlier(i) \in SUBSET Earlier(j)
    BY <1>2
  <2>2. i \in Earlier(j) /\ i \notin Earlier(i)
    BY <1>2
  <2>3. /\ Cardinality(Earlier(i)) <= Cardinality(Earlier(j))
        /\ Cardinality(Earlier(i)) # Cardinality(Earlier(j))
    BY <1>3, <2>1, <2>2, FS_Subset
  <2> HIDE DEF Earlier
  <2> QED BY <1>3, <2>3
<1>5. \A i, j \in I : Content!Before(plan, i, j) => f[i] < f[j]
  <2> SUFFICES ASSUME NEW i \in I, NEW j \in I, Content!Before(plan, i, j) PROVE f[i] < f[j]
    OBVIOUS
  <2>1. f[i] = Cardinality(Earlier(i)) + 1 /\ f[j] = Cardinality(Earlier(j)) + 1
    OBVIOUS
  <2>2. Cardinality(Earlier(i)) \in Nat /\ Cardinality(Earlier(j)) \in Nat
    BY <1>3
  <2>3. Cardinality(Earlier(i)) < Cardinality(Earlier(j))
    BY <1>4
  <2> HIDE DEF f, Earlier
  <2> QED BY <2>1, <2>2, <2>3
<1>6. f \in [I -> 1..n] /\ DOMAIN f = I
  BY <1>1, <1>3
<1>7. \A k \in 1..n : s[k] = plan[CHOOSE i \in I : f[i] = k]
  <2>1. /\ Content!Cardinality(I) = n
        /\ \A i \in I : Content!Cardinality({j \in I : Content!Before(plan, j, i)}) + 1 = f[i]
    BY SameFiniteSets
  <2> SUFFICES ASSUME NEW k \in 1..n PROVE s[k] = plan[CHOOSE i \in I : f[i] = k]
    OBVIOUS
  <2> DEFINE P(i) == Content!Cardinality({j \in I : Content!Before(plan, j, i)}) + 1
  <2>2. s[k] = plan[CHOOSE i \in I : P(i) = k]
    BY <2>1 DEF Content!Sorted
  <2>3. \A i \in I : P(i) = f[i]
    BY <2>1
  <2> HIDE DEF P, f
  <2>4. (CHOOSE i \in I : P(i) = k) = (CHOOSE i \in I : f[i] = k)
    BY <2>3
  <2> QED BY <2>2, <2>4
<1>8. DOMAIN s = 1..n /\ s = [k \in 1..n |-> s[k]]
  BY SameFiniteSets DEF Content!Sorted
<1> HIDE DEF f, Earlier
<1>9. \A i, j \in I : f[i] = f[j] => i = j
  BY <1>1, <1>2, <1>5, <1>6
<1>10. {f[i] : i \in I} = 1..n
  <2>1. f \in Injection(I, 1..n)
    BY <1>6, <1>9 DEF Injection, IsInjective
  <2>2. f \in Surjection(I, 1..n)
    BY <1>1, <2>1, FS_Interval, FS_Injection
  <2> QED BY <1>6, <2>2 DEF Surjection
<1>11. ASSUME NEW k \in 1..n
       PROVE  \E i \in I : f[i] = k /\ s[k] = plan[i]
  <2>1. \E i \in I : f[i] = k
    BY <1>10
  <2>2. (CHOOSE i \in I : f[i] = k) \in I /\ f[CHOOSE i \in I : f[i] = k] = k
    BY <2>1
  <2> QED BY <1>7, <2>2
<1>12. \A i \in I : f[i] \in 1..n /\ s[f[i]] = plan[i]
  <2> TAKE i \in I
  <2>1. f[i] \in 1..n
    BY <1>6
  <2>2. PICK j \in I : f[j] = f[i] /\ s[f[i]] = plan[j]
    BY <1>11, <2>1
  <2> QED BY <1>9, <2>1, <2>2
<1>13. s \in Seq({plan[i] : i \in I}) /\ Len(s) = n
  <2>1. s \in [1..n -> {plan[i] : i \in I}]
    BY <1>8, <1>11
  <2> QED BY <1>1, <2>1
<1>14. /\ \A k \in 1..Len(s) : \E i \in I : s[k] = plan[i]
       /\ \A i \in I : \E k \in 1..Len(s) : s[k] = plan[i]
  BY <1>11, <1>12, <1>13
<1>15. ASSUME NEW k \in 1..n, NEW l \in 1..n, k < l
       PROVE  s[k].priority <= s[l].priority
  <2>1. PICK i \in I : f[i] = k /\ s[k] = plan[i]
    BY <1>11
  <2>2. PICK j \in I : f[j] = l /\ s[l] = plan[j]
    BY <1>11
  <2>3. ~Content!Before(plan, j, i)
    BY <1>1, <1>5, <1>15, <2>1, <2>2
  <2>4. Content!Before(plan, i, j)
    BY <1>1, <1>2, <1>15, <2>1, <2>2, <2>3
  <2>5. plan[i].priority \in Nat /\ plan[j].priority \in Nat
    BY PlansAreFinite
  <2> QED BY <2>1, <2>2, <2>4, <2>5 DEF Content!Before
<1>16. s = <<>> <=> I = {}
  <2>1. n = 0 <=> I = {}
    BY <1>1, FS_EmptySet
  <2> QED BY <1>1, <1>13, <2>1
<1> QED BY <1>13, <1>14, <1>15, <1>16

(* Where in a plan the routes of a request are.                            *)
Places(plan, who, model) ==
  {i \in Content!Fitting(plan, who, model) :
     \A j \in Content!Fitting(plan, who, model) :
       Content!Rank(plan[j], who) <= Content!Rank(plan[i], who)}

LEMMA RouteForSorts ==
  ASSUME NEW plan \in Plans, NEW who, NEW model
  PROVE  \E I \in SUBSET DOMAIN plan :
           /\ I = Places(plan, who, model)
           /\ Content!RouteFor(plan, who, model) = Content!Sorted(plan, I)
<1>1. Content!RouteFor(plan, who, model) = Content!Sorted(plan, Places(plan, who, model))
  BY DEF Content!RouteFor, Places
<1>2. Places(plan, who, model) \in SUBSET DOMAIN plan
  BY DEF Places, Content!Fitting, Content!Enabled
<1> QED BY <1>1, <1>2

(* How close a target is, one scope at a time.                             *)
LEMMA RankIsScope ==
  ASSUME NEW t, NEW who
  PROVE  /\ Content!Rank(t, who) \in 0..3
         /\ Content!Rank(t, who) = 3 <=>
              t.tenant = who.tenant /\ t.project = who.project /\ t.project # None
         /\ Content!Rank(t, who) = 2 <=>
              t.tenant = who.tenant /\ t.project = None /\ t.tenant # None
         /\ Content!Rank(t, who) = 1 <=> t.tenant = None /\ t.project = None
BY DEF Content!Rank

(* The routes are the targets of the narrowest scope that has one.         *)
LEMMA PlacesAreScope ==
  ASSUME NEW plan \in Plans, NEW who, NEW model
  PROVE  LET targets == {plan[i] : i \in DOMAIN plan}
             Open(t) == t.enabled /\ t.model = model
             owned   == {t \in targets : Open(t) /\ t.tenant = who.tenant
                                         /\ t.project = who.project /\ t.project # None}
             tenants == {t \in targets : Open(t) /\ t.tenant = who.tenant
                                         /\ t.project = None /\ t.tenant # None}
             common  == {t \in targets : Open(t) /\ t.tenant = None /\ t.project = None}
         IN {plan[i] : i \in Places(plan, who, model)} =
              IF owned # {} THEN owned ELSE IF tenants # {} THEN tenants ELSE common
<1> DEFINE targets == {plan[i] : i \in DOMAIN plan}
           Open(t) == t.enabled /\ t.model = model
           Of(r) == {t \in targets : Open(t) /\ Content!Rank(t, who) = r}
           F == Content!Fitting(plan, who, model)
           R(i) == Content!Rank(plan[i], who)
           I == Places(plan, who, model)
<1>1. /\ {t \in targets : Open(t) /\ t.tenant = who.tenant
                          /\ t.project = who.project /\ t.project # None} = Of(3)
      /\ {t \in targets : Open(t) /\ t.tenant = who.tenant
                          /\ t.project = None /\ t.tenant # None} = Of(2)
      /\ {t \in targets : Open(t) /\ t.tenant = None /\ t.project = None} = Of(1)
  BY RankIsScope
<1>2. \A r \in 1..3 : Of(r) = {plan[i] : i \in {j \in F : R(j) = r}}
  <2> TAKE r \in 1..3
  <2>1. {j \in F : R(j) = r} = {j \in DOMAIN plan : Open(plan[j]) /\ R(j) = r}
    BY DEF Content!Fitting, Content!Enabled
  <2> QED BY <2>1
<1>3. \A i \in F : R(i) \in 1..3
  BY RankIsScope DEF Content!Fitting
<1>4. I = {i \in F : \A j \in F : R(j) <= R(i)}
  BY DEF Places
<1> HIDE DEF F, R, I
<1>5. CASE Of(3) # {}
  <2>1. \E j \in F : R(j) = 3
    BY <1>2, <1>5
  <2>2. I = {j \in F : R(j) = 3}
    BY <1>3, <1>4, <2>1
  <2> QED BY <1>1, <1>2, <1>5, <2>2 DEF I
<1>6. CASE Of(3) = {} /\ Of(2) # {}
  <2>1. \E j \in F : R(j) = 2
    BY <1>2, <1>6
  <2>2. \A j \in F : R(j) # 3
    BY <1>2, <1>6
  <2>3. I = {j \in F : R(j) = 2}
    BY <1>3, <1>4, <2>1, <2>2
  <2> QED BY <1>1, <1>2, <1>6, <2>3 DEF I
<1>7. CASE Of(3) = {} /\ Of(2) = {}
  <2>1. \A j \in F : R(j) # 3 /\ R(j) # 2
    BY <1>2, <1>7
  <2>2. I = {j \in F : R(j) = 1}
    BY <1>3, <1>4, <2>1
  <2> QED BY <1>1, <1>2, <1>7, <2>2 DEF I
<1> QED BY <1>5, <1>6, <1>7

(* What was tried so far, and why.                                         *)
RoutesInv ==
  /\ ask.plan \in Plans /\ ask.model \in Models
  /\ Len(tried) <= Len(Content!Planned)
  /\ stage = "routing" => tried = <<>>
  /\ stage = "calling" => Len(tried) < Len(Content!Planned)
  /\ \A i \in 1..Len(tried) : tried[i].provider = Content!Planned[i].provider
  /\ \A i \in 1..Len(tried) :
       i < Len(tried) \/ stage = "calling" => Content!Retryable(tried[i].outcome)
  /\ stage \notin {"routing", "calling"} /\ tried # <<>> /\ Len(tried) < Len(Content!Planned)
       => ~Content!Retryable(Content!Last(tried).outcome)

LEMMA PlannedFacts ==
  ASSUME ask.plan \in Plans
  PROVE  /\ Len(Content!Planned) \in Nat /\ \E S : Content!Planned \in Seq(S)
         /\ DOMAIN Content!Planned = 1..Len(Content!Planned)
         /\ Content!Planned # <<>> => 0 < Len(Content!Planned)
<1>1. PICK I \in SUBSET DOMAIN ask.plan : Content!Planned = Content!Sorted(ask.plan, I)
  BY RouteForSorts DEF Content!Planned
<1>2. PICK S : Content!Planned \in Seq(S)
  BY <1>1, SortedFacts
<1> QED BY <1>2

(* A step that asks no provider.                                           *)
LEMMA NothingTried ==
  ASSUME RoutesInv, UNCHANGED <<ask, tried>>,
         stage' = stage \/ {stage, stage'} \intersect {"routing", "calling"} = {}
  PROVE  RoutesInv'
<1>1. Content!Planned' = Content!Planned
  BY DEF Content!Planned
<1> QED BY <1>1 DEF RoutesInv

(* A step that asks one.                                                   *)
LEMMA OneMoreTried ==
  ASSUME RoutesInv, ContentTypes, stage = "calling", stage' # "routing", NEW outcome,
         UNCHANGED ask,
         tried' = Append(tried, [provider |-> Content!Route.provider, outcome |-> outcome]),
         IF stage' = "calling"
         THEN Len(tried) + 1 < Len(Content!Planned) /\ Content!Retryable(outcome)
         ELSE ~ (Len(tried) + 1 < Len(Content!Planned) /\ Content!Retryable(outcome))
  PROVE  RoutesInv'
<1> DEFINE e == [provider |-> Content!Route.provider, outcome |-> outcome]
           n == Len(tried)
<1>1. Content!Planned' = Content!Planned
  BY DEF Content!Planned
<1>2. PICK S : tried \in Seq(S)
  BY DEF ContentTypes
<1>3. /\ n \in Nat /\ Len(tried') = n + 1 /\ tried'[n + 1] = e /\ tried' # <<>>
      /\ \A i \in 1..n : tried'[i] = tried[i]
  <2> DEFINE T == S \union {e}
  <2>1. tried \in Seq(T) /\ e \in T
    BY <1>2, SeqMonotonic
  <2> HIDE DEF T
  <2> QED BY <2>1
<1>4. Content!Last(tried') = e
  BY <1>3 DEF Content!Last
<1>5. e.provider = Content!Planned[n + 1].provider /\ e.outcome = outcome
  BY DEF Content!Route
<1>6. tried' = Append(tried, e)
  OBVIOUS
<1> HIDE DEF e
<1>7. n + 1 <= Len(Content!Planned) /\ Len(Content!Planned) \in Nat
  BY <1>3, PlannedFacts DEF RoutesInv
<1>8. \A i \in 1..n : Content!Retryable(tried[i].outcome)
  BY DEF RoutesInv
<1>9. \A i \in 1..n + 1 : i < n + 1 \/ stage' = "calling" => Content!Retryable(tried'[i].outcome)
  <2> SUFFICES ASSUME NEW i \in 1..n + 1, i < n + 1 \/ stage' = "calling"
               PROVE  Content!Retryable(tried'[i].outcome)
    OBVIOUS
  <2>1. CASE i \in 1..n
    BY <1>3, <1>8, <2>1
  <2>2. CASE i = n + 1
    <3>1. Content!Retryable(outcome)
      BY <1>3, <2>2
    <3> QED BY <1>3, <1>5, <2>2, <3>1
  <2> QED BY <1>3, <2>1, <2>2
<1>10. \A i \in 1..n + 1 : tried'[i].provider = Content!Planned[i].provider
  <2> TAKE i \in 1..n + 1
  <2>1. CASE i \in 1..n
    BY <1>3, <2>1 DEF RoutesInv
  <2>2. CASE i = n + 1
    BY <1>3, <1>5, <2>2
  <2> QED BY <1>3, <2>1, <2>2
<1>11. stage' = "calling" => n + 1 < Len(Content!Planned)
  OBVIOUS
<1>12. stage' # "calling" /\ n + 1 < Len(Content!Planned) => ~Content!Retryable(outcome)
  OBVIOUS
<1>13. ask'.plan \in Plans /\ ask'.model \in Models
  BY DEF RoutesInv
<1> QED BY <1>1, <1>3, <1>4, <1>5, <1>7, <1>9, <1>10, <1>11, <1>12, <1>13 DEF RoutesInv

LEMMA RoutesStep ==
  ASSUME ContentTypes, ContentStages, RoutesInv, Content!Next
  PROVE  RoutesInv'
<1>1. CASE Content!FindRoutes
  <2>1. stage = "routing" /\ UNCHANGED <<ask, tried>> /\ tried = <<>>
    BY <1>1 DEF Content!FindRoutes, RoutesInv
  <2>2. Content!Planned' = Content!Planned
    BY <2>1 DEF Content!Planned
  <2>3. \/ stage' = "ended"
        \/ stage' = "calling" /\ Content!Planned # <<>>
    BY <1>1 DEF Content!FindRoutes
  <2>4. Len(tried) = 0
    BY <2>1
  <2>5. stage' = "calling" => 0 < Len(Content!Planned)
    BY <2>3, PlannedFacts DEF RoutesInv
  <2> QED BY <2>1, <2>2, <2>3, <2>4, <2>5 DEF RoutesInv
<1>2. ASSUME NEW outcome \in Content!Outcomes, Content!CallFails(outcome) PROVE RoutesInv'
  <2>1. /\ stage = "calling" /\ UNCHANGED ask
        /\ tried' = Append(tried, [provider |-> Content!Route.provider, outcome |-> outcome])
        /\ IF Len(tried) + 1 < Len(Content!Planned) /\ Content!Retryable(outcome)
           THEN stage' = "calling" ELSE stage' = "answer"
    BY <1>2 DEF Content!CallFails
  <2> QED BY <2>1, OneMoreTried
<1>3. CASE \/ \E n \in 0..MaxText, reported \in BOOLEAN : Content!CallAnswers(n, reported)
           \/ Content!StreamOpens
  <2>1. /\ stage = "calling" /\ UNCHANGED ask
        /\ tried' = Append(tried, [provider |-> Content!Route.provider, outcome |-> "ok"])
        /\ stage' \in {"inspect", "answer", "relay"}
    BY <1>3 DEF Content!CallAnswers, Content!StreamOpens, Content!Succeeded
  <2>2. ~Content!Retryable("ok")
    BY DEF Content!Retryable
  <2> QED BY <2>1, <2>2, OneMoreTried
<1>4. CASE \/ \E c \in Content!Chunk : Content!ReadChunk(c)
           \/ \E failed \in BOOLEAN : Content!UpstreamEnds(failed)
           \/ Content!TakeEvent
           \/ \E verdict \in {"clear", "redacted", "refused"} : Content!Inspect(verdict)
  <2>1. stage \in {"relay", "inspect"} /\ UNCHANGED <<ask, tried>>
        /\ stage' \in {"relay", "inspect", "flush", "answer", "record"}
    BY <1>4 DEF Content!ReadChunk, Content!UpstreamEnds, Content!TakeEvent, Content!Inspect,
                Content!Idle
  <2> QED BY <2>1, NothingTried
<1>5. CASE Content!SendEvent \/ Content!Encode \/ Content!EncodeDone \/ Content!ClientLeaves
  <2>1. UNCHANGED <<ask, tried, stage>>
    BY <1>5 DEF Content!SendEvent, Content!Encode, Content!EncodeDone, Content!ClientLeaves
  <2> QED BY <2>1, NothingTried
<1>6. CASE Content!SendFails
  <2>1. sending # <<>> /\ UNCHANGED <<ask, tried>> /\ (stage' = stage \/ stage' = "record")
    BY <1>6 DEF Content!SendFails
  <2>2. stage \notin {"routing", "calling"}
    BY <2>1 DEF ContentStages, Unsent
  <2> QED BY <2>1, <2>2, NothingTried
<1>7. CASE \/ Content!Flushed \/ Content!Closed
           \/ \E ok \in BOOLEAN : Content!RecordStream(ok) \/ Content!Answer(ok)
  <2>1. stage \in {"flush", "closing", "record", "answer"} /\ UNCHANGED <<ask, tried>>
        /\ stage' \in {"record", "closing", "ended"}
    BY <1>7 DEF Content!Flushed, Content!Closed, Content!RecordStream, Content!Answer
  <2> QED BY <2>1, NothingTried
<1> QED BY <1>1, <1>2, <1>3, <1>4, <1>5, <1>6, <1>7, Zenon
        DEF Content!Next, Content!Step, Content!Client

(* A request is served by the narrowest scope that has a route for its     *)
(* model, in the order of the priorities, and goes on to the next route    *)
(* after a transient failure, always and only then: for every plan.        *)
THEOREM RoutesAreTriedInOrderHolds == Inference => []RoutesAreTriedInOrder
<1>1. Start => RoutesInv
  <2> SUFFICES ASSUME Start PROVE RoutesInv
    OBVIOUS
  <2>1. stage = "routing" /\ tried = <<>> /\ ask.plan \in Plans /\ ask.model \in Models
    BY DEF Start, Content!Init
  <2>2. Len(tried) = 0 /\ Len(Content!Planned) \in Nat
    BY <2>1, PlannedFacts
  <2> QED BY <2>1, <2>2 DEF RoutesInv
<1>2. RoutesInv /\ ContentInv /\ [Move]_allVars => RoutesInv'
  <2> SUFFICES ASSUME RoutesInv, ContentInv, [Move]_allVars PROVE RoutesInv'
    OBVIOUS
  <2>1. Content!Next \/ UNCHANGED contentVars
    BY DEF Move, allVars
  <2>2. CASE Content!Next
    BY <2>2, RoutesStep DEF ContentInv
  <2>3. CASE UNCHANGED contentVars
    BY <2>3, NothingTried DEF contentVars
  <2> QED BY <2>1, <2>2, <2>3
<1>3. RoutesInv /\ ContentInv => RoutesAreTriedInOrder
  <2> SUFFICES ASSUME RoutesInv, ContentInv PROVE Content!RoutesAreTriedInOrder
    BY DEF RoutesAreTriedInOrder
  <2> DEFINE plan == ask.plan
             who == ask.who
             targets == {plan[i] : i \in DOMAIN plan}
             Open(t) == t.enabled /\ t.model = ask.model
             owned   == {t \in targets : Open(t) /\ t.tenant = who.tenant
                                         /\ t.project = who.project /\ t.project # None}
             tenants == {t \in targets : Open(t) /\ t.tenant = who.tenant
                                         /\ t.project = None /\ t.tenant # None}
             common  == {t \in targets : Open(t) /\ t.tenant = None /\ t.project = None}
             scope   == IF owned # {} THEN owned ELSE IF tenants # {} THEN tenants ELSE common
             p == Content!Planned
  <2>1. plan \in Plans /\ ask.model \in Models
    BY DEF RoutesInv
  <2>2. PICK I \in SUBSET DOMAIN plan : /\ I = Places(plan, who, ask.model)
                                       /\ p = Content!Sorted(plan, I)
    BY <2>1, RouteForSorts DEF Content!Planned
  <2>3. /\ \A k \in 1..Len(p) : \E i \in I : p[k] = plan[i]
        /\ \A i \in I : \E k \in 1..Len(p) : p[k] = plan[i]
        /\ \A k, l \in 1..Len(p) : k < l => p[k].priority <= p[l].priority
        /\ p = <<>> <=> I = {}
    <3>1. p = Content!Sorted(plan, I) /\ I \in SUBSET DOMAIN plan
      BY <2>2
    <3> HIDE DEF p
    <3>2. \A k \in 1..Len(p) : \E i \in I : p[k] = plan[i]
      BY <2>1, <3>1, SortedFacts
    <3>3. \A i \in I : \E k \in 1..Len(p) : p[k] = plan[i]
      BY <2>1, <3>1, SortedFacts
    <3>4. \A k, l \in 1..Len(p) : k < l => p[k].priority <= p[l].priority
      BY <2>1, <3>1, SortedFacts
    <3>5. p = <<>> <=> I = {}
      BY <2>1, <3>1, SortedFacts
    <3> QED BY <3>2, <3>3, <3>4, <3>5
  <2>4. {plan[i] : i \in I} = scope
    BY <2>1, <2>2, PlacesAreScope
  <2>5. DOMAIN p = 1..Len(p) /\ DOMAIN tried = 1..Len(tried)
    BY <2>1, PlannedFacts DEF ContentInv, ContentTypes
  <2>6. (ask.model \in Content!ModelAliases(ask.plan, ask.who)) <=> p # <<>>
    <3>1. ASSUME p # <<>>
          PROVE  \E i \in Content!Enabled(plan) : plan[i].model = ask.model
      BY <2>2, <2>3, <3>1 DEF Places, Content!Fitting
    <3> QED BY <2>1, <3>1 DEF Content!ModelAliases, Content!Planned
  <2>7. p # <<>> <=> scope # {}
    <3>1. I # {} <=> scope # {}
      <4> HIDE DEF scope
      <4> QED BY <2>4
    <3> QED BY <2>3, <3>1
  <2>8. {p[k] : k \in DOMAIN p} = scope
    <3>1. {p[k] : k \in DOMAIN p} = {plan[i] : i \in I}
      <4> HIDE DEF p
      <4> QED BY <2>3, <2>5
    <3> QED BY <2>4, <3>1
  <2>9. \A k, l \in DOMAIN p : k < l => p[k].priority <= p[l].priority
    BY <2>3, <2>5
  <2>10. /\ Len(tried) <= Len(p)
         /\ \A i \in DOMAIN tried : tried[i].provider = p[i].provider
         /\ \A i \in DOMAIN tried : i < Len(tried) => Content!Retryable(tried[i].outcome)
         /\ stage = "ended" /\ tried # <<>> /\ Len(tried) < Len(p)
              => ~Content!Retryable(Content!Last(tried).outcome)
    BY <2>5 DEF RoutesInv
  <2>11. \A o : Content!Retryable(o) <=> o \in {"timeout", "transport", "429", "5xx"}
    BY DEF Content!Retryable
  <2> HIDE DEF scope, p
  <2> QED BY <2>6, <2>7, <2>8, <2>9, <2>10, <2>11 DEF scope, p, Content!RoutesAreTriedInOrder
<1> QED BY <1>1, <1>2, <1>3, ContentInvHolds, PTL DEF Inference

=============================================================================
