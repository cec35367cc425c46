-------------------------- MODULE InferencePipeline --------------------------
(***************************************************************************)
(* One inference request from its quota reservation to its usage event:    *)
(* GatewayService::execute, execute_inference, stream, stream_inference    *)
(* and embed (crates/gateway-core/src/lib.rs), the reservation reconciler  *)
(* of every gateway process (apps/gatewayd/src/lib.rs) and what            *)
(* finalize_usage writes, the rows of the billing outbox included.         *)
(*                                                                         *)
(* A request tries its routes in order, each under a reservation of its    *)
(* own <<q, i>>.  A handler can be dropped at any await when its client    *)
(* goes away, and a process can die; a stream is recorded by a task of its *)
(* own, which only the death of the process stops.  Every store call can   *)
(* fail, before or after it took effect.  Whether quota is available is    *)
(* the business of QuotaStore: here a reservation is granted or refused.   *)
(***************************************************************************)
EXTENDS Naturals, FiniteSets

CONSTANTS
  Requests,
  Gateways,        \* gateway processes on one database
  Home,            \* the process that handles each request
  Routes,          \* length of the route plan: the provider and its fallbacks
  Webhooks,        \* billing webhooks of the tenant
  OldWebhooks,     \* those enabled all along; the others come and go
  Batch            \* LIMIT of what a reconciler loads at a tick

ASSUME PipelineAssumption ==
  /\ Home \in [Requests -> Gateways]
  /\ Routes \in Nat \ {0}
  /\ OldWebhooks \subseteq Webhooks
  /\ Batch \in Nat \ {0}

VARIABLES
  \* chosen once
  streams,       \* requests that ask for a stream
  ttlCovers,     \* is QUOTA_RESERVATION_TTL longer than REQUEST_TIMEOUT?
  \* PostgreSQL
  reservations,  \* rows of quota_reservations
  expired,       \* those with expires_at <= now()
  events,        \* the row of usage_events for each request
  outbox,        \* rows of billing_outbox written by finalize_usage
  enabled,       \* webhooks with enabled = true
  \* the gateway processes
  pc,            \* where the handler of each request is
  route,         \* the index of the route it is on
  result,        \* what the call gave it
  listed,        \* reservations each reconciler has loaded and not yet done
  \* What the properties compare with; no action reads these.
  served         \* requests whose client received model output

database == <<reservations, expired, events, outbox, enabled>>
given == <<streams, ttlCovers>>
vars == <<given, database, pc, route, result, listed, served>>

Attempts == Requests \X (1 .. Routes)
Kinds    == {"reported", "failed", "estimate"}
Usage    == [attempt : 1 .. Routes, kind : Kinds]
NoEvent  == [kind |-> "none"]
Row      == [webhook : Webhooks, request : Requests, payload : Usage]

CallPhases == {"dispatch", "calling", "release"}
Phases == CallPhases \union {"reserve", "record", "streaming", "done", "lost"}
Results == {"none", "answer", "blocked", "error"}

Init ==
  /\ streams \in SUBSET Requests /\ ttlCovers \in BOOLEAN
  /\ reservations = {} /\ expired = {} /\ outbox = {}
  /\ events = [q \in Requests |-> NoEvent]
  /\ enabled = OldWebhooks
  /\ pc = [q \in Requests |-> "reserve"]
  /\ route = [q \in Requests |-> 1]
  /\ result = [q \in Requests |-> "none"]
  /\ listed = [g \in Gateways |-> {}]
  /\ served = {}

Current(q) == <<q, route[q]>>
Goto(q, p) == pc' = [pc EXCEPT ![q] = p]

-----------------------------------------------------------------------------
(* finalize_usage, one transaction.                                        *)

(* Mutant: DO UPDATE where the code has DO NOTHING.                        *)
OverwriteEvent(q, e) == events' = [events EXCEPT ![q] = e]

(* INSERT INTO usage_events ... ON CONFLICT (request_id) DO NOTHING.       *)
AppendEvent(q, e) ==
  events' = IF events[q] = NoEvent THEN [events EXCEPT ![q] = e] ELSE events

(* Mutant: without the unique index on (webhook_id, source_request_id).    *)
RowsWithoutIndex(q, e) ==
  outbox' = outbox \union [webhook : enabled, request : {q}, payload : {e}]

(* One row per enabled webhook, ON CONFLICT (webhook_id,                   *)
(* source_request_id) DO NOTHING.  The payload is the event of this call,  *)
(* whether or not it was the one that was inserted.                        *)
AddOutboxRows(q, e) ==
  LET sent == {row.webhook : row \in {x \in outbox : x.request = q}}
  IN outbox' = outbox \union
       [webhook : enabled \ sent, request : {q}, payload : {e}]

DeleteReservation(r) ==
  /\ reservations' = reservations \ {r}
  /\ expired' = expired \ {r}

Finalize(r, kind) ==
  LET e == [attempt |-> r[2], kind |-> kind]
  IN /\ AppendEvent(r[1], e)
     /\ AddOutboxRows(r[1], e)
     /\ DeleteReservation(r)
     /\ UNCHANGED enabled

-----------------------------------------------------------------------------
(* The request is refused before or by the reservation: authorize,         *)
(* inspection, an unknown model, the quota, or a failed store call.        *)
Refuse(q) ==
  /\ pc[q] = "reserve"
  /\ Goto(q, "done")
  /\ UNCHANGED <<given, database, route, result, listed, served>>

(* QuotaService::reserve.  A second reservation of the same request would  *)
(* violate UNIQUE (request_id).  "ok" is FALSE when the COMMIT succeeds    *)
(* but its answer is lost, or the handler is dropped while it waits.       *)
Reserve(q, ok) ==
  /\ pc[q] = "reserve"
  /\ ~ \E r \in reservations : r[1] = q
  /\ reservations' = reservations \union {Current(q)}
  /\ Goto(q, IF ok THEN "dispatch" ELSE "done")
  /\ UNCHANGED <<given, expired, events, outbox, enabled, route, result, listed, served>>

(* self.provider_for(route)?: a provider that is not registered ends the   *)
(* request; its reservation is left to the reconciler.                     *)
Dispatch(q, registered) ==
  /\ pc[q] = "dispatch"
  /\ Goto(q, IF registered THEN "calling" ELSE "done")
  /\ UNCHANGED <<given, database, route, result, listed, served>>

(* The provider answers in time.  An answer is inspected before it is      *)
(* recorded; an upstream stream is handed to a task of its own.            *)
CallSucceeds(q, inspection) ==
  /\ pc[q] = "calling"
  /\ Goto(q, IF q \in streams THEN "streaming" ELSE "record")
  /\ result' = [result EXCEPT ![q] = inspection]
  /\ UNCHANGED <<given, database, route, listed, served>>

(* Mutant: off by one, a fallback is sought after the last route.          *)
CallFailsPastLast(q, retryable) ==
  /\ pc[q] = "calling"
  /\ Goto(q, IF route[q] <= Routes /\ retryable THEN "release" ELSE "record")
  /\ result' = [result EXCEPT ![q] = "error"]
  /\ UNCHANGED <<given, database, route, listed, served>>

(* Timeout, transport error or an error status.  "retryable" is the        *)
(* routing crate's verdict.                                                *)
CallFails(q, retryable) ==
  /\ pc[q] = "calling"
  /\ Goto(q, IF route[q] < Routes /\ retryable THEN "release" ELSE "record")
  /\ result' = [result EXCEPT ![q] = "error"]
  /\ UNCHANGED <<given, database, route, listed, served>>

CallEnds(q) ==
  \/ \E i \in {"answer", "blocked"} : CallSucceeds(q, i)
  \/ \E retryable \in BOOLEAN : CallFails(q, retryable)

(* record_or_release while retrying: the reservation goes and the next     *)
(* route is tried.                                                         *)
Release(q) ==
  /\ pc[q] = "release"
  /\ DeleteReservation(Current(q))
  /\ route' = [route EXCEPT ![q] = @ + 1]
  /\ Goto(q, "reserve")
  /\ UNCHANGED <<given, events, outbox, enabled, result, listed, served>>

(* The DELETE fails, or succeeds without the handler hearing of it: the    *)
(* request ends with a metering error.                                     *)
ReleaseFails(q) ==
  /\ pc[q] = "release"
  /\ DeleteReservation(Current(q)) \/ UNCHANGED <<reservations, expired>>
  /\ Goto(q, "done")
  /\ UNCHANGED <<given, events, outbox, enabled, route, result, listed,
                 served>>

RecordedKind(q) == IF result[q] = "error" THEN "failed" ELSE "reported"

(* record: the answer is only returned once the usage is stored.           *)
Record(q) ==
  /\ pc[q] = "record"
  /\ Finalize(Current(q), RecordedKind(q))
  /\ Goto(q, "done")
  /\ served' = IF result[q] = "answer" THEN served \union {q} ELSE served
  /\ UNCHANGED <<given, route, result, listed>>

RecordFails(q) ==
  /\ pc[q] = "record"
  /\ \/ Finalize(Current(q), RecordedKind(q))
     \/ UNCHANGED database
  /\ Goto(q, "done")
  /\ UNCHANGED <<given, route, result, listed, served>>

(* consume_stream: an item of the upstream goes to the client.             *)
StreamItem(q) ==
  /\ pc[q] = "streaming"
  /\ q \notin served
  /\ served' = served \union {q}
  /\ UNCHANGED <<given, database, pc, route, result, listed>>

(* The stream is over, or broken, or nobody reads it any more: in every    *)
(* case its usage is recorded.                                             *)
StreamEnds(q) ==
  /\ pc[q] = "streaming"
  /\ Goto(q, "record")
  /\ UNCHANGED <<given, database, route, result, listed, served>>

(* The client disconnects and axum drops the handler's future; the task of *)
(* a stream is not part of it.                                             *)
ClientGone(q) ==
  /\ pc[q] \in CallPhases \union {"reserve", "record"}
  /\ ~(pc[q] = "record" /\ q \in streams /\ result[q] # "error")
  /\ Goto(q, "lost")
  /\ UNCHANGED <<given, database, route, result, listed, served>>

(* A gateway process dies and is started again.                            *)
Crash(g) ==
  LET live == {q \in Requests : Home[q] = g /\ pc[q] \notin {"done", "lost"}}
  IN /\ live # {} \/ listed[g] # {}
     /\ pc' = [q \in Requests |-> IF q \in live THEN "lost" ELSE pc[q]]
     /\ listed' = [listed EXCEPT ![g] = {}]
     /\ UNCHANGED <<given, database, route, result, served>>

-----------------------------------------------------------------------------
(* The call of a route is bounded by REQUEST_TIMEOUT; a stream may outlast *)
(* it, since it is read no faster than the client reads.                   *)
CallIsRunning(q) ==
  pc[q] \in CallPhases \/ (pc[q] = "record" /\ q \notin streams)

(* Mutant: expires_at does not wait for the call.                          *)
ExpireAnyTime(r) ==
  /\ r \in reservations \ expired
  /\ expired' = expired \union {r}
  /\ UNCHANGED <<given, reservations, events, outbox, enabled, pc, route, result,
                 listed, served>>

Expire(r) ==
  /\ r \in reservations \ expired
  /\ ttlCovers => ~CallIsRunning(r[1])
  /\ expired' = expired \union {r}
  /\ UNCHANGED <<given, reservations, events, outbox, enabled, pc, route, result,
                 listed, served>>

(* reconcile_expired, a tick: SELECT ... WHERE expires_at <= $1 ORDER BY   *)
(* expires_at LIMIT 100.  Which of them were due first is not modelled.    *)
ListExpired(g) ==
  /\ listed[g] = {} /\ expired # {}
  /\ \E batch \in SUBSET expired :
       /\ Cardinality(batch) <= Batch
       /\ batch = expired \/ Cardinality(batch) = Batch
       /\ listed' = [listed EXCEPT ![g] = batch]
  /\ UNCHANGED <<given, database, pc, route, result, served>>

(* Mutant: the reservation is thrown away without being charged.           *)
ReconcileByRelease(g, r) ==
  /\ r \in listed[g]
  /\ listed' = [listed EXCEPT ![g] = @ \ {r}]
  /\ DeleteReservation(r)
  /\ UNCHANGED <<given, events, outbox, enabled, pc, route, result, served>>

(* The estimate of a listed reservation is charged, whatever became of the *)
(* reservation meanwhile.                                                  *)
Reconcile(g, r) ==
  /\ r \in listed[g]
  /\ listed' = [listed EXCEPT ![g] = @ \ {r}]
  /\ Finalize(r, "estimate")
  /\ UNCHANGED <<given, pc, route, result, served>>

(* A failed finalize is logged; the next tick lists the reservation again. *)
ReconcileFails(g, r) ==
  /\ r \in listed[g]
  /\ listed' = [listed EXCEPT ![g] = @ \ {r}]
  /\ UNCHANGED <<given, database, pc, route, result, served>>

(* An administrator enables or disables a billing webhook.                 *)
ToggleWebhook(w) ==
  /\ enabled' = IF w \in enabled THEN enabled \ {w} ELSE enabled \union {w}
  /\ UNCHANGED <<given, reservations, expired, events, outbox, pc, route, result,
                 listed, served>>

-----------------------------------------------------------------------------
Handle(q) ==
  \/ Refuse(q) \/ (\E ok \in BOOLEAN : Reserve(q, ok))
  \/ (\E registered \in BOOLEAN : Dispatch(q, registered))
  \/ CallEnds(q) \/ Release(q) \/ ReleaseFails(q)
  \/ Record(q) \/ RecordFails(q)

Next ==
  \/ \E q \in Requests : Handle(q) \/ StreamItem(q) \/ StreamEnds(q)
                           \/ ClientGone(q)
  \/ \E g \in Gateways : Crash(g) \/ ListExpired(g)
  \/ \E r \in Attempts : Expire(r)
  \/ \E g \in Gateways, r \in Attempts : Reconcile(g, r) \/ ReconcileFails(g, r)
  \/ \E w \in Webhooks \ OldWebhooks : ToggleWebhook(w)

Spec == Init /\ [][Next]_vars

(* A handler goes on (its calls time out), clocks advance, the reconcilers *)
(* tick, and the database does not fail every time.  Nothing obliges a     *)
(* client to read the rest of a stream.                                    *)
Fairness ==
  /\ \A q \in Requests : WF_vars(Handle(q))
  /\ \A r \in Attempts : WF_vars(Expire(r))
  /\ \A g \in Gateways :
       /\ WF_vars(ListExpired(g))
       /\ \A r \in Attempts : SF_vars(Reconcile(g, r))

FairSpec == Spec /\ Fairness

-----------------------------------------------------------------------------
(* Every variable has its type.                                            *)
TypeOK ==
  /\ reservations \subseteq Attempts /\ expired \subseteq reservations
  /\ events \in [Requests -> Usage \union {NoEvent}]
  /\ outbox \subseteq Row
  /\ enabled \subseteq Webhooks
  /\ pc \in [Requests -> Phases]
  /\ route \in [Requests -> 1 .. Routes]
  /\ result \in [Requests -> Results]
  /\ listed \in [Gateways -> SUBSET Attempts]
  /\ served \subseteq Requests

(* A client that received model output has a usage event, or a reservation *)
(* that the reconciler will charge: disconnects, crashes and failing       *)
(* stores give nothing away.  The event names the route that served it;    *)
(* where a reservation may expire during its call, an event written by the *)
(* reconciler may not.                                                     *)
ServedIsAccounted ==
  \A q \in served :
    /\ events[q] # NoEvent \/ \E r \in reservations : r[1] = q
    /\ events[q] # NoEvent /\ (ttlCovers \/ events[q].kind # "estimate")
         => events[q].attempt = route[q]

(* finalize_usage writes ledger and outbox together: a webhook enabled all *)
(* along is sent each usage event, once, exactly as the ledger has it.     *)
BillingFollowsLedger ==
  \A w \in OldWebhooks, q \in Requests :
    {x.payload : x \in {y \in outbox : y.webhook = w /\ y.request = q}}
      = {events[q]} \ {NoEvent}

(* The pipeline keeps the promises of UsageLedger.                         *)
AccountOf(q) ==
  IF events[q] # NoEvent THEN "charged"
  ELSE IF \E r \in reservations : r[1] = q THEN "open"
  ELSE "free"

Ledger == INSTANCE UsageLedger
  WITH account <- [q \in Requests |-> AccountOf(q)],
       late <- ~ttlCovers

ImplementsLedger == Ledger!FairSpec

=============================================================================
