--------------------------- MODULE OutboxDelivery ----------------------------
(***************************************************************************)
(* Delivery of the billing outbox to a webhook: BillingWorker              *)
(* (crates/gateway-billing/src/lib.rs) in every gatewayd process, the      *)
(* transactions claim_due and finish_delivery                              *)
(* (stores/store-postgres/src/v03.rs) and the administrator's retry        *)
(* (stores/store-postgres/src/admin.rs).                                   *)
(*                                                                         *)
(* A transaction is one action.  A worker may crash or meet an error at    *)
(* every await, and any answer, of the database or of the webhook, may be  *)
(* lost after the statement or the request took effect.                    *)
(***************************************************************************)
EXTENDS Integers, FiniteSets

CONSTANTS
  Events,       \* rows of billing_outbox
  Workers,      \* gatewayd processes
  MaxAttempts,  \* maximum_attempts of the webhook
  NoEvent

ASSUME OutboxAssumption ==
  /\ MaxAttempts \in Nat \ {0}
  /\ NoEvent \notin Events
  /\ IsFiniteSet(Workers)

VARIABLES
  \* billing_outbox, billing_delivery_attempts, billing_webhooks
  attempts,   \* attempt_count
  due,        \* events with next_attempt_at <= now()
  delivered,  \* events with a delivered_at
  logged,     \* number of rows of billing_delivery_attempts
  usable,     \* is the webhook enabled, with a secret_ref?
  \* the workers
  pc,
  task,       \* the claimed event
  answer,     \* did the webhook answer with a success?
  \* What the properties compare with; no action reads these.
  received,   \* requests that reached the webhook
  accepted    \* events that the webhook took in

outbox == <<attempts, due, delivered, logged>>
remote == <<received, accepted>>
vars   == <<outbox, usable, pc, task, answer, remote>>

Phases == {"idle", "secret", "send", "finish"}

Init ==
  /\ attempts = [e \in Events |-> 0]
  /\ due = Events
  /\ delivered = {}
  /\ logged = [e \in Events |-> 0]
  /\ usable = TRUE
  /\ pc = [w \in Workers |-> "idle"]
  /\ task = [w \in Workers |-> NoEvent]
  /\ answer = [w \in Workers |-> FALSE]
  /\ received = [e \in Events |-> 0]
  /\ accepted = {}

-----------------------------------------------------------------------------
(* The rows that claim_due selects.                                        *)
Claimable(e) ==
  /\ usable /\ e \in due /\ e \notin delivered
  /\ attempts[e] < MaxAttempts

(* claim_due: the attempt is counted, and the next one scheduled, before   *)
(* anything is sent.  The commit may go unheard.                           *)
Claim(w, e, heard) ==
  /\ pc[w] = "idle" /\ Claimable(e)
  /\ attempts' = [attempts EXCEPT ![e] = @ + 1]
  /\ due' = due \ {e}
  /\ IF heard THEN /\ pc' = [pc EXCEPT ![w] = "secret"]
                   /\ task' = [task EXCEPT ![w] = e]
              ELSE UNCHANGED <<pc, task>>
  /\ UNCHANGED <<delivered, logged, usable, answer, remote>>

(* SecretService::expose.                                                  *)
Expose(w) ==
  /\ pc[w] = "secret"
  /\ pc' = [pc EXCEPT ![w] = "send"]
  /\ UNCHANGED <<outbox, usable, task, answer, remote>>

(* The POST: it arrives or not, the webhook takes the event in or not, the *)
(* worker hears of it before its timeout or not.                           *)
Send(w, arrives, takes, hears) ==
  /\ pc[w] = "send"
  /\ takes => arrives
  /\ hears => takes
  /\ received' =
       IF arrives THEN [received EXCEPT ![task[w]] = @ + 1] ELSE received
  /\ accepted' = IF takes THEN accepted \union {task[w]} ELSE accepted
  /\ answer' = [answer EXCEPT ![w] = hears]
  /\ pc' = [pc EXCEPT ![w] = "finish"]
  /\ UNCHANGED <<outbox, usable, task>>

(* delivered_at=CASE WHEN $2 THEN now() ELSE delivered_at END.             *)
DeliveredAfter(e, ok) == IF ok THEN delivered \union {e} ELSE delivered

(* finish_delivery.                                                        *)
Finish(w) ==
  /\ pc[w] = "finish"
  /\ logged' = [logged EXCEPT ![task[w]] = @ + 1]
  /\ delivered' = DeliveredAfter(task[w], answer[w])
  /\ pc' = [pc EXCEPT ![w] = "idle"]
  /\ task' = [task EXCEPT ![w] = NoEvent]
  /\ answer' = [answer EXCEPT ![w] = FALSE]
  /\ UNCHANGED <<attempts, due, usable, remote>>

(* The process dies, the secret is not there or a statement fails: the     *)
(* delivery is forgotten; the claim stays counted.                         *)
Abandon(w) ==
  /\ pc[w] # "idle"
  /\ pc' = [pc EXCEPT ![w] = "idle"]
  /\ task' = [task EXCEPT ![w] = NoEvent]
  /\ answer' = [answer EXCEPT ![w] = FALSE]
  /\ UNCHANGED <<outbox, usable, remote>>

-----------------------------------------------------------------------------
(* Mutant: only a delivery that was finished is scheduled again.           *)
PassTimeIfLogged(e) ==
  /\ e \notin due /\ logged[e] = attempts[e]
  /\ due' = due \union {e}
  /\ UNCHANGED <<attempts, delivered, logged, usable, pc, task, answer,
                 remote>>

(* The delay, 2^attempt_count seconds, has passed.  It may be shorter than *)
(* the request of the worker that holds the event.                         *)
PassTime(e) ==
  /\ e \notin due
  /\ due' = due \union {e}
  /\ UNCHANGED <<attempts, delivered, logged, usable, pc, task, answer,
                 remote>>

(* retry_billing.                                                          *)
Retry(e) ==
  /\ e \notin delivered
  /\ due' = due \union {e}
  /\ UNCHANGED <<attempts, delivered, logged, usable, pc, task, answer,
                 remote>>

(* The operator enables or disables the webhook.                           *)
Toggle ==
  /\ usable' = ~usable
  /\ UNCHANGED <<outbox, pc, task, answer, remote>>

-----------------------------------------------------------------------------
ClaimAny(w) == \E e \in Events : Claim(w, e, TRUE)

Work(w) ==
  \/ ClaimAny(w) \/ Expose(w) \/ Finish(w)
  \/ \E arrives, takes, hears \in BOOLEAN : Send(w, arrives, takes, hears)

Next ==
  \/ \E w \in Workers : \/ Work(w) \/ Abandon(w)
                        \/ \E e \in Events : Claim(w, e, FALSE)
  \/ \E e \in Events : PassTime(e) \/ Retry(e)
  \/ Toggle

Spec == Init /\ [][Next]_vars

(* BillingWorker::run loops for ever, its requests have a timeout, and     *)
(* clocks advance.                                                         *)
Fairness ==
  /\ \A w \in Workers : WF_vars(Work(w))
  /\ \A e \in Events : WF_vars(PassTime(e))

FairSpec == Spec /\ Fairness

-----------------------------------------------------------------------------
(* Every variable has its type.                                            *)
TypeOK ==
  /\ attempts \in [Events -> 0 .. MaxAttempts]
  /\ logged \in [Events -> Nat] /\ received \in [Events -> Nat]
  /\ due \subseteq Events /\ delivered \subseteq Events
  /\ accepted \subseteq Events
  /\ usable \in BOOLEAN
  /\ pc \in [Workers -> Phases]
  /\ task \in [Workers -> Events \union {NoEvent}]
  /\ answer \in [Workers -> BOOLEAN]

(* claim_due counts before it sends: crashes, lost answers, overlapping    *)
(* workers and retries by hand included, a webhook gets an event at most   *)
(* maximum_attempts times, and no attempt is logged that was not counted.  *)
AttemptsAreBounded ==
  \A e \in Events : received[e] <= MaxAttempts /\ logged[e] <= attempts[e]

(* finish_delivery: an event marked as delivered was taken in.             *)
DeliveredWasTaken == delivered \subseteq accepted

(* A delivered event stays delivered, even if a slower worker reports a    *)
(* failure of the same event later, and it is not claimed again.           *)
DeliveredIsFinal ==
  [][\A e \in delivered : e \in delivered' /\ attempts'[e] = attempts[e]]_vars

(* A crash between claim and delivery loses nothing: while the webhook     *)
(* stays usable every event is delivered or uses up its attempts.          *)
EventsAreSettled ==
  <>[]usable =>
    \A e \in Events : <>(e \in delivered \/ attempts[e] = MaxAttempts)

=============================================================================
