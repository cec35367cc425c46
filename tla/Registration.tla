---------------------------- MODULE Registration ----------------------------
(***************************************************************************)
(* Self-service registration: WebAuthService::signup, resend_verification, *)
(* verify and login (crates/gateway-auth/src/web.rs), the rows of          *)
(* pending_registrations and users they write (store-postgres identity.rs) *)
(* and the e-mail queue with its worker (apps/gatewayd/src/lib.rs).        *)
(*                                                                         *)
(* Every sign-up or resend request draws one random token, and every       *)
(* sign-up brings a password of its own, so both are named by the request. *)
(* The attempt limiter, input validation and a registration mode other     *)
(* than "public" end a request before it does anything and are left out.   *)
(***************************************************************************)
EXTENDS Naturals, FiniteSets

CONSTANTS
  Emails,
  Requests,      \* sign-up and resend requests
  Workers,       \* e-mail workers, one per gateway process
  MaxAttempts,   \* 10 in the code
  Nothing        \* no row, no mail

VARIABLES
  \* PostgreSQL
  pending,    \* the row of pending_registrations of each address
  account,    \* the row of users of each address
  mail,       \* rows of auth_email_outbox, one per token
  \* the gateway processes and the world
  pc, asked,  \* where each request is, and what it asked for
  sending,    \* the mail each worker has claimed
  inbox,      \* tokens whose mail the provider has accepted
  \* What the properties compare with; no action reads it.
  vouched     \* the password a token stood beside when it was stored

vars == <<pending, account, mail, pc, asked, sending, inbox, vouched>>

Ops      == {"signup", "resend"}
Pending  == [password : Requests, token : Requests, live : BOOLEAN]
(* An account made by an invitation or by bootstrap.                       *)
Outside  == [password |-> Nothing, token |-> Nothing]
Account  == [password : Requests, token : Requests]
MailRow  == [state : {"due", "leased", "delivered"}, attempts : 0 .. MaxAttempts]

RegistrationAssumption ==
  /\ MaxAttempts \in Nat \ {0}
  /\ Nothing \notin Requests \union Account

Init ==
  /\ pending = [e \in Emails |-> Nothing]
  /\ account = [e \in Emails |-> Nothing]
  /\ mail = [t \in Requests |-> Nothing]
  /\ pc = [r \in Requests |-> "idle"]
  /\ asked = [r \in Requests |-> Nothing]
  /\ sending = [w \in Workers |-> Nothing]
  /\ inbox = {}
  /\ vouched = [t \in Requests |-> Nothing]

Goto(r, p) == pc' = [pc EXCEPT ![r] = p]
Email(r)   == asked[r].email

-----------------------------------------------------------------------------
(* The handlers.                                                           *)

Receive(r, op, e) ==
  /\ pc[r] = "idle"
  /\ asked' = [asked EXCEPT ![r] = [op |-> op, email |-> e]]
  /\ Goto(r, op)
  /\ UNCHANGED <<pending, account, mail, sending, inbox, vouched>>

(* signup: an address that has an account is answered like any other, and  *)
(* nothing else happens.                                                   *)
CheckUser(r) ==
  /\ pc[r] = "signup"
  /\ Goto(r, IF account[Email(r)] = Nothing THEN "store" ELSE "done")
  /\ UNCHANGED <<pending, account, mail, asked, sending, inbox, vouched>>

(* Mutant: the upsert leaves the token of the earlier sign-up in place.    *)
UpsertKeepsToken(r) ==
  LET row == pending[Email(r)] IN
  [password |-> r, live |-> TRUE,
   token |-> IF row = Nothing THEN r ELSE row.token]

(* create_pending_registration: ON CONFLICT (email) DO UPDATE replaces the *)
(* password and the token of an earlier sign-up together.                  *)
Upsert(r) == [password |-> r, token |-> r, live |-> TRUE]

StorePending(r) ==
  /\ pc[r] = "store"
  /\ pending' = [pending EXCEPT ![Email(r)] = Upsert(r)]
  /\ vouched' = [vouched EXCEPT ![r] = r]
  /\ Goto(r, "enqueue")
  /\ UNCHANGED <<account, mail, asked, sending, inbox>>

(* resend_verification: refresh_pending_registration replaces the token    *)
(* and the expiry, an expired row included; without a row the request is   *)
(* answered and nothing is sent.                                           *)
RefreshPending(r) ==
  /\ pc[r] = "resend"
  /\ LET e == Email(r) IN
     IF pending[e] = Nothing
     THEN Goto(r, "done") /\ UNCHANGED <<pending, vouched>>
     ELSE /\ pending' = [pending EXCEPT ![e].token = r, ![e].live = TRUE]
          /\ vouched' = [vouched EXCEPT ![r] = pending[e].password]
          /\ Goto(r, "enqueue")
  /\ UNCHANGED <<account, mail, asked, sending, inbox>>

(* AuthEmailQueue::enqueue, a statement of its own after the commit.       *)
Enqueue(r) ==
  /\ pc[r] = "enqueue"
  /\ mail' = [mail EXCEPT ![r] = [state |-> "due", attempts |-> 0]]
  /\ Goto(r, "done")
  /\ UNCHANGED <<pending, account, asked, sending, inbox, vouched>>

(* The process dies, the client disconnects, or a store call fails.        *)
RequestDies(r) ==
  /\ pc[r] \notin {"idle", "done", "died"}
  /\ Goto(r, "died")
  /\ UNCHANGED <<pending, account, mail, asked, sending, inbox, vouched>>

(* verify_pending_registration, one transaction under the lock of the      *)
(* pending row.  It is asked with a token that arrived by mail.  A user    *)
(* with that address fails the INSERT, and the transaction is rolled back. *)
Verify(t) ==
  /\ t \in inbox
  /\ LET e == Email(t) IN
     /\ pending[e] # Nothing
     /\ pending[e].token = t /\ pending[e].live
     /\ account[e] = Nothing
     /\ account' = [account EXCEPT ![e] =
                      [password |-> pending[e].password, token |-> t]]
     /\ pending' = [pending EXCEPT ![e] = Nothing]
  /\ UNCHANGED <<mail, pc, asked, sending, inbox, vouched>>

(* now() passes expires_at.                                                *)
PendingExpires(e) ==
  /\ pending[e] # Nothing /\ pending[e].live
  /\ pending' = [pending EXCEPT ![e].live = FALSE]
  /\ UNCHANGED <<account, mail, pc, asked, sending, inbox, vouched>>

(* register_invitation or bootstrap_account takes the address.             *)
RegisterElsewhere(e) ==
  /\ account[e] = Nothing
  /\ account' = [account EXCEPT ![e] = Outside]
  /\ UNCHANGED <<pending, mail, pc, asked, sending, inbox, vouched>>

-----------------------------------------------------------------------------
(* The worker.  The lease of a claim and the delay after a failure are     *)
(* both next_attempt_at; neither waits for the worker that holds the mail, *)
(* whose HTTP client has no timeout.                                       *)

Claim(w, t) ==
  /\ sending[w] = Nothing
  /\ mail[t] # Nothing
  /\ mail[t].state = "due" /\ mail[t].attempts < MaxAttempts
  /\ mail' = [mail EXCEPT ![t] = [state |-> "leased", attempts |-> @.attempts + 1]]
  /\ sending' = [sending EXCEPT ![w] = t]
  /\ UNCHANGED <<pending, account, pc, asked, inbox, vouched>>

(* Mutant: a lease lapses only while its worker is alive.                  *)
NextAttemptOfTheLiving(t) ==
  /\ mail[t] # Nothing /\ mail[t].state = "leased"
  /\ \E w \in Workers : sending[w] = t
  /\ mail' = [mail EXCEPT ![t].state = "due"]
  /\ UNCHANGED <<pending, account, pc, asked, sending, inbox, vouched>>

NextAttemptDue(t) ==
  /\ mail[t] # Nothing /\ mail[t].state = "leased"
  /\ mail' = [mail EXCEPT ![t].state = "due"]
  /\ UNCHANGED <<pending, account, pc, asked, sending, inbox, vouched>>

(* deliver, then delivered: the row keeps neither nonce nor ciphertext.    *)
(* The provider drops a second mail with the same Idempotency-Key.  The    *)
(* error of delivered() is ignored ("marked" is FALSE).                    *)
Deliver(w, marked) ==
  /\ sending[w] # Nothing
  /\ inbox' = inbox \union {sending[w]}
  /\ mail' = IF marked THEN [mail EXCEPT ![sending[w]].state = "delivered"]
                       ELSE mail
  /\ sending' = [sending EXCEPT ![w] = Nothing]
  /\ UNCHANGED <<pending, account, pc, asked, vouched>>

(* failed(): next_attempt_at moves, whatever has become of the row since.  *)
(* A mail that another worker delivered meanwhile stays delivered.         *)
RetryLater(t) ==
  IF mail[t].state = "delivered" THEN mail
  ELSE [mail EXCEPT ![t].state = "leased"]

(* The provider refuses, its answer is lost after it took the mail, or the *)
(* ciphertext cannot be opened.                                            *)
DeliveryFails(w, taken) ==
  /\ sending[w] # Nothing
  /\ inbox' = IF taken THEN inbox \union {sending[w]} ELSE inbox
  /\ mail' = RetryLater(sending[w])
  /\ sending' = [sending EXCEPT ![w] = Nothing]
  /\ UNCHANGED <<pending, account, pc, asked, vouched>>

WorkerDies(w) ==
  /\ sending[w] # Nothing
  /\ sending' = [sending EXCEPT ![w] = Nothing]
  /\ UNCHANGED <<pending, account, mail, pc, asked, inbox, vouched>>

-----------------------------------------------------------------------------
Handle(r) ==
  CheckUser(r) \/ StorePending(r) \/ RefreshPending(r) \/ Enqueue(r)

Answer(w) == \E ok \in BOOLEAN : Deliver(w, ok) \/ DeliveryFails(w, ok)

Next ==
  \/ \E r \in Requests :
       \/ \E op \in Ops, e \in Emails : Receive(r, op, e)
       \/ Handle(r) \/ RequestDies(r) \/ Verify(r) \/ NextAttemptDue(r)
  \/ \E e \in Emails : PendingExpires(e) \/ RegisterElsewhere(e)
  \/ \E w \in Workers :
       (\E t \in Requests : Claim(w, t)) \/ Answer(w) \/ WorkerDies(w)

Spec == Init /\ [][Next]_vars

(* Clocks advance, an idle worker polls every two seconds, and the         *)
(* provider answers at last; the last is an assumption about the network,  *)
(* as the client of the worker has no timeout.                             *)
Fairness ==
  /\ \A t \in Requests : WF_vars(NextAttemptDue(t))
  /\ \A w \in Workers :
       WF_vars(\E t \in Requests : Claim(w, t)) /\ WF_vars(Answer(w))

FairSpec == Spec /\ Fairness

-----------------------------------------------------------------------------
(* Every variable has its type.                                            *)
TypeOK ==
  /\ pending \in [Emails -> Pending \union {Nothing}]
  /\ account \in [Emails -> Account \union {Nothing, Outside}]
  /\ mail \in [Requests -> MailRow \union {Nothing}]
  /\ pc \in [Requests -> Ops \union {"idle", "store", "enqueue", "done", "died"}]
  /\ asked \in [Requests -> [op : Ops, email : Emails] \union {Nothing}]
  /\ sending \in [Workers -> Requests \union {Nothing}]
  /\ inbox \subseteq Requests
  /\ vouched \in [Requests -> Requests \union {Nothing}]

(* A token activates the password it was stored with: however sign-ups and *)
(* resends of one address overtake each other, the link of an earlier mail *)
(* never turns a later password into an account.                           *)
TokenVouchesForPassword ==
  \A e \in Emails :
    account[e] \in Account => vouched[account[e].token] = account[e].password

(* Every queued mail is delivered or has used up its attempts, although    *)
(* workers die, leases lapse under a slow delivery, and a failure that is  *)
(* booked late moves the next attempt of a mail somebody else handles.     *)
MailsSettle ==
  \A t \in Requests :
    mail[t] # Nothing ~>
      /\ mail[t] # Nothing
      /\ mail[t].state = "delivered" \/ mail[t].attempts = MaxAttempts

=============================================================================
