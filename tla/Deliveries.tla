----------------------------- MODULE Deliveries ------------------------------
(***************************************************************************)
(* The two outboxes of a gatewayd process: that of billing events          *)
(* (OutboxDelivery) and that of authentication e-mail (Registration).      *)
(* They share no row and no task, so a behaviour lets one of them run      *)
(* while the other rests, and no interleaving is lost.                     *)
(***************************************************************************)
EXTENDS OutboxDelivery

CONSTANTS Emails, Requests, Nothing

VARIABLES
  part,
  pending, account, mail, handler, asked, sending, inbox, vouched

Mail == INSTANCE Registration WITH pc <- handler

ASSUME MailAssumption == Mail!RegistrationAssumption

mailVars == <<pending, account, mail, handler, asked, sending, inbox, vouched>>
allVars  == <<part, vars, mailVars>>

BillingRests ==
  /\ attempts = [e \in Events |-> 0] /\ due = Events
  /\ delivered = Events /\ accepted = Events
  /\ logged = attempts /\ received = attempts
  /\ usable = TRUE
  /\ pc = [w \in Workers |-> "idle"]
  /\ task = [w \in Workers |-> NoEvent]
  /\ answer = [w \in Workers |-> FALSE]

Start ==
  /\ Mail!Init
  /\ \/ part = "billing" /\ Init
     \/ part = "mail" /\ BillingRests

Move ==
  \/ part = "billing" /\ Next /\ UNCHANGED <<part, mailVars>>
  \/ part = "mail" /\ Mail!Next /\ UNCHANGED <<part, vars>>

Deliveries ==
  /\ Start /\ [][Move]_allVars
  /\ Fairness /\ Mail!Fairness

(* The properties of the e-mail queue.                                     *)
TokenVouchesForPassword == Mail!TokenVouchesForPassword
MailsSettle == Mail!MailsSettle

=============================================================================
