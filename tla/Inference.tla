------------------------------ MODULE Inference ------------------------------
(***************************************************************************)
(* The two views of an inference request.  "ledger": InferencePipeline,    *)
(* what becomes of its reservation and its usage.  "content": Completion,  *)
(* what it asks of its providers and what its client gets.  They share no  *)
(* variable, so a behaviour runs one of the two.                           *)
(***************************************************************************)
EXTENDS InferencePipeline, Sequences

CONSTANTS Plans, Principals, Models, Dialect, None, MaxChunks, MaxText, Capacity

VARIABLES part, ask, stage, tried, text, reports, chunks, ready, held, usage,
          status, sending, channel, receiver, frames, account, shown

Content == INSTANCE Completion WITH pc <- stage

ASSUME ContentAssumption == Content!CompletionAssumption

contentVars == <<ask, stage, tried, text, reports, chunks, ready, held, usage,
                 status, sending, channel, receiver, frames, account, shown>>
allVars == <<part, vars, contentVars>>

(* What the part that does not run looks like.                             *)
LedgerRests ==
  /\ streams = {} /\ ttlCovers = TRUE
  /\ reservations = {} /\ expired = {} /\ outbox = {}
  /\ events = [r \in Requests |-> NoEvent]
  /\ enabled = OldWebhooks
  /\ pc = [r \in Requests |-> "done"]
  /\ route = [r \in Requests |-> 1]
  /\ result = [r \in Requests |-> "none"]
  /\ listed = [x \in Gateways |-> {}]
  /\ served = {}

Start ==
  /\ Content!Init
  /\ \/ part = "ledger" /\ Init
     \/ part = "content" /\ LedgerRests

Move ==
  \/ part = "ledger" /\ Next /\ UNCHANGED <<part, contentVars>>
  \/ part = "content" /\ Content!Next /\ UNCHANGED <<part, vars>>

Step(A) == part = "content" /\ A /\ UNCHANGED <<part, vars>>

Progress ==
  /\ Fairness
  /\ WF_allVars(Step(Content!Step))
  /\ WF_allVars(Step(Content!Client))

Inference == Start /\ [][Move]_allVars /\ Progress

RoutesAreTriedInOrder == Content!RoutesAreTriedInOrder
ClientGetsTheText == Content!ClientGetsTheText
DeliveredIsCharged == Content!DeliveredIsCharged

(* RequestSettles, where the content runs.                                 *)
RequestSettles == part = "content" => Content!RequestSettles

=============================================================================
