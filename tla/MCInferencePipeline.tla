------------------------- MODULE MCInferencePipeline -------------------------
(***************************************************************************)
(* Instances of Inference for TLC.                                         *)
(* "ledger": requests meet only in the list of a reconciler, which it      *)
(* works off one by one, so a single request is taken through everything:  *)
(* as a plain call and as a stream, with a TTL that covers its call and    *)
(* one that does not, three routes, two processes and two webhooks.        *)
(* "content": every plan of at most two targets.                           *)
(***************************************************************************)
EXTENDS Inference

CONSTANTS q, g, h, old, late

HomeOnFirst == [r \in Requests |-> g]

(* A target of everybody, one of the tenant, and those of the project, one *)
(* of which is disabled.                                                   *)
Target(t, p, name, rank, on) ==
  [tenant |-> t, project |-> p, provider |-> name, model |-> "m",
   priority |-> rank, enabled |-> on]

Targets ==
  {Target(None, None, "openai", 2, TRUE), Target("t", None, "gemini", 1, TRUE),
   Target("t", "p", "openai", 2, TRUE), Target("t", "p", "anthropic", 1, TRUE),
   Target("t", "p", "anthropic", 2, FALSE)}

UpToTwoTargets == {<<x>> : x \in Targets} \union {<<x, y>> : x \in Targets, y \in Targets}

OneTenant == {[tenant |-> "t", project |-> "p"], [tenant |-> "t", project |-> None]}
TwoModels == {"m", "other"}
OwnDialect == [x \in {"openai", "anthropic", "gemini"} |-> x]

(* What a stream goes through does not depend on how it was routed: two    *)
(* plans open one at once, and one after a call that fails.                *)
Openai == Target("t", "p", "openai", 2, TRUE)
StreamPlans ==
  {<<Openai>>, <<Openai, Openai>>, <<Openai, Target("t", "p", "anthropic", 1, TRUE)>>}

(* The part that does not run has one way to look.                         *)
ChosenStart ==
  /\ Start
  /\ part = "ledger" =>
       ask = [who |-> [tenant |-> "t", project |-> None], model |-> "other",
              plan |-> <<Target(None, None, "openai", 2, TRUE)>>,
              call |-> "chat", guarded |-> FALSE, include |-> FALSE]
  /\ part = "content" /\ Content!Streamed(ask) =>
       ask.plan \in StreamPlans /\ ask.model = "m" /\ ask.who.project = "p"

InferenceOfChosen == ChosenStart /\ [][Move]_allVars /\ Progress

=============================================================================
