--------------------------- MODULE Administration ----------------------------
(***************************************************************************)
(* The administration of resources, in four parts.  "credentials":         *)
(* administrators at their providers.  "runtime": one administrator and    *)
(* the task that builds the service.  "routes": transactions on the        *)
(* fallback order (ModelRoutes).  "activation": what follows the creation  *)
(* of a provider (ProviderActivation).  None of them depends on what the   *)
(* others leave out, so a behaviour runs one and the others rest.          *)
(***************************************************************************)
EXTENDS RuntimeConfiguration

CONSTANTS
  Sole,           \* the administrator of the part "runtime"
  RouteIds, Aliases, Asked, Unlimited, Limits, MaxTime, MaxTroubles

VARIABLES part, rank, limit, time, tx, crossed
VARIABLES
  provider, own, adapter, upstream, served, until, job, answer, mirrored, health,
  models, troubles

Ranks == INSTANCE ModelRoutes WITH Routes <- RouteIds, row <- rank

Activation == INSTANCE ProviderActivation WITH row <- provider

ASSUME RanksAssumption == Ranks!RoutesAssumption

ranksVars == <<rank, limit, time, tx, crossed>>
activationVars ==
  <<provider, own, adapter, upstream, served, until, job, answer, mirrored, health,
    models, troubles>>
allVars == <<part, vars, ranksVars, activationVars>>

Start ==
  /\ Init /\ Ranks!Init /\ Activation!Init
  /\ part \in {"credentials", "runtime", "routes", "activation"}
  /\ part # "routes" => limit = Unlimited
  /\ part # "activation" =>
       own /\ adapter = "openai" /\ upstream = "models" /\ until = 0

Build == part = "runtime" /\ Reconcile /\ UNCHANGED <<part, ranksVars, activationVars>>

Move ==
  \/ /\ part = "credentials"
     /\ \E q \in Requests : Administrate(q)
     /\ UNCHANGED <<part, ranksVars, activationVars>>
  \/ /\ part = "runtime"
     /\ Administrate(Sole) \/ (\E r \in Routes : RetireRoute(r)) \/ Restart
     /\ UNCHANGED <<part, ranksVars, activationVars>>
  \/ Build
  \/ part = "routes" /\ Ranks!Next /\ UNCHANGED <<part, vars, activationVars>>
  \/ part = "activation" /\ Activation!Next /\ UNCHANGED <<part, vars, ranksVars>>

Administration == Start /\ [][Move]_allVars /\ WF_allVars(Build)

(* ConfigurationSettles, where the task runs.                              *)
RuntimeSettles == part = "runtime" => ConfigurationSettles

PrioritiesAreRanks == Ranks!PrioritiesAreRanks
ActivationCompletes == Activation!ActivationCompletes

=============================================================================
