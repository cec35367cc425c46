-------------------------- MODULE ProviderActivation --------------------------
(***************************************************************************)
(* What becomes of a provider that an administrator creates: create_       *)
(* provider (gateway-server admin.rs) answers and leaves activate_provider *)
(* behind, which waits for reconcile_runtime to take the provider up, asks *)
(* it for its health and its models, and stores both; it tries twelve      *)
(* times.  Administrators may ask for either as well, and the monitor of   *)
(* gatewayd records the health of the providers it was started with.       *)
(*                                                                         *)
(* Time is counted in quarters of a second.  Statements and answers of a   *)
(* provider that is up are taken to come at once; whatever else goes wrong *)
(* or is changed meanwhile is one of the "troubles".                       *)
(***************************************************************************)
EXTENDS Naturals

CONSTANT MaxTroubles   \* bound: failures and changes

VARIABLES
  row,        \* the provider's row in admin_resources
  own,        \* whether it is of the tenant of the administrator's session
  adapter,    \* whether the adapter implements health_check
  upstream,   \* what GET /models answers
  served,     \* whether the running service knows the provider
  until,      \* time to the next tick of reconcile_runtime
  job,        \* activate_provider
  answer,     \* what another check or listing was told and has yet to store
  mirrored,   \* whether the table providers has the row
  health,     \* provider_health.status
  models,     \* body.available_models of the row
  troubles    \* failures and changes so far

observed == <<mirrored, health, models>>
vars == <<row, own, adapter, upstream, served, until, job, answer, observed, troubles>>

(* Mutant: half as many attempts.                                          *)
HalfTheAttempts == 6

Attempts == 12
Pause == 3
Interval == 20

NoJob == [stage |-> "none", attempt |-> 0, wait |-> 0, status |-> "none",
          healthy |-> FALSE, synced |-> FALSE]
Over == {"none", "complete", "incomplete"}
Working == job.stage \notin Over
At(stage) == job.stage = stage

Live == row \in {"enabled", "disabled"}

Init ==
  /\ row = "absent" /\ job = NoJob /\ answer = "none"
  /\ own \in BOOLEAN
  /\ adapter \in {"openai", "other"}
  /\ upstream \in {"models", "empty", "down"}
  /\ served = FALSE
  /\ until \in 0..Interval
  /\ mirrored = FALSE /\ health = "none" /\ models = "none"
  /\ troubles = 0

Trouble == troubles < MaxTroubles /\ troubles' = troubles + 1

-----------------------------------------------------------------------------
(* The surroundings.                                                       *)

CreateProvider ==
  /\ row = "absent"
  /\ row' = "enabled"
  /\ job' = [NoJob EXCEPT !.stage = "check"]
  /\ UNCHANGED <<own, adapter, upstream, served, until, answer, observed, troubles>>

(* The row is disabled, enabled or retired.                                *)
ChangeProvider ==
  /\ Live
  /\ row' \in {"enabled", "disabled", "retired"} \ {row}
  /\ Trouble
  /\ UNCHANGED <<own, adapter, upstream, served, until, job, answer, observed>>

UpstreamChanges ==
  /\ upstream' \in {"models", "empty", "down"} \ {upstream}
  /\ Trouble
  /\ UNCHANGED <<row, own, adapter, served, until, job, answer, observed>>

(* A tick of reconcile_runtime; the rows may not build.                    *)
Reconcile ==
  /\ until = 0
  /\ until' = Interval
  /\ \/ served' = (row = "enabled") /\ UNCHANGED troubles
     \/ served' = served /\ Trouble
  /\ UNCHANGED <<row, own, adapter, upstream, job, answer, observed>>

(* A quarter of a second: no step that is due is left behind.              *)
Pass ==
  /\ until > 0
  /\ \/ ~Working \/ job.wait > 0
     \/ upstream = "down" /\ job.stage \in {"health", "models"}
  /\ until' = until - 1
  /\ job' = IF job.wait > 0 THEN [job EXCEPT !.wait = @ - 1] ELSE job
  /\ UNCHANGED <<row, own, adapter, upstream, served, answer, observed, troubles>>

-----------------------------------------------------------------------------
(* What a provider answers and what is stored of it.                       *)

(* ProviderRegistry::check_health: only one adapter has a health_check, and*)
(* whatever fails is "unhealthy".                                          *)
Health ==
  CASE adapter # "openai" -> "unknown"
    [] adapter = "openai" /\ upstream # "down" -> "healthy"
    [] OTHER -> "unhealthy"

(* record_provider_health: the row is mirrored unless it is retired; the   *)
(* health refers to the mirror.                                            *)
Stored(status) ==
  /\ Live \/ mirrored
  /\ mirrored' = TRUE
  /\ health' = status
  /\ UNCHANGED models

(* cache_provider_models, for the tenant of the administrator's session.   *)
CacheModels ==
  /\ Live /\ own
  /\ models' = "listed"
  /\ UNCHANGED <<mirrored, health>>

-----------------------------------------------------------------------------
(* activate_provider.                                                      *)

Become(next) == job' = next
Unstored == UNCHANGED observed
Surroundings == <<row, own, adapter, upstream, served, until, answer>>

(* check_provider: the service is looked up first.                         *)
CheckHealth ==
  /\ At("check")
  /\ Become(IF served THEN [job EXCEPT !.stage = "health"]
            ELSE [job EXCEPT !.stage = "list", !.healthy = FALSE])
  /\ Unstored
  /\ UNCHANGED <<Surroundings, troubles>>

HealthAnswers ==
  /\ At("health")
  /\ Become([job EXCEPT !.stage = "record", !.status = Health])
  /\ Unstored
  /\ UNCHANGED <<Surroundings, troubles>>

RecordHealth ==
  /\ At("record")
  /\ Become([job EXCEPT !.stage = "list", !.status = "none",
                        !.healthy = (job.status = "healthy")])
  /\ Stored(job.status)
  /\ UNCHANGED <<Surroundings, troubles>>

(* list_provider_models, unless an earlier attempt stored the models.      *)
ListModels ==
  /\ At("list")
  /\ Become([job EXCEPT !.stage = IF served /\ ~job.synced THEN "models" ELSE "end"])
  /\ Unstored
  /\ UNCHANGED <<Surroundings, troubles>>

ModelsAnswer ==
  /\ At("models")
  /\ Become([job EXCEPT !.stage = IF upstream = "models" THEN "cache" ELSE "end"])
  /\ Unstored
  /\ UNCHANGED <<Surroundings, troubles>>

Cache ==
  /\ At("cache")
  /\ IF Live /\ own
     THEN Become([job EXCEPT !.stage = "end", !.synced = TRUE]) /\ CacheModels
     ELSE Become([job EXCEPT !.stage = "end"]) /\ Unstored
  /\ UNCHANGED <<Surroundings, troubles>>

(* A statement fails.                                                      *)
StatementFails ==
  /\ \/ At("record") /\ Become([job EXCEPT !.stage = "list", !.status = "none",
                                           !.healthy = FALSE])
     \/ At("cache") /\ Become([job EXCEPT !.stage = "end"])
  /\ Trouble
  /\ Unstored
  /\ UNCHANGED Surroundings

(* The end of an attempt: done, or a pause, or the last one.               *)
EndAttempt ==
  /\ At("end")
  /\ Become(
       IF job.healthy /\ job.synced THEN [NoJob EXCEPT !.stage = "complete"]
       ELSE IF job.attempt + 1 = Attempts THEN [NoJob EXCEPT !.stage = "incomplete"]
       ELSE [job EXCEPT !.stage = "sleep", !.attempt = @ + 1, !.wait = Pause])
  /\ Unstored
  /\ UNCHANGED <<Surroundings, troubles>>

Wake ==
  /\ At("sleep") /\ job.wait = 0
  /\ Become([job EXCEPT !.stage = "check"])
  /\ Unstored
  /\ UNCHANGED <<Surroundings, troubles>>

(* The task ends with the process, whose successor starts on a tick.       *)
Restart ==
  /\ job' = [NoJob EXCEPT !.stage = IF Working THEN "incomplete" ELSE @]
  /\ Trouble
  /\ served' = FALSE /\ until' = 0 /\ answer' = "none"
  /\ UNCHANGED <<row, own, adapter, upstream, observed>>

-----------------------------------------------------------------------------
(* An administrator's check_provider or provider_models, or the monitor;   *)
(* the answer is stored later, or never.                                   *)
AskAgain ==
  /\ answer = "none" /\ served
  /\ answer' \in {Health} \union IF upstream = "down" THEN {} ELSE {"listed"}
  /\ UNCHANGED <<row, own, adapter, upstream, served, until, job, observed, troubles>>

StoreAgain ==
  /\ answer # "none"
  /\ IF answer = "listed" THEN CacheModels ELSE Stored(answer)
  /\ answer' = "none"
  /\ UNCHANGED <<row, own, adapter, upstream, served, until, job, troubles>>

AskedInVain ==
  /\ answer # "none"
  /\ answer' = "none"
  /\ UNCHANGED <<row, own, adapter, upstream, served, until, job, observed, troubles>>

Next ==
  \/ CreateProvider \/ ChangeProvider \/ UpstreamChanges \/ Reconcile \/ Pass
  \/ CheckHealth \/ HealthAnswers \/ RecordHealth \/ ListModels \/ ModelsAnswer
  \/ Cache \/ StatementFails \/ EndAttempt \/ Wake \/ Restart
  \/ AskAgain \/ StoreAgain \/ AskedInVain

Spec == Init /\ [][Next]_vars

-----------------------------------------------------------------------------
(* activate_provider outlasts a whole interval of reconcile_runtime: a     *)
(* provider whose adapter reports its health, created by an administrator  *)
(* of its tenant, is recorded healthy and has its models when the task     *)
(* ends, unless something failed or was changed while it ran.              *)
ActivationCompletes ==
  (/\ own /\ adapter = "openai" /\ upstream = "models" /\ troubles = 0
   /\ job.stage \in {"complete", "incomplete"})
  => job.stage = "complete" /\ models = "listed" /\ mirrored

=============================================================================
