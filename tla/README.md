# Verification of the gateway

TLA+ models of the gateway's own core logic, the TLC runs that check them on
small instances, and proofs that TLAPS checks for every instance. Everything
here is translated from the Rust code under `crates/`, `stores/`, `providers/`,
`transports/`, `apps/gatewayd` and from the SQL of `migrations/`; file and line
of every definition are in `PROJECT.json` ("map").

    tlc -workers 2 -config Quota.cfg MCQuotaStore     # a run
    tlapm QuotaStoreProofs.tla                        # the proofs of a module

## 1. The system

The gateway is a multi-tenant proxy for model providers and MCP tool servers.
Several `gatewayd` processes share one PostgreSQL database and one Redis. There
is no leader: everything that must be exclusive is a row lock, a unique index, a
conditional UPDATE or a Lua script.

| Component | State it keeps | Operations | Talks to |
|---|---|---|---|
| authentication (`gateway-auth`, `gateway-keys`, principals in `gateway-server`) | cache of the issuer's signing keys; `virtual_keys`, `web_sessions` | authenticate by token, key or session; bind to a project | every handler |
| quota ledger (`store-postgres/src/lib.rs`) | `usage_events`, `quota_reservations`, `virtual_keys`, `tenant_plan_profiles` | reserve_quota, finalize_usage, release_reservation, expired_reservations, revoke_virtual_key | quota and metering services, reconciler |
| usage counters (`store-redis`) | counters per minute and day, concurrency slots, each with a time to live | reserve, release (Lua scripts) | quota service, MCP invocation |
| inference pipeline (`gateway-core`, `gateway-routing`, `providers/`) | none of its own: a handler per request and a task per stream | execute, stream, execute_inference, stream_inference, embed, with fallback over the route plan | policy, inspection, quota, adapters, metering |
| reservation reconciler (`gatewayd`) | the list it loaded | every 30 s: charge the estimate of each expired reservation | quota ledger |
| billing webhooks (`gateway-billing`, `v03.rs`) | `billing_outbox`, `billing_delivery_attempts` | enqueue (in finalize_usage), claim_due, deliver_once, finish_delivery, retry_billing | the customer's webhook |
| approvals (`gateway-approval`, `v03.rs`) | `approval_requests`, `approval_executions` | create, decide, expire, claim_execution, complete_execution, fail_execution | MCP invocation, administrators |
| MCP invocation (`gateway-mcp`) | none | invoke: policy, inspection, approval, quota, call, inspection, usage | all of the above |
| inference and MCP policy | rows per scope | resolve (fold from tenant to user), authorize, action | pipeline, invocation |
| security policy, inspection, incidents | rows per scope, events, incidents | resolve, assess, decide, redact, store findings | pipeline, invocation |
| runtime configuration (`gatewayd`) | the current `GatewayService`; `admin_resources`, `secret_material` | providers and routes are created, updated, retired; rebuild and swap every 5 s; activation of a new provider | every handler |
| identity: organisations, members, invitations, sessions | rows and token hashes | bootstrap, register, verify, log in, invite, accept, change, remove | console, e-mail |
| authentication e-mail (`gatewayd`) | `email_outbox` | enqueue, claim, delivered, failed | mail provider |
| MCP registry, sessions, transports | caches of sessions and tools; `mcp_servers`, `mcp_tools`; the pipes of a child process | register, update, delete, refresh, annotate, invoke | MCP servers |
| resources under a plan (`gateway-server`) | servers, security patterns, virtual keys and their secrets | create, change, delete within the plan's capacity; suspension and restoration | console, API |
| pricing, audit, observability, configuration, in-memory store, console, deployment | see `PROJECT.json` | | |

How they interact. An inference request authenticates, is authorized by the
resolved policy, is inspected, and then tries the routes of its plan. For each
route it reserves in Redis (rate and slot) and in PostgreSQL (tokens), calls the
provider, and ends in `record` (finalize_usage: the event, the outbox rows and
the deletion of the reservation in one transaction) or, if another route is
left and the error is retryable, in `release`. Clients disconnect, which drops
the handler at whatever `await` it is in; processes die. The reconciler charges
what is left behind. A billing worker per process delivers the outbox. An MCP
call goes the same way with an approval in front where policy asks for it.
Beside them administrators change rows, and every process rebuilds its service
from them.

What is hard:

* **statements interleave**: reserve_quota is one transaction at READ COMMITTED,
  so each of its SELECTs sees another snapshot, and only its row locks order it;
  most handlers have no transaction around them at all;
* **everything can stop at every await**: disconnects, crashes, lost answers of
  a COMMIT, of a Lua script, of a webhook;
* **late actors**: a reconciler with an old list, a worker whose lease ran out,
  a release of a slot whose key expired, a decision on an approval that expires,
  an answer of the issuer that is older than the cache it replaces;
* **what was allowed before the action**: sessions, roles, invitations and
  capacity are read in one statement and used in another;
* **retries**: fallbacks under the same request id, retried approvals with
  different idempotency keys, webhooks and e-mails with overlapping attempts;
* **absence as a value**: an empty allowlist, a missing limit, an unknown risk.

The hazards are in `PROJECT.json` ("hazards"), each at its line with the
properties aimed at it.

## 2. The modules

| Module | Models | State and actions |
|---|---|---|
| `QuotaStore` | the PostgreSQL ledger of one tenant | One request moves through the *statements* of reserve_quota (`LockPlan`, `ReadPlanUsed`, `CheckPlan`, `LockOwner`, ... `InsertReservation`), because each has a snapshot of its own. Locks follow from the phase (`HoldsPlan`, `HoldsOwner`); finalize_usage waits for a JWT owner's row lock because its INSERT references `tenants` (`TenantRowLocked`). finalize_usage, release_reservation, the reconciler's charge, revoke_virtual_key are one action each. The sums are running totals per account. |
| `InferencePipeline` | a request over all its routes, with ledger rows as a set | `Reserve`, `CallEnds`, `Release`, `Record`, the stream's items and its task, disconnect, crash, failing statements that did or did not take effect, `ListExpired` (at most `Batch` at a time) and `Reconcile` of each process, webhooks that are toggled. |
| `UsageLedger` | abstract: what accounting promises about one request | `free -> open -> charged` or back to `free`; nothing stays open for ever. |
| `Completion` | what a request asks of its providers and what its client gets | `Planned` (scope and order of the targets), what each dialect reports, the loop with `retryable`, the inspected and the plain stream consumer with their channel, the encoder's frames, the usage that is recorded. |
| `ApprovalExecution` | invoke's approval half, ApprovalService, the approval tables | one action per statement (`Create`, `Load`, `Claim`, `Compare`, `Complete`, `Fail`, `StartDecision`, `Decide`, `List`), `Reserve`, `Invoke`, `Inspect` as what can go wrong in between, `Abandon` at every await. |
| `ApprovalLifecycle` | abstract: the life of one approval | decided once, claimed once, settled once. |
| `OutboxDelivery` | claim_due, deliver_once, finish_delivery, retry_billing | `Claim` counts the attempt and sets the next one; `Send` is what the webhook and the network do; `Finish`; `Abandon`; `PassTime` makes an event due again, possibly under a running attempt. |
| `Registration` | sign-up, verification, resending, and the queue of e-mails | the transactions of the identity store; workers with leases of five minutes and ten attempts; tokens wiped on delivery. Invitation mails use the same queue. |
| `QuotaCounters` | the Lua scripts of Redis and their callers | `Reserve` runs a whole script (it is atomic there); each caller brings the limits and the time to live of its own policy; keys expire in `Tick`; answers and releases are lost. |
| `Allowlists` | the operators both policies share | intersection of lists in which empty means "all", lower of optional limits. |
| `ModelPolicy`, `McpPolicy` | resolve as a fold over rows, one row per step | `Apply` (restrict_with), for MCP `Adjust` (the plan) and `Verdict` (what invoke does with the action). |
| `SecurityInspection`, `Redaction` | the inspection of each part of a request under a policy that changes meanwhile | resolution with the plan, inspectors that fail or find, `decide`, redaction of text and JSON, storing of events and incidents. |
| `Admittance` | who a request comes from | JWKS cache with overlapping refreshes and an issuer that rotates; virtual keys; sessions; binding of endpoint, header and credential to a tenant and a project, and the roles that handlers ask for (`Enters`). Time is counted in timeouts of one fetch. |
| `Tenancy` | bootstrap, log-in, organisations, invitations, members | a request is authorized in one statement and acts in others; two row locks (the installation's, the invitation's). |
| `RuntimeConfiguration` | providers, routes and secrets, and the task that rebuilds the service | `StoreSecret`, the transaction that writes a row, the deletion of what was replaced, lost answers; `Reconcile` of every interval. |
| `ModelRoutes` | the order of fallbacks | transactions that renumber the routes of an alias under advisory locks, the plan's limit. The lock is that of the administrator's tenant, so there are two of them (`Locks`). |
| `ProviderActivation` | what follows create_provider | twelve attempts beside the rebuild, health and models stored, other checks of the same provider. |
| `McpRegistry` | sessions and tools of a server | the cache of sessions around `initialize`, refresh and replace_tools, annotations, update and delete. |
| `StdioTransport` | the pipe to a child process | ids, lines, one lock, a deadline that every line starts anew. |
| `PlanResources` | servers, patterns and keys under a plan | handlers as their statements, with the secrets of a server and a service outside that suspends and restores. |
| `Inference`, `Deliveries`, `Admission`, `McpGateway`, `Administration` | compositions without bounds | the models that one run checks, each with the constants it keeps; extended by their MC module and by their proofs, so that both speak of the same definitions. |
| `*Proofs` (8) | theorems | section 5. |
| `MC*` (9) | instances for TLC | requests, keys, costs, rows. |

How they compose. `QuotaStore` and `InferencePipeline` meet in the reservation:
the first decides whether it is granted and treats the rest of the request as
"charged with some usage, released or expired"; the second takes the grant as a
choice and follows the request. `Completion` is the same request seen from its
content, without crashes and reservations. `ApprovalExecution`, `QuotaCounters`,
`McpPolicy`, `SecurityInspection` and `McpRegistry` are the interfaces at which
`invoke` is cut. `RuntimeConfiguration` owns the secrets of providers,
`PlanResources` those of servers; the table is the same and no reference is
shared.

Several MC modules hold more than one model, with a variable `part` that says
which of them runs while the others rest. The models of one module share no
row, no key and no task, so their interleavings would add states and nothing
else.

Variables under the heading "what the properties compare with" (`excess`,
`skew`, `served`, `ran`, `received`, `crossed`, `crowd`, `muddled`, ...) are history: no
guard reads them. Definitions marked *Mutant* are plausible bugs; the runs find
each of them.

## 3. The runs

| Run | Shows |
|---|---|
| `quota` | `JwtWithinLimit`: the JWT owner exceeds its limit only by charges above their reservation, although its check reads two sums, because the foreign key makes finalize_usage wait. `OwnerOvershootExplained`, `PlanOvershootExplained`: every token above a daily limit or the plan's cap is a charge above its reservation or one that committed inside an open check. `ActiveOvershootBounded`: write skew takes a shared concurrent_limit to at most one more per other owner. `ReserveAlwaysEnds`: two locks per transaction never block each other for good. |
| `quota_daily_limit` (violation) | two sums, one charge between them: the limit is exceeded without any charge above its reservation. |
| `pipeline`, ledger | `ServedIsAccounted`: who received model output has an event or a reservation. `BillingFollowsLedger`: the outbox has, for a webhook enabled all along, exactly the ledger. `ImplementsLedger`: with two reconcilers the pipeline refines `UsageLedger!FairSpec`. |
| `pipeline`, content | `RoutesAreTriedInOrder`: narrowest scope first, on only after transient failures. `ClientGetsTheText`: whole and in order or, if inspected, not before it is cleared. `DeliveredIsCharged`, `RequestSettles`. |
| `approvals` | `OneRunPerApproval`, `OnlyApprovedCallsRun`, `ReplayIsOfTheSameCall`, and the refinement of `ApprovalLifecycle`, with clients that send references with unrelated calls. |
| `deliveries` | `EventsAreSettled` of the billing outbox, `MailsSettle` of the e-mail queue; `TokenVouchesForPassword`: a token activates the password it was stored with, whatever sign-ups and resends overtook each other. |
| `admission` | `EveryScopeDecides`: while the allowlists have an entry in common the fold authorizes exactly what every scope authorizes. `SensitiveToolsNeedApproval` under every plan. `LimitsHold` (windows hold, a refusal leaves nothing behind, a slot excludes, whatever limits and times to live its callers bring) and `LostSlotsComeBack`. `EveryScopeIsHeeded`, `PassedIsInspected` of inspection. `RotatedKeyIsForgotten`, `NewKeyIsLearnt` of authentication; `ScopeIsBound`: who is admitted acts for the tenant and project of the endpoint and for the project of the header, and has a role for what the handler does. |
| `model_policy_child` (violation) | two allowlists without a common entry resolve to no restriction. |
| `tenancy` | `InvitationsGrantOnce`: one membership, and none once the revocation was confirmed. `OneGatewayAdmin`: only one bootstrap succeeds. |
| `administration` | `CredentialsAreExact`: live rows keep their secret and, unless something failed, no other is left. `PrioritiesAreRanks`: routes are numbered 1..n unless the last transaction ran beside one under the other lock, and whatever such a race leaves the next undisturbed transaction puts in order. `ActivationCompletes`: the twelve attempts suffice for a healthy provider of one's own tenant unless troubles took them. `RuntimeSettles`: the running service follows the rows or reports that it cannot. |
| `mcp_registry` | `SessionsAreCurrent`, `AnswersMatch`, `StdioRequestsEnd`. `RefreshReplacesTools`: overlapping refreshes lose no tool, and keep none that neither was told of. `PlanCapacityHolds`: n insertions under way at once exceed the plan by at most n - 1 rows, and updates that enable a row come on top. `ChangesAreKept`: nothing that was asked for is lost, but by overlapping changes of a server or under a suspension, and then only until a complete update that nobody disturbs. |
| `mcp_annotations` (violation) | a refresh overwrites what an administrator annotated. |
| `security_child` (violation) | a child scope that names a milder action than the inspector recommends, for a finding its parent does not name, is followed. |

`CHECK_DEADLOCK FALSE` is set in every configuration: requests, calls, foldings
and deliveries end, and nothing is left to do. What must not wait for ever is
stated as a liveness property instead (`ReserveAlwaysEnds`, `RequestSettles`,
`EventsAreSettled`, `MailsSettle`, `LostSlotsComeBack`, `StdioRequestsEnd`).

### Bounds

* `quota`: three requests, two of one owner (a virtual key, or with a JWT) and
  one of the other, limits of two tokens, charges up to two; under a plan of
  two tokens also a midnight. Two requests of one owner are the smallest race
  on a lock. The theorems of section 5 remove the bounds for all but
  `ReserveAlwaysEnds`.
* `pipeline`: one request, plain or a stream, three routes (first, middle,
  last), two processes, a webhook that is always on and one that comes and
  goes; requests share no row and meet only in the list of a reconciler, which
  works it off one by one. The batch (LIMIT 100) never fills in the run, since one
  request holds one reservation; the theorems are for any `Batch`. For the content, plans of at most two of five
  targets that differ in scope, provider, priority and being enabled, and
  streams of two chunks through a channel of one.
* `approvals`: five calls (three identical ones: one that creates, two that
  race for the claim), one approval, two keys, one administrator. Approvals
  share no row; expiry is the second actor on the decision.
* `deliveries`: two events, two workers and two attempts, so that attempts
  overlap and the last one can be the one that is lost; one address, two
  requests that overtake each other, two mail workers.
* `admission`: two tokens, one signing key, a cache of two fetch timeouts, so
  that an older answer can overtake a newer one; two projects of one tenant and
  a second tenant without any, whose members knock at the same endpoints; tokens
  with no role, with one and with two. Three rows with any allowlist of three
  models; two tools under two MCP policies; three callers under two policies
  that differ in limits and times to live, with slots that expire under a
  running call and are refilled; two parts, two security policies and one
  change of them.
* `tenancy`: two users, two organisations, one invitation, two requests.
* `administration`: one provider and one route with three secrets and two
  administrators; two routes of two aliases and up to four transactions, two at
  a time, so that two can race for the rows of a first one and a last one finds
  what the race left; an activation with at most one trouble.
* `mcp_registry`: two tool calls and two versions above the first, two
  sessions; three stdio requests, two lines in the pipe; two resources under a
  plan with room for one and two administrators. Two of them overlap, and one
  repairs what an update under a suspension left; that a third one repairs what
  two overlapping ones left is for `ChangesAreKeptHolds`, which has no bound.

### Fairness

* Quota: weak fairness of the next statement of each open transaction.
  PostgreSQL executes a statement whose locks are free.
* `InferencePipeline`: handlers proceed (every provider call has a timeout),
  time passes, each process lists expired reservations every 30 s (weak), and a
  listed reservation is charged in the end (strong: the store may fail any
  number of times but not for ever, and the loop tries again).
* `Completion`: reqwest's total timeout bounds every read of the provider, so
  consumer and encoder proceed; that a client reads or leaves is an assumption
  about clients.
* `OutboxDelivery`, `Registration`: workers loop for ever, requests have a
  timeout, delays and leases pass. The e-mail client has no timeout of its own,
  so that its request is answered or breaks is an assumption about the network.
  Toggled webhooks and crashes are not fair.
* `QuotaCounters`: the clock ticks, calls end (they have a deadline), release.
* `RuntimeConfiguration`: the interval ticks.
* `StdioTransport`: the tasks of the gateway run; the child need not, and a
  child that talks without end is the exception in `StdioRequestsEnd`.
* `NewKeyIsLearnt` needs none: a fetch that ends leads to a key that is known.

## 4. Disagreements found

With a run and listed in `PROJECT.json` ("findings"): the daily limit is not
atomic (`quota_daily_limit`), a child policy can lift its parent's allowlist
(`model_policy_child`), annotations of administrators do not win
(`mcp_annotations`), a child security policy can weaken its parent
(`security_child`).

Met while modelling, without a run of their own; the models behave as the code.

Quota, metering, approvals:

* `docs/v03-security-gateway.md:27` promises concurrency limits; overlapping
  calls lose their counter when its key expires, and as many again are let in
  (`store-redis/src/lib.rs:111`; the condition in `LimitsHold`).
* `store-postgres/src/lib.rs:271-273` says that the plan's lock "serializes the
  usage + pending reservation check"; finalize_usage does not take it (that is
  the `skew` of `PlanOvershootExplained`).
* `gateway-store/src/lib.rs:14` calls the tenant's limit one "for
  JWT-authenticated traffic"; line 374 of the store compares it with the usage
  of the whole tenant, virtual keys included (`UsedAccount`).
* `gateway-metering/src/lib.rs:105` says a reservation is released "when the
  provider was never reached"; record_or_release (`gateway-core/src/lib.rs:749`)
  releases after timeouts and 5xx answers too.
* `docs/v03-security-gateway.md:29` calls an approval "expiration-bound"; an
  approved request can be claimed any time after `expires_at`
  (`gateway-approval/src/service.rs:133`, `Load`). It also calls it
  "request-hash-bound"; a call that needs no approval but carries the reference
  stores its own result for the claimed execution (`invocation.rs:340`), the
  exception in `ReplayIsOfTheSameCall`.
* `retry_billing` (`admin.rs:684`) answers 202 for an event whose attempts are
  used up, and nothing is sent (`Retry`, `Claimable`).

Policies and inspection:

* `mcp/src/policy.rs:65` replaces a parent's argument restriction by the child's
  instead of intersecting (the condition in `McpPolicy!EveryScopeDecides`), and
  `invocation.rs:142` compares an action with require_approval only, so a tool
  with the action block runs (`Verdict`).
* When one inspector fails and the policy fails open, the verdict is a warning
  even if another inspector's finding demands a block. A finding that cannot be
  stored refuses the request even then. Redaction of JSON leaves numbers and
  keys when it falls back to whole values. An inspected stream above 16 MiB
  ends silently as interrupted.

Completions:

* No adapter implements `stream_infer`, so a streamed `/v1/responses` request
  always fails as unsupported, which is not retryable.
* A missing usage report of Anthropic, Gemini or an embedding is recorded as
  zero tokens and not as an estimate. `[DONE]` follows an error, too.

Configuration and providers:

* The answer to a COMMIT can be lost: the handler then deletes the new secret,
  the row refers to it, and no tenant's configuration is rebuilt until it is
  repaired. The same happens while a route names a retired provider.
* `cache_provider_models` is called with the session's tenant, so a provider
  that a gateway administrator creates for another one never completes its
  activation, nor do adapters without health_check (Anthropic, Gemini).
* The health monitor keeps the providers gatewayd was started with; an older
  check can overwrite a newer one.
* update_resource locks the administrator's tenant, not the route's
  (`admin.rs:347`), and transactions under two locks let ranks collide, until
  the next transaction that meets none (`PrioritiesAreRanks`).

MCP servers and plans:

* A session is kept after an error; two overlapping refreshes may leave the
  union of both lists (`v03.rs:396`, the upper bound of `RefreshReplacesTools`); the initialized notification is sent as a request, so a
  child that does not answer it delays every session by the deadline; each line
  starts the deadline anew, so a talking child holds the lock for ever.
* Capacity is counted without a lock, so insertions that overlap exceed it by
  their number less one, and not at all when a row is enabled again; suspended rows still count. An update reads the *effective* enabled
  and writes it back, so an update under a suspension disables the server for
  good. Changes of a server have no version, and an update of a deleted server
  succeeds. Changing a deleted pattern enables it again. Failures between the
  statements leave secrets nobody refers to.

Authentication and members:

* Overlapping refreshes can bring a withdrawn key back or miss a new one
  (`gateway-auth/src/lib.rs:181`); `RotatedKeyIsForgotten` bounds for how long.
* A store failure counts as an invalid key (401). The project header of a
  session is bound without a check that the project is the tenant's.
* remove_member counts the owners without a lock (`identity.rs:568`); no
  operation makes a second owner, so nothing comes of it today.

## 5. The proofs

Every theorem is about a specification of section 2 and holds for any numbers
of requests, rows, processes and so on. What is assumed of the constants is
named in the module that declares them (`ConstantsAssumption`,
`PipelineAssumption`, `AdmittanceAssumption`, `ResourcesAssumption` and so on), no
stronger than the arguments need it, and TLC evaluates each of them on the
instances of the runs. One theorem has a hypothesis beside that, see `PassedIsInspectedHolds`.

`QuotaStoreProofs`, of `QuotaStore!Spec`, from `ConstantsAssumption`:

* `TypeCorrect` and `OneCheckPerOwnerHolds`.
* `OwnerLimits` (`OwnerOvershootExplained`, `PendingWithinLimit`). The limit is
  not inductive: between its read and its INSERT a transaction relies on what
  it read. `OwnerInv` says what it may still rely on, phase by phase: after
  `ReadUsed` the sum it saw is at most `today` minus what was charged since
  (`OwnerRead`), and after `CheckOwner` there is room for its cost
  (`OwnerRoom`). Both survive the steps of others because the row lock admits
  one open check per owner and because charges inside it go into `skew`.
* `JwtLimit`: for the JWT owner the skew stays zero, as a charge waits for the
  row lock.
* `PlanLimitHolds`: the same argument for the month and the plan's row
  (`PlanRead`, `PlanRoom`), the lock of which is kept to the end.
* `RevokedKeys`: the action property, from "a key past its lock is not revoked".
* `ActiveBounded` (`ActiveOvershootBounded`): a request that has passed its test
  occupies a place before anybody sees its row (`Occupied`). The test compares
  with the active ones alone, so the places are the limit and one more for each
  row under whose lock a request may be ready: the plan's or every owner's.

`InferencePipelineProofs`, of `InferencePipeline!Spec`:

* `ServedIsAccountedHolds` and `BillingFollowsLedgerHolds`, by `AccountInv`: a
  handler between its reservation and its end has the row or its charge
  (`HeldOrCharged`), output was served only while it did (`ServedAreKept`), and
  what is on a reconciler's list is expired, charged or gone (`ListedAreSettled`).
* `LedgerIsImplemented`: `Spec => Ledger!Spec`, the safety half of the run's
  `ImplementsLedger`. Its liveness half needs fairness and stays with TLC.

and of `Inference!Inference`, for any plan, dialect, text, channel and number of
chunks:

* `ClientGetsTheTextHolds`, by `ContentInv`: the pieces of the text lie in order
  along the way to the client. So many are in its frames, the next ones in the
  channel, then those about to be sent, the rest in the chunk that was read last
  (`Flow`, counted by `Carries`). Where the output is inspected nothing is on
  the way before the verdict, and afterwards one piece, the whole content, which
  may be missing only if it is empty, an error is on its way or the gateway gave
  up (`Complete`). The sequence lemmas say what an event at either end does to
  the count, and that `Flush` sends the content once and where it belongs.
* `DeliveredIsChargedHolds`: every report under way says at most what the last
  one said (`ContentUsage`), the text shown is no longer than the text read
  (`ContentShown`), and the account has the last report or else the text
  (`ContentBilled`).
* `RoutesAreTriedInOrderHolds`, for any finite plan whose priorities are natural
  numbers (a vector of `u32`). `Sorted` gives each place of an index set a
  number, how many come before it: by priority, then by place, as a stable sort
  does. That order is total, so the numbers differ, and an injection of n places
  into 1..n reaches every number: the list has each target once, in order
  (`SortedFacts`). The places of the best rank are those of the narrowest scope
  that has a target (`PlacesAreScope`). `RoutesInv`: what was tried is the
  beginning of the list, every outcome before the last is transient, and the
  last one is not if the loop stopped with routes left.

`ApprovalExecutionProofs`, for any approval policy, from `ApprovalAssumption`:

* `OneRunPerApprovalHolds` and `OnlyApprovedCallsRunHolds`, by `ApprovalInv`.
  A call is compared with its approval in `Load` and runs three statements
  later, so the invariant says that the permission still holds
  (`PermittedCalls`: an approved request is never taken back), and that whoever
  may still run, or has run, under an approval is the one that inserted its row
  (`OneHolder`).
* `ReplayIsOfTheSameCallHolds`, from what is stored in completed rows.
* `LifecycleHolds`: the refinement of `ApprovalLifecycle`. It needs that a row
  exists only for an approved request (`RowsAreApproved`), so that an expiry or
  a decision never meets a claimed approval.

`DeliveriesProofs`:

* `AttemptsAreBoundedHolds`, `DeliveredWasTakenHolds`, `DeliveredIsFinalHolds` of
  the billing outbox, for any finite set of workers. The first is a counting
  argument: every worker that holds an event has an attempt of its own that is
  counted and not used yet (`EachHasAnAttempt`).
* `TokensVouch` (`TokenVouchesForPassword`) of sign-ups: a row of
  pending registrations holds the password that its token was stored with
  (`PendingVouches`), and a token is stored only once.

`AdmissionProofs`:

* `EveryScopeDecidesHolds` and `DenialsAndLimitsStayHolds` of `ModelPolicy`, for
  any models, operations, limits and rows. `PolicyInv` says that each field of
  the policy sums up that field of the rows folded so far: lists agree on what
  passes while they are compatible, denials are the union, limits the lowest.
* `SensitiveToolsNeedApprovalHolds` of `McpPolicy`: neither the fold nor the plan
  invents a permission that no row gives.
* `RotatedKeyIsForgottenHolds` of `Admittance`: a withdrawn key may sit in the
  cache, in an answer under way, or in both, and a refresh moves it from one to
  the other. The invariant adds up: the age of the withdrawal and the time left
  to the cache or the fetch that holds the key never exceed the time to live
  and one timeout. `ScopeIsBoundHolds`: `Bind` is the only way to be admitted,
  and it looks at the tenant and project of the endpoint, at the project of the
  header and at the role, for any tenants, projects, roles of tokens and role
  of administrators; a token is for no project, so no endpoint fits it.
* `LimitsHoldAlways` of `QuotaCounters`, by `CountersInv`, for callers that each
  bring limits and a time to live. A window's key outlives the window, so the
  counter never forgets a call that it let in, and the last one let in found it
  below its own limit; a slot's key
  may expire under a running call, so the invariant of a slot adds up the time
  left to its key and the age of the call, and only a call that releases in
  time excludes others (`SlotsExclude`).
* `EveryScopeIsHeededHolds` of `SecurityInspection`: being at least as severe
  (`AtLeast`) is an order that every step of the fold goes up in.
* `PassedIsInspectedHolds`: a decision, once made, is the one of the rules it was
  made with, and everything between the decision and its use keeps it
  (`DecisionInv`). The theorem supposes `RedactionHides`: redaction leaves
  nothing of what was found visible. Redaction is a fold over the sorted spans
  of a text, and what a fold does is induction over data; TLC evaluates the
  hypothesis, for the inspected findings and for all pairs of spans of a short
  text.

`McpGatewayProofs`:

* `SessionsAreCurrentHolds` of `McpRegistry`: an update drops the session before
  it writes the row, so a session found later is as new as the row, or its
  opener is marked (`SessionInv`).
* `RefreshReplacesToolsHolds`, the action property: an active tool that a
  refresh has not seen, and so will not deactivate, was listed to a refresh
  whose transaction ran beside it (`BesideOrSeen`).
* `AnswersMatchHolds` of `StdioTransport`: an id is asked once, whoever has to
  leave, so the line that a caller accepts is the answer to its own question.
* `PlanCapacityHoldsAlways` and `ChangesAreKeptHolds` of `PlanResources`, by
  `PlanInv`. Room (`RoomInv`): the rows that count and the insertions that have
  passed the check stay together below the limit and the most such insertions
  that were there at once, because whoever passes the check sees every row but
  those of the others. Secrets (`SecretInv`): a reference is known to the request that
  made it and then to one row (`NewIsFresh`, `RowsApart`), and what a request is
  about to delete is in no row that is not muddled (`OldIsUnused`), because who
  is not late has seen the row as it is (`SeenIsHeld`; for patterns the versions
  tell, `VersionsTell`). A complete update that is not late sets both references
  to secrets it has just stored, which nobody else knows, so it repairs a row.

`TenancyProofs`:

* `OneGatewayAdminHolds`: the installation's row is locked by one bootstrap at a
  time (`OneInstalls`) and initialized once.
* `InvitationsGrantOnceHolds`: who is about to grant holds the invitation's row
  (`OneHolder`), which is then neither accepted nor revoked (`HeldIsUsable`).

`AdministrationProofs`:

* `CredentialsAreExactHolds` of `RuntimeConfiguration`, by `CredentialInv`: a
  secret has one place, a row, a request that has just stored it, or one that is
  about to delete it (`OnePlace`, `DoomedIsUnused`); what a request has read is
  what the row still holds while the version it will compare matches
  (`SeenIsHeld`). Rows whose writer lost its answer are the exception the
  property names.
* `PrioritiesAreRanksHolds` of `ModelRoutes`, for any finite set of routes. A
  transaction that met none under the other lock is alone past the lock
  (`Alone`), so the ranks it computed are those of the rows it finds when it
  commits, whatever they were before. That these ranks are 1 to n is a counting argument: priority, time
  and id order the routes of an alias strictly and totally (`OrderIsStrict`), so
  no two routes have as many before them, and an injection of n routes into 1..n
  reaches every number (`PositionsAreRanks`).
* `ActivationCompletesHolds` of `ProviderActivation`: while the service does not
  know the provider, three quarters of a second per attempt and the time to the
  next tick stay within an interval (`WithinInterval`), so the eighth attempt at
  the latest finds it known; an attempt that began before may still fail, the
  next one does not (`OneMoreAttempt`). Twelve are enough, with three to spare.

Only model-checked, because the proof system cannot express the argument: all
liveness (fairness and ENABLED), and what redaction does with a text (induction
over data). In short: `ReserveAlwaysEnds`, `RequestSettles`, `EventsAreSettled`,
`MailsSettle`, `LostSlotsComeBack`, `NewKeyIsLearnt`, `RuntimeSettles`,
`StdioRequestsEnd`, the liveness half of `ImplementsLedger`, and `RedactionHides`,
which TLC evaluates for every evidence of the instance (`RedactionIsComplete` in
`MCAdmission`).

## 6. Not modelled

Per component in `PROJECT.json`, with the reason. In short: conversion of
messages and tools between provider dialects, streamable HTTP, cryptography
(passwords, tokens, keys, encryption of secrets), regular expressions of
inspectors, audit and metrics, the parsing of configuration, handlers that
translate a request and delegate, the in-memory store of the tests, the console
and deployment files have no protocol to check. Amounts of money, cost limits
and limits per minute in SQL follow the pattern of the token limits that are
modelled. Prices are left out: validate_no_overlap is not called, so which
price is active depends on the order of concurrent writes, and nothing the
models cover depends on it. The settings of an organisation are
one conditional UPDATE on its version.

## 7. Plan

Done: the modules of section 2. What is left, in order of worth:

1. Proofs: lemmas on single steps of the folds of redaction (one finding, one
   node), which need no induction.
2. Prices: creation, closing and choice of the active one under concurrent
   writes.
3. Organisation settings, onboarding, and the counter of authentication attempts.
4. A request that spans a swap of the service: what it may still use of
   providers that are retired meanwhile.
