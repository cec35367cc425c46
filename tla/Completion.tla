------------------------------ MODULE Completion ------------------------------
(***************************************************************************)
(* What one inference request asks of its providers and what its client    *)
(* gets for it: the route plan (gateway-routing), the provider adapters    *)
(* (providers/), the loop over the routes and the two stream consumers     *)
(* (gateway-core), and the encoder of the event stream (gateway-server).   *)
(* Reservations, crashes and reconcilers are in InferencePipeline; what an *)
(* inspection finds is in SecurityInspection.                              *)
(*                                                                         *)
(* A provider's text is the sequence of its pieces 1, 2, ...; <<0>> stands *)
(* for a text the inspection has redacted.                                 *)
(***************************************************************************)
EXTENDS Naturals, FiniteSets, Sequences, SequencesExt

CONSTANTS
  Plans,         \* the lists of routes a gateway may be configured with
  Principals,    \* [tenant, project] of who may call
  Models,        \* public aliases
  Dialect,       \* the adapter of each provider
  None,          \* no tenant, or no project
  MaxChunks,     \* a provider sends at most so many chunks
  MaxText,       \* pieces a consumer holds back before it gives up (16 MiB)
  Capacity       \* of the channel between consumer and encoder (16)

CompletionAssumption ==
  /\ MaxChunks \in Nat /\ MaxText \in Nat /\ Capacity \in Nat \ {0}
  \* A plan is a vector; a priority is a u32.
  /\ \A plan \in Plans : /\ DOMAIN plan \subseteq Nat /\ IsFiniteSet(DOMAIN plan)
                         /\ \A i \in DOMAIN plan : plan[i].priority \in Nat

VARIABLES
  ask,           \* the request: who, which model, how, under which plan
  pc,            \* where the handler, or the task of the stream, is
  tried,         \* the routes tried so far with what came of them
  \* the provider's answer
  text,          \* pieces of text read so far
  reports,       \* usage reports read so far
  chunks,        \* chunks read so far
  ready,         \* events of the chunk that was read last
  \* the consumer
  held,          \* events kept back until the output is inspected
  usage,         \* the last usage report, 0 for none
  status,        \* UsageStatus
  sending,       \* what it is about to send
  \* the way to the client
  channel,       \* mpsc::channel
  receiver,      \* "open", "gone" when the client left, "done" after [DONE]
  frames,        \* what the client has received
  account,       \* the usage event
  \* What the properties compare with; no action reads it.
  shown          \* the text of these frames

provider == <<text, reports, chunks, ready>>
consumer == <<held, usage, status, sending>>
received == <<frames, shown>>
passage  == <<channel, receiver, received>>
vars == <<ask, pc, tried, provider, consumer, passage, account>>

Calls == {"chat", "chat_stream", "response", "response_stream", "embedding"}
Streamed(a) == a.call \in {"chat_stream", "response_stream"}

-----------------------------------------------------------------------------
(* RoutePlan                                                               *)

(* sort_by_key is stable.                                                  *)
Before(plan, i, j) ==
  \/ plan[i].priority < plan[j].priority
  \/ plan[i].priority = plan[j].priority /\ i < j

(* The targets in places I of the plan, as the sorted plan has them.       *)
Sorted(plan, I) ==
  LET Place(i) == Cardinality({j \in I : Before(plan, j, i)}) + 1
  IN [k \in 1 .. Cardinality(I) |-> plan[CHOOSE i \in I : Place(i) = k]]

(* How closely a route fits: its project, its tenant, everybody's, or not. *)
Rank(target, who) ==
  IF target.tenant = who.tenant /\ target.project = who.project /\ who.project # None
    THEN 3
  ELSE IF target.tenant = who.tenant /\ target.project = None /\ who.tenant # None
    THEN 2
  ELSE IF target.tenant = None /\ target.project = None THEN 1
  ELSE 0

(* The places of the enabled targets, and of those that are of use to who. *)
Enabled(plan) == {i \in DOMAIN plan : plan[i].enabled}
Fitting(plan, who, model) ==
  {i \in Enabled(plan) : plan[i].model = model /\ Rank(plan[i], who) > 0}

(* Mutant: every target that fits is a route.                              *)
RouteForAnyRank(plan, who, model) == Sorted(plan, Fitting(plan, who, model))

(* Only the targets of the best rank; no target, no model.                 *)
RouteFor(plan, who, model) ==
  LET fits == Fitting(plan, who, model)
  IN Sorted(plan, {i \in fits : \A j \in fits : Rank(plan[j], who) <= Rank(plan[i], who)})

(* GET /v1/models, for a principal whose scopes name no model.             *)
ModelAliases(plan, who) ==
  {m \in Models : \E i \in Enabled(plan) :
     plan[i].model = m /\ RouteFor(plan, who, m) # <<>>}

Planned == RouteFor(ask.plan, ask.who, ask.model)
Route == Planned[Len(tried) + 1]

-----------------------------------------------------------------------------
(* The adapters                                                            *)

(* stream_infer has no implementation but the one that refuses.            *)
Supports(dialect, call) ==
  call \in IF dialect = "openai" THEN Calls \ {"response_stream"}
           ELSE {"chat", "response"}

Outcomes == {"ok", "unsupported", "timeout", "transport", "malformed",
             "429", "5xx", "4xx"}

(* What a call to the route may come to.                                   *)
OutcomesOf(dialect, call) ==
  IF Supports(dialect, call) THEN Outcomes \ {"unsupported"} ELSE {"unsupported"}

Retryable(outcome) == outcome \in {"timeout", "transport", "429", "5xx"}

(* Mutant: any status that is not a success is worth another route.        *)
RetryableStatus(outcome) ==
  outcome \in {"timeout", "transport", "429", "5xx", "4xx"}

(* The usage an adapter books for an answer of n pieces without one.       *)
MissingUsage(dialect, call, n) ==
  IF dialect = "openai" /\ call = "chat" THEN [estimated |-> TRUE, amount |-> n]
  ELSE IF dialect = "openai" /\ call = "response"
    THEN [estimated |-> TRUE, amount |-> 0]
  ELSE [estimated |-> FALSE, amount |-> 0]

Reported(n) == [estimated |-> FALSE, amount |-> n]
Recorded(u, how) == [estimated |-> u.estimated, amount |-> u.amount, status |-> how]
NoAccount   == [estimated |-> FALSE, amount |-> 0, status |-> "none"]

Event(kind, body) == [kind |-> kind, body |-> body]
Error == Event("error", <<>>)

TextOf(e) == IF e.kind = "delta" THEN e.body ELSE <<>>
Frame(e)  == frames' = Append(frames, e) /\ shown' = shown \o TextOf(e)

(* The events of one chunk of an OpenAI-compatible stream.                 *)
Chunk == [usage : BOOLEAN, text : BOOLEAN, finish : BOOLEAN]

ChunkEvents(c) ==
     (IF chunks = 0 THEN <<Event("started", <<>>)>> ELSE <<>>)
  \o (IF c.usage THEN <<Event("usage", <<reports + 1>>)>> ELSE <<>>)
  \o (IF c.text THEN <<Event("delta", <<text + 1>>)>> ELSE <<>>)
  \o (IF c.finish THEN <<Event("finished", <<>>)>> ELSE <<>>)

-----------------------------------------------------------------------------
(* into_gateway: stream_options is an option of chats, which count it only *)
(* when they stream.  What an embedding returns is not inspected.          *)
Admissible(a) ==
  /\ a.include => a.call = "chat_stream"
  /\ a.guarded => a.call # "embedding"

Init ==
  /\ ask \in [who : Principals, model : Models, plan : Plans, call : Calls,
              guarded : BOOLEAN, include : BOOLEAN]
  /\ Admissible(ask)
  /\ pc = "routing" /\ tried = <<>>
  /\ text = 0 /\ reports = 0 /\ chunks = 0 /\ ready = <<>>
  /\ held = <<>> /\ usage = 0 /\ status = "succeeded" /\ sending = <<>>
  /\ channel = <<>> /\ receiver = "open" /\ frames = <<>> /\ shown = <<>>
  /\ account = NoAccount

(* self.routes(..)?: an unknown model is the caller's error.               *)
FindRoutes ==
  /\ pc = "routing"
  /\ IF Planned = <<>>
       THEN pc' = "ended" /\ receiver' = "done" /\ Frame(Error)
       ELSE pc' = "calling" /\ UNCHANGED <<receiver, received>>
  /\ UNCHANGED <<ask, tried, provider, consumer, channel, account>>

(* The call fails.  A transient failure is tried on the next route; any    *)
(* other, or the last one, is recorded and answered.                       *)
CallFails(outcome) ==
  /\ pc = "calling"
  /\ outcome \in OutcomesOf(Dialect[Route.provider], ask.call) \ {"ok"}
  /\ tried' = Append(tried, [provider |-> Route.provider, outcome |-> outcome])
  /\ IF Len(tried) + 1 < Len(Planned) /\ Retryable(outcome)
       THEN UNCHANGED <<pc, status, held>>
       ELSE pc' = "answer" /\ status' = "failed" /\ held' = <<Error>>
  /\ UNCHANGED <<ask, provider, usage, sending, passage, account>>

Succeeded ==
  /\ pc = "calling"
  /\ "ok" \in OutcomesOf(Dialect[Route.provider], ask.call)
  /\ tried' = Append(tried, [provider |-> Route.provider, outcome |-> "ok"])

(* An answer of n pieces, with a usage report or without.  The Responses   *)
(* adapter takes an answer without text for a malformed one.               *)
CallAnswers(n, reported) ==
  /\ Succeeded /\ ~Streamed(ask)
  /\ n = 0 => ~(Dialect[Route.provider] = "openai" /\ ask.call = "response")
  /\ text' = n
  /\ account' = Recorded(IF reported THEN Reported(n)
                         ELSE MissingUsage(Dialect[Route.provider], ask.call, n),
                         "unrecorded")
  /\ held' = <<Event("delta", [i \in 1 .. n |-> i])>>
  /\ pc' = IF ask.guarded THEN "inspect" ELSE "answer"
  /\ UNCHANGED <<ask, reports, chunks, ready, usage, status, sending, passage>>

(* The upstream stream is open; a task of its own consumes it.             *)
StreamOpens ==
  /\ Succeeded /\ Streamed(ask)
  /\ pc' = "relay"
  /\ UNCHANGED <<ask, provider, consumer, passage, account>>

-----------------------------------------------------------------------------
(* consume_stream and consume_inspected_stream                             *)

Idle == pc = "relay" /\ ready = <<>> /\ sending = <<>>

ReadChunk(c) ==
  /\ Idle /\ chunks < MaxChunks
  /\ ready' = ChunkEvents(c)
  /\ chunks' = chunks + 1
  /\ text' = IF c.text THEN text + 1 ELSE text
  /\ reports' = IF c.usage THEN reports + 1 ELSE reports
  /\ UNCHANGED <<ask, pc, tried, consumer, passage, account>>

(* "[DONE]", or the connection closes; or an error, a malformed chunk or   *)
(* the total timeout of the HTTP client.                                   *)
UpstreamEnds(failed) ==
  /\ Idle
  /\ IF failed
       THEN /\ status' = "failed" /\ pc' = "flush"
            /\ sending' = <<[event |-> Error, checked |-> FALSE]>>
       ELSE /\ pc' = IF ask.guarded THEN "inspect" ELSE "record"
            /\ UNCHANGED <<status, sending>>
  /\ UNCHANGED <<ask, tried, provider, held, usage, passage, account>>

(* The consumer takes the next event.  Without inspection it passes it on; *)
(* with, it keeps it, the text apart from the rest, until the stream ends, *)
(* and gives up on a text that is too long.                                *)
TakeEvent ==
  LET e == Head(ready)
      wanted == e.kind = "usage" => ask.include
      long == ask.guarded /\ e.kind = "delta" /\ e.body[1] > MaxText
  IN /\ pc = "relay" /\ sending = <<>> /\ ready # <<>>
     /\ ready' = Tail(ready)
     /\ usage' = IF e.kind = "usage" THEN e.body[1] ELSE usage
     /\ held' = IF ask.guarded /\ wanted /\ e.kind # "delta"
                  THEN Append(held, e) ELSE held
     /\ sending' = IF ~ask.guarded /\ wanted
                     THEN <<[event |-> e, checked |-> TRUE]>> ELSE <<>>
     /\ IF long THEN pc' = "record" /\ status' = "interrupted"
        ELSE UNCHANGED <<pc, status>>
     /\ UNCHANGED <<ask, tried, text, reports, chunks, passage, account>>

(* Mutant: no delta without a Finished.                                    *)
FlushBeforeFinished(content) ==
  LET delta == <<[event |-> Event("delta", content), checked |-> FALSE]>>
      Checked(s) == [i \in DOMAIN s |-> [event |-> s[i], checked |-> TRUE]]
      first == SelectInSeq(held, LAMBDA e : e.kind = "finished")
  IN IF first > 0
       THEN Checked(SubSeq(held, 1, first - 1)) \o delta
              \o Checked(SubSeq(held, first, Len(held)))
     ELSE Checked(held)

(* What a consumer sends once its output is cleared: the whole text before *)
(* the first Finished, or at the end when there is none.                   *)
Flush(content) ==
  LET delta == <<[event |-> Event("delta", content), checked |-> FALSE]>>
      Checked(s) == [i \in DOMAIN s |-> [event |-> s[i], checked |-> TRUE]]
      first == SelectInSeq(held, LAMBDA e : e.kind = "finished")
  IN IF first > 0
       THEN Checked(SubSeq(held, 1, first - 1)) \o delta
              \o Checked(SubSeq(held, first, Len(held)))
     ELSE Checked(held) \o (IF content = <<>> THEN <<>> ELSE delta)

Whole == [i \in 1 .. text |-> i]
Redacted == IF text = 0 THEN <<>> ELSE <<0>>

(* The output is inspected as one text: cleared, redacted or refused.      *)
Inspect(verdict) ==
  LET content == IF verdict = "redacted" THEN Redacted ELSE Whole
  IN /\ pc = "inspect"
     /\ IF Streamed(ask)
          THEN /\ pc' = "flush"
               /\ sending' = IF verdict = "refused"
                               THEN <<[event |-> Error, checked |-> FALSE]>>
                             ELSE Flush(content)
               /\ held' = <<>>
          ELSE /\ pc' = "answer"
               /\ held' = IF verdict = "refused" THEN <<Error>>
                          ELSE <<Event("delta", content)>>
               /\ UNCHANGED sending
     /\ UNCHANGED <<ask, tried, provider, usage, status, passage, account>>

SendEvent ==
  /\ sending # <<>> /\ receiver = "open" /\ Len(channel) < Capacity
  /\ channel' = Append(channel, Head(sending).event)
  /\ sending' = Tail(sending)
  /\ UNCHANGED <<ask, pc, tried, provider, held, usage, status, receiver, received, account>>

(* Mutant: the task returns when its client is gone.                       *)
SendFailsReturns ==
  /\ sending # <<>> /\ receiver # "open"
  /\ sending' = <<>> /\ pc' = "ended"
  /\ UNCHANGED <<ask, tried, provider, held, usage, status, passage, account>>

(* The client is gone.  Where the code looks at the result of the send it  *)
(* stops; elsewhere it goes on to the next one.                            *)
SendFails ==
  /\ sending # <<>> /\ receiver # "open"
  /\ IF Head(sending).checked
       THEN sending' = <<>> /\ status' = "interrupted" /\ pc' = "record"
       ELSE sending' = Tail(sending) /\ UNCHANGED <<status, pc>>
  /\ UNCHANGED <<ask, tried, provider, held, usage, passage, account>>

Flushed ==
  /\ pc = "flush" /\ sending = <<>>
  /\ pc' = "record"
  /\ UNCHANGED <<ask, tried, provider, consumer, passage, account>>

(* Mutant: the default of a stream without a report is nothing.            *)
StreamUsageReported == Reported(usage)

(* What a stream is charged: the last report, or the bytes that were read. *)
StreamUsage == IF usage > 0 THEN Reported(usage)
               ELSE [estimated |-> TRUE, amount |-> text]

(* record_usage; the store may fail, and then the reservation is left to   *)
(* the reconciler.                                                         *)
RecordStream(ok) ==
  /\ pc = "record"
  /\ account' = Recorded(StreamUsage, IF ok THEN status ELSE "unrecorded")
  /\ pc' = IF ok THEN "ended" ELSE "closing"
  /\ sending' = IF ok THEN <<>> ELSE <<[event |-> Error, checked |-> FALSE]>>
  /\ UNCHANGED <<ask, tried, provider, held, usage, status, passage>>

Closed ==
  /\ pc = "closing" /\ sending = <<>>
  /\ pc' = "ended"
  /\ UNCHANGED <<ask, tried, provider, consumer, passage, account>>

(* Without a stream, or without an answer, the handler records the usage   *)
(* and then answers.                                                       *)
Answer(ok) ==
  /\ pc = "answer"
  /\ account' = [account EXCEPT !.status = IF ok THEN status ELSE "unrecorded"]
  /\ Frame(IF ok THEN Head(held) ELSE Error)
  /\ pc' = "ended" /\ receiver' = "done"
  /\ UNCHANGED <<ask, tried, provider, consumer, channel>>

-----------------------------------------------------------------------------
(* streaming_response                                                      *)

Encode ==
  /\ receiver = "open" /\ channel # <<>>
  /\ Frame(Head(channel))
  /\ channel' = Tail(channel)
  /\ UNCHANGED <<ask, pc, tried, provider, consumer, receiver, account>>

(* The task has dropped its sender: the stream is over.                    *)
EncodeDone ==
  /\ receiver = "open" /\ channel = <<>> /\ pc = "ended"
  /\ Frame(Event("done", <<>>))
  /\ receiver' = "done"
  /\ UNCHANGED <<ask, pc, tried, provider, consumer, channel, account>>

(* The client of a stream disconnects; its encoder and receiver go.        *)
ClientLeaves ==
  /\ receiver = "open"
  /\ pc \in {"relay", "inspect", "flush", "record", "closing", "ended"}
  /\ Streamed(ask) /\ tried # <<>> /\ Last(tried).outcome = "ok"
  /\ receiver' = "gone" /\ channel' = <<>>
  /\ UNCHANGED <<ask, pc, tried, provider, consumer, received, account>>

Step ==
  \/ FindRoutes \/ (\E outcome \in Outcomes : CallFails(outcome))
  \/ (\E n \in 0 .. MaxText, reported \in BOOLEAN : CallAnswers(n, reported))
  \/ StreamOpens
  \/ (\E c \in Chunk : ReadChunk(c)) \/ (\E failed \in BOOLEAN : UpstreamEnds(failed))
  \/ TakeEvent
  \/ (\E verdict \in {"clear", "redacted", "refused"} : Inspect(verdict))
  \/ SendEvent \/ SendFails \/ Flushed
  \/ (\E ok \in BOOLEAN : RecordStream(ok) \/ Answer(ok))
  \/ Closed

Client == Encode \/ EncodeDone \/ ClientLeaves

Next == Step \/ Client

Spec == Init /\ [][Next]_vars

(* The handler and the task go on: every call and every read of a stream   *)
(* is under the timeout of the HTTP client.  A client reads or goes away.  *)
FairSpec ==
  /\ Spec /\ WF_vars(Step)
  /\ WF_vars(Client)

-----------------------------------------------------------------------------
(* Every variable has its type.                                            *)
TypeOK ==
  /\ pc \in {"routing", "calling", "relay", "inspect", "flush", "record",
             "closing", "answer", "ended"}
  /\ status \in {"succeeded", "failed", "interrupted"}
  /\ text \in 0 .. MaxText + MaxChunks /\ usage \in 0 .. reports
  /\ Len(channel) <= Capacity
  /\ receiver \in {"open", "gone", "done"}

(* A request is served by the narrowest scope that has a route for its     *)
(* model, in the order of the priorities; the next route is only asked     *)
(* after a timeout, a lost connection, a 429 or a 5xx, and always then.    *)
(* The models a caller is shown are those it may ask for.                  *)
RoutesAreTriedInOrder ==
  LET targets == {ask.plan[i] : i \in DOMAIN ask.plan}
      Open(t) == t.enabled /\ t.model = ask.model
      owned   == {t \in targets : Open(t) /\ t.tenant = ask.who.tenant
                                  /\ t.project = ask.who.project /\ t.project # None}
      tenants == {t \in targets : Open(t) /\ t.tenant = ask.who.tenant
                                  /\ t.project = None /\ t.tenant # None}
      common  == {t \in targets : Open(t) /\ t.tenant = None /\ t.project = None}
      scope   == IF owned # {} THEN owned ELSE IF tenants # {} THEN tenants ELSE common
      Transient(o) == o \in {"timeout", "transport", "429", "5xx"}
  IN /\ Len(tried) <= Len(Planned)
     /\ {Planned[i] : i \in DOMAIN Planned} = scope
     /\ \A i, j \in DOMAIN Planned : i < j => Planned[i].priority <= Planned[j].priority
     /\ \A i \in DOMAIN tried : tried[i].provider = Planned[i].provider
     /\ \A i \in DOMAIN tried : i < Len(tried) => Transient(tried[i].outcome)
     /\ pc = "ended" /\ tried # <<>> /\ Len(tried) < Len(Planned)
          => ~Transient(Last(tried).outcome)
     /\ (ask.model \in ModelAliases(ask.plan, ask.who)) <=> (scope # {})

FrameKinds == {frames[i].kind : i \in DOMAIN frames}

(* A client never gets text its provider did not send, nor out of order,   *)
(* nor, where the output is inspected, any part of it before the whole was *)
(* cleared; and a stream that ends with [DONE] and no error has all of it, *)
(* unless the gateway held more than it keeps.                             *)
ClientGetsTheText ==
  /\ IF ask.guarded THEN shown \in {<<>>, Whole, Redacted} ELSE IsPrefix(shown, Whole)
  /\ pc \in {"calling", "relay", "inspect"} /\ ask.guarded => shown = <<>>
  /\ "done" \in FrameKinds /\ "error" \notin FrameKinds
       => status = "interrupted" \/ shown \in {Whole, Redacted}

(* What was sent to the client of an OpenAI-compatible chat is charged: by *)
(* the last report, if the provider sent one, and never by less than a     *)
(* report the client saw; otherwise by the text that was read.             *)
DeliveredIsCharged ==
  ask.call \in {"chat", "chat_stream"} /\ pc = "ended" /\ frames # <<>>
      /\ tried # <<>> /\ Dialect[Last(tried).provider] = "openai" =>
    /\ account.estimated => account.amount >= Len(shown)
    /\ ~account.estimated => account.amount > 0 \/ shown = <<>>
    /\ \A i \in DOMAIN frames :
         frames[i].kind = "usage" =>
           ~account.estimated /\ account.amount >= frames[i].body[1]

(* Every request ends, and every stream whose client stays or leaves ends  *)
(* with an attempt to record it: the task never waits for ever.            *)
RequestSettles ==
  <>(pc = "ended" /\ (tried # <<>> => account # NoAccount))

=============================================================================
