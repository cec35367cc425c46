---------------------------- MODULE QuotaCounters ----------------------------
(***************************************************************************)
(* Rate and concurrency limits in Redis (stores/store-redis/src/lib.rs):   *)
(* the scripts of McpQuota and of InferenceQuotaCounter, called by         *)
(* McpInvocationService::invoke and by QuotaService.                       *)
(*                                                                         *)
(* Both reserve scripts have one shape.  They increment a list of counters *)
(* in order, give a counter that they find at zero a fresh time to live,   *)
(* and, at the first counter that exceeds its limit, decrement what they   *)
(* incremented and refuse.  MCP has calls per minute, calls per day,       *)
(* concurrent calls of the server and of the tool; inference has requests  *)
(* per minute and concurrent requests of the principal.  A counter of a    *)
(* minute or of a day is a window: its key names the window, so that the   *)
(* next window starts with a new one; the others are slots, which release  *)
(* gives back.  The callers of one counter each bring the limit, and for a *)
(* slot the time to live, of their own policy.  Redis runs a script        *)
(* atomically: it is one action.  Time is counted in ticks; a window key   *)
(* is read in the window it names.                                         *)
(***************************************************************************)
EXTENDS Integers, Sequences, FiniteSets

CONSTANTS
  Calls,      \* callers, each with at most one call at a time
  Counters,
  Windows,    \* the counters that are windows
  Uses,       \* the counters that each caller's script lists, in order
  Limit,      \* of each counter, in the policy that each caller is under
  Length,     \* ticks in a window
  WindowTtl,  \* EXPIRE of a window: twice its length
  SlotTtl,    \* each caller's EXPIRE of a slot: its deadline and a margin
  Deadline,   \* ticks within which each caller's call ends
  Punctual    \* those whose release runs before their SlotTtl has passed

CountersAssumption ==
  /\ IsFiniteSet(Calls)
  /\ Windows \subseteq Counters
  /\ Uses \in [Calls -> Seq(Counters)]
  /\ Limit \in [Calls -> [Counters -> Nat]]
  /\ Length \in Nat \ {0}
  /\ WindowTtl \in Nat /\ WindowTtl >= Length
  /\ Deadline \in [Calls -> Nat] /\ SlotTtl \in [Calls -> Nat]
  /\ \A c \in Calls : Deadline[c] < SlotTtl[c]

Slots == Counters \ Windows

VARIABLES
  now,       \* ticks since the windows began
  value,     \* the value of each counter, 0 if its key is not there
  ttl,       \* ticks until its key expires, 0 if it is not there
  phase, age,  \* of each call; age: ticks since its script ran
  \* What the properties compare with; no action reads these.
  granted,   \* calls let through by each window
  counted,   \* the active calls that each slot's present key has counted
  lost       \* those it has counted that will never be given back

redis == <<now, value, ttl>>
history == <<granted, counted, lost>>
vars  == <<redis, phase, age, history>>

Init ==
  /\ now = 0
  /\ value = [k \in Counters |-> 0]
  /\ ttl = [k \in Counters |-> 0]
  /\ phase = [c \in Calls |-> "idle"]
  /\ age = [c \in Calls |-> 0]
  /\ granted = [k \in Counters |-> 0]
  /\ counted = [k \in Counters |-> {}]
  /\ lost = [k \in Counters |-> 0]

-----------------------------------------------------------------------------
KeysOf(c) == {Uses[c][i] : i \in DOMAIN Uses[c]}

(* Mutant: INCR, and >= for >.                                             *)
OverIsLate(c, k) == value[k] > Limit[c][k]

Over(c, k) == value[k] + 1 > Limit[c][k]

Refused(c) == \E k \in KeysOf(c) : Over(c, k)

(* The counters that the script increments before it returns.              *)
Touched(c) ==
  {Uses[c][i] : i \in {j \in DOMAIN Uses[c] :
                         \A h \in 1 .. j - 1 : ~Over(c, Uses[c][h])}}

AfterScript(c) ==
  [k \in Counters |->
     IF k \in KeysOf(c) /\ ~Refused(c) THEN value[k] + 1 ELSE value[k]]

Ttl(c, k) == IF k \in Windows THEN WindowTtl ELSE SlotTtl[c]

(* Mutant: EXPIRE after every INCR.                                        *)
SlidingTtl(c) ==
  [k \in Counters |-> IF k \in Touched(c) THEN Ttl(c, k) ELSE ttl[k]]

(* EXPIRE if INCR returned 1, which a refused call also does.              *)
TtlAfterScript(c) ==
  [k \in Counters |->
     IF k \in Touched(c) /\ value[k] = 0 THEN Ttl(c, k) ELSE ttl[k]]

(* McpQuota::reserve, InferenceQuotaCounter::reserve.  If the answer is    *)
(* lost the call fails and nobody gives its slots back.                    *)
Reserve(c, heard) ==
  /\ phase[c] = "idle"
  /\ value' = AfterScript(c)
  /\ ttl' = TtlAfterScript(c)
  /\ phase' = IF heard /\ ~Refused(c)
                THEN [phase EXCEPT ![c] = "running"] ELSE phase
  /\ LET taken == IF Refused(c) THEN {} ELSE KeysOf(c)
     IN /\ granted' = [k \in Counters |->
             IF k \in taken \intersect Windows
               THEN granted[k] + 1 ELSE granted[k]]
        /\ counted' = [k \in Counters |->
             IF k \in taken \intersect Slots /\ heard
               THEN counted[k] \union {c} ELSE counted[k]]
        /\ lost' = [k \in Counters |->
             IF k \in taken \intersect Slots /\ ~heard
               THEN lost[k] + 1 ELSE lost[k]]
  /\ UNCHANGED <<now, age>>

(* The tool or the provider answers, or the call runs into its deadline.   *)
Finish(c) ==
  /\ phase[c] = "running"
  /\ phase' = [phase EXCEPT ![c] = "ending"]
  /\ UNCHANGED <<redis, age, history>>

AfterRelease(c) ==
  [k \in Counters |->
     IF k \in KeysOf(c) \intersect Slots /\ value[k] > 0
       THEN value[k] - 1 ELSE value[k]]

(* McpQuota::release, InferenceQuotaCounter::release.                      *)
Release(c) ==
  /\ phase[c] = "ending"
  /\ value' = AfterRelease(c)
  /\ phase' = [phase EXCEPT ![c] = "idle"]
  /\ age' = [age EXCEPT ![c] = 0]
  /\ counted' = [k \in Counters |-> counted[k] \ {c}]
  /\ UNCHANGED <<now, ttl, granted, lost>>

(* The caller goes away, the process dies, or release fails, which invoke  *)
(* and release_counter ignore.                                             *)
Lose(c) ==
  /\ phase[c] # "idle"
  /\ phase' = [phase EXCEPT ![c] = "idle"]
  /\ age' = [age EXCEPT ![c] = 0]
  /\ counted' = [k \in Counters |-> counted[k] \ {c}]
  /\ lost' = [k \in Counters |->
       IF c \in counted[k] THEN lost[k] + 1 ELSE lost[k]]
  /\ UNCHANGED <<redis, granted>>

(* Windows begin together.                                                 *)
Expires(k) == ttl[k] = 1 \/ (k \in Windows /\ now = Length - 1)

AgeLimit(c) ==
  CASE phase[c] = "idle"    -> 1
    [] phase[c] = "running" -> Deadline[c]
    [] phase[c] = "ending"  ->
         IF c \in Punctual THEN SlotTtl[c] - 1 ELSE SlotTtl[c] + 1

Tick ==
  /\ \A c \in Calls : age[c] < AgeLimit(c)
  /\ now' = (now + 1) % Length
  /\ value' = [k \in Counters |-> IF Expires(k) THEN 0 ELSE value[k]]
  /\ ttl' = [k \in Counters |->
       IF Expires(k) \/ ttl[k] = 0 THEN 0 ELSE ttl[k] - 1]
  /\ age' = [c \in Calls |-> IF phase[c] = "idle" THEN 0 ELSE age[c] + 1]
  /\ granted' = [k \in Counters |->
       IF now = Length - 1 THEN 0 ELSE granted[k]]
  /\ counted' = [k \in Counters |-> IF Expires(k) THEN {} ELSE counted[k]]
  /\ lost' = [k \in Counters |-> IF Expires(k) THEN 0 ELSE lost[k]]
  /\ UNCHANGED phase

-----------------------------------------------------------------------------
Next ==
  \/ \E c \in Calls : \/ \E heard \in BOOLEAN : Reserve(c, heard)
                      \/ Finish(c) \/ Release(c) \/ Lose(c)
  \/ Tick

Spec == Init /\ [][Next]_vars

(* Time passes, calls end by their deadline, and a process that is alive   *)
(* sends its release.                                                      *)
Fairness ==
  /\ WF_vars(Tick)
  /\ \A c \in Calls : WF_vars(Finish(c)) /\ WF_vars(Release(c))

FairSpec == Spec /\ Fairness

-----------------------------------------------------------------------------
CallersOf(k) == {c \in Calls : k \in KeysOf(c)}

Active(k) == {c \in CallersOf(k) : phase[c] # "idle"}

(* The scripts of reserve and release, refusals, expiry and lost answers   *)
(* included, whatever limits and times to live the callers of a counter    *)
(* bring: no window lets more calls through than the limit of one of its   *)
(* callers; a slot counts no more than the active calls it has let through *)
(* and the slots that were lost, so that nobody is refused for a call that *)
(* ended or was itself refused; and a slot to which all its callers give a *)
(* limit of one excludes, if each releases it within the time to live that *)
(* it brings.                                                              *)
LimitsHold ==
  /\ \A k \in Windows : granted[k] > 0 =>
       \E c \in CallersOf(k) : granted[k] <= Limit[c][k]
  /\ \A k \in Slots : value[k] <= Cardinality(counted[k]) + lost[k]
  /\ \A k \in Slots :
       (\A c \in CallersOf(k) : Limit[c][k] = 1 /\ c \in Punctual)
         => Cardinality(Active(k)) <= 1

(* Slots lost to crashes, disconnects and errors come back, under any      *)
(* load: the key expires, because only an INCR from zero renews it.        *)
LostSlotsComeBack ==
  \A k \in Slots :
    value[k] > Cardinality(counted[k]) ~> value[k] <= Cardinality(counted[k])

=============================================================================
