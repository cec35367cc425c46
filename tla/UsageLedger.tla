----------------------------- MODULE UsageLedger -----------------------------
(***************************************************************************)
(* What the accounting of inference promises about one request, whatever   *)
(* handlers, reconcilers and crashes do: budget is set aside, and then it  *)
(* is either charged, for good, or given back.                             *)
(***************************************************************************)
CONSTANT Requests

VARIABLES
  account,   \* "free", "open" or "charged", per request
  late       \* may a request be charged after its budget was given back?

Init == account = [q \in Requests |-> "free"] /\ late \in BOOLEAN

Move(q, from, to) ==
  /\ account[q] \in from
  /\ account' = [account EXCEPT ![q] = to]
  /\ late' = late

Open(q)   == Move(q, {"free"}, "open")
Close(q)  == Move(q, {"open"}, "free")
Charge(q) == Move(q, IF late THEN {"open", "free"} ELSE {"open"},
                  "charged")

Next == \E q \in Requests : Open(q) \/ Close(q) \/ Charge(q)

Spec == Init /\ [][Next]_<<account, late>>

(* Nothing stays set aside for ever.                                       *)
FairSpec ==
  Spec /\ \A q \in Requests : account[q] = "open" ~> account[q] # "open"

=============================================================================
