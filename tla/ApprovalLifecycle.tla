-------------------------- MODULE ApprovalLifecycle --------------------------
(***************************************************************************)
(* What human approval promises about one approval: it is decided once,    *)
(* before it expires or never; an approved one is claimed for execution at *)
(* most once; and the outcome of that execution is final.                  *)
(***************************************************************************)
CONSTANT Approvals

VARIABLE state

Init == state = [a \in Approvals |-> "none"]

Move(a, from, to) ==
  /\ state[a] = from
  /\ state' = [state EXCEPT ![a] = to]

Create(a) == Move(a, "none", "pending")
Decide(a) == \E d \in {"approved", "rejected"} : Move(a, "pending", d)
Claim(a)  == Move(a, "approved", "claimed")
Settle(a) == \E o \in {"completed", "indeterminate"} : Move(a, "claimed", o)

(* One UPDATE expires every pending approval that is due.                  *)
Expire ==
  \E due \in SUBSET {a \in Approvals : state[a] = "pending"} :
    state' = [a \in Approvals |-> IF a \in due THEN "expired" ELSE state[a]]

Next ==
  \/ \E a \in Approvals : Create(a) \/ Decide(a) \/ Claim(a) \/ Settle(a)
  \/ Expire

Spec == Init /\ [][Next]_state

=============================================================================
