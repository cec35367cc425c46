---------------------------- MODULE MCModelPolicy ----------------------------
(***************************************************************************)
(* Instances of ModelPolicy for TLC.                                       *)
(***************************************************************************)
EXTENDS ModelPolicy

CONSTANTS m1, m2, m3, o1, o2

Row(a, d, o, t) ==
  [allowed |-> a, denied |-> d, operations |-> o, tokens |-> t]

(* Every pair of lists of models; limits and lists of operations.          *)
ListRows ==
  {Row(a, d, {}, t) : a \in SUBSET Models, d \in {{}, {m1}},
                      t \in {None, 1}}
    \union {Row(a, {}, o, 2) : a \in {{}, {m1, m2}}, o \in SUBSET Operations}
    \union {Row({}, {m2}, {}, None)}

TwoRows == {Row({m1, m2}, {}, {}, None), Row({m1}, {}, {}, 1),
            Row({m2}, {}, {}, None), Row({}, {m1}, {o1}, 2),
            Row({}, {}, {o2}, 1)}

=============================================================================
