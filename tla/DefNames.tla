------------------------------- MODULE DefNames -------------------------------
(***************************************************************************)
(* What clients are promised of the library of synth definitions: it maps  *)
(* names to definitions, a new definition takes the place of the one with  *)
(* its name and of all that came with it, and a name is found until then,  *)
(* or until its definition is freed.                                       *)
(***************************************************************************)
EXTENDS Naturals, FiniteSets, Sequences

CONSTANTS NameOf, VariantsOf, MaxItems, Lists

VARIABLE defs   \* the definition of each name that has one

Family(d) == {d} \union {VariantsOf[d][i] : i \in DOMAIN VariantsOf[d]}

Without(m, d) == [n \in {k \in DOMAIN m : m[k] \notin Family(d)} |-> m[n]]

With(m, d) ==
  IF NameOf[d] \in DOMAIN m \/ Cardinality(DOMAIN m) >= MaxItems THEN m
  ELSE [n \in DOMAIN m \union {NameOf[d]} |-> IF n \in DOMAIN m THEN m[n] ELSE d]

Entered(m, d) ==
  LET others == IF NameOf[d] \in DOMAIN m THEN Without(m, m[NameOf[d]]) ELSE m
      list == <<d>> \o VariantsOf[d]
      added[k \in 0 .. Len(list)] == IF k = 0 THEN others ELSE With(added[k - 1], list[k])
  IN  added[Len(list)]

EnteredAll(m, list) ==
  LET after[k \in 0 .. Len(list)] == IF k = 0 THEN m ELSE Entered(after[k - 1], list[k])
  IN  after[Len(list)]

Init == defs = << >>

Define(list) == defs' = EnteredAll(defs, list)
Free(n) == defs' = Without(defs, defs[n])
FreeAll == defs' = << >>

Next == (\E list \in Lists : Define(list)) \/ (\E n \in DOMAIN defs : Free(n)) \/ FreeAll

Spec == Init /\ [][Next]_defs
=============================================================================
