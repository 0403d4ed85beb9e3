---------------------------- MODULE MCDefLibrary ----------------------------
(***************************************************************************)
(* DefLibrary for TLC: two definitions of the name a, one of them with two *)
(* variants, a definition whose name is that of a variant, and two others. *)
(* All names collide, at the end of the table.                             *)
(***************************************************************************)
EXTENDS DefLibrary

CONSTANTS a1, a2, a2x, a2y, ax, b, c

MCItem == {a1, a2, a2x, a2y, ax, b, c}
MCKeyOf ==
  [i \in MCItem |->
    CASE i \in {a1, a2} -> "a" [] i \in {a2x, ax} -> "a.x" [] i = a2y -> "a.y"
      [] i = b -> "b" [] i = c -> "c"]
MCKey == {"a", "a.x", "a.y", "b", "c"}
MCHashOf ==
  [n \in MCKey |-> CASE n = "c" -> 5 [] n \in {"a", "b"} -> 6 [] n = "a.x" -> 7 [] n = "a.y" -> 15]
MCVariantsOf == [i \in MCItem |-> IF i = a2 THEN <<a2x, a2y>> ELSE << >>]
MCLists ==
  {<<i>> : i \in {a1, a2, ax, b, c}} \union {<<a1, a2>>, <<a2, ax>>, <<ax, a2>>, <<b, c>>}
=============================================================================
