----------------------------- MODULE MCNodeTree -----------------------------
(***************************************************************************)
(* NodeTree for TLC.  The nodes other than the root are interchangeable.   *)
(***************************************************************************)
EXTENDS NodeTreeLists, TLC

Symmetry == Permutations(Node \ {Root})
=============================================================================
