----------------------------- MODULE MCNodeCalc -----------------------------
(***************************************************************************)
(* NodeCalc for TLC.  The nodes other than the root are interchangeable.   *)
(***************************************************************************)
EXTENDS NodeCalc, TLC

Symmetry == Permutations(Node \ {Root})
=============================================================================
