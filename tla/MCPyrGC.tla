------------------------------ MODULE MCPyrGC ------------------------------
(***************************************************************************)
(* PyrGC for TLC.  The frames of a kind are interchangeable.               *)
(***************************************************************************)
EXTENDS PyrGC, TLC

Symmetry == Permutations(PlainFrames) \union Permutations(HeapFrames)
=============================================================================
