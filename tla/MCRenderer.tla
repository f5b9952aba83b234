------------------------------ MODULE MCRenderer ------------------------------
(* Small instances of Renderer for TLC.                                       *)
EXTENDS Renderer, TLC

Symmetry == Permutations(Surfaces) \cup Permutations(Buffers)
=============================================================================
