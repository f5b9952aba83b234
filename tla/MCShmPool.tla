------------------------------- MODULE MCShmPool -------------------------------
(* Small instances of ShmPool and ShmAccess for TLC.                          *)
EXTENDS ShmAccess, TLC

Symmetry == Permutations(Buffers) \cup Permutations(Threads)
=============================================================================
