------------------------------ MODULE MCTimerHeap ------------------------------
(* Small instance of TimerHeap for TLC.                                    *)
EXTENDS TimerHeap, TLC

Symmetry == Permutations(Timers)
=============================================================================
