---------------------------- MODULE MCTimerHeap ----------------------------
(* Model values for TLC: the clients are interchangeable.                   *)
EXTENDS TimerHeap, TLC

Symmetry == Permutations(Client)
=============================================================================
