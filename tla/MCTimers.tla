------------------------------ MODULE MCTimers ----------------------------
(* Instances of Timers for TLC: addresses are interchangeable. *)
EXTENDS Timers, TLC

Symmetry == Permutations(Timer)
=============================================================================
