---------------------------- MODULE MCLiveExecution ----------------------------
(* Small instances of LiveExecution. *)
EXTENDS LiveExecution, TLC

Symmetry == Permutations(Position) \cup Permutations(Closer) \cup Permutations(Pool)
===============================================================================
