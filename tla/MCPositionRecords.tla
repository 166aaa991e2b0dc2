--------------------------- MODULE MCPositionRecords ---------------------------
(* Small instances of PositionRecords. *)
EXTENDS PositionRecords, TLC

Loss == {-1}
PositionSymmetry == Permutations(Position)
Symmetry == PositionSymmetry \cup Permutations(Handler)
===============================================================================
