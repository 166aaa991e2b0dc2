---------------------------- MODULE MCLossMemory ----------------------------
(***************************************************************************)
(* Values and symmetry for checking LossMemory with TLC.                   *)
(***************************************************************************)
EXTENDS LossMemory, TLC

Symmetry == Permutations(Save)

WinOrLose == {-1, 1}
=============================================================================
