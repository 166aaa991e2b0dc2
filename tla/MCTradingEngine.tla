--------------------------- MODULE MCTradingEngine ---------------------------
(***************************************************************************)
(* Values and symmetry for checking TradingEngine with TLC.                *)
(***************************************************************************)
EXTENDS TradingEngine, TLC

\* The loss of a full-sized amount, and that of an amount the reserve cut down.
MCLosses == {-5, -2}
MCTotalLoss == {-5}
MCLossOrGain == {-5, 5}

Symmetry == Permutations(Pool) \cup Permutations(Position) \cup Permutations(Closer)
=============================================================================
