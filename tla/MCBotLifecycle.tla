--------------------------- MODULE MCBotLifecycle ---------------------------
(***************************************************************************)
(* Values and symmetry for checking BotLifecycle with TLC.                 *)
(***************************************************************************)
EXTENDS BotLifecycle, TLC

Symmetry == Permutations(Request)
=============================================================================
