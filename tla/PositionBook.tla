----------------------------- MODULE PositionBook -----------------------------
(***************************************************************************)
(* What the table of positions promises, whatever order the writes of the  *)
(* handlers land in (src/engine/orchestrator.ts, onPositionOpened and      *)
(* onPositionClosed): a position is entered once, it is settled only with  *)
(* a result the engine has reported for it, and what is settled is never   *)
(* taken back.                                                             *)
(***************************************************************************)
CONSTANTS
  Position,
  Result,     \* what closing a position can realize
  NoResult

VARIABLES
  reported,   \* position -> the result the engine has reported for it
  entered,    \* the positions in the table
  settled     \* position -> the result the table shows

vars == << reported, entered, settled >>

Init ==
  /\ reported = [p \in Position |-> NoResult]
  /\ entered = {}
  /\ settled = [p \in Position |-> NoResult]

Enter(p) ==
  /\ p \notin entered
  /\ entered' = entered \cup {p}
  /\ UNCHANGED << reported, settled >>

Report(p, x) ==
  /\ reported[p] = NoResult
  /\ reported' = [reported EXCEPT ![p] = x]
  /\ UNCHANGED << entered, settled >>

Settle(p) ==
  /\ p \in entered /\ reported[p] # NoResult
  /\ settled' = [settled EXCEPT ![p] = reported[p]]
  /\ UNCHANGED << reported, entered >>

Next ==
  \/ \E p \in Position : Enter(p) \/ Settle(p)
  \/ \E p \in Position, x \in Result : Report(p, x)

Spec == Init /\ [][Next]_vars
===============================================================================
