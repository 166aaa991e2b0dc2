------------------------------ MODULE SendOutcome ------------------------------
(***************************************************************************)
(* What a caller of sendTransaction may rely on                            *)
(* (src/engine/transaction-sender.ts): there is one answer; it is a        *)
(* success only when a copy of the transaction has been confirmed.  After  *)
(* a failure nothing is promised: copies may have been confirmed, and more *)
(* may be.  LiveExecution is written against this module.                  *)
(***************************************************************************)
EXTENDS Integers

CONSTANT MaxCopies

VARIABLES
  confirmed,  \* how many copies have been confirmed
  answer      \* "none", "success" or "failure"

vars == << confirmed, answer >>

Init == confirmed = 0 /\ answer = "none"

Confirm == confirmed < MaxCopies /\ confirmed' = confirmed + 1 /\ UNCHANGED answer

Succeed == answer = "none" /\ confirmed > 0 /\ answer' = "success" /\ UNCHANGED confirmed

Fail == answer = "none" /\ answer' = "failure" /\ UNCHANGED confirmed

Next == Confirm \/ Succeed \/ Fail

Spec == Init /\ [][Next]_vars
===============================================================================
