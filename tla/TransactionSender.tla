--------------------------- MODULE TransactionSender ---------------------------
(***************************************************************************)
(* One call of sendTransaction (src/engine/transaction-sender.ts) and the  *)
(* chain it talks to.                                                      *)
(*                                                                         *)
(* Every attempt signs the transaction anew with a fresh blockhash, so the *)
(* copies are different transactions to the chain, and several of them may *)
(* be valid at a time.  The copy of an attempt is processed, and that may  *)
(* be undone by a fork until it is confirmed; once the last block at which *)
(* its blockhash is valid has passed it is not processed any more.         *)
(* The clock is left out: the deadline of a confirmation may pass whenever *)
(* the loop looks at it.                                                   *)
(***************************************************************************)
EXTENDS Integers, FiniteSets

CONSTANT MaxRetries  \* config.maxRetries

ASSUME SenderAssumption == MaxRetries \in Nat

Attempt == 0 .. MaxRetries

VARIABLES
  pc,       \* where sendTransaction waits
  retries,  \* the attempt it is at
  copy,     \* attempt -> what has become of its copy
  expired,  \* the attempts whose last valid block height has passed
  answer,   \* the success of the result
  doubts    \* history: why a failure may not be one

vars == << pc, retries, copy, expired, answer, doubts >>
chain == << copy, expired >>

TypeOK ==
  /\ pc \in {"blockhash", "send", "status", "height", "backoff", "done"}
  /\ retries \in Attempt
  /\ copy \in [Attempt -> {"none", "sent", "processed", "confirmed", "erring", "errored"}]
  /\ expired \subseteq Attempt
  /\ answer \in {"none", "success", "failure"}
  /\ doubts \subseteq {"lostAnswer", "timeout", "unseen", "overtaken", "erring"}

Init ==
  /\ pc = "blockhash" /\ retries = 0
  /\ copy = [a \in Attempt |-> "none"] /\ expired = {}
  /\ answer = "none" /\ doubts = {}

Doubt(causes) == doubts' = doubts \cup causes
When(b, cause) == IF b THEN {cause} ELSE {}
Applied(a) == copy[a] \in {"processed", "confirmed"}

-----------------------------------------------------------------------------
(* sendTransaction *)

\* The catch of an attempt, or the failure of its confirmation.
AttemptFails == pc' = "backoff" /\ UNCHANGED << retries, answer >>

GetBlockhash ==
  /\ pc = "blockhash"
  /\ \/ pc' = "send" /\ UNCHANGED << retries, answer >>
     \/ AttemptFails
  /\ UNCHANGED << chain, doubts >>

\* sendRawTransaction: refused or lost on the way, taken, or taken with the answer
\* lost.
SendRaw ==
  /\ pc = "send"
  /\ \/ AttemptFails /\ UNCHANGED << copy, doubts >>
     \/ /\ copy' = [copy EXCEPT ![retries] = "sent"]
        /\ \/ pc' = "status" /\ UNCHANGED << retries, answer, doubts >>
           \/ AttemptFails /\ Doubt({"lostAnswer"})
  /\ UNCHANGED expired

\* Mutant of GetStatus: a status of any commitment counts as confirmed.
GetStatusProcessed ==
  /\ pc = "status"
  /\ \/ /\ Applied(retries)
        /\ pc' = "done" /\ answer' = "success"
        /\ UNCHANGED << retries, doubts >>
     \/ /\ copy[retries] \in {"erring", "errored"}
        /\ AttemptFails
        /\ Doubt(When(copy[retries] = "erring", "erring"))
     \/ /\ pc' = "height" /\ UNCHANGED << retries, answer >>
        /\ Doubt(When(copy[retries] = "confirmed", "unseen"))
  /\ UNCHANGED chain

\* getSignatureStatus of the current attempt only.  An error counts at any
\* commitment, a success when it is confirmed.  The node asked may be behind.
GetStatus ==
  /\ pc = "status"
  /\ \/ /\ copy[retries] = "confirmed"
        /\ pc' = "done" /\ answer' = "success"
        /\ UNCHANGED << retries, doubts >>
     \/ /\ copy[retries] \in {"erring", "errored"}
        /\ AttemptFails
        /\ Doubt(When(copy[retries] = "erring", "erring"))
     \/ /\ pc' = "height" /\ UNCHANGED << retries, answer >>
        /\ Doubt(When(copy[retries] = "confirmed", "unseen"))
  /\ UNCHANGED chain

\* Mutant of GetBlockHeight: the height is not asked for, the blockhash is given up
\* after one look at the status.
GetBlockHeightImpatient ==
  /\ pc = "height"
  /\ AttemptFails
  /\ Doubt(When(Applied(retries), "overtaken"))
  /\ UNCHANGED chain

\* getBlockHeight comes after the status: a copy processed before or in between is
\* given up as expired.  When the call fails, or nothing has expired, the loop goes on.
GetBlockHeight ==
  /\ pc = "height"
  /\ \/ /\ retries \in expired
        /\ AttemptFails
        /\ Doubt(When(Applied(retries), "overtaken"))
     \/ pc' = "status" /\ UNCHANGED << retries, answer, doubts >>
  /\ UNCHANGED chain

\* Mutant of Deadline: the loop has none.
NoDeadline == FALSE /\ UNCHANGED vars

\* The deadline is looked at before every status.
Deadline ==
  /\ pc = "status"
  /\ AttemptFails
  /\ Doubt({"timeout"})
  /\ UNCHANGED chain

Backoff ==
  /\ pc = "backoff"
  /\ \/ /\ retries < MaxRetries
        /\ retries' = retries + 1 /\ pc' = "blockhash"
        /\ UNCHANGED answer
     \/ /\ retries = MaxRetries
        /\ pc' = "done" /\ answer' = "failure"
        /\ UNCHANGED retries
  /\ UNCHANGED << chain, doubts >>

-----------------------------------------------------------------------------
(* The chain *)

sender == << pc, retries, answer, doubts >>

\* The copy of an attempt gets into a block: its effect, or an error.
Process(a) ==
  /\ copy[a] = "sent" /\ a \notin expired
  /\ \/ copy' = [copy EXCEPT ![a] = "processed"]
     \/ copy' = [copy EXCEPT ![a] = "erring"]
  /\ UNCHANGED << sender, expired >>

Confirm(a) ==
  /\ \/ copy[a] = "processed" /\ copy' = [copy EXCEPT ![a] = "confirmed"]
     \/ copy[a] = "erring" /\ copy' = [copy EXCEPT ![a] = "errored"]
  /\ UNCHANGED << sender, expired >>

\* The fork of its block is abandoned.
Undo(a) ==
  /\ copy[a] \in {"processed", "erring"}
  /\ copy' = [copy EXCEPT ![a] = "sent"]
  /\ UNCHANGED << sender, expired >>

\* A later blockhash does not expire before an earlier one.
Expire(a) ==
  /\ copy[a] # "none" /\ a \notin expired
  /\ expired' = expired \cup { b \in Attempt : b <= a }
  /\ UNCHANGED << sender, copy >>

ChainStep == \E a \in Attempt : Process(a) \/ Confirm(a) \/ Undo(a) \/ Expire(a)

SenderStep == GetBlockhash \/ SendRaw \/ GetStatus \/ GetBlockHeight \/ Deadline \/ Backoff

Next == SenderStep \/ ChainStep

Spec == Init /\ [][Next]_vars

\* The process runs on, every call is answered or fails, and the clock advances: a
\* confirmation that keeps looking finds its deadline passed.
FairSpec == Spec /\ WF_vars(SenderStep) /\ SF_vars(Deadline)

-----------------------------------------------------------------------------
(* Properties *)

Confirmed == { a \in Attempt : copy[a] = "confirmed" }

\* sendTransaction implements what its callers rely on: one answer, and a success
\* only for a confirmed copy, whatever the chain does (transaction-sender.ts:93-184).
Outcome == INSTANCE SendOutcome WITH
             MaxCopies <- MaxRetries + 1,
             confirmed <- Cardinality(Confirmed),
             answer <- answer

PromiseKept == Outcome!Spec

\* The effect takes place twice only if a failure of an earlier attempt was in
\* doubt when the next copy was signed: the answer of the node was lost, the
\* deadline passed, the status of the node was behind, the copy was processed
\* between the look at the status and the look at the height, or it had failed in a
\* block that was abandoned (transaction-sender.ts:125, :279, :283, :302).
RetriesSafely ==
  doubts = {} => Cardinality({ a \in Attempt : Applied(a) }) <= 1

\* A failure without such a doubt is final: nothing was applied, and no copy can be.
FailureIsFinal ==
  answer = "failure" /\ doubts = {}
    => \A a \in Attempt : /\ ~Applied(a)
                          /\ copy[a] \in {"sent", "erring"} => a \in expired

\* sendTransaction returns: neither a chain that drops the copies nor calls that
\* fail for ever keep an entry or a close waiting (transaction-sender.ts:102, :281).
Answered == <>(pc = "done")
===============================================================================
