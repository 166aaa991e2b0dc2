------------------------ MODULE TransactionSenderProofs ------------------------
(***************************************************************************)
(* Theorems about TransactionSender, for every number of retries.          *)
(***************************************************************************)
EXTENDS TransactionSender, FiniteSetTheorems, TLAPS

(***************************************************************************)
(* The inductive invariant.  Copies exist up to the current attempt only;  *)
(* an attempt that has been given up without a doubt is dead: its copy is  *)
(* not applied and no step of the chain can apply it any more.             *)
(***************************************************************************)
GivenUp(a) ==
  \/ a < retries
  \/ a = retries /\ (pc = "backoff" \/ answer = "failure")

Dead(a) ==
  /\ ~Applied(a)
  /\ copy[a] \in {"sent", "erring"} => a \in expired

CopiesInOrder ==
  /\ \A a \in Attempt : a > retries => copy[a] = "none"
  /\ pc \in {"blockhash", "send"} => copy[retries] = "none"

AnswersLast ==
  /\ answer # "none" => pc = "done"
  /\ answer = "failure" => retries = MaxRetries

DeadWithoutDoubt == doubts = {} => \A a \in Attempt : GivenUp(a) => Dead(a)

SenderInv == TypeOK /\ CopiesInOrder /\ AnswersLast /\ DeadWithoutDoubt

LEMMA InitSender == Init => SenderInv
<1> USE SenderAssumption DEF Attempt
<1> QED
  BY DEF Init, SenderInv, TypeOK, CopiesInOrder, AnswersLast, DeadWithoutDoubt, GivenUp, Dead,
         Applied

LEMMA TypeStep == TypeOK /\ [Next]_vars => TypeOK'
<1> SUFFICES ASSUME TypeOK, [Next]_vars PROVE TypeOK'
  OBVIOUS
<1> USE SenderAssumption DEF Attempt, TypeOK, chain, sender, AttemptFails, Doubt, When
<1>1. CASE GetBlockhash BY <1>1 DEF GetBlockhash
<1>2. CASE SendRaw BY <1>2 DEF SendRaw
<1>3. CASE GetStatus BY <1>3 DEF GetStatus
<1>4. CASE GetBlockHeight BY <1>4 DEF GetBlockHeight
<1>5. CASE Deadline BY <1>5 DEF Deadline
<1>6. CASE Backoff BY <1>6 DEF Backoff
<1>7. CASE ChainStep BY <1>7 DEF ChainStep, Process, Confirm, Undo, Expire
<1>8. CASE UNCHANGED vars BY <1>8 DEF vars
<1> QED BY <1>1, <1>2, <1>3, <1>4, <1>5, <1>6, <1>7, <1>8 DEF Next, SenderStep

\* A step of the chain leaves the sender alone, and the dead dead.
LEMMA ChainSpares == SenderInv /\ ChainStep => SenderInv'
<1> SUFFICES ASSUME SenderInv, NEW a \in Attempt,
                    Process(a) \/ Confirm(a) \/ Undo(a) \/ Expire(a)
             PROVE  SenderInv'
  BY DEF ChainStep
<1>1. TypeOK'
  BY TypeStep DEF SenderInv, Next, ChainStep
<1>2. CopiesInOrder' /\ AnswersLast'
  BY SenderAssumption DEF SenderInv, CopiesInOrder, AnswersLast, TypeOK, Attempt, sender,
     Process, Confirm, Undo, Expire
<1>3. DeadWithoutDoubt'
  <2> SUFFICES ASSUME doubts = {}, NEW b \in Attempt, GivenUp(b)
               PROVE  Dead(b)'
    BY DEF DeadWithoutDoubt, GivenUp, Process, Confirm, Undo, Expire, sender
  <2>1. Dead(b)
    BY DEF SenderInv, DeadWithoutDoubt
  <2> QED
    BY <2>1 DEF Dead, Applied, Process, Confirm, Undo, Expire, SenderInv, TypeOK
<1> QED BY <1>1, <1>2, <1>3 DEF SenderInv

LEMMA SenderStepKeeps == SenderInv /\ SenderStep => SenderInv'
<1> SUFFICES ASSUME SenderInv, SenderStep PROVE SenderInv'
  OBVIOUS
<1>0. TypeOK'
  BY TypeStep DEF SenderInv, Next
<1> USE SenderAssumption DEF SenderInv, CopiesInOrder, AnswersLast, DeadWithoutDoubt, GivenUp, Dead,
      Applied, TypeOK, Attempt, chain, AttemptFails, Doubt, When
<1>1. CASE GetBlockhash BY <1>0, <1>1 DEF GetBlockhash
<1>2. CASE SendRaw BY <1>0, <1>2 DEF SendRaw
<1>3. CASE GetStatus BY <1>0, <1>3 DEF GetStatus
<1>4. CASE GetBlockHeight BY <1>0, <1>4 DEF GetBlockHeight
<1>5. CASE Deadline BY <1>0, <1>5 DEF Deadline
<1>6. CASE Backoff BY <1>0, <1>6 DEF Backoff
<1> QED BY <1>1, <1>2, <1>3, <1>4, <1>5, <1>6 DEF SenderStep

THEOREM SenderInvariant == Spec => []SenderInv
<1>1. SenderInv /\ [Next]_vars => SenderInv'
  <2>1. SenderInv /\ UNCHANGED vars => SenderInv'
    BY DEF SenderInv, TypeOK, CopiesInOrder, AnswersLast, DeadWithoutDoubt, GivenUp, Dead, Applied,
           vars
  <2> QED BY <2>1, SenderStepKeeps, ChainSpares DEF Next
<1> QED BY InitSender, <1>1, PTL DEF Spec

-----------------------------------------------------------------------------

\* The variables keep their types.
THEOREM TypeCorrect == Spec => []TypeOK
<1>1. SenderInv => TypeOK BY DEF SenderInv
<1> QED BY SenderInvariant, <1>1, PTL

\* Without a doubt about an earlier failure at most one copy of the transaction has its
\* effect, however often it is signed anew (transaction-sender.ts:93-184).
THEOREM SafeRetries == Spec => []RetriesSafely
<1>1. SenderInv => RetriesSafely
  <2> SUFFICES ASSUME SenderInv, doubts = {}
               PROVE  Cardinality({ a \in Attempt : Applied(a) }) <= 1
    BY DEF RetriesSafely
  <2>1. { a \in Attempt : Applied(a) } \subseteq {retries}
    BY SenderAssumption DEF SenderInv, TypeOK, CopiesInOrder, DeadWithoutDoubt, GivenUp, Dead,
       Applied, Attempt
  <2>2. IsFiniteSet({retries}) /\ Cardinality({retries}) = 1
    BY FS_Singleton
  <2> QED BY <2>1, <2>2, FS_Subset
<1> QED BY SenderInvariant, <1>1, PTL

\* A failure that is answered without a doubt is final: nothing was applied and nothing
\* can be (transaction-sender.ts:162-184, 279-314).
THEOREM FinalFailure == Spec => []FailureIsFinal
<1>1. SenderInv => FailureIsFinal
  BY SenderAssumption DEF SenderInv, FailureIsFinal, AnswersLast, DeadWithoutDoubt, GivenUp, Dead,
     TypeOK, Attempt
<1> QED BY SenderInvariant, <1>1, PTL

-----------------------------------------------------------------------------
(* sendTransaction implements SendOutcome. *)

LEMMA ConfirmedFinite ==
  /\ IsFiniteSet(Attempt) /\ Cardinality(Attempt) = MaxRetries + 1
  /\ \A S \in SUBSET Attempt :
       IsFiniteSet(S) /\ Cardinality(S) \in Nat /\ Cardinality(S) <= MaxRetries + 1
<1>1. IsFiniteSet(Attempt) /\ Cardinality(Attempt) = MaxRetries + 1
  BY FS_Interval, SenderAssumption DEF Attempt
<1>2. ASSUME NEW S \in SUBSET Attempt
      PROVE  IsFiniteSet(S) /\ Cardinality(S) \in Nat /\ Cardinality(S) <= MaxRetries + 1
  BY <1>1, FS_Subset, FS_CardinalityType
<1> QED BY <1>1, <1>2

LEMMA InitOutcome == Init => Outcome!Init
<1> SUFFICES ASSUME Init PROVE Outcome!Init
  OBVIOUS
<1>1. Confirmed = {}
  BY DEF Init, Confirmed
<1> QED BY <1>1, FS_EmptySet DEF Init, Outcome!Init

LEMMA SenderRefines == SenderInv /\ SenderStep => [Outcome!Next]_(Outcome!vars)
<1> SUFFICES ASSUME SenderInv, SenderStep PROVE [Outcome!Next]_(Outcome!vars)
  OBVIOUS
<1> USE DEF Outcome!vars, Outcome!Next, chain, AttemptFails
<1>1. CASE GetBlockhash
  BY <1>1 DEF GetBlockhash, Confirmed
<1>2. CASE SendRaw
  <2>1. Confirmed' = Confirmed
    BY <1>2, SenderAssumption DEF SendRaw, Confirmed, SenderInv, TypeOK, CopiesInOrder, Attempt
  <2> QED BY <1>2, <2>1 DEF SendRaw
<1>3. CASE GetStatus
  <2>1. Confirmed' = Confirmed
    BY <1>3 DEF GetStatus, Confirmed
  <2>2. CASE copy[retries] = "confirmed" /\ answer' = "success"
    <3>1. retries \in Confirmed /\ Confirmed \subseteq Attempt
      BY <2>2 DEF Confirmed, SenderInv, TypeOK
    <3>2. Cardinality(Confirmed) > 0
      <4>1. IsFiniteSet(Confirmed) /\ Cardinality(Confirmed) \in Nat
        BY <3>1, ConfirmedFinite
      <4> QED BY <3>1, <4>1, FS_EmptySet
    <3>3. answer = "none"
      BY <1>3 DEF GetStatus, SenderInv, AnswersLast
    <3> QED BY <2>1, <2>2, <3>2, <3>3 DEF Outcome!Succeed
  <2>3. CASE UNCHANGED answer
    BY <2>1, <2>3
  <2> QED BY <1>3, <2>2, <2>3 DEF GetStatus
<1>4. CASE GetBlockHeight
  BY <1>4 DEF GetBlockHeight, Confirmed
<1>5. CASE Deadline
  BY <1>5 DEF Deadline, Confirmed
<1>6. CASE Backoff
  <2>1. Confirmed' = Confirmed /\ answer = "none"
    BY <1>6 DEF Backoff, Confirmed, SenderInv, AnswersLast
  <2> QED BY <1>6, <2>1 DEF Backoff, Outcome!Fail
<1> QED BY <1>1, <1>2, <1>3, <1>4, <1>5, <1>6 DEF SenderStep

LEMMA ChainRefines == SenderInv /\ ChainStep => [Outcome!Next]_(Outcome!vars)
<1> SUFFICES ASSUME SenderInv, NEW a \in Attempt,
                    Process(a) \/ Confirm(a) \/ Undo(a) \/ Expire(a)
             PROVE  [Outcome!Next]_(Outcome!vars)
  BY DEF ChainStep
<1> USE DEF Outcome!vars, Outcome!Next, sender
<1>1. CASE copy[a] = "processed" /\ copy' = [copy EXCEPT ![a] = "confirmed"] /\ answer' = answer
  <2>1. a \notin Confirmed /\ Confirmed' = Confirmed \cup {a} /\ Confirmed \subseteq Attempt
    BY <1>1 DEF Confirmed, SenderInv, TypeOK
  <2>2. IsFiniteSet(Confirmed) /\ Cardinality(Confirmed) \in Nat
    BY <2>1, ConfirmedFinite
  <2>3. Cardinality(Confirmed') = Cardinality(Confirmed) + 1
    BY <2>1, <2>2, FS_AddElement
  <2>4. Cardinality(Confirmed') <= MaxRetries + 1
    BY <2>1, ConfirmedFinite
  <2> QED BY <1>1, <2>2, <2>3, <2>4, SenderAssumption DEF Outcome!Confirm
<1>2. CASE ~(copy[a] = "processed" /\ copy' = [copy EXCEPT ![a] = "confirmed"])
  <2>1. Confirmed' = Confirmed
    BY <1>2 DEF Confirmed, SenderInv, TypeOK, Process, Confirm, Undo, Expire
  <2> QED BY <2>1 DEF Process, Confirm, Undo, Expire
<1> QED BY <1>1, <1>2 DEF Process, Confirm, Undo, Expire

\* Whatever the chain does, a caller of sendTransaction sees what SendOutcome promises:
\* one answer, and a success only for a confirmed copy (transaction-sender.ts:88-184).
THEOREM Promise == Spec => PromiseKept
<1>1. SenderInv /\ [Next]_vars => [Outcome!Next]_(Outcome!vars)
  <2>1. UNCHANGED vars => [Outcome!Next]_(Outcome!vars)
    BY DEF vars, Outcome!vars, Confirmed
  <2> QED BY <2>1, SenderRefines, ChainRefines DEF Next
<1> QED BY InitOutcome, SenderInvariant, <1>1, PTL DEF Spec, PromiseKept, Outcome!Spec
===============================================================================
