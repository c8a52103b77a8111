---------------- MODULE DirectInferenceManagerTarget_proofs ----------------
(***************************************************************************)
(* Proofs about DirectInferenceManagerTarget: type correctness, the        *)
(* inductive invariant of its loop with the properties it carries, and     *)
(* that it implements ForwardChaining.                                     *)
(***************************************************************************)
EXTENDS DirectInferenceManagerTarget, SequenceTheorems, TLAPS

-----------------------------------------------------------------------------
(* What pop, push and requeue do to the formulas of a queue.               *)

(* A queue holds its front, the rest of it and nothing else.               *)
LEMMA RangeHeadTail ==
  ASSUME NEW S, NEW s \in Seq(S), s # <<>>
  PROVE  /\ Head(s) \in Range(s)
         /\ Range(s) = {Head(s)} \cup Range(Tail(s))
<1>1. /\ Len(s) \in Nat \ {0} /\ DOMAIN s = 1 .. Len(s) /\ Head(s) = s[1]
  BY EmptySeq, LenProperties
<1>2. /\ Tail(s) \in Seq(S) /\ Len(Tail(s)) = Len(s) - 1
      /\ \A i \in 1 .. Len(Tail(s)) : Tail(s)[i] = s[i + 1]
  BY HeadTailProperties
<1>3. DOMAIN Tail(s) = 1 .. Len(s) - 1
  BY <1>2, LenProperties
<1>4. Head(s) \in Range(s)
  BY <1>1 DEF Range
<1>5. ASSUME NEW x \in Range(Tail(s))
      PROVE  x \in Range(s)
  <2>1. PICK i \in 1 .. Len(s) - 1 : x = Tail(s)[i]
    BY <1>3 DEF Range
  <2>2. i + 1 \in 1 .. Len(s) /\ x = s[i + 1]
    BY <2>1, <1>1, <1>2
  <2>. QED  BY <2>2, <1>1 DEF Range
<1>6. ASSUME NEW x \in Range(s), x # Head(s)
      PROVE  x \in Range(Tail(s))
  <2>1. PICK i \in 1 .. Len(s) : x = s[i]
    BY <1>1 DEF Range
  <2>2. i - 1 \in 1 .. Len(s) - 1 /\ x = Tail(s)[i - 1]
    BY <2>1, <1>6, <1>1, <1>2
  <2>. QED  BY <2>2, <1>3 DEF Range
<1>. QED  BY <1>4, <1>5, <1>6

(* Appending a formula adds it to the formulas of the sequence.            *)
LEMMA RangeOfAppend ==
  ASSUME NEW S, NEW s \in Seq(S), NEW e \in S
  PROVE  Range(Append(s, e)) = Range(s) \cup {e}
<1>1. /\ Append(s, e) \in Seq(S) /\ Len(Append(s, e)) = Len(s) + 1
      /\ \A i \in 1 .. Len(s) : Append(s, e)[i] = s[i]
      /\ Append(s, e)[Len(s) + 1] = e
  BY AppendProperties
<1>2. /\ Len(s) \in Nat /\ DOMAIN s = 1 .. Len(s)
      /\ DOMAIN Append(s, e) = 1 .. Len(s) + 1
  BY <1>1, LenProperties
<1>. QED  BY <1>1, <1>2 DEF Range

(* Putting the checked formulas back loses at most the front of the queue. *)
LEMMA RangeOfRequeue ==
  ASSUME NEW S, NEW s \in Seq(S), NEW t \in Seq(S), s # <<>>
  PROVE  /\ Tail(s \o t) \in Seq(S)
         /\ Range(s) \cup Range(t) = {Head(s)} \cup Range(Tail(s \o t))
<1>1. s \o t \in Seq(S) /\ Range(s \o t) = Range(s) \cup Range(t)
  BY ConcatProperties, RangeConcatenation
<1>2. s \o t # <<>> /\ Head(s \o t) = Head(s)
  BY ConcatProperties, EmptySeq, LenProperties
<1>. QED  BY <1>1, <1>2, RangeHeadTail, HeadTailProperties

-----------------------------------------------------------------------------
(* Type correctness needs one more fact: between a generation and the pop  *)
(* the queue has a front to pop.                                           *)
FrontExists == pc \in {"record", "check"} => uncheckedFormulas # <<>>

TypeInv == TypeOK /\ FrontExists

LEMMA TypeInit == Init => TypeInv
<1>. SUFFICES ASSUME Init PROVE TypeInv
  OBVIOUS
<1>1. formulasSet.first \in Sets \cup {None}
  BY FormulasSetsAssumption DEF Init, AbstractInit, FormulasSetArgument
<1>2. <<>> \in Seq(Seq(Formulas)) /\ <<>> \in Seq(Formulas)
  BY EmptySeq
<1>. QED
  BY <1>1, <1>2
     DEF Init, AbstractInit, TypeInv, FrontExists, TypeOK, AbstractTypeOK, PCs, Outcomes

LEMMA TypeNext == TypeInv /\ [Next]_vars => TypeInv'
<1>. SUFFICES ASSUME TypeInv, [Next]_vars PROVE TypeInv'
  OBVIOUS
<1>. USE DEF TypeInv, FrontExists, TypeOK, AbstractTypeOK, PCs, Outcomes, Exceptions, outcomeVars,
             queueVars, memoryVars, loopVars
<1>1. CASE AlreadyAchieved  BY <1>1 DEF AlreadyAchieved, Return
<1>2. CASE NotYetAchieved  BY <1>2 DEF NotYetAchieved
<1>3. CASE TargetNotBuilt  BY <1>3 DEF TargetNotBuilt, Throw
<1>4. CASE CreateQueue
  <2>1. formulasSet.members[setOfFormulas] \in Seq(Formulas)
    BY <1>4, FormulasSetsAssumption DEF CreateQueue, QueueNextSet, FormulasSetArgument
  <2>2. formulasSet.next[setOfFormulas] \in Sets \cup {None}
    BY <1>4, FormulasSetsAssumption DEF CreateQueue, QueueNextSet, FormulasSetArgument
  <2>3. formulasQueuesByPriority' \in Seq(Seq(Formulas))
    BY <1>4, <2>1, AppendProperties DEF CreateQueue, QueueNextSet
  <2>. QED  BY <1>4, <2>2, <2>3 DEF CreateQueue, QueueNextSet
<1>5. CASE QueuesCreated  BY <1>5 DEF QueuesCreated, Throw
<1>6. CASE LoadQueue
  <2>1. formulasQueueIndex + 1 \in 1 .. Len(formulasQueuesByPriority)
    BY <1>6, LenProperties DEF LoadQueue
  <2>2. QueueAt(formulasQueueIndex) \in Seq(Formulas)
    BY <2>1, ElementOfSeq DEF QueueAt
  <2>. QED  BY <1>6, <2>2 DEF LoadQueue
<1>7. CASE Finish  BY <1>7 DEF Finish, Return
<1>8. CASE Apply  BY <1>8, HeadTailProperties DEF Apply, Draining, UseGenerates, Tried
<1>9. CASE Fail
  <2>1. /\ Head(uncheckedFormulas) \in Formulas
        /\ Tail(uncheckedFormulas) \in Seq(Formulas)
    BY <1>9, HeadTailProperties DEF Fail, FailTo, Draining
  <2>2. Append(checkedFormulas, Head(uncheckedFormulas)) \in Seq(Formulas)
    BY <2>1, AppendProperties
  <2>3. /\ knowledge' \in Nat /\ progress' = progress
        /\ Tried(Head(uncheckedFormulas), "failed")
    BY <1>9 DEF Fail, FailTo, NotGenerated, UseFails, UseGeneratesSilently
  <2>4. /\ lastAttempt' \in [Formulas -> Nat]
        /\ lastOutcome' \in [Formulas -> Outcomes]
    BY <2>1, <2>3 DEF Tried
  <2>. QED  BY <1>9, <2>1, <2>2, <2>3, <2>4 DEF Fail, FailTo, Draining
<1>10. CASE UseFormulaThrows
  BY <1>10, MaxKnowledgeAssumption DEF UseFormulaThrows, UseThrows, Throw
<1>11. CASE RecordNode  BY <1>11 DEF RecordNode
<1>12. CASE RecordNodeThrows  BY <1>12 DEF RecordNodeThrows, Throw
<1>13. CASE TargetFound  BY <1>13 DEF TargetFound
<1>14. CASE TargetMissed
  <2>1. Tail(uncheckedFormulas \o checkedFormulas) \in Seq(Formulas)
    BY <1>14, RangeOfRequeue DEF TargetMissed, Requeue
  <2>. QED  BY <1>14, <2>1, EmptySeq DEF TargetMissed, Requeue
<1>15. CASE QueueDrained  BY <1>15 DEF QueueDrained
<1>16. CASE Terminated  BY <1>16 DEF Terminated, vars, abstractVars
<1>17. CASE UNCHANGED vars  BY <1>17 DEF vars, abstractVars
<1>. QED
  BY <1>1, <1>2, <1>3, <1>4, <1>5, <1>6, <1>7, <1>8, <1>9, <1>10, <1>11,
     <1>12, <1>13, <1>14, <1>15, <1>16, <1>17 DEF Next

(* DirectInferenceManagerTarget::applyInference keeps its variables in     *)
(* their types, whatever the formulas and however they evaluate.           *)
THEOREM TypeCorrect == Spec => []TypeOK
<1>1. Spec => []TypeInv
  BY TypeInit, TypeNext, PTL DEF Spec
<1>2. TypeInv => TypeOK
  BY DEF TypeInv
<1>. QED  BY <1>1, <1>2, PTL

-----------------------------------------------------------------------------
(* The loop invariant is inductive together with type correctness.         *)
IInv == TypeInv /\ LoopInvariant

(* The formulas of a queue that exists are formulas.                       *)
LEMMA SetAtType ==
  ASSUME TypeOK, NEW i \in Nat, i < Len(formulasQueuesByPriority)
  PROVE  SetAt(i) \subseteq Formulas
<1>1. i + 1 \in 1 .. Len(formulasQueuesByPriority)
  BY LenProperties DEF TypeOK, AbstractTypeOK
<1>2. QueueAt(i) \in Seq(Formulas)
  BY <1>1, ElementOfSeq DEF QueueAt, TypeOK, AbstractTypeOK
<1>. QED  BY <1>2, RangeOfSeq DEF SetAt

LEMMA LoopInit == Init => LoopInvariant
BY FormulasSetsAssumption
   DEF Init, AbstractInit, LoopInvariant, Counted, NothingTried,
       CheckedAreFailed, Accounted, AppliedAtFront, PriorityRespected,
       GivesUpExhausted

(* Steps that change neither the queues nor what is known about a formula. *)
LEMMA LoopQuiet ==
  ASSUME IInv,
         \/ AlreadyAchieved \/ NotYetAchieved \/ TargetNotBuilt
         \/ CreateQueue \/ QueuesCreated \/ UseFormulaThrows
         \/ RecordNode \/ RecordNodeThrows \/ TargetFound \/ Terminated
         \/ UNCHANGED vars
  PROVE  LoopInvariant'
<1>. USE DEF IInv, TypeInv, TypeOK, AbstractTypeOK, LoopInvariant, Counted, NothingTried,
             CheckedAreFailed, Accounted, AppliedAtFront, PriorityRespected,
             GivesUpExhausted, FailsNow, Exhausted, SetAt, QueueAt,
             outcomeVars, queueVars, memoryVars, loopVars
<1>1. CASE AlreadyAchieved  BY <1>1 DEF AlreadyAchieved, Return
<1>2. CASE NotYetAchieved  BY <1>2 DEF NotYetAchieved
<1>3. CASE TargetNotBuilt  BY <1>3 DEF TargetNotBuilt, Throw
<1>4. CASE CreateQueue  BY <1>4 DEF CreateQueue, QueueNextSet
<1>5. CASE QueuesCreated
  <2>1. Range(checkedFormulas) = {}
    BY <1>5 DEF QueuesCreated, Range
  <2>. QED  BY <1>5, <2>1 DEF QueuesCreated, Throw
<1>6. CASE UseFormulaThrows
  BY <1>6, MaxKnowledgeAssumption DEF UseFormulaThrows, UseThrows, Throw, Draining
<1>7. CASE RecordNode  BY <1>7 DEF RecordNode
<1>8. CASE RecordNodeThrows  BY <1>8 DEF RecordNodeThrows, Throw
<1>9. CASE TargetFound  BY <1>9 DEF TargetFound
<1>10. CASE Terminated  BY <1>10 DEF Terminated, vars, abstractVars
<1>11. CASE UNCHANGED vars  BY <1>11 DEF vars, abstractVars
<1>. QED
  BY <1>1, <1>2, <1>3, <1>4, <1>5, <1>6, <1>7, <1>8, <1>9, <1>10, <1>11

(* The queue loaded is the only one not yet exhausted.                     *)
LEMMA LoopLoadQueue == IInv /\ LoadQueue => LoopInvariant'
<1>. SUFFICES ASSUME IInv, LoadQueue PROVE LoopInvariant'
  OBVIOUS
<1>. USE DEF IInv, TypeInv, TypeOK, AbstractTypeOK, LoadQueue, LoopInvariant,
             outcomeVars, queueVars, memoryVars
<1>1. Accounted'
  <2>1. /\ ~targetAchieved' /\ formulasQueueIndex' = formulasQueueIndex
        /\ formulasQueueIndex' < Len(formulasQueuesByPriority')
    OBVIOUS
  <2>2. ASSUME NEW i \in 0 .. formulasQueueIndex, NEW f \in SetAt(i)'
        PROVE  (Exhausted(i, f) \/ f \in Range(uncheckedFormulas))'
    <3>1. f \in SetAt(i) /\ (Exhausted(i, f) => Exhausted(i, f)')
      BY <2>2 DEF SetAt, QueueAt, Exhausted, FailsNow
    <3>2. CASE i = formulasQueueIndex
      BY <3>1, <3>2 DEF SetAt
    <3>3. CASE i # formulasQueueIndex
      <4>1. i \in 0 .. formulasQueueIndex - 1 /\ i < Len(formulasQueuesByPriority)
        BY <3>3, LenProperties
      <4>2. PriorityRespected /\ pc = "for" /\ ~targetAchieved
        OBVIOUS
      <4>3. Exhausted(i, f)
        BY <3>1, <4>1, <4>2 DEF PriorityRespected
      <4>. QED  BY <4>3, <3>1
    <3>. QED  BY <3>2, <3>3
  <2>. QED  BY <2>1, <2>2 DEF Accounted
<1>2. CheckedAreFailed'
  BY DEF CheckedAreFailed, FailsNow
<1>. QED
  BY <1>1, <1>2
     DEF Counted, NothingTried, AppliedAtFront, PriorityRespected, GivesUpExhausted

(* The for loop ends with its index at the number of queues.               *)
LEMMA LoopFinish == IInv /\ Finish => LoopInvariant'
<1>. SUFFICES ASSUME IInv, Finish PROVE LoopInvariant'
  OBVIOUS
<1>. USE DEF IInv, TypeInv, TypeOK, AbstractTypeOK, Finish, Return, LoopInvariant,
             outcomeVars, queueVars, memoryVars, loopVars
<1>1. GivesUpExhausted'
  <2>. SUFFICES ASSUME ~targetAchieved',
                       NEW i \in 0 .. Len(formulasQueuesByPriority') - 1,
                       NEW f \in SetAt(i)'
                PROVE  Exhausted(i, f)'
    BY DEF GivesUpExhausted
  <2>1. f \in SetAt(i) /\ (Exhausted(i, f) => Exhausted(i, f)')
    BY DEF SetAt, QueueAt, Exhausted, FailsNow
  <2>2. /\ Len(formulasQueuesByPriority) \in Nat
        /\ formulasQueueIndex >= Len(formulasQueuesByPriority)
    BY LenProperties
  <2>3. i \in 0 .. formulasQueueIndex - 1 /\ i < Len(formulasQueuesByPriority)
    BY <2>2
  <2>. QED  BY <2>1, <2>3 DEF PriorityRespected
<1>. QED
  BY <1>1
     DEF Counted, NothingTried, CheckedAreFailed, Accounted, AppliedAtFront,
         PriorityRespected

(* A drained queue is exhausted.                                           *)
LEMMA LoopQueueDrained == IInv /\ QueueDrained => LoopInvariant'
<1>. SUFFICES ASSUME IInv, QueueDrained PROVE LoopInvariant'
  OBVIOUS
<1>1. Range(uncheckedFormulas) = {}
  BY DEF QueueDrained, Range
<1>. QED
  BY <1>1
     DEF IInv, TypeInv, TypeOK, AbstractTypeOK, QueueDrained, LoopInvariant, Counted,
         NothingTried, CheckedAreFailed, Accounted, AppliedAtFront, PriorityRespected,
         GivesUpExhausted, FailsNow, Exhausted, SetAt, QueueAt,
         outcomeVars, queueVars, memoryVars

(* A formula that generates makes every earlier failure stale.             *)
LEMMA LoopApply == IInv /\ Apply => LoopInvariant'
<1>. SUFFICES ASSUME IInv, Apply PROVE LoopInvariant'
  OBVIOUS
<1>. DEFINE front == Head(uncheckedFormulas)
<1>. USE DEF IInv, TypeInv, TypeOK, AbstractTypeOK, Apply, Draining, LoopInvariant,
             outcomeVars, queueVars, loopVars
<1>1. front \in Formulas /\ front \in Range(uncheckedFormulas)
  BY HeadTailProperties, RangeHeadTail
<1>2. /\ knowledge' = knowledge + 1 /\ progress' = knowledge + 1
      /\ lastAttempt' = [lastAttempt EXCEPT ![front] = knowledge + 1]
      /\ lastOutcome' = [lastOutcome EXCEPT ![front] = "applied"]
  BY DEF UseGenerates, Tried
<1>3. ASSUME NEW f \in Formulas PROVE ~FailsNow(f)'
  <2>1. CASE f = front
    BY <2>1, <1>1, <1>2 DEF FailsNow
  <2>2. CASE f # front
    BY <2>2, <1>1, <1>2 DEF FailsNow, Counted
  <2>. QED  BY <2>1, <2>2
<1>4. Counted'
  BY <1>1, <1>2 DEF Counted
<1>5. AppliedAtFront'
  <2>1. 0 < Len(formulasQueuesByPriority)
    BY LenProperties DEF Accounted
  <2>2. ASSUME NEW f \in SetAt(0)'
        PROVE  (lastOutcome[f] = "applied"
                  \/ f \in Range(uncheckedFormulas) \cup Range(checkedFormulas))'
    <3>1. f \in SetAt(0) /\ f \in Formulas
      BY <2>1, <2>2, SetAtType DEF SetAt, QueueAt
    <3>2. \/ FailsNow(f) \/ lastOutcome[f] = "applied"
          \/ f \in Range(uncheckedFormulas)
      BY <3>1 DEF Accounted, Exhausted
    <3>3. FailsNow(f) => f \in Range(checkedFormulas)
      BY <3>1 DEF Accounted, CheckedAreFailed
    <3>4. lastOutcome[f] = "applied" => lastOutcome'[f] = "applied"
      BY <3>1, <1>1, <1>2
    <3>. QED  BY <3>2, <3>3, <3>4
  <2>3. lastOutcome'[front] = "applied"
    BY <1>1, <1>2
  <2>. QED  BY <2>2, <2>3, <1>3 DEF AppliedAtFront, Accounted
<1>. QED
  BY <1>4, <1>5
     DEF NothingTried, CheckedAreFailed, Accounted, PriorityRespected, GivesUpExhausted

(* A formula that fails moves from the queue to the checked formulas.      *)
LEMMA LoopFail == IInv /\ Fail => LoopInvariant'
<1>. SUFFICES ASSUME IInv, Fail PROVE LoopInvariant'
  OBVIOUS
<1>. DEFINE front == Head(uncheckedFormulas)
<1>. USE DEF IInv, TypeInv, TypeOK, AbstractTypeOK, Fail, FailTo, Draining, LoopInvariant,
             outcomeVars, queueVars
<1>1. /\ front \in Formulas
      /\ Range(uncheckedFormulas) = {front} \cup Range(Tail(uncheckedFormulas))
  BY HeadTailProperties, RangeHeadTail
<1>2. Range(checkedFormulas') = Range(checkedFormulas) \cup {front}
  BY <1>1, RangeOfAppend
<1>3. /\ knowledge' \in Nat /\ knowledge' >= knowledge /\ progress' = progress
      /\ lastAttempt' = [lastAttempt EXCEPT ![front] = knowledge']
      /\ lastOutcome' = [lastOutcome EXCEPT ![front] = "failed"]
  BY DEF NotGenerated, UseFails, UseGeneratesSilently, Tried
<1>4. ASSUME NEW f \in Formulas PROVE FailsNow(f)' <=> f = front \/ FailsNow(f)
  <2>1. CASE f = front
    BY <2>1, <1>1, <1>3 DEF FailsNow, Counted
  <2>2. CASE f # front
    BY <2>2, <1>1, <1>3 DEF FailsNow
  <2>. QED  BY <2>1, <2>2
<1>5. Counted'
  BY <1>1, <1>3 DEF Counted
<1>6. CheckedAreFailed'
  BY <1>2, <1>4 DEF CheckedAreFailed
<1>7. Accounted'
  <2>1. ASSUME NEW i \in 0 .. formulasQueueIndex, NEW f \in SetAt(i)'
        PROVE  (Exhausted(i, f) \/ f \in Range(uncheckedFormulas))'
    <3>1. i \in Nat /\ i < Len(formulasQueuesByPriority)
      BY LenProperties DEF Accounted
    <3>2. f \in SetAt(i) /\ f \in Formulas
      BY <2>1, <3>1, SetAtType DEF SetAt, QueueAt
    <3>3. Exhausted(i, f) \/ f \in Range(uncheckedFormulas)
      BY <3>2 DEF Accounted
    <3>4. f # front => lastOutcome'[f] = lastOutcome[f]
      BY <3>2, <1>1, <1>3
    <3>. QED  BY <3>2, <3>3, <3>4, <1>1, <1>4 DEF Exhausted
  <2>. QED  BY <2>1 DEF Accounted
<1>. QED
  BY <1>5, <1>6, <1>7 DEF NothingTried, AppliedAtFront, PriorityRespected, GivesUpExhausted

(* After a generation that missed the target, the first queue is accounted *)
(* for: what failed is back in the queue, what was applied is exhausted.   *)
LEMMA LoopTargetMissed == IInv /\ TargetMissed => LoopInvariant'
<1>. SUFFICES ASSUME IInv, TargetMissed PROVE LoopInvariant'
  OBVIOUS
<1>. DEFINE front == Head(uncheckedFormulas)
<1>. USE DEF IInv, TypeInv, TypeOK, AbstractTypeOK, TargetMissed, Requeue, LoopInvariant,
             outcomeVars, queueVars, memoryVars
<1>1. Range(uncheckedFormulas) \cup Range(checkedFormulas)
        = {front} \cup Range(uncheckedFormulas')
  BY RangeOfRequeue DEF AppliedAtFront
<1>2. Range(checkedFormulas') = {}
  BY DEF Range
<1>3. \A f : FailsNow(f)' <=> FailsNow(f)
  BY DEF FailsNow
<1>4. CheckedAreFailed'
  BY <1>2, <1>3 DEF CheckedAreFailed, AppliedAtFront
<1>5. Accounted'
  <2>1. 0 < Len(formulasQueuesByPriority)
    BY LenProperties DEF AppliedAtFront
  <2>2. ASSUME NEW f \in SetAt(0)'
        PROVE  (Exhausted(0, f) \/ f \in Range(uncheckedFormulas))'
    <3>1. f \in SetAt(0)
      BY <2>2 DEF SetAt, QueueAt
    <3>2. \/ lastOutcome[f] = "applied"
          \/ f \in Range(uncheckedFormulas) \cup Range(checkedFormulas)
      BY <3>1 DEF AppliedAtFront
    <3>3. lastOutcome[front] = "applied"
      BY DEF AppliedAtFront
    <3>. QED  BY <3>2, <3>3, <1>1 DEF Exhausted
  <2>. QED  BY <2>1, <2>2 DEF Accounted, AppliedAtFront
<1>. QED
  BY <1>4, <1>5 DEF Counted, NothingTried, AppliedAtFront, PriorityRespected, GivesUpExhausted

LEMMA LoopNext == IInv /\ [Next]_vars => IInv'
<1>. SUFFICES ASSUME IInv, [Next]_vars PROVE IInv'
  OBVIOUS
<1>1. TypeInv'
  BY TypeNext DEF IInv
<1>2. LoopInvariant'
  BY LoopQuiet, LoopLoadQueue, LoopFinish, LoopQueueDrained, LoopApply, LoopFail,
     LoopTargetMissed DEF Next
<1>. QED  BY <1>1, <1>2 DEF IInv

(* applyInference keeps its loop invariant, whatever the formulas.         *)
THEOREM LoopCorrect == Spec => []LoopInvariant
<1>1. Init => IInv
  BY TypeInit, LoopInit DEF IInv
<1>2. Spec => []IInv
  BY <1>1, LoopNext, PTL DEF Spec
<1>3. IInv => LoopInvariant
  BY DEF IInv
<1>. QED  BY <1>2, <1>3, PTL

(* When applyInference turns to a queue, every formula of every queue of   *)
(* higher priority is exhausted.                                           *)
THEOREM PriorityCorrect == Spec => []PriorityRespected
<1>1. LoopInvariant => PriorityRespected
  BY DEF LoopInvariant
<1>. QED  BY LoopCorrect, <1>1, PTL

(* When applyInference gives up, every formula of every queue is           *)
(* exhausted.                                                              *)
THEOREM GiveUpCorrect == Spec => []GivesUpExhausted
<1>1. LoopInvariant => GivesUpExhausted
  BY DEF LoopInvariant
<1>. QED  BY LoopCorrect, <1>1, PTL

-----------------------------------------------------------------------------
(* The growth of the queue.                                                *)

(* What is queued or was checked, and the queues that the loop has not     *)
(* loaded yet, amount to one pass for each generation, and one more.       *)
Queued == Len(uncheckedFormulas) + Len(checkedFormulas)

Remaining(i) == TotalLength - LengthOfFirst[i]

Growth ==
  /\ pc \in {"queues", "begin"} => Queued = 0 /\ formulasQueueIndex = 0
  /\ pc = "for" =>
       /\ formulasQueueIndex <= Len(formulasQueuesByPriority)
       /\ Queued + Remaining(formulasQueueIndex) <= (knowledge + 1) * TotalLength
  /\ pc = "while" =>
       /\ formulasQueueIndex < Len(formulasQueuesByPriority)
       /\ Queued + Remaining(formulasQueueIndex + 1) <= (knowledge + 1) * TotalLength
  /\ pc \in {"record", "check"} =>
       /\ formulasQueueIndex < Len(formulasQueuesByPriority)
       /\ Queued + Remaining(formulasQueueIndex + 1) <= knowledge * TotalLength

(* The lengths of the first queues, for any way to count them.  That there *)
(* is one is seen by induction over the steps that create the queues.      *)
Counts(queues, f) ==
  f = [i \in 0 .. Len(queues) |-> IF i = 0 THEN 0 ELSE f[i - 1] + Len(queues[i])]

Countable(queues) ==
  /\ \E f : Counts(queues, f)
  /\ \A f : Counts(queues, f) =>
       \A i \in 0 .. Len(queues) : f[i] \in Nat /\ f[i] <= f[Len(queues)]

GrowthInv == TypeInv /\ Countable(formulasQueuesByPriority) /\ Growth

LEMMA CountableEmpty == Countable(<<>>)
<1>1. Len(<<>>) = 0 /\ 0 .. 0 = {0}
  OBVIOUS
<1>2. Counts(<<>>, [i \in 0 .. 0 |-> 0])
  BY <1>1 DEF Counts
<1>3. ASSUME NEW f, Counts(<<>>, f) PROVE f[0] = 0
  BY <1>1, <1>3 DEF Counts
<1>. QED  BY <1>1, <1>2, <1>3 DEF Countable

LEMMA CountableAppend ==
  ASSUME NEW queues \in Seq(Seq(Formulas)), NEW queue \in Seq(Formulas), Countable(queues)
  PROVE  Countable(Append(queues, queue))
<1>. DEFINE n == Len(queues)
            longer == Append(queues, queue)
<1>1. /\ n \in Nat /\ Len(longer) = n + 1 /\ longer[n + 1] = queue
      /\ \A i \in 1 .. n : longer[i] = queues[i]
      /\ Len(queue) \in Nat
  BY AppendProperties, LenProperties
<1>. HIDE DEF n, longer
<1>2. ASSUME NEW f, Counts(longer, f)
      PROVE  \A i \in 0 .. n + 1 : f[i] \in Nat /\ f[i] <= f[n + 1]
  <2>1. \A i \in 0 .. n + 1 : f[i] = IF i = 0 THEN 0 ELSE f[i - 1] + Len(longer[i])
    BY <1>1, <1>2 DEF Counts
  <2>. DEFINE g == [i \in 0 .. n |-> f[i]]
  <2>2. g = [i \in 0 .. n |-> IF i = 0 THEN 0 ELSE g[i - 1] + Len(queues[i])]
    BY <1>1, <2>1
  <2>3. \A i \in 0 .. n : g[i] \in Nat /\ g[i] <= g[n]
    BY <2>2 DEF Counts, Countable, n
  <2>4. f[n + 1] = f[n] + Len(queue)
    BY <1>1, <2>1
  <2>. QED  BY <1>1, <2>3, <2>4
<1>3. PICK g : Counts(queues, g)
  BY DEF Countable
<1>. DEFINE f == [i \in 0 .. n + 1 |-> IF i = n + 1 THEN g[n] + Len(queue) ELSE g[i]]
<1>4. f = [i \in 0 .. n + 1 |-> IF i = 0 THEN 0 ELSE f[i - 1] + Len(longer[i])]
  <2>1. \A i \in 0 .. n : g[i] = IF i = 0 THEN 0 ELSE g[i - 1] + Len(queues[i])
    BY <1>3 DEF Counts, n
  <2>2. ASSUME NEW i \in 0 .. n + 1
        PROVE  f[i] = IF i = 0 THEN 0 ELSE f[i - 1] + Len(longer[i])
    <3>1. CASE i = 0
      BY <1>1, <2>1, <3>1
    <3>2. CASE i \in 1 .. n
      <4>1. i - 1 \in 0 .. n /\ f[i] = g[i] /\ f[i - 1] = g[i - 1]
        BY <1>1, <3>2
      <4>2. i \in 0 .. n /\ i # 0 /\ longer[i] = queues[i]
        BY <1>1, <3>2
      <4>. HIDE DEF f
      <4>3. g[i] = g[i - 1] + Len(queues[i])
        BY <2>1, <4>2
      <4>. QED  BY <4>1, <4>2, <4>3
    <3>3. CASE i = n + 1
      <4>1. f[i] = g[n] + Len(queue) /\ f[i - 1] = g[n]
        BY <1>1, <3>3
      <4>. QED  BY <1>1, <3>3, <4>1
    <3>. QED  BY <1>1, <3>1, <3>2, <3>3
  <2>. QED  BY <2>2
<1>5. Counts(longer, f)
  BY <1>1, <1>4 DEF Counts
<1>6. \E h : Counts(longer, h)
  BY <1>5
<1>. QED  BY <1>1, <1>2, <1>6 DEF Countable, longer

LEMMA LengthsAre ==
  ASSUME TypeOK, Countable(formulasQueuesByPriority)
  PROVE  /\ TotalLength \in Nat /\ LengthOfFirst[0] = 0
         /\ \A i \in 0 .. Len(formulasQueuesByPriority) :
              LengthOfFirst[i] \in Nat /\ LengthOfFirst[i] <= TotalLength
         /\ \A i \in 1 .. Len(formulasQueuesByPriority) :
              LengthOfFirst[i] = LengthOfFirst[i - 1] + Len(formulasQueuesByPriority[i])
<1>1. Counts(formulasQueuesByPriority, LengthOfFirst)
  BY DEF Countable, Counts, LengthOfFirst
<1>2. Len(formulasQueuesByPriority) \in Nat
  BY LenProperties DEF TypeOK, AbstractTypeOK
<1>3. \A i \in 0 .. Len(formulasQueuesByPriority) :
        LengthOfFirst[i] \in Nat /\ LengthOfFirst[i] <= TotalLength
  BY <1>1 DEF Countable, TotalLength
<1>4. \A i \in 0 .. Len(formulasQueuesByPriority) :
        LengthOfFirst[i] =
          IF i = 0 THEN 0 ELSE LengthOfFirst[i - 1] + Len(formulasQueuesByPriority[i])
  BY <1>1 DEF Counts
<1>. QED  BY <1>2, <1>3, <1>4 DEF TotalLength

LEMMA GrowthInit == Init => GrowthInv
<1>. SUFFICES ASSUME Init PROVE GrowthInv
  OBVIOUS
<1>1. Queued = 0
  BY DEF Queued, Init
<1>. QED  BY <1>1, TypeInit, CountableEmpty DEF GrowthInv, Growth, Init, AbstractInit

LEMMA CountableNext == GrowthInv /\ [Next]_vars => Countable(formulasQueuesByPriority)'
<1>. SUFFICES ASSUME GrowthInv, [Next]_vars PROVE Countable(formulasQueuesByPriority)'
  OBVIOUS
<1>1. CASE CreateQueue
  <2>1. /\ formulasQueuesByPriority \in Seq(Seq(Formulas))
        /\ formulasSet.members[setOfFormulas] \in Seq(Formulas)
        /\ formulasQueuesByPriority' =
             Append(formulasQueuesByPriority, formulasSet.members[setOfFormulas])
    BY <1>1, FormulasSetsAssumption
       DEF GrowthInv, TypeInv, TypeOK, AbstractTypeOK, CreateQueue, QueueNextSet, FormulasSetArgument
  <2>2. Countable(Append(formulasQueuesByPriority, formulasSet.members[setOfFormulas]))
    BY <2>1, CountableAppend DEF GrowthInv
  <2>. QED  BY <2>1, <2>2 DEF Countable, Counts
<1>2. CASE ~CreateQueue
  <2>1. formulasQueuesByPriority' = formulasQueuesByPriority
    BY <1>2 DEF Next, vars, abstractVars, queueVars, AlreadyAchieved, NotYetAchieved, TargetNotBuilt,
       QueuesCreated, LoadQueue, Finish, Apply, Fail, FailTo, UseFormulaThrows, RecordNode,
       RecordNodeThrows, TargetFound, TargetMissed, Requeue, QueueDrained, Terminated
  <2>. QED  BY <2>1 DEF GrowthInv, Countable, Counts
<1>. QED  BY <1>1, <1>2

LEMMA GrowthNext == GrowthInv /\ [Next]_vars => GrowthInv'
<1>. SUFFICES ASSUME GrowthInv, [Next]_vars PROVE GrowthInv'
  OBVIOUS
<1>1. TypeInv /\ TypeInv' /\ Countable(formulasQueuesByPriority)'
  BY TypeNext, CountableNext DEF GrowthInv
<1>2. /\ knowledge \in Nat /\ knowledge' \in Nat /\ formulasQueueIndex \in Nat
      /\ uncheckedFormulas \in Seq(Formulas) /\ checkedFormulas \in Seq(Formulas)
      /\ uncheckedFormulas' \in Seq(Formulas) /\ checkedFormulas' \in Seq(Formulas)
      /\ Len(uncheckedFormulas) \in Nat /\ Len(checkedFormulas) \in Nat
      /\ Len(uncheckedFormulas') \in Nat /\ Len(checkedFormulas') \in Nat
      /\ Len(formulasQueuesByPriority) \in Nat /\ pc \in PCs
  BY <1>1, LenProperties DEF TypeInv, TypeOK, AbstractTypeOK
<1>3. /\ TotalLength \in Nat /\ LengthOfFirst[0] = 0
      /\ \A i \in 0 .. Len(formulasQueuesByPriority) :
           LengthOfFirst[i] \in Nat /\ LengthOfFirst[i] <= TotalLength
      /\ \A i \in 1 .. Len(formulasQueuesByPriority) :
           LengthOfFirst[i] = LengthOfFirst[i - 1] + Len(formulasQueuesByPriority[i])
  BY LengthsAre DEF GrowthInv, TypeInv
<1>4. PICK b \in Nat : knowledge * TotalLength = b /\ (knowledge + 1) * TotalLength = b + TotalLength
  <2>1. knowledge * TotalLength \in Nat /\ (knowledge + 1) * TotalLength = knowledge * TotalLength + TotalLength
    BY <1>2, <1>3
  <2>. QED  BY <2>1
<1>. USE DEF outcomeVars, queueVars, memoryVars, loopVars, abstractVars, vars
<1>5. CASE formulasQueuesByPriority' # formulasQueuesByPriority
  <2>1. CreateQueue
    BY <1>5 DEF Next, AlreadyAchieved, NotYetAchieved, TargetNotBuilt,
       QueuesCreated, LoadQueue, Finish, Apply, Fail, FailTo, UseFormulaThrows, RecordNode,
       RecordNodeThrows, TargetFound, TargetMissed, Requeue, QueueDrained, Terminated
  <2>. QED  BY <1>1, <2>1 DEF CreateQueue, GrowthInv, Growth, Queued
<1>6. CASE formulasQueuesByPriority' = formulasQueuesByPriority
  <2>1. LengthOfFirst' = LengthOfFirst /\ TotalLength' = TotalLength
    BY <1>6 DEF LengthOfFirst, TotalLength
  <2>2. Growth'
    <3>. USE DEF Growth, Queued, Remaining
    <3>1. CASE AlreadyAchieved  BY <3>1 DEF AlreadyAchieved, Return
    <3>2. CASE NotYetAchieved  BY <3>2 DEF GrowthInv, NotYetAchieved
    <3>3. CASE TargetNotBuilt  BY <3>3 DEF TargetNotBuilt, Throw
    <3>4. CASE CreateQueue  BY <3>4 DEF GrowthInv, CreateQueue
    <3>5. CASE QueuesCreated
      <4>1. /\ Queued' = 0 /\ formulasQueueIndex' = 0 /\ pc' \in {"for", "thrown"} /\ knowledge' = knowledge
        BY <3>5 DEF QueuesCreated, GrowthInv, Throw
      <4>2. TotalLength - LengthOfFirst[0] <= (knowledge + 1) * TotalLength
        BY <1>3, <1>4
      <4>. QED  BY <1>2, <1>3, <1>6, <2>1, <4>1, <4>2
    <3>6. CASE LoadQueue
      <4>1. /\ formulasQueueIndex < Len(formulasQueuesByPriority) /\ pc = "for" /\ pc' = "while"
            /\ uncheckedFormulas' = formulasQueuesByPriority[formulasQueueIndex + 1]
            /\ checkedFormulas' = checkedFormulas /\ formulasQueueIndex' = formulasQueueIndex
            /\ knowledge' = knowledge
        BY <3>6 DEF LoadQueue, QueueAt
      <4>2. formulasQueueIndex + 1 \in 1 .. Len(formulasQueuesByPriority)
        BY <1>2, <4>1
      <4>3. LengthOfFirst[formulasQueueIndex + 1] = LengthOfFirst[formulasQueueIndex] + Len(uncheckedFormulas')
        BY <1>2, <1>3, <4>1, <4>2
      <4>4. Queued + (TotalLength - LengthOfFirst[formulasQueueIndex]) <= b + TotalLength
        BY <1>4, <4>1 DEF GrowthInv
      <4>5. Len(checkedFormulas') = Len(checkedFormulas)
        BY <4>1
      <4>6. /\ LengthOfFirst[formulasQueueIndex] \in Nat /\ LengthOfFirst[formulasQueueIndex + 1] \in Nat
        BY <1>2, <1>3, <4>2
      <4>7. Queued' + (TotalLength - LengthOfFirst[formulasQueueIndex + 1]) <= b + TotalLength
        <5>1. /\ TotalLength \in Nat /\ Len(uncheckedFormulas') \in Nat
              /\ Len(uncheckedFormulas) \in Nat /\ Len(checkedFormulas) \in Nat
          BY <1>2, <1>3
        <5>. QED  BY <4>3, <4>4, <4>5, <4>6, <5>1, SMTT(60)
      <4>. QED  BY <1>4, <1>6, <2>1, <4>1, <4>7
    <3>7. CASE Finish  BY <3>7 DEF Finish, Return
    <3>8. CASE Apply
      <4>1. /\ knowledge' = knowledge + 1 /\ pc = "while" /\ pc' = "record"
            /\ UNCHANGED loopVars
        BY <3>8 DEF Apply, Draining, UseGenerates
      <4>. QED  BY <1>6, <2>1, <4>1 DEF GrowthInv
    <3>9. CASE Fail
      <4>1. /\ pc = "while" /\ pc' = "while" /\ knowledge' \in {knowledge, knowledge + 1}
            /\ formulasQueueIndex' = formulasQueueIndex /\ uncheckedFormulas # <<>>
            /\ checkedFormulas' = Append(checkedFormulas, Head(uncheckedFormulas))
            /\ uncheckedFormulas' = Tail(uncheckedFormulas)
        BY <3>9 DEF Fail, FailTo, Draining, NotGenerated, UseFails, UseGeneratesSilently
      <4>2. Len(uncheckedFormulas') = Len(uncheckedFormulas) - 1 /\ Head(uncheckedFormulas) \in Formulas
        BY <1>2, <4>1, HeadTailProperties
      <4>3. Len(checkedFormulas') = Len(checkedFormulas) + 1
        BY <1>2, <4>1, <4>2, AppendProperties
      <4>4. Queued' = Queued
        BY <1>2, <4>2, <4>3
      <4>5. PICK c \in Nat : (knowledge' + 1) * TotalLength = c /\ b + TotalLength <= c
        <5>1. CASE knowledge' = knowledge
          BY <1>3, <1>4, <5>1
        <5>2. CASE knowledge' = knowledge + 1
          <6>1. (knowledge + 1 + 1) * TotalLength = (knowledge + 1) * TotalLength + TotalLength
            BY <1>2, <1>3
          <6>. QED  BY <1>3, <1>4, <5>2, <6>1
        <5>. QED  BY <4>1, <5>1, <5>2
      <4>6. Queued + (TotalLength - LengthOfFirst[formulasQueueIndex + 1]) <= b + TotalLength
            /\ formulasQueueIndex < Len(formulasQueuesByPriority)
        BY <1>4, <4>1 DEF GrowthInv
      <4>7. Queued' \in Nat /\ LengthOfFirst[formulasQueueIndex + 1] \in Nat
        BY <1>2, <1>3, <4>6
      <4>8. Queued' + (TotalLength - LengthOfFirst[formulasQueueIndex + 1]) <= c
        BY <1>2, <1>3, <4>4, <4>5, <4>6, <4>7, SMTT(60)
      <4>. QED  BY <1>6, <2>1, <4>1, <4>5, <4>6, <4>8
    <3>10. CASE UseFormulaThrows  BY <3>10 DEF UseFormulaThrows, UseThrows, Throw
    <3>11. CASE RecordNode
      BY <1>6, <2>1, <3>11 DEF GrowthInv, RecordNode
    <3>12. CASE RecordNodeThrows  BY <3>12 DEF RecordNodeThrows, Throw
    <3>13. CASE TargetFound
      <4>1. /\ pc = "check" /\ pc' = "for" /\ formulasQueueIndex' = formulasQueueIndex + 1
            /\ uncheckedFormulas' = uncheckedFormulas /\ checkedFormulas' = checkedFormulas
            /\ knowledge' = knowledge
        BY <3>13 DEF TargetFound
      <4>2. /\ Queued + (TotalLength - LengthOfFirst[formulasQueueIndex + 1]) <= knowledge * TotalLength
            /\ formulasQueueIndex < Len(formulasQueuesByPriority)
        BY <4>1 DEF GrowthInv
      <4>3. LengthOfFirst[formulasQueueIndex + 1] \in Nat /\ knowledge * TotalLength \in Nat
        BY <1>2, <1>3, <4>2
      <4>4. Queued' + (TotalLength - LengthOfFirst[formulasQueueIndex + 1]) <= (knowledge + 1) * TotalLength
        BY <1>2, <1>3, <1>4, <4>1, <4>2, <4>3
      <4>. QED  BY <1>2, <1>6, <2>1, <4>1, <4>2, <4>4
    <3>14. CASE TargetMissed
      <4>1. /\ pc = "check" /\ pc' = "while" /\ formulasQueueIndex' = 0
            /\ uncheckedFormulas' = Tail(uncheckedFormulas \o checkedFormulas) /\ checkedFormulas' = <<>>
            /\ knowledge' = knowledge
        BY <3>14 DEF TargetMissed, Requeue
      <4>2. /\ Queued + (TotalLength - LengthOfFirst[formulasQueueIndex + 1]) <= knowledge * TotalLength
            /\ formulasQueueIndex < Len(formulasQueuesByPriority) /\ uncheckedFormulas # <<>>
        BY <1>1, <4>1 DEF GrowthInv, TypeInv, FrontExists
      <4>3. Queued' = Queued - 1
        <5>1. /\ uncheckedFormulas \o checkedFormulas \in Seq(Formulas)
              /\ Len(uncheckedFormulas \o checkedFormulas) = Len(uncheckedFormulas) + Len(checkedFormulas)
          BY <1>2, ConcatProperties
        <5>2. Len(uncheckedFormulas) # 0
          BY <1>2, <4>2, EmptySeq
        <5>3. uncheckedFormulas \o checkedFormulas # <<>>
          BY <1>2, <5>1, <5>2
        <5>. QED  BY <1>2, <4>1, <5>1, <5>3, HeadTailProperties
      <4>4. /\ LengthOfFirst[formulasQueueIndex + 1] \in Nat
            /\ LengthOfFirst[formulasQueueIndex + 1] <= TotalLength
            /\ LengthOfFirst[1] \in Nat /\ knowledge * TotalLength \in Nat /\ Queued \in Nat
        BY <1>2, <1>3, <4>2, SMTT(60)
      <4>5. Queued' + (TotalLength - LengthOfFirst[1]) <= (knowledge + 1) * TotalLength
        BY <1>3, <1>4, <4>2, <4>3, <4>4, SMTT(60)
      <4>. QED  BY <1>2, <1>6, <2>1, <4>1, <4>2, <4>5
    <3>15. CASE QueueDrained
      BY <1>2, <1>6, <2>1, <3>15 DEF GrowthInv, QueueDrained
    <3>16. CASE Terminated \/ UNCHANGED vars
      BY <1>6, <2>1, <3>16 DEF GrowthInv, Terminated
    <3>. QED
      BY <3>1, <3>2, <3>3, <3>4, <3>5, <3>6, <3>7, <3>8, <3>9, <3>10, <3>11,
         <3>12, <3>13, <3>14, <3>15, <3>16 DEF Next
  <2>. QED  BY <1>1, <2>2 DEF GrowthInv
<1>. QED  BY <1>5, <1>6

(* Although checkedFormulas may hold a formula several times, and every    *)
(* generation puts all of it back in the queue, the queues hold at most    *)
(* one pass for each generation and one more.                              *)
THEOREM GrowthCorrect == Spec => []QueueGrowthBounded
<1>1. ASSUME GrowthInv, InLoop
      PROVE  Queued <= (knowledge + 1) * TotalLength
  <2>1. /\ TotalLength \in Nat
        /\ \A i \in 0 .. Len(formulasQueuesByPriority) : LengthOfFirst[i] \in Nat /\ LengthOfFirst[i] <= TotalLength
    BY <1>1, LengthsAre DEF GrowthInv, TypeInv
  <2>2. /\ formulasQueueIndex \in Nat /\ Len(formulasQueuesByPriority) \in Nat /\ knowledge \in Nat
        /\ Len(uncheckedFormulas) \in Nat /\ Len(checkedFormulas) \in Nat
    BY <1>1, LenProperties DEF GrowthInv, TypeInv, TypeOK, AbstractTypeOK
  <2>3. (knowledge + 1) * TotalLength = knowledge * TotalLength + TotalLength /\ knowledge * TotalLength \in Nat
    BY <2>1, <2>2
  <2>4. PICK i \in 0 .. Len(formulasQueuesByPriority) : Queued + Remaining(i) <= (knowledge + 1) * TotalLength
    <3>1. CASE pc = "for"
      BY <1>1, <2>2, <3>1 DEF GrowthInv, Growth
    <3>2. CASE pc = "while"
      <4>1. formulasQueueIndex + 1 \in 0 .. Len(formulasQueuesByPriority)
        BY <1>1, <2>2, <3>2 DEF GrowthInv, Growth
      <4>. QED  BY <1>1, <3>2, <4>1 DEF GrowthInv, Growth
    <3>3. CASE pc \in {"record", "check"}
      <4>1. formulasQueueIndex + 1 \in 0 .. Len(formulasQueuesByPriority)
        BY <1>1, <2>2, <3>3 DEF GrowthInv, Growth
      <4>2. Queued + Remaining(formulasQueueIndex + 1) <= knowledge * TotalLength
        BY <1>1, <3>3 DEF GrowthInv, Growth
      <4>3. LengthOfFirst[formulasQueueIndex + 1] \in Nat
        BY <2>1, <4>1
      <4>4. Queued + Remaining(formulasQueueIndex + 1) <= (knowledge + 1) * TotalLength
        BY <2>1, <2>2, <2>3, <4>2, <4>3 DEF Queued, Remaining
      <4>. QED  BY <4>1, <4>4
    <3>. QED  BY <1>1, <3>1, <3>2, <3>3 DEF InLoop
  <2>. QED  BY <2>1, <2>2, <2>3, <2>4 DEF Queued, Remaining
<1>2. GrowthInv => QueueGrowthBounded
  BY <1>1 DEF QueueGrowthBounded, Queued
<1>3. Spec => []GrowthInv
  BY GrowthInit, GrowthNext, PTL DEF Spec
<1>. QED  BY <1>2, <1>3, PTL


-----------------------------------------------------------------------------
(* The loop implements ForwardChaining.                                    *)

(* What the mapping needs beside the loop invariant: the checked formulas  *)
(* were tried, the queue is empty when the next one is loaded, and there   *)
(* are no queues before the target was looked for.                         *)
MappingInv ==
  /\ \A f \in Range(checkedFormulas) : lastOutcome[f] # "untried"
  /\ pc = "for" /\ ~targetAchieved => uncheckedFormulas = <<>>
  /\ pc = "begin" => formulasQueuesByPriority = <<>>

LEMMA MappingInit == Init => MappingInv
<1>1. Range(<<>>) = {}
  BY DEF Range
<1>. QED  BY <1>1 DEF Init, AbstractInit, MappingInv

LEMMA MappingNext == IInv /\ MappingInv /\ [Next]_vars => MappingInv'
<1>. SUFFICES ASSUME IInv, MappingInv, [Next]_vars PROVE MappingInv'
  OBVIOUS
<1>. USE DEF MappingInv, outcomeVars, queueVars, memoryVars, loopVars
<1>1. CASE AlreadyAchieved  BY <1>1 DEF AlreadyAchieved, Return
<1>2. CASE NotYetAchieved  BY <1>2 DEF NotYetAchieved
<1>3. CASE TargetNotBuilt  BY <1>3 DEF TargetNotBuilt, Throw
<1>4. CASE CreateQueue  BY <1>4 DEF CreateQueue, QueueNextSet
<1>5. CASE QueuesCreated
  BY <1>5 DEF QueuesCreated, Throw, IInv, LoopInvariant, NothingTried
<1>6. CASE LoadQueue  BY <1>6 DEF LoadQueue
<1>7. CASE Finish  BY <1>7 DEF Finish, Return
<1>8. CASE Apply
  <2>1. Head(uncheckedFormulas) \in Formulas
    BY <1>8, HeadTailProperties
       DEF Apply, Draining, IInv, TypeInv, TypeOK, AbstractTypeOK
  <2>. QED
    BY <1>8, <2>1
       DEF Apply, Draining, UseGenerates, Tried, IInv, TypeInv, TypeOK, AbstractTypeOK
<1>9. CASE Fail
  <2>1. /\ Head(uncheckedFormulas) \in Formulas
        /\ Range(checkedFormulas') = Range(checkedFormulas) \cup {Head(uncheckedFormulas)}
    BY <1>9, HeadTailProperties, RangeOfAppend
       DEF Fail, FailTo, Draining, IInv, TypeInv, TypeOK, AbstractTypeOK
  <2>2. lastOutcome' = [lastOutcome EXCEPT ![Head(uncheckedFormulas)] = "failed"]
    BY <1>9 DEF Fail, FailTo, NotGenerated, UseFails, UseGeneratesSilently, Tried
  <2>. QED
    BY <1>9, <2>1, <2>2 DEF Fail, FailTo, Draining, IInv, TypeInv, TypeOK, AbstractTypeOK
<1>10. CASE UseFormulaThrows  BY <1>10 DEF UseFormulaThrows, UseThrows, Throw, Draining
<1>11. CASE RecordNode  BY <1>11 DEF RecordNode
<1>12. CASE RecordNodeThrows  BY <1>12 DEF RecordNodeThrows, Throw
<1>13. CASE TargetFound  BY <1>13 DEF TargetFound
<1>14. CASE TargetMissed
  <2>1. Range(checkedFormulas') = {}
    BY <1>14 DEF TargetMissed, Requeue, Range
  <2>. QED  BY <1>14, <2>1 DEF TargetMissed, Requeue
<1>15. CASE QueueDrained  BY <1>15 DEF QueueDrained
<1>16. CASE Terminated  BY <1>16 DEF Terminated, vars, abstractVars
<1>17. CASE UNCHANGED vars  BY <1>17 DEF vars, abstractVars
<1>. QED
  BY <1>1, <1>2, <1>3, <1>4, <1>5, <1>6, <1>7, <1>8, <1>9, <1>10, <1>11,
     <1>12, <1>13, <1>14, <1>15, <1>16, <1>17 DEF Next

-----------------------------------------------------------------------------
RInv == IInv /\ MappingInv

(* The queues are a sequence of sets of formulas.                          *)
LEMMA QueueSets ==
  ASSUME RInv
  PROVE  /\ Len(formulasQueuesByPriority) \in Nat
         /\ DOMAIN formulasQueuesByPriority = 1 .. Len(formulasQueuesByPriority)
         /\ \A n \in 1 .. Len(formulasQueuesByPriority) : SetAt(n - 1) \subseteq Formulas
<1>1. /\ formulasQueuesByPriority \in Seq(Seq(Formulas))
      /\ Len(formulasQueuesByPriority) \in Nat
      /\ DOMAIN formulasQueuesByPriority = 1 .. Len(formulasQueuesByPriority)
  BY LenProperties DEF RInv, IInv, TypeInv, TypeOK, AbstractTypeOK
<1>2. ASSUME NEW n \in 1 .. Len(formulasQueuesByPriority)
      PROVE  SetAt(n - 1) \subseteq Formulas
  <2>1. n - 1 \in Nat /\ n - 1 < Len(formulasQueuesByPriority)
    BY <1>1
  <2>. QED  BY <2>1, SetAtType DEF RInv, IInv, TypeInv
<1>. QED  BY <1>1, <1>2

(* The mapped sets are those of the queues.                                *)
LEMMA MappedSets ==
  ASSUME RInv, pc \notin {"begin", "queues"}
  PROVE  /\ Len(SetsByPriority) = Len(formulasQueuesByPriority)
         /\ \A n \in 1 .. Len(formulasQueuesByPriority) :
              SetsByPriority[n] = SetAt(n - 1) /\ SetAt(n - 1) \subseteq Formulas
<1>1. SetsByPriority =
        [n \in 1 .. Len(formulasQueuesByPriority) |-> SetAt(n - 1)]
  BY QueueSets DEF SetsByPriority
<1>. QED  BY <1>1, QueueSets

LEMMA MappedSetsEmpty ==
  ASSUME RInv, pc \in {"begin", "queues"}
  PROVE  SetsByPriority = <<>>
<1>1. DOMAIN <<>> = {} /\ [n \in {} |-> SetAt(n - 1)] = <<>>
  OBVIOUS
<1>. QED  BY <1>1 DEF SetsByPriority, RInv, MappingInv

(* A step that changes no queue maps to one that changes no set.           *)
LEMMA MappedSetsKept ==
  ASSUME UNCHANGED formulasQueuesByPriority, pc # "queues", pc' # "queues"
  PROVE  UNCHANGED SetsByPriority
BY DEF SetsByPriority, SetAt, QueueAt

-----------------------------------------------------------------------------
(* Every step maps to a step of forward chaining or to none.               *)

LEMMA RefinesInit == Init => FC!Init
<1>. SUFFICES ASSUME Init PROVE FC!Init
  OBVIOUS
<1>1. DOMAIN <<>> = {} /\ Range(<<>>) = {} /\ [n \in {} |-> SetAt(n - 1)] = <<>>
  BY DEF Range
<1>. QED
  BY <1>1 DEF Init, AbstractInit, FC!Init, Stage, SetsByPriority, Passed,
              Admitted, Vain, Applied, FailsNow

(* Steps of the call that forward chaining does not show.                  *)
LEMMA RefinesStutter ==
  ASSUME RInv,
         \/ NotYetAchieved \/ CreateQueue \/ RecordNode \/ Terminated
         \/ Finish /\ targetAchieved
         \/ UNCHANGED vars
  PROVE  UNCHANGED FC!vars
<1>. USE DEF outcomeVars, queueVars, memoryVars, loopVars
<1>1. UNCHANGED <<lastOutcome, lastAttempt, progress, uncheckedFormulas>>
  BY DEF NotYetAchieved, CreateQueue, RecordNode, Terminated, Finish, vars, abstractVars
<1>2. UNCHANGED <<Admitted, Vain, Applied>>
  BY <1>1 DEF Admitted, Vain, Applied, FailsNow
<1>3. UNCHANGED <<Stage, Passed>>
  BY DEF NotYetAchieved, CreateQueue, RecordNode, Terminated, Finish, Return,
         vars, abstractVars, Stage, Passed
<1>4. UNCHANGED SetsByPriority
  <2>1. CASE NotYetAchieved
    BY <2>1, MappedSetsEmpty DEF NotYetAchieved, SetsByPriority
  <2>2. CASE CreateQueue
    BY <2>2 DEF CreateQueue, SetsByPriority
  <2>3. CASE RecordNode \/ (Finish /\ targetAchieved)
    BY <2>3, MappedSetsKept DEF RecordNode, Finish, Return
  <2>4. CASE Terminated \/ UNCHANGED vars
    BY <2>4 DEF Terminated, vars, abstractVars, SetsByPriority, SetAt, QueueAt
  <2>. QED  BY <2>1, <2>2, <2>3, <2>4
<1>. QED  BY <1>2, <1>3, <1>4 DEF FC!vars

(* Steps that end the call before or after the formulas are used.          *)
LEMMA RefinesEnd ==
  ASSUME RInv,
         \/ AlreadyAchieved \/ TargetNotBuilt \/ UseFormulaThrows
         \/ RecordNodeThrows \/ TargetFound
         \/ QueuesCreated /\ formulasQueuesByPriority = <<>>
  PROVE  FC!Next
<1>. USE DEF outcomeVars, queueVars, memoryVars, loopVars
<1>1. UNCHANGED <<lastOutcome, lastAttempt, progress, uncheckedFormulas>>
  BY DEF AlreadyAchieved, TargetNotBuilt, UseFormulaThrows, UseThrows,
         RecordNodeThrows, TargetFound, QueuesCreated
<1>2. UNCHANGED <<Admitted, Vain, Applied>>
  BY <1>1 DEF Admitted, Vain, Applied, FailsNow
<1>3. UNCHANGED SetsByPriority
  <2>1. CASE QueuesCreated /\ formulasQueuesByPriority = <<>>
    <3>1. SetsByPriority = <<>>
      BY <2>1, MappedSetsEmpty DEF QueuesCreated
    <3>2. DOMAIN <<>> = {} /\ [n \in {} |-> SetAt(n - 1)'] = <<>>
      OBVIOUS
    <3>. QED  BY <2>1, <3>1, <3>2 DEF QueuesCreated, Throw, SetsByPriority
  <2>2. CASE \/ AlreadyAchieved \/ TargetNotBuilt \/ UseFormulaThrows
             \/ RecordNodeThrows \/ TargetFound
    BY <2>2, MappedSetsKept
       DEF AlreadyAchieved, Return, TargetNotBuilt, UseFormulaThrows, UseThrows,
           Throw, Draining, RecordNodeThrows, TargetFound
  <2>. QED  BY <2>1, <2>2
<1>4. CASE AlreadyAchieved
  <2>1. Stage = "start" /\ Stage' = "found" /\ Passed' = 0
    BY <1>4 DEF AlreadyAchieved, Return, Stage, Passed
  <2>. QED  BY <1>2, <1>3, <2>1 DEF FC!Next, FC!FindAtStart, FC!End
<1>5. CASE TargetFound
  <2>1. Stage = "generated" /\ Stage' = "found" /\ Passed' = 0
    BY <1>5 DEF TargetFound, Stage, Passed
  <2>. QED  BY <1>2, <1>3, <2>1 DEF FC!Next, FC!Find, FC!End
<1>6. CASE \/ TargetNotBuilt \/ UseFormulaThrows \/ RecordNodeThrows
           \/ QueuesCreated /\ formulasQueuesByPriority = <<>>
  <2>1. Stage \in {"start", "working", "generated"}
    BY <1>6 DEF TargetNotBuilt, UseFormulaThrows, UseThrows, Draining,
                RecordNodeThrows, QueuesCreated, Stage,
                RInv, IInv, LoopInvariant, Accounted
  <2>2. Stage' = "thrown" /\ Passed' = 0
    BY <1>6 DEF TargetNotBuilt, UseFormulaThrows, UseThrows, Throw,
                RecordNodeThrows, QueuesCreated, Stage, Passed
  <2>. QED  BY <1>2, <1>3, <2>1, <2>2 DEF FC!Next, FC!Throw, FC!End
<1>. QED  BY <1>4, <1>5, <1>6

(* The sets up to number m are exhausted as soon as the queues are.        *)
LEMMA MappedExhausted ==
  ASSUME RInv, pc \notin {"begin", "queues"},
         NEW m \in Nat, m <= Len(formulasQueuesByPriority),
         \A i \in 0 .. m - 1 : \A f \in SetAt(i) : Exhausted(i, f)
  PROVE  FC!ExhaustedUpTo(m)
<1>. SUFFICES ASSUME NEW n \in 1 .. m, NEW f \in SetsByPriority[n]
              PROVE  FC!Exhausted(n, f)
  BY DEF FC!ExhaustedUpTo
<1>1. n \in 1 .. Len(formulasQueuesByPriority) /\ n - 1 \in 0 .. m - 1
  BY LenProperties DEF RInv, IInv, TypeInv, TypeOK, AbstractTypeOK
<1>2. f \in SetAt(n - 1) /\ f \in Formulas
  BY <1>1, MappedSets
<1>3. FailsNow(f) \/ (n = 1 /\ lastOutcome[f] = "applied")
  BY <1>1, <1>2 DEF Exhausted
<1>. QED  BY <1>2, <1>3 DEF FC!Exhausted, Vain, Applied

LEMMA RefinesStart ==
  ASSUME RInv, QueuesCreated, formulasQueuesByPriority # <<>>
  PROVE  FC!Start
<1>. USE DEF QueuesCreated, outcomeVars, queueVars, memoryVars, loopVars
<1>1. Stage = "start" /\ Stage' = "working" /\ UNCHANGED Passed
  BY DEF Stage, Passed, RInv, IInv, LoopInvariant, NothingTried
<1>2. UNCHANGED <<Admitted, Vain, Applied>>
  BY DEF Admitted, Vain, Applied, FailsNow
<1>3. SetsByPriority' \in Seq(SUBSET Formulas) /\ Len(SetsByPriority') > 0
  <2>1. SetsByPriority' =
          [n \in 1 .. Len(formulasQueuesByPriority) |-> SetAt(n - 1)]
    BY QueueSets DEF SetsByPriority, SetAt, QueueAt
  <2>2. Len(formulasQueuesByPriority) > 0
    BY EmptySeq, LenProperties, QueueSets
       DEF RInv, IInv, TypeInv, TypeOK, AbstractTypeOK
  <2>. QED  BY <2>1, <2>2, QueueSets, IsASeq
<1>. QED  BY <1>1, <1>2, <1>3 DEF FC!Start

LEMMA RefinesAdmit == RInv /\ LoadQueue => FC!Admit
<1>. SUFFICES ASSUME RInv, LoadQueue PROVE FC!Admit
  OBVIOUS
<1>. USE DEF LoadQueue, outcomeVars, queueVars, memoryVars
<1>1. /\ Len(formulasQueuesByPriority) \in Nat /\ formulasQueueIndex \in Nat
      /\ uncheckedFormulas = <<>>
  BY LenProperties DEF RInv, IInv, TypeInv, TypeOK, AbstractTypeOK, MappingInv
<1>2. Stage = "working" /\ Stage' = "working"
  BY DEF Stage
<1>3. Passed = formulasQueueIndex /\ UNCHANGED Passed
  BY <1>2 DEF Passed
<1>4. /\ Passed < Len(SetsByPriority)
      /\ SetsByPriority[Passed + 1] = SetAt(formulasQueueIndex)
  BY <1>1, <1>3, MappedSets
<1>5. FC!ExhaustedUpTo(Passed)
  <2>1. \A i \in 0 .. formulasQueueIndex - 1 : \A f \in SetAt(i) : Exhausted(i, f)
    BY <1>1 DEF RInv, IInv, LoopInvariant, PriorityRespected
  <2>. QED  BY <2>1, <1>1, <1>3, MappedExhausted
<1>6. Admitted' = Admitted \cup SetsByPriority[Passed + 1]
  <2>1. Range(uncheckedFormulas) = {} /\ Range(uncheckedFormulas') = SetAt(formulasQueueIndex)
    BY <1>1 DEF Range, SetAt
  <2>. QED  BY <2>1, <1>4 DEF Admitted
<1>7. UNCHANGED <<SetsByPriority, Vain, Applied>>
  BY MappedSetsKept DEF Vain, Applied, FailsNow
<1>. QED  BY <1>2, <1>3, <1>4, <1>5, <1>6, <1>7 DEF FC!Admit

LEMMA RefinesPass == RInv /\ QueueDrained => FC!Pass
<1>. SUFFICES ASSUME RInv, QueueDrained PROVE FC!Pass
  OBVIOUS
<1>. USE DEF QueueDrained, outcomeVars, queueVars, memoryVars
<1>1. /\ Len(formulasQueuesByPriority) \in Nat /\ formulasQueueIndex \in Nat
      /\ formulasQueueIndex < Len(formulasQueuesByPriority) /\ ~targetAchieved
  BY LenProperties
     DEF RInv, IInv, TypeInv, TypeOK, AbstractTypeOK, LoopInvariant, Accounted
<1>2. Stage = "working" /\ Stage' = "working"
  BY <1>1 DEF Stage
<1>3. Passed = formulasQueueIndex /\ Passed' = Passed + 1
  BY <1>2 DEF Passed
<1>4. Passed < Len(SetsByPriority)
  BY <1>1, <1>3, MappedSets
<1>5. FC!ExhaustedUpTo(Passed + 1)
  <2>1. Range(uncheckedFormulas) = {}
    BY DEF Range
  <2>2. \A i \in 0 .. formulasQueueIndex : \A f \in SetAt(i) : Exhausted(i, f)
    BY <2>1 DEF RInv, IInv, LoopInvariant, Accounted
  <2>. QED  BY <2>2, <1>1, <1>3, MappedExhausted
<1>6. UNCHANGED <<SetsByPriority, Admitted, Vain, Applied>>
  BY MappedSetsKept DEF Admitted, Vain, Applied, FailsNow
<1>. QED  BY <1>2, <1>3, <1>4, <1>5, <1>6 DEF FC!Pass

LEMMA RefinesGiveUp == RInv /\ Finish /\ ~targetAchieved => FC!GiveUp
<1>. SUFFICES ASSUME RInv, Finish, ~targetAchieved PROVE FC!GiveUp
  OBVIOUS
<1>. USE DEF Finish, Return, outcomeVars, queueVars, memoryVars, loopVars
<1>1. /\ Len(formulasQueuesByPriority) \in Nat /\ formulasQueueIndex \in Nat
      /\ formulasQueueIndex >= Len(formulasQueuesByPriority)
  BY LenProperties DEF RInv, IInv, TypeInv, TypeOK, AbstractTypeOK
<1>2. Stage = "working" /\ Stage' = "gaveUp" /\ Passed' = 0
  BY DEF Stage, Passed
<1>3. FC!ExhaustedUpTo(Len(SetsByPriority))
  <2>1. ASSUME NEW i \in 0 .. Len(formulasQueuesByPriority) - 1
        PROVE  \A f \in SetAt(i) : Exhausted(i, f)
    <3>1. i \in 0 .. formulasQueueIndex - 1 /\ i < Len(formulasQueuesByPriority)
      BY <1>1
    <3>. QED  BY <3>1 DEF RInv, IInv, LoopInvariant, PriorityRespected
  <2>2. Len(SetsByPriority) = Len(formulasQueuesByPriority)
    BY MappedSets
  <2>. QED  BY <2>1, <2>2, <1>1, MappedExhausted
<1>4. UNCHANGED <<SetsByPriority, Admitted, Vain, Applied>>
  BY MappedSetsKept DEF Admitted, Vain, Applied, FailsNow
<1>. QED  BY <1>2, <1>3, <1>4 DEF FC!GiveUp, FC!End

(* The formula that generates is the only one that leaves the queue of the *)
(* untried, and what failed before it counts no more.                      *)
LEMMA RefinesGenerate ==
  ASSUME RInv, LoopInvariant', Apply
  PROVE  FC!Generate(Head(uncheckedFormulas))
<1>. DEFINE front == Head(uncheckedFormulas)
<1>. USE DEF Apply, Draining, outcomeVars, queueVars, loopVars
<1>1. front \in Formulas /\ front \in Range(uncheckedFormulas)
  BY HeadTailProperties, RangeHeadTail
     DEF RInv, IInv, TypeInv, TypeOK, AbstractTypeOK
<1>2. lastOutcome \in [Formulas -> Outcomes]
  BY DEF RInv, IInv, TypeInv, TypeOK, AbstractTypeOK
<1>3. lastOutcome' = [lastOutcome EXCEPT ![front] = "applied"]
  BY DEF UseGenerates, Tried
<1>4. Stage = "working" /\ Stage' = "generated" /\ Passed' = 0
  BY DEF Stage, Passed, RInv, IInv, LoopInvariant, Accounted
<1>5. Vain' = {}
  BY DEF Vain, LoopInvariant, AppliedAtFront
<1>6. front \in Admitted /\ UNCHANGED Admitted
  BY <1>1, <1>2, <1>3 DEF Admitted
<1>7. Applied' = Applied \cup {front}
  BY <1>1, <1>2, <1>3 DEF Applied
<1>8. UNCHANGED SetsByPriority
  BY MappedSetsKept
<1>. QED  BY <1>4, <1>5, <1>6, <1>7, <1>8 DEF FC!Generate

LEMMA RefinesTryInVain ==
  ASSUME RInv, Fail
  PROVE  FC!TryInVain(Head(uncheckedFormulas))
<1>. DEFINE front == Head(uncheckedFormulas)
<1>. USE DEF Fail, FailTo, Draining, outcomeVars, queueVars
<1>1. /\ front \in Formulas /\ front \in Range(uncheckedFormulas)
      /\ Range(uncheckedFormulas) = {front} \cup Range(Tail(uncheckedFormulas))
  BY HeadTailProperties, RangeHeadTail
     DEF RInv, IInv, TypeInv, TypeOK, AbstractTypeOK
<1>2. /\ lastOutcome \in [Formulas -> Outcomes] /\ lastAttempt \in [Formulas -> Nat]
      /\ knowledge \in Nat /\ progress \in Nat /\ progress <= knowledge
  BY DEF RInv, IInv, TypeInv, TypeOK, AbstractTypeOK, LoopInvariant, Counted
<1>3. /\ knowledge' \in Nat /\ knowledge' >= knowledge /\ progress' = progress
      /\ lastAttempt' = [lastAttempt EXCEPT ![front] = knowledge']
      /\ lastOutcome' = [lastOutcome EXCEPT ![front] = "failed"]
  BY <1>2 DEF NotGenerated, UseFails, UseGeneratesSilently, Tried
<1>4. Stage = "working" /\ Stage' = "working" /\ UNCHANGED Passed
  BY DEF Stage, Passed, RInv, IInv, LoopInvariant, Accounted
<1>5. Vain' = Vain \cup {front}
  <2>1. ASSUME NEW f \in Formulas PROVE FailsNow(f)' <=> f = front \/ FailsNow(f)
    BY <1>1, <1>2, <1>3 DEF FailsNow
  <2>. QED  BY <2>1, <1>1 DEF Vain
<1>6. front \in Admitted /\ UNCHANGED Admitted
  BY <1>1, <1>2, <1>3 DEF Admitted
<1>7. Applied' = Applied \ {front}
  BY <1>1, <1>2, <1>3 DEF Applied
<1>8. UNCHANGED SetsByPriority
  BY MappedSetsKept
<1>. QED  BY <1>4, <1>5, <1>6, <1>7, <1>8 DEF FC!TryInVain

(* Putting the checked formulas back admits nothing new.                   *)
LEMMA RefinesMiss == RInv /\ TargetMissed => FC!Miss
<1>. SUFFICES ASSUME RInv, TargetMissed PROVE FC!Miss
  OBVIOUS
<1>. USE DEF TargetMissed, Requeue, outcomeVars, queueVars, memoryVars
<1>1. /\ uncheckedFormulas \in Seq(Formulas) /\ checkedFormulas \in Seq(Formulas)
      /\ uncheckedFormulas # <<>>
      /\ lastOutcome[Head(uncheckedFormulas)] = "applied" /\ ~targetAchieved
  BY DEF RInv, IInv, TypeInv, TypeOK, AbstractTypeOK, LoopInvariant, AppliedAtFront
<1>2. Range(uncheckedFormulas) \cup Range(checkedFormulas)
        = {Head(uncheckedFormulas)} \cup Range(uncheckedFormulas')
  BY <1>1, RangeOfRequeue
<1>3. /\ Head(uncheckedFormulas) \in Formulas
      /\ Range(checkedFormulas) \subseteq Formulas
  BY <1>1, HeadTailProperties, RangeOfSeq
<1>4. UNCHANGED Admitted
  BY <1>1, <1>2, <1>3 DEF Admitted, RInv, MappingInv
<1>5. Stage = "generated" /\ Stage' = "working"
  BY <1>1 DEF Stage
<1>6. UNCHANGED Passed
  BY <1>5 DEF Passed
<1>7. UNCHANGED <<SetsByPriority, Vain, Applied>>
  BY MappedSetsKept DEF Vain, Applied, FailsNow
<1>. QED  BY <1>4, <1>5, <1>6, <1>7 DEF FC!Miss

LEMMA RefinesNext == RInv /\ RInv' /\ [Next]_vars => [FC!Next]_(FC!vars)
<1>. SUFFICES ASSUME RInv, RInv', [Next]_vars PROVE [FC!Next]_(FC!vars)
  OBVIOUS
<1>1. CASE Apply \/ Fail
  <2>1. Head(uncheckedFormulas) \in Formulas /\ LoopInvariant'
    BY <1>1, HeadTailProperties
       DEF Apply, Fail, FailTo, Draining, RInv, IInv, TypeInv, TypeOK, AbstractTypeOK
  <2>2. CASE Apply
    BY <2>1, <2>2, RefinesGenerate DEF FC!Next
  <2>3. CASE Fail
    BY <2>1, <2>3, RefinesTryInVain DEF FC!Next
  <2>. QED  BY <1>1, <2>2, <2>3
<1>2. CASE QueuesCreated
  BY <1>2, RefinesStart, RefinesEnd DEF FC!Next
<1>3. CASE Finish
  BY <1>3, RefinesGiveUp, RefinesStutter DEF FC!Next
<1>4. CASE LoadQueue \/ QueueDrained \/ TargetMissed
  BY <1>4, RefinesAdmit, RefinesPass, RefinesMiss DEF FC!Next
<1>5. CASE \/ AlreadyAchieved \/ TargetNotBuilt \/ UseFormulaThrows
           \/ RecordNodeThrows \/ TargetFound
  BY <1>5, RefinesEnd
<1>6. CASE \/ NotYetAchieved \/ CreateQueue \/ RecordNode \/ Terminated
           \/ UNCHANGED vars
  BY <1>6, RefinesStutter
<1>. QED  BY <1>1, <1>2, <1>3, <1>4, <1>5, <1>6 DEF Next

(* DirectInferenceManagerTarget::applyInference is forward chaining by     *)
(* priorities, whatever the formulas and however they evaluate: it tries   *)
(* only what was admitted, takes up a set or gives up only when nothing is *)
(* left to expect of the sets before, and finds the target only after a    *)
(* generation or at the start.                                             *)
THEOREM RefinementCorrect == Spec => ImplementsForwardChaining
<1>1. Init => RInv
  BY TypeInit, LoopInit, MappingInit DEF RInv, IInv
<1>2. RInv /\ [Next]_vars => RInv'
  BY LoopNext, MappingNext DEF RInv
<1>3. Spec => []RInv
  BY <1>1, <1>2, PTL DEF Spec
<1>. QED
  BY <1>3, RefinesInit, RefinesNext, PTL DEF Spec, ImplementsForwardChaining, FC!Spec
=============================================================================
