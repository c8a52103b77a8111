------------------ MODULE DirectInferenceManagerAll_proofs ------------------
(***************************************************************************)
(* Proofs about DirectInferenceManagerAll: every formula is used, in the   *)
(* order of the sets, and the result says whether anything was generated   *)
(* when no formula generates without reporting it.                         *)
(***************************************************************************)
EXTENDS DirectInferenceManagerAll, SequenceTheorems, TLAPS

(* A queue holds its front, the rest of it and nothing else.               *)
LEMMA RangeHeadTail ==
  ASSUME NEW S, NEW s \in Seq(S), s # <<>>
  PROVE  /\ Head(s) \in Range(s)
         /\ Range(s) = {Head(s)} \cup Range(Tail(s))
<1>1. /\ Len(s) \in Nat \ {0} /\ DOMAIN s = 1 .. Len(s) /\ Head(s) = s[1]
  BY EmptySeq, LenProperties
<1>2. /\ Tail(s) \in Seq(S) /\ Len(Tail(s)) = Len(s) - 1
      /\ \A i \in 1 .. Len(Tail(s)) : Tail(s)[i] = s[i + 1]
  BY HeadTailProperties
<1>3. DOMAIN Tail(s) = 1 .. Len(s) - 1
  BY <1>2, LenProperties
<1>4. Head(s) \in Range(s)
  BY <1>1 DEF Range
<1>5. ASSUME NEW x \in Range(Tail(s))
      PROVE  x \in Range(s)
  <2>1. PICK i \in 1 .. Len(s) - 1 : x = Tail(s)[i]
    BY <1>3 DEF Range
  <2>2. i + 1 \in 1 .. Len(s) /\ x = s[i + 1]
    BY <2>1, <1>1, <1>2
  <2>. QED  BY <2>2, <1>1 DEF Range
<1>6. ASSUME NEW x \in Range(s), x # Head(s)
      PROVE  x \in Range(Tail(s))
  <2>1. PICK i \in 1 .. Len(s) : x = s[i]
    BY <1>1 DEF Range
  <2>2. i - 1 \in 1 .. Len(s) - 1 /\ x = Tail(s)[i - 1]
    BY <2>1, <1>6, <1>1, <1>2
  <2>. QED  BY <2>2, <1>3 DEF Range
<1>. QED  BY <1>4, <1>5, <1>6

TypeInv ==
  /\ TypeOK
  /\ pc = "record" => uncheckedFormulas # <<>>

LEMMA TypeInit == Init => TypeInv
<1>. SUFFICES ASSUME Init PROVE TypeInv
  OBVIOUS
<1>1. formulasSet.first \in Sets \cup {None}
  BY FormulasSetsAssumption DEF Init, AbstractInit, FormulasSetArgument
<1>2. <<>> \in Seq(Seq(Formulas)) /\ <<>> \in Seq(Formulas)
  BY EmptySeq
<1>. QED
  BY <1>1, <1>2 DEF Init, AbstractInit, TypeInv, TypeOK, AbstractTypeOK, Outcomes

LEMMA TypeNext == TypeInv /\ [Next]_vars => TypeInv'
<1>. SUFFICES ASSUME TypeInv, [Next]_vars PROVE TypeInv'
  OBVIOUS
<1>. USE DEF TypeInv, TypeOK, AbstractTypeOK, Outcomes, Exceptions, outcomeVars,
             queueVars, memoryVars, loopVars
<1>1. CASE CreateQueue
  <2>1. /\ formulasSet.members[setOfFormulas] \in Seq(Formulas)
        /\ formulasSet.next[setOfFormulas] \in Sets \cup {None}
    BY <1>1, FormulasSetsAssumption DEF CreateQueue, QueueNextSet, FormulasSetArgument
  <2>2. formulasQueuesByPriority' \in Seq(Seq(Formulas))
    BY <1>1, <2>1, AppendProperties DEF CreateQueue, QueueNextSet
  <2>. QED  BY <1>1, <2>1, <2>2 DEF CreateQueue, QueueNextSet
<1>2. CASE QueuesCreated  BY <1>2 DEF QueuesCreated, Throw
<1>3. CASE LoadQueue
  <2>1. formulasQueueIndex + 1 \in 1 .. Len(formulasQueuesByPriority)
    BY <1>3, LenProperties DEF LoadQueue
  <2>2. QueueAt(formulasQueueIndex) \in Seq(Formulas)
    BY <2>1, ElementOfSeq DEF QueueAt
  <2>. QED  BY <1>3, <2>2 DEF LoadQueue
<1>4. CASE Finish  BY <1>4 DEF Finish
<1>5. CASE Apply
  <2>1. Head(uncheckedFormulas) \in Formulas
    BY <1>5, HeadTailProperties DEF Apply, Draining
  <2>. QED  BY <1>5, <2>1 DEF Apply, Draining, UseGenerates, Tried
<1>6. CASE RecordNode  BY <1>6, HeadTailProperties DEF RecordNode
<1>7. CASE RecordNodeThrows  BY <1>7 DEF RecordNodeThrows, Throw
<1>8. CASE Fail
  <2>1. /\ Head(uncheckedFormulas) \in Formulas
        /\ Tail(uncheckedFormulas) \in Seq(Formulas)
    BY <1>8, HeadTailProperties DEF Fail, Draining
  <2>2. /\ knowledge' \in Nat /\ progress' = progress
        /\ Tried(Head(uncheckedFormulas), "failed")
    BY <1>8 DEF Fail, NotGenerated, UseFails, UseGeneratesSilently
  <2>. QED  BY <1>8, <2>1, <2>2 DEF Fail, Draining, Tried
<1>9. CASE UseFormulaThrows
  BY <1>9, MaxKnowledgeAssumption DEF UseFormulaThrows, UseThrows, Throw
<1>10. CASE QueueDrained  BY <1>10 DEF QueueDrained, DrainedTo
<1>11. CASE Terminated \/ UNCHANGED vars
  BY <1>11 DEF Terminated, vars, abstractVars
<1>. QED
  BY <1>1, <1>2, <1>3, <1>4, <1>5, <1>6, <1>7, <1>8, <1>9, <1>10, <1>11 DEF Next

-----------------------------------------------------------------------------
(* What was used before, and what is still in the queue.                   *)
BeforeIsTried ==
  pc \in {"for", "while", "record"} =>
    \A i \in 0 .. formulasQueueIndex - 1 :
      i < Len(formulasQueuesByPriority) =>
        \A f \in SetAt(i) : lastOutcome[f] # "untried"

CurrentIsTried ==
  pc \in {"while", "record"} =>
    /\ formulasQueueIndex < Len(formulasQueuesByPriority)
    /\ \A f \in SetAt(formulasQueueIndex) :
         lastOutcome[f] # "untried" \/ f \in Range(uncheckedFormulas)
    /\ pc = "record" => lastOutcome[Head(uncheckedFormulas)] # "untried"

ReturnedIsTried ==
  pc = "returned" =>
    \A i \in 0 .. Len(formulasQueuesByPriority) - 1 :
      \A f \in SetAt(i) : lastOutcome[f] # "untried"

ResultIsProgress ==
  pc # "thrown" =>
    /\ result <=> progress > 0
    /\ SilentFormulas = {} => progress = knowledge

OrderInv ==
  /\ TypeInv
  /\ pc = "queues" => formulasQueueIndex = 0
  /\ BeforeIsTried
  /\ CurrentIsTried
  /\ ReturnedIsTried
  /\ ResultIsProgress

LEMMA OrderInit == Init => OrderInv
BY TypeInit
   DEF Init, AbstractInit, OrderInv, BeforeIsTried, CurrentIsTried,
       ReturnedIsTried, ResultIsProgress

(* Steps that use no formula and move no queue.                            *)
LEMMA OrderQuiet ==
  ASSUME OrderInv,
         \/ CreateQueue \/ QueuesCreated \/ RecordNodeThrows
         \/ UseFormulaThrows \/ Terminated \/ UNCHANGED vars
  PROVE  OrderInv'
<1>. USE DEF OrderInv, BeforeIsTried, CurrentIsTried, ReturnedIsTried,
             ResultIsProgress, SetAt, QueueAt, outcomeVars, queueVars, memoryVars, loopVars
<1>1. TypeInv'
  BY TypeNext DEF Next
<1>2. CASE CreateQueue  BY <1>1, <1>2 DEF CreateQueue, QueueNextSet
<1>3. CASE QueuesCreated  BY <1>1, <1>3 DEF QueuesCreated, Throw
<1>4. CASE RecordNodeThrows  BY <1>1, <1>4 DEF RecordNodeThrows, Throw
<1>5. CASE UseFormulaThrows
  BY <1>1, <1>5, MaxKnowledgeAssumption
     DEF UseFormulaThrows, UseThrows, Throw, Draining, TypeInv, TypeOK, AbstractTypeOK
<1>6. CASE Terminated \/ UNCHANGED vars
  BY <1>1, <1>6 DEF Terminated, vars, abstractVars
<1>. QED  BY <1>2, <1>3, <1>4, <1>5, <1>6

(* A queue that is drained was used whole.                                 *)
LEMMA OrderQueues ==
  ASSUME OrderInv, LoadQueue \/ QueueDrained \/ Finish
  PROVE  OrderInv'
<1>. USE DEF OrderInv, TypeInv, TypeOK, AbstractTypeOK, outcomeVars, queueVars,
             memoryVars, loopVars
<1>1. TypeInv'
  BY TypeNext DEF Next
<1>2. Len(formulasQueuesByPriority) \in Nat /\ formulasQueueIndex \in Nat
  BY LenProperties
<1>3. \A i : SetAt(i)' = SetAt(i)
  BY DEF LoadQueue, QueueDrained, DrainedTo, Finish, SetAt, QueueAt
<1>4. CASE LoadQueue
  <2>1. BeforeIsTried'
    BY <1>3, <1>4 DEF BeforeIsTried, LoadQueue
  <2>2. CurrentIsTried'
    BY <1>3, <1>4 DEF CurrentIsTried, LoadQueue, SetAt
  <2>. QED  BY <1>1, <1>4, <2>1, <2>2 DEF LoadQueue, ReturnedIsTried, ResultIsProgress
<1>5. CASE QueueDrained
  <2>1. Range(uncheckedFormulas) = {}
    BY <1>5 DEF QueueDrained, DrainedTo, Range
  <2>2. BeforeIsTried'
    <3>. SUFFICES ASSUME NEW i \in 0 .. formulasQueueIndex,
                         i < Len(formulasQueuesByPriority), NEW f \in SetAt(i)
                  PROVE  lastOutcome[f] # "untried"
      BY <1>2, <1>3, <1>5 DEF BeforeIsTried, QueueDrained, DrainedTo
    <3>1. CASE i = formulasQueueIndex
      BY <1>5, <2>1, <3>1 DEF CurrentIsTried, QueueDrained, DrainedTo
    <3>2. CASE i \in 0 .. formulasQueueIndex - 1
      BY <1>5, <3>2 DEF BeforeIsTried, QueueDrained, DrainedTo
    <3>. QED  BY <1>2, <3>1, <3>2
  <2>. QED
    BY <1>1, <1>5, <2>2
       DEF QueueDrained, DrainedTo, CurrentIsTried, ReturnedIsTried, ResultIsProgress
<1>6. CASE Finish
  <2>1. ReturnedIsTried'
    <3>. SUFFICES ASSUME NEW i \in 0 .. Len(formulasQueuesByPriority) - 1,
                         NEW f \in SetAt(i)
                  PROVE  lastOutcome[f] # "untried"
      BY <1>3, <1>6 DEF ReturnedIsTried, Finish
    <3>1. i \in 0 .. formulasQueueIndex - 1 /\ i < Len(formulasQueuesByPriority)
      BY <1>2, <1>6 DEF Finish
    <3>. QED  BY <1>6, <3>1 DEF BeforeIsTried, Finish
  <2>. QED  BY <1>1, <1>6, <2>1 DEF Finish, BeforeIsTried, CurrentIsTried, ResultIsProgress
<1>. QED  BY <1>4, <1>5, <1>6

(* A use leaves the formula tried, and no other one untried.               *)
LEMMA OrderUse ==
  ASSUME OrderInv, Apply \/ Fail \/ RecordNode
  PROVE  OrderInv'
<1>. DEFINE front == Head(uncheckedFormulas)
<1>. USE DEF OrderInv, TypeInv, TypeOK, AbstractTypeOK, outcomeVars, queueVars,
             memoryVars, loopVars
<1>1. TypeInv'
  BY TypeNext DEF Next
<1>2. /\ front \in Formulas
      /\ Range(uncheckedFormulas) = {front} \cup Range(Tail(uncheckedFormulas))
      /\ Len(formulasQueuesByPriority) \in Nat
  BY HeadTailProperties, RangeHeadTail, LenProperties
     DEF Apply, Fail, RecordNode, Draining
<1>3. \A i : SetAt(i)' = SetAt(i)
  BY DEF Apply, Fail, RecordNode, SetAt, QueueAt
<1>4. ASSUME NEW i \in Nat, i < Len(formulasQueuesByPriority), NEW f \in SetAt(i)
      PROVE  f \in Formulas
  <2>1. i + 1 \in 1 .. Len(formulasQueuesByPriority)
    BY <1>2, <1>4
  <2>. QED  BY <1>4, <2>1, ElementOfSeq, RangeOfSeq DEF SetAt, QueueAt
<1>5. CASE RecordNode
  <2>1. CurrentIsTried'
    BY <1>2, <1>3, <1>5 DEF CurrentIsTried, RecordNode
  <2>. QED
    BY <1>1, <1>3, <1>5, <2>1 DEF RecordNode, BeforeIsTried, ReturnedIsTried, ResultIsProgress
<1>6. CASE Apply \/ Fail
  <2>1. /\ \E outcome \in {"applied", "failed"} :
             lastOutcome' = [lastOutcome EXCEPT ![front] = outcome]
        /\ UNCHANGED <<formulasQueuesByPriority, formulasQueueIndex>>
        /\ pc = "while"
    BY <1>6 DEF Apply, Fail, Draining, UseGenerates, NotGenerated, UseFails,
                UseGeneratesSilently, Tried
  <2>2. \A f \in Formulas :
          lastOutcome[f] # "untried" \/ f = front => lastOutcome'[f] # "untried"
    BY <1>2, <2>1
  <2>3. BeforeIsTried'
    BY <1>3, <1>4, <2>1, <2>2 DEF BeforeIsTried
  <2>4. CurrentIsTried'
    <3>1. CASE Apply
      BY <1>2, <1>3, <1>4, <2>1, <2>2, <3>1 DEF CurrentIsTried, Apply
    <3>2. CASE Fail
      BY <1>2, <1>3, <1>4, <2>1, <2>2, <3>2 DEF CurrentIsTried, Fail
    <3>. QED  BY <1>6, <3>1, <3>2
  <2>5. ResultIsProgress'
    BY <1>6 DEF ResultIsProgress, Apply, Fail, Draining, UseGenerates,
                NotGenerated, UseFails, UseGeneratesSilently
  <2>. QED  BY <1>1, <1>6, <2>3, <2>4, <2>5 DEF Apply, Fail, Draining, ReturnedIsTried
<1>. QED  BY <1>5, <1>6

(* The invariant the properties of applyInference rest on: every formula   *)
(* of the sets before the current one was used, every one of the current   *)
(* set was or is still in the queue, and the result says whether any of    *)
(* them reported a generation.                                             *)
THEOREM OrderCorrect == Spec => []OrderInv
<1>1. OrderInv /\ [Next]_vars => OrderInv'
  BY OrderQuiet, OrderQueues, OrderUse DEF Next
<1>. QED  BY OrderInit, <1>1, PTL DEF Spec

(* DirectInferenceManagerAll::applyInference keeps its variables in their  *)
(* types, whatever the formulas and however they evaluate.                 *)
THEOREM AllTypeCorrect == Spec => []TypeOK
<1>1. OrderInv => TypeOK
  BY DEF OrderInv, TypeInv
<1>. QED  BY <1>1, OrderCorrect, PTL

(* It uses the formulas in the order of the sets and leaves none out, for  *)
(* any number of sets and formulas.                                        *)
THEOREM TriedInOrderCorrect == Spec => []TriedInOrder
<1>1. OrderInv => TriedInOrder
  <2>. SUFFICES ASSUME OrderInv, pc \in {"for", "while", "returned"},
                       NEW i \in 0 .. Len(formulasQueuesByPriority) - 1,
                       NEW f \in SetAt(i),
                       i < formulasQueueIndex \/ pc = "returned"
                PROVE  lastOutcome[f] # "untried"
    BY DEF TriedInOrder
  <2>1. formulasQueueIndex \in Nat /\ Len(formulasQueuesByPriority) \in Nat
    BY LenProperties DEF OrderInv, TypeInv, TypeOK, AbstractTypeOK
  <2>2. CASE pc = "returned"
    BY <2>2 DEF OrderInv, ReturnedIsTried
  <2>3. CASE pc # "returned"
    <3>1. i \in 0 .. formulasQueueIndex - 1 /\ i < Len(formulasQueuesByPriority)
      BY <2>1, <2>3
    <3>. QED  BY <2>3, <3>1 DEF OrderInv, BeforeIsTried
  <2>. QED  BY <2>2, <2>3
<1>. QED  BY <1>1, OrderCorrect, PTL

(* If no formula generates without reporting it, the call returns whether  *)
(* anything was generated, as the comment of applyInference says, whatever *)
(* failed since.  (One that does leaves the result false.)                 *)
THEOREM ResultCorrect ==
  ASSUME SilentFormulas = {}
  PROVE  Spec => []ReturnsWhetherGenerated
<1>1. OrderInv => ReturnsWhetherGenerated
  BY DEF OrderInv, ResultIsProgress, ReturnsWhetherGenerated
<1>. QED  BY <1>1, OrderCorrect, PTL
=============================================================================
