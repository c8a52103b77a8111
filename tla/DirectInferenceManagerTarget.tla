-------------------- MODULE DirectInferenceManagerTarget --------------------
(***************************************************************************)
(* DirectInferenceManagerTarget::applyInference: forward chaining until    *)
(* the target template is found or no formula applies.                     *)
(*                                                                         *)
(* Formulas that failed are kept in checkedFormulas and put back in the    *)
(* queue as soon as another formula generates something; the index of the  *)
(* current queue is then reset to 0 and incremented by the for loop, so    *)
(* that the queues are reloaded from the SECOND one on: the formulas of    *)
(* the first queue come back only through checkedFormulas.                 *)
(***************************************************************************)
EXTENDS InferenceManagerAbstract

VARIABLES
  formulasQueueIndex,
  uncheckedFormulas,
  checkedFormulas,
  targetAchieved

loopVars ==
  <<formulasQueueIndex, uncheckedFormulas, checkedFormulas, targetAchieved>>
vars == <<abstractVars, loopVars>>

PCs == {"begin", "queues", "for", "while", "record", "check",
        "returned", "thrown"}

TypeOK ==
  /\ AbstractTypeOK
  /\ pc \in PCs
  /\ formulasQueueIndex \in Nat
  /\ uncheckedFormulas \in Seq(Formulas)
  /\ checkedFormulas \in Seq(Formulas)
  /\ targetAchieved \in BOOLEAN

Init ==
  /\ AbstractInit
  /\ pc = "begin"
  /\ formulasQueueIndex = 0
  /\ uncheckedFormulas = <<>>
  /\ checkedFormulas = <<>>
  /\ targetAchieved = FALSE

Return(value) ==
  /\ pc' = "returned"
  /\ result' = value
  /\ UNCHANGED exception

-----------------------------------------------------------------------------
(* The target is searched for with the parameters made of the arguments;   *)
(* if it is there, the call returns false.                                 *)
AlreadyAchieved ==
  /\ pc = "begin"
  /\ targetAchieved' = TRUE
  /\ Return(FALSE)
  /\ UNCHANGED <<formulasSet, queueVars, memoryVars, formulasQueueIndex,
                 uncheckedFormulas, checkedFormulas>>

NotYetAchieved ==
  /\ pc = "begin"
  /\ pc' = "queues"
  /\ UNCHANGED <<formulasSet, queueVars, outcomeVars, memoryVars, loopVars>>

(* A target template that cannot be built makes the searcher throw a       *)
(* std::runtime_error.                                                     *)
TargetNotBuilt ==
  /\ pc \in {"begin", "check"}
  /\ Throw("std::exception")
  /\ UNCHANGED <<formulasSet, queueVars, memoryVars, loopVars>>

CreateQueue ==
  /\ pc = "queues"
  /\ QueueNextSet
  /\ UNCHANGED <<pc, formulasSet, outcomeVars, memoryVars, loopVars>>

QueuesCreated ==
  /\ pc = "queues"
  /\ setOfFormulas = None
  /\ IF formulasQueuesByPriority = <<>>
       THEN Throw("ScException")
       ELSE pc' = "for" /\ UNCHANGED outcomeVars
  /\ UNCHANGED <<formulasSet, queueVars, memoryVars, loopVars>>

(* Mutant of LoadQueue: the queues are taken from the last one.            *)
LoadQueueFromEnd ==
  /\ pc = "for"
  /\ formulasQueueIndex < Len(formulasQueuesByPriority)
  /\ ~targetAchieved
  /\ pc' = "while"
  /\ uncheckedFormulas' =
       QueueAt(Len(formulasQueuesByPriority) - 1 - formulasQueueIndex)
  /\ UNCHANGED <<formulasSet, queueVars, outcomeVars, memoryVars,
                 formulasQueueIndex, checkedFormulas, targetAchieved>>

(* The condition of the for loop and, if it holds, the copy of the queue.  *)
LoadQueue ==
  /\ pc = "for"
  /\ formulasQueueIndex < Len(formulasQueuesByPriority)
  /\ ~targetAchieved
  /\ pc' = "while"
  /\ uncheckedFormulas' = QueueAt(formulasQueueIndex)
  /\ UNCHANGED <<formulasSet, queueVars, outcomeVars, memoryVars,
                 formulasQueueIndex, checkedFormulas, targetAchieved>>

Finish ==
  /\ pc = "for"
  /\ \/ formulasQueueIndex >= Len(formulasQueuesByPriority)
     \/ targetAchieved
  /\ Return(targetAchieved)
  /\ UNCHANGED <<formulasSet, queueVars, memoryVars, loopVars>>

(* The while loop: useFormula on the front of the queue.                   *)
Draining == pc = "while" /\ uncheckedFormulas # <<>>

Apply ==
  /\ Draining
  /\ UseGenerates(Head(uncheckedFormulas))
  /\ pc' = "record"
  /\ UNCHANGED <<formulasSet, queueVars, outcomeVars, loopVars>>

(* Mutants of Fail: the failed formula is dropped, or tried again at once. *)
FailTo(checked, unchecked) ==
  /\ Draining
  /\ NotGenerated(Head(uncheckedFormulas))
  /\ checkedFormulas' = checked
  /\ uncheckedFormulas' = unchecked
  /\ UNCHANGED <<pc, formulasSet, queueVars, outcomeVars, formulasQueueIndex,
                 targetAchieved>>
FailDrops   == FailTo(checkedFormulas, Tail(uncheckedFormulas))
FailRetries ==
  FailTo(checkedFormulas, Append(Tail(uncheckedFormulas), Head(uncheckedFormulas)))

Fail ==
  FailTo(Append(checkedFormulas, Head(uncheckedFormulas)), Tail(uncheckedFormulas))

UseFormulaThrows ==
  /\ Draining
  /\ UseThrows(Head(uncheckedFormulas))
  /\ UNCHANGED <<formulasSet, queueVars, loopVars>>

(* solutionTreeManager->addNode: throws when the replacements are not a    *)
(* matrix (std::out_of_range) or lack a variable (ExceptionItemNotFound).  *)
RecordNode ==
  /\ pc = "record"
  /\ pc' = "check"
  /\ UNCHANGED <<formulasSet, queueVars, outcomeVars, memoryVars, loopVars>>

RecordNodeThrows ==
  /\ pc = "record"
  /\ Head(uncheckedFormulas) \in Throwers
  /\ \E e \in Exceptions : Throw(e)
  /\ UNCHANGED <<formulasSet, queueVars, memoryVars, loopVars>>

(* The target was found with the generated replacements: break, then the   *)
(* increment of the for loop.                                              *)
TargetFound ==
  /\ pc = "check"
  /\ targetAchieved' = TRUE
  /\ pc' = "for"
  /\ formulasQueueIndex' = formulasQueueIndex + 1
  /\ UNCHANGED <<formulasSet, queueVars, outcomeVars, memoryVars,
                 uncheckedFormulas, checkedFormulas>>

(* Mutants of TargetMissed: the failed formulas are forgotten, not cleared, *)
(* the index is not reset, or reset so that ++ would give 0.               *)
Requeue(formulas, index, checked) ==
  /\ pc = "check"
  /\ uncheckedFormulas' = Tail(uncheckedFormulas \o formulas)
  /\ formulasQueueIndex' = index
  /\ checkedFormulas' = checked
  /\ pc' = "while"
  /\ UNCHANGED <<formulasSet, queueVars, outcomeVars, memoryVars, targetAchieved>>
TargetMissedForgets    == Requeue(<<>>, 0, <<>>)
TargetMissedKeeps      == Requeue(checkedFormulas, 0, checkedFormulas)
TargetMissedStays      == Requeue(checkedFormulas, formulasQueueIndex, <<>>)
TargetMissedUnderflows == Requeue(checkedFormulas, -1, <<>>)

(* It was not: every formula that failed is queued again behind the        *)
(* formulas still unchecked, and the applied one is popped.                *)
TargetMissed == Requeue(checkedFormulas, 0, <<>>)

QueueDrained ==
  /\ pc = "while"
  /\ uncheckedFormulas = <<>>
  /\ formulasQueueIndex' = formulasQueueIndex + 1
  /\ pc' = "for"
  /\ UNCHANGED <<formulasSet, queueVars, outcomeVars, memoryVars,
                 uncheckedFormulas, checkedFormulas, targetAchieved>>

Terminated ==
  /\ pc \in {"returned", "thrown"}
  /\ UNCHANGED vars

Next ==
  \/ AlreadyAchieved
  \/ NotYetAchieved
  \/ TargetNotBuilt
  \/ CreateQueue
  \/ QueuesCreated
  \/ LoadQueue
  \/ Finish
  \/ Apply
  \/ Fail
  \/ UseFormulaThrows
  \/ RecordNode
  \/ RecordNodeThrows
  \/ TargetFound
  \/ TargetMissed
  \/ QueueDrained
  \/ Terminated

(* The call runs in a thread of its agent: it is scheduled as long as it   *)
(* has a step to take.                                                     *)
Spec == Init /\ [][Next]_vars /\ WF_vars(Next)

-----------------------------------------------------------------------------
(* Properties.                                                             *)

InLoop == pc \in {"for", "while", "record", "check"}

(* f was tried in vain since the last generation that was reported.        *)
FailsNow(f) ==
  lastOutcome[f] = "failed" /\ lastAttempt[f] >= progress

(* f cannot be expected to generate: it failed since the last reported     *)
(* generation or, in the first queue only, its last use generated.         *)
Exhausted(i, f) == FailsNow(f) \/ (i = 0 /\ lastOutcome[f] = "applied")

(* scl-machine.tex, "each next set of formulas is applied after the        *)
(* previous one": when the loop turns to a queue, every formula of every   *)
(* queue of higher priority is exhausted.  The reset of the index, the     *)
(* formulas put back behind those of another set and the checked formulas  *)
(* that survive the change of queue could each break it.                   *)
PriorityRespected ==
  pc = "for" /\ ~targetAchieved =>
    \A i \in 0 .. formulasQueueIndex - 1 :
      i < Len(formulasQueuesByPriority) =>
        \A f \in SetAt(i) : Exhausted(i, f)

(* When the call gives up, nothing it may still apply is left: every       *)
(* formula of every queue is exhausted.                                    *)
GivesUpExhausted ==
  pc = "returned" /\ ~targetAchieved =>
    \A i \in 0 .. Len(formulasQueuesByPriority) - 1 :
      \A f \in SetAt(i) : Exhausted(i, f)

(* The inductive invariant behind the two.  checkedFormulas holds exactly  *)
(* the formulas that failed since the last reported generation, so that    *)
(* putting it back in the queue loses none; while a queue is drained, each *)
(* formula of the queues loaded so far is exhausted or still unchecked.    *)
Counted ==
  /\ progress <= knowledge
  /\ \A f \in Formulas : lastAttempt[f] <= knowledge

NothingTried ==
  pc \in {"begin", "queues"} =>
    /\ \A f \in Formulas : lastOutcome[f] = "untried"
    /\ formulasQueueIndex = 0
    /\ uncheckedFormulas = <<>>
    /\ checkedFormulas = <<>>
    /\ ~targetAchieved

CheckedAreFailed ==
  pc \in {"for", "while"} /\ ~targetAchieved =>
    \A f \in Formulas : FailsNow(f) <=> f \in Range(checkedFormulas)

Accounted ==
  pc = "while" =>
    /\ ~targetAchieved
    /\ formulasQueueIndex < Len(formulasQueuesByPriority)
    /\ \A i \in 0 .. formulasQueueIndex :
         \A f \in SetAt(i) : Exhausted(i, f) \/ f \in Range(uncheckedFormulas)

AppliedAtFront ==
  pc \in {"record", "check"} =>
    /\ ~targetAchieved
    /\ formulasQueueIndex < Len(formulasQueuesByPriority)
    /\ uncheckedFormulas # <<>>
    /\ lastOutcome[Head(uncheckedFormulas)] = "applied"
    /\ \A f \in Formulas : ~FailsNow(f)
    /\ \A f \in SetAt(0) :
         \/ lastOutcome[f] = "applied"
         \/ f \in Range(uncheckedFormulas) \cup Range(checkedFormulas)

LoopInvariant ==
  /\ Counted
  /\ NothingTried
  /\ CheckedAreFailed
  /\ Accounted
  /\ AppliedAtFront
  /\ PriorityRespected
  /\ GivesUpExhausted

(* The sum of the lengths of the first i queues; of all of them: the work  *)
(* of one pass.                                                            *)
LengthOfFirst[i \in 0 .. Len(formulasQueuesByPriority)] ==
  IF i = 0 THEN 0 ELSE LengthOfFirst[i - 1] + Len(formulasQueuesByPriority[i])

TotalLength == LengthOfFirst[Len(formulasQueuesByPriority)]

(* checkedFormulas may hold a formula several times and each generation    *)
(* puts all of it back in the queue, so that the queue grows; it grows by  *)
(* at most one pass per generation.                                        *)
QueueGrowthBounded ==
  InLoop =>
    Len(uncheckedFormulas) + Len(checkedFormulas) <=
      (knowledge + 1) * TotalLength

(* scl-machine.tex, "a rule that was applied without success is applied    *)
(* again when another rule succeeds": a formula that failed before a       *)
(* reported generation is tried again, unless the call ends.               *)
FailedIsRetried ==
  \A f \in Formulas :
    (lastOutcome[f] = "failed" /\ ~FailsNow(f)) ~>
      \/ FailsNow(f)
      \/ lastOutcome[f] = "applied"
      \/ pc = "thrown"
      \/ targetAchieved

(* Once the knowledge base saturates, the call ends.                       *)
Terminates == <>(pc \in {"returned", "thrown"})

-----------------------------------------------------------------------------
(* Refinement.                                                             *)

Stage ==
  IF pc \in {"begin", "queues"} THEN "start"
  ELSE IF pc \in {"record", "check"} THEN "generated"
  ELSE IF pc = "thrown" THEN "thrown"
  ELSE IF targetAchieved THEN "found"
  ELSE IF pc = "returned" THEN "gaveUp"
  ELSE "working"

SetsByPriority ==
  IF pc = "queues" THEN <<>>
  ELSE [n \in DOMAIN formulasQueuesByPriority |-> SetAt(n - 1)]
Passed == IF Stage = "working" THEN formulasQueueIndex ELSE 0
Vain == {f \in Formulas : FailsNow(f)}
Applied == {f \in Formulas : lastOutcome[f] = "applied"}

(* What was tried had been admitted.                                       *)
Admitted ==
  Range(uncheckedFormulas) \cup {f \in Formulas : lastOutcome[f] # "untried"}

FC == INSTANCE ForwardChaining WITH
  stage <- Stage, sets <- SetsByPriority, passed <- Passed,
  admitted <- Admitted, vain <- Vain, applied <- Applied

(* Every step of the loop is a step of forward chaining or none: the       *)
(* formulas put behind others, the copies in the queue, the index that     *)
(* jumps back and the queue loaded once make no formula tried that was not *)
(* admitted, no set taken up or passed over too early, and no end that     *)
(* comes before its time.                                                  *)
ImplementsForwardChaining == FC!Spec

(* The same as GivesUpExhausted about the knowledge base itself: the       *)
(* formulas given up failed on what the base finally holds.                *)
GivesUpSaturated ==
  pc = "returned" /\ ~targetAchieved =>
    \A f \in Formulas :
      lastOutcome[f] = "failed" => lastAttempt[f] = knowledge
=============================================================================
