---------------------- MODULE DirectInferenceManagerAll ----------------------
(***************************************************************************)
(* DirectInferenceManagerAll::applyInference: every formula of every queue *)
(* is used once, in the order of the queues, whatever the others generate. *)
(***************************************************************************)
EXTENDS InferenceManagerAbstract

VARIABLES formulasQueueIndex, uncheckedFormulas

loopVars == <<formulasQueueIndex, uncheckedFormulas>>
vars == <<abstractVars, loopVars>>

TypeOK ==
  /\ AbstractTypeOK
  /\ pc \in {"queues", "for", "while", "record", "returned", "thrown"}
  /\ formulasQueueIndex \in Nat
  /\ uncheckedFormulas \in Seq(Formulas)

Init ==
  /\ AbstractInit
  /\ pc = "queues"
  /\ formulasQueueIndex = 0
  /\ uncheckedFormulas = <<>>

-----------------------------------------------------------------------------
CreateQueue ==
  /\ pc = "queues"
  /\ QueueNextSet
  /\ UNCHANGED <<pc, formulasSet, outcomeVars, memoryVars, loopVars>>

QueuesCreated ==
  /\ pc = "queues"
  /\ setOfFormulas = None
  /\ IF formulasQueuesByPriority = <<>>
       THEN Throw("ScException")
       ELSE pc' = "for" /\ UNCHANGED outcomeVars
  /\ UNCHANGED <<formulasSet, queueVars, memoryVars, loopVars>>

LoadQueue ==
  /\ pc = "for"
  /\ formulasQueueIndex < Len(formulasQueuesByPriority)
  /\ pc' = "while"
  /\ uncheckedFormulas' = QueueAt(formulasQueueIndex)
  /\ UNCHANGED <<formulasSet, queueVars, outcomeVars, memoryVars, formulasQueueIndex>>

Finish ==
  /\ pc = "for"
  /\ formulasQueueIndex >= Len(formulasQueuesByPriority)
  /\ pc' = "returned"
  /\ UNCHANGED <<formulasSet, queueVars, outcomeVars, memoryVars, loopVars>>

Draining == pc = "while" /\ uncheckedFormulas # <<>>

Apply ==
  /\ Draining
  /\ UseGenerates(Head(uncheckedFormulas))
  /\ result' = TRUE
  /\ pc' = "record"
  /\ UNCHANGED <<formulasSet, queueVars, exception, loopVars>>

(* addNode on the solution tree, then the pop.                             *)
RecordNode ==
  /\ pc = "record"
  /\ pc' = "while"
  /\ uncheckedFormulas' = Tail(uncheckedFormulas)
  /\ UNCHANGED <<formulasSet, queueVars, outcomeVars, memoryVars, formulasQueueIndex>>

RecordNodeThrows ==
  /\ pc = "record"
  /\ Head(uncheckedFormulas) \in Throwers
  /\ \E e \in Exceptions : Throw(e)
  /\ UNCHANGED <<formulasSet, queueVars, memoryVars, loopVars>>

Fail ==
  /\ Draining
  /\ NotGenerated(Head(uncheckedFormulas))
  /\ uncheckedFormulas' = Tail(uncheckedFormulas)
  /\ UNCHANGED <<pc, formulasSet, queueVars, outcomeVars, formulasQueueIndex>>

UseFormulaThrows ==
  /\ Draining
  /\ UseThrows(Head(uncheckedFormulas))
  /\ UNCHANGED <<formulasSet, queueVars, loopVars>>

(* Mutants of QueueDrained: a drained queue skips the next one, or the     *)
(* index is not advanced.                                                  *)
DrainedTo(index) ==
  /\ pc = "while"
  /\ uncheckedFormulas = <<>>
  /\ formulasQueueIndex' = index
  /\ pc' = "for"
  /\ UNCHANGED <<formulasSet, queueVars, outcomeVars, memoryVars, uncheckedFormulas>>
QueueDrainedSkips == DrainedTo(formulasQueueIndex + 2)
QueueDrainedStays == DrainedTo(formulasQueueIndex)

QueueDrained == DrainedTo(formulasQueueIndex + 1)

Terminated ==
  /\ pc \in {"returned", "thrown"}
  /\ UNCHANGED vars

Next ==
  \/ CreateQueue
  \/ QueuesCreated
  \/ LoadQueue
  \/ Finish
  \/ Apply
  \/ RecordNode
  \/ RecordNodeThrows
  \/ Fail
  \/ UseFormulaThrows
  \/ QueueDrained
  \/ Terminated

Spec == Init /\ [][Next]_vars /\ WF_vars(Next)

-----------------------------------------------------------------------------
(* Properties.                                                             *)

(* scl-machine.tex, "each next set of formulas is applied after the        *)
(* previous one": a formula is used only when every formula of the queues  *)
(* before it was, and none is left out when the call returns.              *)
TriedInOrder ==
  pc \in {"for", "while", "returned"} =>
    \A i \in 0 .. Len(formulasQueuesByPriority) - 1 : \A f \in SetAt(i) :
      /\ (i < formulasQueueIndex => lastOutcome[f] # "untried")
      /\ (pc = "returned" => lastOutcome[f] # "untried")

(* InferenceManagerAbstract.hpp, "returns true if something was generated  *)
(* (any rule was applied), otherwise return false": the result says        *)
(* whether the knowledge base has anything new, reported by its formula or *)
(* not.  It is true only if every formula that generates reports it.       *)
ReturnsWhetherGenerated == pc = "returned" => (result <=> knowledge > 0)

(* The call ends however many formulas generate, the knowledge base being  *)
(* saturated or not.                                                       *)
Terminates == <>(pc \in {"returned", "thrown"})
=============================================================================
