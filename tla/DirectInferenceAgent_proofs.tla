--------------------- MODULE DirectInferenceAgent_proofs ---------------------
(***************************************************************************)
(* Proofs about DirectInferenceAgent: what an answer holds, and when the   *)
(* storage keeps a solution without an answer.                             *)
(***************************************************************************)
EXTENDS DirectInferenceAgent, DirectInferenceManagerTarget_proofs

-----------------------------------------------------------------------------
(* How a call of applyInference ends.                                      *)

FrontApplied == lastOutcome[Head(uncheckedFormulas)] = "applied"

ReturnInv ==
  /\ exception # None <=> pc = "thrown"
  /\ pc = "for" /\ targetAchieved => FrontApplied
  /\ pc = "returned" =>
       \/ result /\ targetAchieved /\ FrontApplied
       \/ /\ ~result
          /\ targetAchieved => \A f \in Formulas : lastOutcome[f] = "untried"

CallInv == IInv /\ ReturnInv

LEMMA CallInit == Init => CallInv
<1>1. Init => IInv
  BY TypeInit, LoopInit DEF IInv
<1>. QED  BY <1>1 DEF CallInv, ReturnInv, Init, AbstractInit

LEMMA CallNext == CallInv /\ [Next]_vars => CallInv'
<1>. SUFFICES ASSUME CallInv, [Next]_vars PROVE ReturnInv'
  BY LoopNext DEF CallInv
<1>. USE NoneAssumption DEF CallInv, ReturnInv, FrontApplied, Exceptions, outcomeVars,
             queueVars, memoryVars, loopVars
<1>1. CASE AlreadyAchieved
  BY <1>1 DEF AlreadyAchieved, Return, IInv, LoopInvariant, NothingTried
<1>2. CASE NotYetAchieved \/ CreateQueue \/ RecordNode \/ QueueDrained \/ LoadQueue
  BY <1>2 DEF NotYetAchieved, CreateQueue, RecordNode, QueueDrained, LoadQueue,
              IInv, LoopInvariant, Accounted
<1>3. CASE TargetNotBuilt  BY <1>3 DEF TargetNotBuilt, Throw
<1>4. CASE QueuesCreated
  BY <1>4 DEF QueuesCreated, Throw, IInv, LoopInvariant, NothingTried
<1>5. CASE Finish  BY <1>5 DEF Finish, Return, IInv, TypeInv, TypeOK
<1>6. CASE Apply  BY <1>6 DEF Apply, Draining
<1>7. CASE Fail  BY <1>7 DEF Fail, FailTo, Draining
<1>8. CASE UseFormulaThrows  BY <1>8 DEF UseFormulaThrows, UseThrows, Throw
<1>9. CASE RecordNodeThrows  BY <1>9 DEF RecordNodeThrows, Throw
<1>10. CASE TargetFound  BY <1>10 DEF TargetFound, IInv, LoopInvariant, AppliedAtFront
<1>11. CASE TargetMissed  BY <1>11 DEF TargetMissed, Requeue
<1>12. CASE Terminated \/ UNCHANGED vars  BY <1>12 DEF Terminated, vars, abstractVars
<1>. QED
  BY <1>1, <1>2, <1>3, <1>4, <1>5, <1>6, <1>7, <1>8, <1>9, <1>10, <1>11, <1>12 DEF Next

-----------------------------------------------------------------------------
(* What the storage holds where the agent stands.                          *)

Written ==
  /\ agentPc \in {"initiated", "checked"} => pc = "begin" /\ ~storage.solution
  /\ agentPc = "initiated" => ~storage.outputStructure
  /\ agentPc \in {"initiated", "checked", "inferring"} => storage.verdict = {}
  /\ agentPc \in {"checked", "inferring", "solved", "escaped"} => storage.outputStructure
  /\ agentPc \in {"inferring", "solved", "escaped"} => storage.solution

Concluded ==
  /\ agentPc # "ended" => ~storage.answered
  /\ agentPc = "solved" \/ storage.answered =>
       /\ pc = "returned"
       /\ storage.solution
       /\ storage.outputLinked
       /\ storage.verdict = {IF result THEN "positive" ELSE "negative"}
  /\ agentPc = "ended" /\ ~storage.answered =>
       \/ pc = "begin" /\ ~storage.solution /\ ~storage.outputStructure
       \/ pc = "thrown" /\ storage.solution
  /\ agentPc = "escaped" => pc = "thrown"

AgentInv == CallInv /\ AgentTypeOK /\ Written /\ Concluded

LEMMA AgentInvInit == AgentInit => AgentInv
<1>1. AgentInit => CallInv /\ TypeOK
  BY CallInit DEF AgentInit, CallInv, IInv, TypeInv
<1>. QED
  BY <1>1 DEF AgentInit, Init, AgentInv, AgentTypeOK, AgentPCs, Storage, Written, Concluded

LEMMA AgentInvNext == AgentInv /\ [AgentNext]_agentVars => AgentInv'
<1>. SUFFICES ASSUME AgentInv, [AgentNext]_agentVars PROVE AgentInv'
  OBVIOUS
<1>1. [Next]_vars
  BY DEF AgentNext, agentVars, IgnoreOtherClass, RejectParameters, CreateOutputStructure,
         ConstructManager, Infer, CatchScException, ExceptionEscapes, CreateSolution,
         FinishSuccessfully, AgentTerminated
<1>2. CallInv' /\ TypeOK'
  BY <1>1, CallNext DEF AgentInv, CallInv, IInv, TypeInv
<1>3. CASE Infer
  BY <1>2, <1>3 DEF Infer, AgentInv, AgentTypeOK, Written, Concluded
<1>4. CASE UNCHANGED vars
  <2>1. UNCHANGED <<pc, result, exception>>
    BY <1>4 DEF vars, abstractVars, outcomeVars
  <2>. USE <1>2, <2>1 DEF AgentInv, AgentTypeOK, AgentPCs, Storage, Written, Concluded
  <2>2. CASE IgnoreOtherClass  BY <2>2 DEF IgnoreOtherClass
  <2>3. CASE RejectParameters  BY <2>3 DEF RejectParameters, FinishUnsuccessfully
  <2>4. CASE CreateOutputStructure  BY <2>4 DEF CreateOutputStructure
  <2>5. CASE ConstructManager  BY <2>5 DEF ConstructManager
  <2>6. CASE CatchScException  BY <2>6 DEF CatchScException, FinishUnsuccessfully
  <2>7. CASE ExceptionEscapes  BY <2>7 DEF ExceptionEscapes
  <2>8. CASE CreateSolution  BY <2>8 DEF CreateSolution
  <2>9. CASE FinishSuccessfully  BY <2>9 DEF FinishSuccessfully
  <2>10. CASE AgentTerminated \/ UNCHANGED agentVars
    BY <2>10 DEF AgentTerminated, agentVars
  <2>11. CASE Infer  BY <1>3, <2>11
  <2>. QED
    BY <2>2, <2>3, <2>4, <2>5, <2>6, <2>7, <2>8, <2>9, <2>10, <2>11 DEF AgentNext
<1>5. Infer \/ UNCHANGED vars
  BY DEF AgentNext, agentVars, IgnoreOtherClass, RejectParameters, CreateOutputStructure,
         ConstructManager, CatchScException, ExceptionEscapes, CreateSolution,
         FinishSuccessfully, AgentTerminated
<1>. QED  BY <1>3, <1>4, <1>5

(* The handler and the call it makes keep the invariant: what is in the    *)
(* storage is what the steps taken so far have written.                    *)
THEOREM AgentInvCorrect == AgentSpec => []AgentInv
BY AgentInvInit, AgentInvNext, PTL DEF AgentSpec

(* DirectInferenceAgent and the call of applyInference it makes keep their *)
(* variables in their types, whatever the parameters of the action.        *)
THEOREM AgentTypeCorrect == AgentSpec => []AgentTypeOK
<1>1. AgentInv => AgentTypeOK  BY DEF AgentInv
<1>. QED  BY <1>1, AgentInvCorrect, PTL

(* Every answer of DirectInferenceAgent is a complete solution with one    *)
(* verdict, which is positive just when the target was found after some    *)
(* formula was used, whatever the formulas generate and report.            *)
THEOREM AnswerCorrect == AgentSpec => []AnswerIsComplete
<1>1. AgentInv => AnswerIsComplete
  BY DEF AgentInv, CallInv, ReturnInv, FrontApplied, Concluded, AnswerIsComplete
<1>. QED  BY <1>1, AgentInvCorrect, PTL

(* Only an exception leaves a solution node and an output structure that   *)
(* no answer holds.                                                        *)
THEOREM OrphansCorrect == AgentSpec => []OrphansOnlyByException
<1>1. AgentInv => OrphansOnlyByException
  BY DEF AgentInv, CallInv, ReturnInv, Written, Concluded, OrphansOnlyByException
<1>. QED  BY <1>1, AgentInvCorrect, PTL
=============================================================================
