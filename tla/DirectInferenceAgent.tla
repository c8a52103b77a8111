------------------------ MODULE DirectInferenceAgent ------------------------
(***************************************************************************)
(* DirectInferenceAgent: one initiated action of class                     *)
(* action_direct_inference, from its parameters to its answer, around the  *)
(* call of DirectInferenceManagerTarget::applyInference.                   *)
(*                                                                         *)
(* The storage keeps what the agent wrote when it stops: the structure it  *)
(* created for the output, the solution node the constructor of the        *)
(* solution tree created, the verdict on it and the end of the action.     *)
(***************************************************************************)
EXTENDS DirectInferenceManagerTarget

VARIABLES
  agentPc,      (* where SC_AGENT_IMPLEMENTATION stands                     *)
  parameters,   (* which parameters of the action are valid                 *)
  storage       (* what the agent wrote                                     *)

agentVars == <<vars, agentPc, parameters, storage>>

AgentPCs ==
  {"initiated", "checked", "inferring", "solved", "ended", "escaped"}

Parameters == [ofClass: BOOLEAN, formulasSet: BOOLEAN, arguments: BOOLEAN]

(* Membership of the solution in concept_success_solution, by the sign of  *)
(* the arc; the class the finished action belongs to, None before the end. *)
Storage ==
  [outputStructure: BOOLEAN, solution: BOOLEAN,
   verdict: SUBSET {"positive", "negative"}, outputLinked: BOOLEAN,
   finished: {"no", "successfully", "unsuccessfully"}, answered: BOOLEAN]

AgentTypeOK ==
  /\ TypeOK
  /\ agentPc \in AgentPCs
  /\ parameters \in Parameters
  /\ storage \in Storage

AgentInit ==
  /\ Init
  /\ agentPc = "initiated"
  /\ parameters \in Parameters
  /\ storage = [outputStructure |-> FALSE, solution |-> FALSE, verdict |-> {},
                outputLinked |-> FALSE, finished |-> "no", answered |-> FALSE]

(* utils::AgentUtils::finishAgentWork without and with an answer.          *)
FinishUnsuccessfully ==
  /\ storage' = [storage EXCEPT !.finished = "unsuccessfully"]
  /\ agentPc' = "ended"

-----------------------------------------------------------------------------
IgnoreOtherClass ==
  /\ agentPc = "initiated"
  /\ ~parameters.ofClass
  /\ agentPc' = "ended"
  /\ UNCHANGED <<vars, parameters, storage>>

(* Mutant of RejectParameters: the structure is created before the checks. *)
RejectTooLate ==
  /\ agentPc = "initiated"
  /\ parameters.ofClass
  /\ ~parameters.formulasSet \/ ~parameters.arguments
  /\ storage' = [storage EXCEPT !.finished = "unsuccessfully",
                                !.outputStructure = TRUE]
  /\ agentPc' = "ended"
  /\ UNCHANGED <<vars, parameters>>

RejectParameters ==
  /\ agentPc = "initiated"
  /\ parameters.ofClass
  /\ ~parameters.formulasSet \/ ~parameters.arguments
  /\ FinishUnsuccessfully
  /\ UNCHANGED <<vars, parameters>>

(* The output structure is created before the manager, whose solution tree *)
(* creates the solution node in its constructor.                           *)
CreateOutputStructure ==
  /\ agentPc = "initiated"
  /\ parameters.ofClass /\ parameters.formulasSet /\ parameters.arguments
  /\ storage' = [storage EXCEPT !.outputStructure = TRUE]
  /\ agentPc' = "checked"
  /\ UNCHANGED <<vars, parameters>>

ConstructManager ==
  /\ agentPc = "checked"
  /\ storage' = [storage EXCEPT !.solution = TRUE]
  /\ agentPc' = "inferring"
  /\ UNCHANGED <<vars, parameters>>

(* A step of applyInference.                                               *)
Infer ==
  /\ agentPc = "inferring"
  /\ pc \notin {"returned", "thrown"}
  /\ Next
  /\ UNCHANGED <<agentPc, parameters, storage>>

(* Mutants of CatchScException: the action is left unfinished, or finished *)
(* as if there were a solution.                                            *)
CatchOnly ==
  /\ agentPc = "inferring"
  /\ pc = "thrown" /\ exception = "ScException"
  /\ agentPc' = "ended"
  /\ UNCHANGED <<vars, parameters, storage>>
CatchAndAnswer ==
  /\ agentPc = "inferring"
  /\ pc = "thrown" /\ exception = "ScException"
  /\ storage' =
       [storage EXCEPT !.finished = "successfully", !.answered = TRUE]
  /\ agentPc' = "ended"
  /\ UNCHANGED <<vars, parameters>>

(* catch (utils::ScException const &).                                     *)
CatchScException ==
  /\ agentPc = "inferring"
  /\ pc = "thrown" /\ exception = "ScException"
  /\ FinishUnsuccessfully
  /\ UNCHANGED <<vars, parameters>>

(* std::runtime_error, std::out_of_range and std::exception leave the      *)
(* agent: nothing finishes the action.                                     *)
ExceptionEscapes ==
  /\ agentPc = "inferring"
  /\ pc = "thrown" /\ exception # "ScException"
  /\ agentPc' = "escaped"
  /\ UNCHANGED <<vars, parameters, storage>>

(* SolutionTreeGenerator::createSolution.                                  *)
CreateSolution ==
  /\ agentPc = "inferring"
  /\ pc = "returned"
  /\ storage' =
       [storage EXCEPT
          !.verdict = @ \cup {IF result THEN "positive" ELSE "negative"},
          !.outputLinked = TRUE]
  /\ agentPc' = "solved"
  /\ UNCHANGED <<vars, parameters>>

FinishSuccessfully ==
  /\ agentPc = "solved"
  /\ storage' =
       [storage EXCEPT !.finished = "successfully", !.answered = TRUE]
  /\ agentPc' = "ended"
  /\ UNCHANGED <<vars, parameters>>

AgentTerminated ==
  /\ agentPc \in {"ended", "escaped"}
  /\ UNCHANGED agentVars

AgentNext ==
  \/ IgnoreOtherClass
  \/ RejectParameters
  \/ CreateOutputStructure
  \/ ConstructManager
  \/ Infer
  \/ CatchScException
  \/ ExceptionEscapes
  \/ CreateSolution
  \/ FinishSuccessfully
  \/ AgentTerminated

AgentSpec == AgentInit /\ [][AgentNext]_agentVars /\ WF_agentVars(AgentNext)

-----------------------------------------------------------------------------
(* Properties.                                                             *)

(* An answer is a complete solution: linked to the output structure, with  *)
(* exactly one verdict. Once a formula was used the verdict is positive    *)
(* just when the target was found, right after the formula at the front    *)
(* generated.                                                              *)
AnswerIsComplete ==
  storage.answered =>
    /\ storage.solution /\ storage.outputLinked
    /\ storage.verdict \in {{"positive"}, {"negative"}}
    /\ storage.verdict = {"positive"} =>
         /\ targetAchieved
         /\ lastOutcome[Head(uncheckedFormulas)] = "applied"
    /\ targetAchieved /\ (\E f \in Formulas : lastOutcome[f] # "untried") =>
         storage.verdict = {"positive"}

(* Only an exception leaves a solution node and an output structure that   *)
(* no answer holds.                                                        *)
OrphansOnlyByException ==
  agentPc \in {"ended", "escaped"} =>
    ((storage.solution \/ storage.outputStructure) /\ ~storage.answered
       <=> exception # None)

(* Every action of the class is finished, unless an exception that is not  *)
(* a utils::ScException escapes; and then it never is.                     *)
ActionIsFinished ==
  parameters.ofClass ~>
    (storage.finished # "no" \/ (agentPc = "escaped" /\ exception # "ScException"))

(* scl-machine.tex: if the target is found the agent returns a node that   *)
(* belongs to concept_success_solution.                                    *)
AchievedIsSuccess ==
  storage.answered /\ targetAchieved => storage.verdict = {"positive"}
=============================================================================
