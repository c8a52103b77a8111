---------------------- MODULE InferenceManagerAbstract ----------------------
(***************************************************************************)
(* What the two direct inference managers share (class                     *)
(* InferenceManagerAbstract): the queues of formulas built from the        *)
(* oriented set of formula sets, and the application of one formula.       *)
(*                                                                         *)
(* The evaluation of a formula is abstracted to its effect on the loop:    *)
(* it reports a generation or not, it changes the knowledge base or not,   *)
(* or it throws.  The knowledge base itself is abstracted to a counter of  *)
(* its changes, `knowledge`.                                               *)
(***************************************************************************)
EXTENDS Integers, Sequences, Functions

CONSTANTS
  Formulas,       (* the logical formulas                                  *)
  Sets,           (* the nodes that are sets of formulas                   *)
  None,           (* the invalid ScAddr                                    *)
  FormulasSets,   (* the formula-set arguments a call may receive          *)
  SilentFormulas, (* formulas that may generate without reporting it:      *)
                  (* roots that are equivalences or conjunctions, and      *)
                  (* conjunctive conclusions that fail half way            *)
  Throwers,       (* formulas whose evaluation may throw                   *)
  MaxKnowledge    (* bound: generations before the knowledge saturates     *)

(* A formulas set: the element under rrel_1, the successor of each element *)
(* in the nrel_basic_sequence order, and the formulas of each element in   *)
(* the order the storage iterates over them.                               *)
FormulasSetArgument ==
  [first: Sets \cup {None}, next: [Sets -> Sets \cup {None}],
   members: [Sets -> Seq(Formulas)]]

(* The agent catches utils::ScException and nothing else.                  *)
Exceptions == {"ScException", "std::exception"}

ASSUME NoneAssumption == None \notin Sets \cup Exceptions
ASSUME FormulasSetsAssumption == FormulasSets \subseteq FormulasSetArgument
ASSUME SilentAssumption == SilentFormulas \subseteq Formulas
ASSUME MaxKnowledgeAssumption == MaxKnowledge \in Nat

VARIABLES
  pc,             (* where the call of applyInference stands               *)
  formulasSet,    (* inferenceParamsConfig.formulasSet, with its storage   *)
  setOfFormulas,  (* the element createFormulasQueuesListByPriority is at  *)
  formulasQueuesByPriority,
  result,         (* what applyInference returned                          *)
  exception,      (* or the exception that left it                         *)
  knowledge,      (* number of changes the call made to the knowledge base *)
  progress,       (* value of knowledge at the last reported generation    *)
  lastAttempt,    (* value of knowledge after the last use of a formula    *)
  lastOutcome     (* and whether that use reported a generation            *)

queueVars  == <<setOfFormulas, formulasQueuesByPriority>>
memoryVars == <<knowledge, progress, lastAttempt, lastOutcome>>
outcomeVars == <<result, exception>>
abstractVars == <<pc, formulasSet, outcomeVars, queueVars, memoryVars>>

Outcomes == {"untried", "failed", "applied"}

AbstractTypeOK ==
  /\ formulasSet \in FormulasSets
  /\ setOfFormulas \in Sets \cup {None}
  /\ formulasQueuesByPriority \in Seq(Seq(Formulas))
  /\ result \in BOOLEAN
  /\ exception \in Exceptions \cup {None}
  /\ knowledge \in Nat
  /\ progress \in Nat
  /\ lastAttempt \in [Formulas -> Nat]
  /\ lastOutcome \in [Formulas -> Outcomes]

AbstractInit ==
  /\ formulasSet \in FormulasSets
  /\ setOfFormulas = formulasSet.first
  /\ formulasQueuesByPriority = <<>>
  /\ result = FALSE
  /\ exception = None
  /\ knowledge = 0
  /\ progress = 0
  /\ lastAttempt = [f \in Formulas |-> 0]
  /\ lastOutcome = [f \in Formulas |-> "untried"]

-----------------------------------------------------------------------------
(* The queues.                                                             *)

(* One turn of the loop of createFormulasQueuesListByPriority: the queue   *)
(* of the current set, then the next set of the oriented set.              *)
QueueNextSet ==
  /\ setOfFormulas # None
  /\ formulasQueuesByPriority' =
       Append(formulasQueuesByPriority, formulasSet.members[setOfFormulas])
  /\ setOfFormulas' = formulasSet.next[setOfFormulas]

(* Queue number i, counted from 0 as formulasQueueIndex is.                *)
QueueAt(i) == formulasQueuesByPriority[i + 1]

(* The formulas of queue number i.                                         *)
SetAt(i) == Range(QueueAt(i))

-----------------------------------------------------------------------------
(* useFormula.                                                             *)

Tried(f, outcome) ==
  /\ lastAttempt' = [lastAttempt EXCEPT ![f] = knowledge']
  /\ lastOutcome' = [lastOutcome EXCEPT ![f] = outcome]

(* The formula generated something and says so.                            *)
UseGenerates(f) ==
  /\ knowledge < MaxKnowledge
  /\ knowledge' = knowledge + 1
  /\ progress' = knowledge'
  /\ Tried(f, "applied")

(* The formula has no root, its premise was not found or everything it     *)
(* concludes is already known: isGenerated is false.                       *)
UseFails(f) ==
  /\ knowledge' = knowledge
  /\ Tried(f, "failed")
  /\ UNCHANGED progress

(* The formula generated something, yet isGenerated is false.              *)
UseGeneratesSilently(f) ==
  /\ f \in SilentFormulas
  /\ knowledge < MaxKnowledge
  /\ knowledge' = knowledge + 1
  /\ Tried(f, "failed")
  /\ UNCHANGED progress

NotGenerated(f) == UseFails(f) \/ UseGeneratesSilently(f)

(* The evaluation throws, before or after it changed the knowledge base.   *)
Throw(e) ==
  /\ pc' = "thrown"
  /\ exception' = e
  /\ UNCHANGED result

UseThrows(f) ==
  /\ f \in Throwers
  /\ \E e \in Exceptions : Throw(e)
  /\ knowledge' \in {knowledge, knowledge + 1} \cap 0 .. MaxKnowledge
  /\ UNCHANGED <<progress, lastAttempt, lastOutcome>>
=============================================================================
