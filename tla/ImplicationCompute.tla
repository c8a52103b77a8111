------------------------- MODULE ImplicationCompute -------------------------
(***************************************************************************)
(* ImplicationExpressionNode::compute as a whole: after the premise (of    *)
(* ImplicationExpressionNode) the conclusion is generated, or not, and the *)
(* result of the implication is formed from both results.  What it returns *)
(* is written into the solution tree, and an exception on the way leaves   *)
(* the agent.                                                              *)
(*                                                                         *)
(* The conclusion is generated with GENERATE_UNIQUE_FORMULAS and           *)
(* SEARCH_WITHOUT_REPLACEMENTS; a search without params finds all that the *)
(* knowledge base has of it.                                               *)
(***************************************************************************)
EXTENDS ImplicationExpressionNode

(* Conjunctions are in TemplateExpressionNode.  If the premise generates   *)
(* an atom, the elements of Fresh must not be taken for edges of both.     *)
ASSUME ConclusionAssumption ==
  \A i \in Inputs : IsWellFormed(i.formula) =>
    LET premise == OperandsOf(i.formula)[1]
        conclusion == OperandsOf(i.formula)[2]
    IN  /\ IsWellFormed(conclusion) => TypeOfFormula(conclusion) # "CONJUNCTION"
        /\ TypeOfFormula(conclusion) = "ATOMIC" =>
             /\ ExistingRows(conclusion.found, i.usingType) \in Existing
             /\ \A f \in PartsOfAll({premise}) : Kind(f) = "generate" =>
                  DOMAIN f.found \cap DOMAIN conclusion.found \cap EdgeVariables = {}

VARIABLES
  stage,            (* of compute; at "premise" pc says more               *)
  conclusionResult,
  newInstances,     (* history: the instances of the conclusion generated  *)
  implication       (* the result of compute                               *)

ofConclusion == <<stage, conclusionResult, newInstances, implication>>

NoResult == [value |-> FALSE, isGenerated |-> FALSE, replacements |-> NoReplacements]

ComputeInit ==
  /\ Init
  /\ stage = "premise"
  /\ conclusionResult = NoResult
  /\ newInstances = <<>>
  /\ implication = NoResult

ComputePremise ==
  /\ stage = "premise"
  /\ pc \notin {"conclusion", "generate", "done", "thrown"}
  /\ Next
  /\ UNCHANGED ofConclusion

(* generate returns before it searches.                                    *)
SkipConclusion ==
  /\ stage = "premise"
  /\ ConclusionNotGenerated
  /\ stage' = "conclusion"
  /\ UNCHANGED <<conclusionResult, newInstances, implication>>

SearchConclusion ==
  /\ stage = "premise"
  /\ pc = "conclusion"
  /\ TypeOfFormula(Conclusion) = "ATOMIC"
  /\ existing' = ExistingRows(Conclusion.found, input.usingType)
  /\ SubtractExisting
  /\ UNCHANGED ofConclusion

-----------------------------------------------------------------------------
(* The generation of what is not in the knowledge base.                    *)

AtGeneration == stage = "premise" /\ pc = "generate"

(* What processTemplateParams searches and generates.                      *)
Processed(walk) ==
  GeneratedFor(Params(WithoutEdges(notInKb), walk), Conclusion.found, input.usingType)

(* Mutant of ConclusionReplacements: those generated are left out.         *)
ConclusionReplacementsFound(done, walk) ==
  UniteReplacements(Rows(done.searched, DOMAIN Conclusion.found), existing, walk)

ConclusionReplacements(done, walk) ==
  LET rows(instances) == Rows(instances, DOMAIN Conclusion.found)
      found == UniteReplacements(rows(done.searched), existing, walk)
  IN  UniteReplacements(found, rows(done.generated), walk)

GenerateConclusion ==
  /\ AtGeneration
  /\ \E walk \in WalkSet :
       /\ ~FindThrows(notInKb, walk)
       /\ LET done == Processed(walk)
              isGenerated == done.generated # <<>>
          IN  /\ Len(done.generated) <= Len(Fresh)
              /\ newInstances' = done.generated
              /\ conclusionResult' =
                   [value |-> isGenerated, isGenerated |-> isGenerated,
                    replacements |-> ConclusionReplacements(done, walk)]
  /\ stage' = "conclusion"
  /\ UNCHANGED <<vars, implication>>

(* std::out_of_range before anything is generated.                         *)
ParamsThrow ==
  /\ AtGeneration
  /\ \E walk \in WalkSet : FindThrows(notInKb, walk)
  /\ stage' = "escaped"
  /\ UNCHANGED <<vars, conclusionResult, newInstances, implication>>

(* fillOutputStructure intersects once more what was in the knowledge      *)
(* base, if there is an output structure that gets it: what was generated  *)
(* stays.                                                                  *)
FillThrows ==
  /\ AtGeneration
  /\ \E walk \in WalkSet :
       /\ ~FindThrows(notInKb, walk)
       /\ IntersectThrows(result.replacements, existing, walk)
       /\ Len(Processed(walk).generated) <= Len(Fresh)
       /\ newInstances' = Processed(walk).generated
  /\ stage' = "escaped"
  /\ UNCHANGED <<vars, conclusionResult, implication>>

-----------------------------------------------------------------------------
(* The result of the implication.                                          *)

ResultThrows(walk) ==
  /\ conclusionResult.value
  /\ IntersectThrows(result.replacements, conclusionResult.replacements, walk)

ImplicationReplacements(walk) ==
  IF conclusionResult.value
    THEN IntersectReplacements(result.replacements, conclusionResult.replacements, walk)
    ELSE NoReplacements

ComputeImplication ==
  /\ stage = "conclusion"
  /\ \E walk \in WalkSet :
       /\ ~ResultThrows(walk)
       /\ implication' = [value |-> result.value => conclusionResult.value,
                          isGenerated |-> conclusionResult.isGenerated,
                          replacements |-> ImplicationReplacements(walk)]
  /\ stage' = "computed"
  /\ UNCHANGED <<vars, conclusionResult, newInstances>>

ImplicationThrows ==
  /\ stage = "conclusion"
  /\ \E walk \in WalkSet : ResultThrows(walk)
  /\ stage' = "escaped"
  /\ UNCHANGED <<vars, conclusionResult, newInstances, implication>>

(* Nothing below catches what the premise or the subtraction threw.        *)
PremiseThrows ==
  /\ stage = "premise"
  /\ pc = "thrown"
  /\ stage' = "escaped"
  /\ UNCHANGED <<vars, conclusionResult, newInstances, implication>>

Returned ==
  /\ stage \in {"computed", "escaped"}
  /\ Evaluated
  /\ UNCHANGED ofConclusion

ComputeNext ==
  \/ ComputePremise
  \/ SkipConclusion
  \/ SearchConclusion
  \/ GenerateConclusion
  \/ ParamsThrow
  \/ FillThrows
  \/ ComputeImplication
  \/ ImplicationThrows
  \/ PremiseThrows
  \/ Returned

ComputeSpec == ComputeInit /\ [][ComputeNext]_<<vars, ofConclusion>>

-----------------------------------------------------------------------------
(* Properties.                                                             *)

KnownInstances == Range(Instances(Conclusion.found)) \cup Range(newInstances)

(* After compute the implication holds: whatever the hashes of the columns *)
(* confuse, every replacement of the premise has an instance of the atomic *)
(* conclusion, one that was there or one that was generated.  (A premise   *)
(* of edges alone gives no params; REPLACEMENTS_FIRST stops early.)        *)
ImplicationHolds ==
  /\ stage = "computed" /\ IsMatrix(result.replacements)
  /\ TypeOfFormula(Conclusion) = "ATOMIC"
  /\ input.usingType = "REPLACEMENTS_ALL"
  => \A c \in Columns(result.replacements) :
       DOMAIN c \subseteq EdgeVariables
         \/ \E d \in KnownInstances : Compatible(WithoutEdges(c), d)

(* What the implication returns, and the solution tree records, are        *)
(* replacements of the premise, each with an instance of the conclusion.   *)
ImplicationColumnsHold ==
  stage = "computed" /\ IsMatrix(result.replacements) =>
    \A c \in Columns(implication.replacements) :
      /\ Restrict(c, DOMAIN result.replacements) \in Columns(result.replacements)
      /\ DOMAIN Conclusion.found \subseteq DOMAIN c
      /\ Restrict(c, DOMAIN Conclusion.found) \in KnownInstances

(* Every instance that was generated is in what the implication returns,   *)
(* although its replacements are united with others, and intersected with  *)
(* those of the premise, by hashes.  (Two cases are lost: an edge that has *)
(* another value in the premise, and a column whose hash is that of        *)
(* another with the same first value.)                                     *)
GeneratedIsRecorded ==
  /\ stage = "computed" /\ IsMatrix(result.replacements)
  /\ DOMAIN result.replacements \cap DOMAIN Conclusion.found \cap EdgeVariables = {}
  /\ DOMAIN Conclusion.found \in ToldApart
  => \A d \in Range(newInstances) : \E c \in Columns(implication.replacements) :
       \A v \in DOMAIN d : v \in DOMAIN c /\ c[v] = d[v]

(* The variables of an operand strictly contain those of the operands      *)
(* before it, or are strictly contained in them; also of one generated.    *)
OperandsAreNested ==
  \E n \in 2 .. Len(operands) :
    LET keys == DOMAIN operands[n].replacements
        before == UNION {DOMAIN operands[m].replacements : m \in 1 .. n - 1}
    IN  /\ keys # {} /\ before # {} /\ keys # before
        /\ keys \subseteq before \/ before \subseteq keys

(* ReplacementsUtils.cpp reads every vector at the columns of the first    *)
(* one.  compute throws for a formula that is ill-formed, for an           *)
(* equivalence of which no side is computed by itself, and for replacements*)
(* that are not a matrix; there are none of those if the operands found    *)
(* matrices, no operands of a disjunction have nested variables and the    *)
(* searches for several params are exact.                                  *)
ThrowsOnlyRagged ==
  stage = "escaped" =>
    \/ \E f \in Subformulas(input.formula) : ~IsWellFormed(f)
    \/ NothingToCompare
    \/ \E o \in Range(operands) : ~IsMatrix(o.replacements)
    \/ connective = "DISJUNCTION" /\ OperandsAreNested
    \/ \E n \in DOMAIN operands : operands[n].kind = "find" /\ ~SearchIsExact(n)
=============================================================================
