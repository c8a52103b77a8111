---------------------- MODULE ImplicationExpressionNode ----------------------
(***************************************************************************)
(* The evaluation of an implication.  The expression tree is built         *)
(* (LogicExpression::build); the premise is computed: the results of the   *)
(* operands of a conjunction or a disjunction are folded one by one into   *)
(* its replacements, those of an equivalence are compared, that of a       *)
(* negation is inverted; whatever came out is given to the conclusion      *)
(* (ImplicationExpressionNode::compute), which, if it is an atomic         *)
(* formula, keeps the replacements that are not in the knowledge base yet  *)
(* (TemplateExpressionNode::generate).                                     *)
(*                                                                         *)
(* Conclusions that are conjunctions are in TemplateExpressionNode.        *)
(***************************************************************************)
EXTENDS LogicExpression, AtomInPremise

CONSTANTS
  Inputs,       (* the implications, with a ReplacementsUsingType          *)
  Existing,     (* what the search of the conclusion alone may find        *)
  WalkSet,      (* bound: the iteration orders considered                  *)
  MaxDepth      (* how deep the formulas are                               *)

Equivalences == {"EQUIVALENCE_EDGE", "EQUIVALENCE_TUPLE"}
Implications == {"IMPLICATION_EDGE", "IMPLICATION_TUPLE"}
Connectives == {"ATOMIC", "NEGATION", "CONJUNCTION", "DISJUNCTION"} \cup Equivalences

(* LogicFormulaResult.  isGenerated is FALSE until something is generated. *)
IsResult(r) ==
  /\ DOMAIN r = {"value", "replacements"}
  /\ r.value \in BOOLEAN
  /\ IsReplacements(r.replacements)

ASSUME ExistingAssumption == \A r \in Existing : IsReplacements(r) /\ IsMatrix(r)
ASSUME WalkSetAssumption == \A walk \in WalkSet : IsWalk(walk)
ASSUME MaxDepthAssumption == MaxDepth \in Nat
ASSUME EdgeVariablesAssumption == EdgeVariables \subseteq Variables
ASSUME FreshAssumption == Fresh \in Seq(Values)
(* The formulas that are so deep in f, and all of them.                    *)
AtDepth(f, depth) ==
  LET level[d \in 0 .. depth] ==
        IF d = 0 THEN {f} ELSE PartsOfAll(level[d - 1])
  IN  level[depth]

Subformulas(f) == UNION {AtDepth(f, depth) : depth \in 0 .. MaxDepth}

(* Formulas of finite depth; what the knowledge base has of them, a search *)
(* without params finding a matrix.                                        *)
IsFormula(f) ==
  /\ PartsOf(f) \in Seq(PartsOfAll({f}))
  /\ IsReplacements(f.found)
  /\ IF TypeOfFormula(f) = "ATOMIC" THEN IsMatrix(f.found) ELSE f.value \in BOOLEAN

ASSUME InputsAssumption ==
  \A input \in Inputs :
    /\ input.usingType \in {"REPLACEMENTS_FIRST", "REPLACEMENTS_ALL"}
    /\ AtDepth(input.formula, MaxDepth + 1) = {}
    /\ \A f \in Subformulas(input.formula) : IsFormula(f)
    /\ TypeOfFormula(input.formula) \in {"NONE"} \cup Implications
    /\ IsWellFormed(input.formula) =>
         TypeOfFormula(OperandsOf(input.formula)[1]) \in {"NONE"} \cup Connectives

VARIABLES
  pc,
  input,
  toBuild,     (* the formulas build is still called for                   *)
  connective,  (* the class of the premise                                 *)
  operands,    (* of the premise, in the order they are evaluated          *)
  next,        (* the operand the evaluation is at                         *)
  lastResult,  (* what that operand evaluated to                           *)
  result,      (* premiseResult                                            *)
  generated,   (* history: the instances of atoms the premise generated    *)
  existing,    (* existingFormulaReplacements                              *)
  notInKb      (* replacementsNotInKb                                      *)

vars == <<pc, input, toBuild, connective, operands, next, lastResult, result, generated, existing, notInKb>>
afterPremise == <<input, toBuild, connective, operands, existing, notInKb>>

TypeOK ==
  /\ pc \in {"build", "premise", "fold", "conclusion", "generate", "done", "thrown"}
  /\ connective \in Connectives \cup {"NONE"}
  /\ \A n \in DOMAIN operands :
       /\ operands[n].kind \in {"compute", "find", "generate"}
       /\ operands[n].value \in BOOLEAN
       /\ IsReplacements(operands[n].replacements)
  /\ next \in 1 .. Len(operands) + 1
  /\ IsResult(lastResult)
  /\ IsResult(result)
  /\ \A c \in generated : DOMAIN c \subseteq Variables
  /\ IsReplacements(existing)
  /\ IsReplacements(notInKb)

Init ==
  /\ pc = "build"
  /\ input \in Inputs
  /\ toBuild = <<input.formula>>
  /\ connective = "NONE"
  /\ operands = <<>>
  /\ next = 1
  /\ lastResult = NotFound
  /\ result = NotFound
  /\ generated = {}
  /\ existing = NoReplacements
  /\ notInKb = NoReplacements

-----------------------------------------------------------------------------
(* The tree.                                                               *)

Premise == OperandsOf(input.formula)[1]
Conclusion == OperandsOf(input.formula)[2]

(* An operand: its result, or the instances a search will find.            *)
Operand(f, kind) ==
  [kind |-> kind,
   value |-> kind = "compute" /\ Computed(f).value,
   replacements |-> IF kind = "compute" THEN Computed(f).replacements ELSE f.found]

Ordered(f, kinds) ==
  LET kind(n) == Kind(OperandsOf(f)[n])
      before == {p \in (DOMAIN OperandsOf(f)) \X (DOMAIN OperandsOf(f)) :
                   IF kind(p[1]) = kind(p[2]) THEN p[1] < p[2]
                   ELSE \E k, l \in DOMAIN kinds :
                          k < l /\ kinds[k] = kind(p[1]) /\ kinds[l] = kind(p[2])}
      order == InOrder(DOMAIN OperandsOf(f), before)
  IN  [n \in DOMAIN order |-> Operand(OperandsOf(f)[order[n]], kind(order[n]))]

(* Mutant of EvaluationOrder: atoms are generated before others are found. *)
GenerationBeforeSearch(f) == Ordered(f, <<"compute", "generate", "find">>)

(* formulasWithoutConstants and formulasToGenerate are put off.            *)
EvaluationOrder(f) ==
  Ordered(f, <<"compute", "find", "generate">>)

(* Mutant of Build: operands are built only when they are computed.        *)
BuildRoot ==
  /\ pc = "build"
  /\ toBuild # <<>>
  /\ IsWellFormed(Head(toBuild))
  /\ toBuild' = Tail(toBuild)
  /\ UNCHANGED <<pc, input, connective, operands, next, lastResult, result, generated, existing, notInKb>>

(* A call of build; the calls it makes come before those that wait.        *)
Build ==
  /\ pc = "build"
  /\ toBuild # <<>>
  /\ IsWellFormed(Head(toBuild))
  /\ toBuild' = PartsOf(Head(toBuild)) \o Tail(toBuild)
  /\ UNCHANGED <<pc, input, connective, operands, next, lastResult, result, generated, existing, notInKb>>

(* ExceptionItemNotFound.                                                  *)
BuildThrows ==
  /\ pc = "build"
  /\ toBuild # <<>>
  /\ ~IsWellFormed(Head(toBuild))
  /\ pc' = "thrown"
  /\ UNCHANGED <<input, toBuild, connective, operands, next, lastResult, result, generated, existing, notInKb>>

(* The whole tree is built before anything of it is computed.              *)
ComputeTree ==
  /\ pc = "build"
  /\ toBuild = <<>>
  /\ connective' = TypeOfFormula(Premise)
  /\ operands' = IF connective' \in {"ATOMIC", "NEGATION"}
                   THEN <<Operand(Premise, "compute")>>
                   ELSE EvaluationOrder(Premise)
  /\ next' = IF connective' \in Equivalences THEN 2 ELSE 1
  /\ pc' = "premise"
  /\ UNCHANGED <<input, toBuild, lastResult, result, generated, existing, notInKb>>

-----------------------------------------------------------------------------
(* The premise.                                                            *)

(* What the operands before it found, for an operand that depends on it:   *)
(* everything so far, or what the other side of an equivalence found.      *)
Known == IF connective \in Equivalences THEN operands[1].replacements ELSE result.replacements

Evaluation(operand, walk) ==
  IF operand.kind = "find" THEN Find(operand.replacements, Known, input.usingType, walk)
  ELSE IF operand.kind = "generate" THEN Generate(operand.replacements, Known, input.usingType, walk)
  ELSE [value |-> operand.value, replacements |-> operand.replacements, generated |-> <<>>]

EvaluationThrows(operand, walk) ==
  IF operand.kind = "find" THEN FindThrows(Known, walk)
  ELSE /\ operand.kind = "generate"
       /\ GenerateThrows(operand.replacements, Known, input.usingType, walk)

ComputedAmount == Cardinality({n \in DOMAIN operands : operands[n].kind = "compute"})

(* After the computed operands: a disjunction without replacements; an     *)
(* equivalence of which no operand is computed by itself.                  *)
NothingUnited ==
  /\ connective = "DISJUNCTION"
  /\ next = ComputedAmount + 1
  /\ DOMAIN result.replacements = {}

NothingToCompare == connective \in Equivalences /\ ComputedAmount = 0

AtOperand ==
  /\ pc = "premise"
  /\ connective \notin {"NEGATION", "ATOMIC"}
  /\ next <= Len(operands)
  /\ ~NothingUnited
  /\ ~NothingToCompare

EvaluateOperand ==
  /\ AtOperand
  /\ \E walk \in WalkSet :
       /\ ~EvaluationThrows(operands[next], walk)
       /\ LET evaluation == Evaluation(operands[next], walk)
          IN  /\ Len(evaluation.generated) <= Len(Fresh)
              /\ lastResult' = [value |-> evaluation.value, replacements |-> evaluation.replacements]
              /\ generated' = generated \cup Range(evaluation.generated)
  /\ pc' = "fold"
  /\ UNCHANGED <<next, result, afterPremise>>

(* std::out_of_range, which nothing above catches; std::exception.         *)
EvaluateThrows ==
  /\ \/ AtOperand /\ \E walk \in WalkSet : EvaluationThrows(operands[next], walk)
     \/ pc = "premise" /\ NothingToCompare
  /\ pc' = "thrown"
  /\ UNCHANGED <<next, lastResult, result, generated, afterPremise>>

Folding(kinds) == pc = "fold" /\ connective \in kinds

(* Mutant of ConjunctionFails: the replacements are not reset.             *)
ConjunctionFailsFull ==
  /\ result' = [result EXCEPT !.value = FALSE]
  /\ pc' = "conclusion"
  /\ UNCHANGED <<next, lastResult, generated, afterPremise>>

(* The loop returns early: the conjunction is false.                       *)
ConjunctionFails ==
  /\ result' = NotFound
  /\ pc' = "conclusion"
  /\ UNCHANGED <<next, lastResult, generated, afterPremise>>

OperandIsFalse ==
  /\ Folding({"CONJUNCTION"})
  /\ ~lastResult.value
  /\ ConjunctionFails

Folded(newResult) ==
  /\ result' = newResult
  /\ next' = next + 1
  /\ pc' = "premise"
  /\ UNCHANGED <<lastResult, generated, afterPremise>>

(* "this is true only when processing the first operand"                   *)
IsFirst == ~result.value /\ operands[next].kind = "compute"

FirstOperand ==
  /\ Folding({"CONJUNCTION"})
  /\ lastResult.value
  /\ IsFirst
  /\ Folded(lastResult)

IntersectsWithLast(walk) ==
  ~IntersectThrows(Known, lastResult.replacements, walk)

(* The map is tested for keys, not for columns.                            *)
NextOperand ==
  /\ Folding({"CONJUNCTION"})
  /\ lastResult.value
  /\ ~IsFirst
  /\ \E walk \in WalkSet :
       /\ IntersectsWithLast(walk)
       /\ LET replacements == IntersectReplacements(Known, lastResult.replacements, walk)
          IN  IF DOMAIN replacements = {}
                THEN ConjunctionFails
                ELSE Folded([result EXCEPT !.replacements = replacements])

Disjunct ==
  /\ Folding({"DISJUNCTION"})
  /\ \E walk \in WalkSet :
       /\ ~UniteThrows(Known, lastResult.replacements, walk)
       /\ Folded([value |-> result.value \/ lastResult.value,
                  replacements |-> UniteReplacements(Known, lastResult.replacements, walk)])

DisjunctionFails ==
  /\ pc = "premise"
  /\ NothingUnited
  /\ result' = NotFound
  /\ pc' = "conclusion"
  /\ UNCHANGED <<next, lastResult, generated, afterPremise>>

(* Mutant of SidesAgree: both sides are true.                              *)
SidesHold == operands[1].value /\ lastResult.value

SidesAgree ==
  operands[1].value = lastResult.value

Equivalence ==
  /\ Folding(Equivalences)
  /\ SidesAgree
  /\ \E walk \in WalkSet :
       /\ IntersectsWithLast(walk)
       /\ Folded([value |-> TRUE,
                  replacements |-> IntersectReplacements(Known, lastResult.replacements, walk)])

NoEquivalence ==
  /\ Folding(Equivalences)
  /\ ~SidesAgree
  /\ Folded(NotFound)

(* std::out_of_range; what the operands generated stays.                   *)
FoldThrows ==
  /\ pc = "fold"
  /\ \E walk \in WalkSet :
       CASE connective = "DISJUNCTION" -> UniteThrows(Known, lastResult.replacements, walk)
         [] connective = "CONJUNCTION" -> lastResult.value /\ ~IntersectsWithLast(walk)
         [] OTHER -> SidesAgree /\ ~IntersectsWithLast(walk)
  /\ pc' = "thrown"
  /\ UNCHANGED <<next, lastResult, result, generated, afterPremise>>

(* A negation; an atom.                                                    *)
OnlyOperand ==
  /\ pc = "premise"
  /\ connective \in {"NEGATION", "ATOMIC"}
  /\ result' = [value |-> operands[1].value, replacements |-> operands[1].replacements]
  /\ next' = 2
  /\ pc' = "conclusion"
  /\ UNCHANGED <<lastResult, generated, afterPremise>>

PremiseComputed ==
  /\ pc = "premise"
  /\ next > Len(operands)
  /\ ~NothingUnited
  /\ pc' = "conclusion"
  /\ UNCHANGED <<next, lastResult, result, generated, afterPremise>>

-----------------------------------------------------------------------------
(* The conclusion is generated with the replacements of the premise,       *)
(* whether the premise is true or not.                                     *)

(* generate of a connective other than a conjunction does nothing.         *)
ConclusionNotGenerated ==
  /\ pc = "conclusion"
  /\ \/ TypeOfFormula(Conclusion) # "ATOMIC"
     \/ \E walk \in WalkSet : ColumnsAmount(result.replacements, walk) = 0
  /\ pc' = "done"
  /\ UNCHANGED <<next, lastResult, result, generated, afterPremise>>

(* GENERATE_UNIQUE_FORMULAS with SEARCH_WITHOUT_REPLACEMENTS.              *)
SubtractExisting ==
  /\ pc = "conclusion"
  /\ TypeOfFormula(Conclusion) = "ATOMIC"
  /\ existing' \in Existing
  /\ \E walk \in WalkSet :
       /\ ColumnsAmount(result.replacements, walk) > 0
       /\ IF SubtractThrows(result.replacements, existing', walk)
            THEN pc' = "thrown" /\ UNCHANGED notInKb
            ELSE /\ notInKb' = SubtractReplacements(result.replacements, existing', walk)
                 /\ pc' = "generate"
  /\ UNCHANGED <<input, toBuild, connective, operands, next, lastResult, result, generated>>

Evaluated ==
  /\ pc \in {"done", "generate", "thrown"}
  /\ UNCHANGED vars

Next ==
  \/ Build
  \/ BuildThrows
  \/ ComputeTree
  \/ EvaluateOperand
  \/ EvaluateThrows
  \/ OperandIsFalse
  \/ FirstOperand
  \/ NextOperand
  \/ Disjunct
  \/ DisjunctionFails
  \/ Equivalence
  \/ NoEquivalence
  \/ FoldThrows
  \/ OnlyOperand
  \/ PremiseComputed
  \/ ConclusionNotGenerated
  \/ SubtractExisting
  \/ Evaluated

Spec == Init /\ [][Next]_vars

-----------------------------------------------------------------------------
(* Properties.                                                             *)

PremiseDone == pc \in {"conclusion", "generate", "done"}

(* The operands, of the first n, that restrict the replacements: those     *)
(* that found something and those that are searched for.                   *)
FoundOperands(n) ==
  {o \in {operands[i] : i \in {i \in DOMAIN operands : i <= n}} :
     o.kind = "find" \/ (o.kind = "compute" /\ DOMAIN o.replacements # {})}

KeysOf(n) == UNION {DOMAIN o.replacements : o \in FoundOperands(n)}

ValuesOf(n) ==
  UNION {UNION {Range(o.replacements[key]) : key \in DOMAIN o.replacements} : o \in FoundOperands(n)}

(* The column c satisfies an operand: its part for the variables of the    *)
(* operand is one of the columns the operand found.                        *)
Satisfies(c, o) ==
  Restrict(c, DOMAIN o.replacements) \in Columns(o.replacements)

(* The replacements that satisfy the first n operands.                     *)
Join(n) ==
  {c \in [KeysOf(n) -> ValuesOf(n)] : \A o \in FoundOperands(n) : Satisfies(c, o)}

JoinOfAll == Join(Len(operands))

(* The instances of o that agree with c, which edges do not count for.     *)
MatchesOf(c, o) ==
  LET instances == Instances(o.replacements)
  IN  {i \in DOMAIN instances : Compatible(WithoutEdges(c), instances[i])}

(* A search for several params is exact when each of them has one instance *)
(* (and the edges of some agree) or none has any.  (It gives a params that *)
(* has none the instance of another one, see TemplateSearcher.)  There are *)
(* no params if edges are all that was found.                              *)
SearchIsExact(n) ==
  LET amounts == {Cardinality(MatchesOf(c, operands[n])) : c \in Join(n - 1)}
  IN  /\ amounts \subseteq {0} \/ (amounts \subseteq {1} /\ Join(n) # {})
      /\ KeysOf(n - 1) # {} => ~(KeysOf(n - 1) \subseteq EdgeVariables)

(* The operands found matrices, the computed ones have a replacement in    *)
(* common, and the searches for the others are exact.                      *)
IsPlain ==
  LET kinds(kind) == {n \in DOMAIN operands : operands[n].kind = kind}
  IN  /\ \A o \in Range(operands) : IsMatrix(o.replacements)
      /\ \A n \in kinds("compute") : Join(n) # {}
      /\ \A n \in kinds("find") : SearchIsExact(n)

(* The variables of an operand strictly contain those of the operands      *)
(* before it, or are strictly contained in them.                           *)
Nested ==
  \E n \in 2 .. Len(operands) :
    LET keys == DOMAIN operands[n].replacements
    IN  /\ keys # {} /\ KeysOf(n - 1) # {} /\ keys # KeysOf(n - 1)
        /\ keys \subseteq KeysOf(n - 1) \/ KeysOf(n - 1) \subseteq keys

(* A negation of a formula that was found: false, with its columns.        *)
FalseWithColumns ==
  \E o \in Range(operands) :
    o.kind = "compute" /\ ~o.value /\ DOMAIN o.replacements # {}

(* A conjunction that generates nothing is true just when all its computed *)
(* operands are and the join of all of them is not empty, and has exactly  *)
(* the replacements of the join.  The exception: it is false when the      *)
(* first two are true without replacements, negations of what is not       *)
(* found; after an operand with replacements such negations do no harm.    *)
ConjunctionIsJoin ==
  /\ connective = "CONJUNCTION" /\ PremiseDone /\ IsPlain
  /\ \A o \in Range(operands) : o.kind # "generate"
  /\ FoundOperands(ComputedAmount) # {}
  => /\ result.value <=> /\ \A n \in 1 .. ComputedAmount : operands[n].value
                         /\ JoinOfAll # {}
                         /\ KeysOf(2) # {}
     /\ result.value => /\ IsMatrix(result.replacements)
                        /\ Columns(result.replacements) = JoinOfAll

(* The sets of variables whose columns are told apart by their hash and    *)
(* the value of their first variable, as uniteReplacements does.  (TLC     *)
(* evaluates a set of this form once.)                                     *)
ToldApart ==
  {keys \in {Variables \ others : others \in SUBSET Variables} :
     \A walk \in WalkSet : \A c, d \in [keys -> Values] :
       LET row(e) == [key \in keys |-> <<e[key]>>]
           first == KeySeq(walk, keys)[1]
       IN  /\ keys # {} => c[first] = d[first]
           /\ Hash(row(c), keys, 1, walk) = Hash(row(d), keys, 1, walk)
           => c = d}

(* The variables that an operand of a disjunction has in common with those *)
(* before it.                                                              *)
AreToldApart ==
  \A n \in 2 .. ComputedAmount :
    KeysOf(n - 1) \cap DOMAIN operands[n].replacements \in ToldApart

(* A disjunction of computed operands is their union: every column         *)
(* satisfies one of the operands (no value of one is mixed with those of   *)
(* another), all rows have the same length, and every column an operand    *)
(* found is part of a column, unless the hashes confuse two of them (which *)
(* they do not if the values are of one storage segment and the operands   *)
(* have at most two variables in common).                                  *)
DisjunctionIsUnion ==
  /\ connective = "DISJUNCTION" /\ ~Nested
  /\ next <= ComputedAmount + 1
  /\ \A n \in 1 .. ComputedAmount : IsMatrix(operands[n].replacements)
  => /\ IsMatrix(result.replacements)
     /\ \A c \in Columns(result.replacements) :
          \E o \in FoundOperands(next - 1) : Satisfies(c, o)
     /\ AreToldApart =>
          \A o \in FoundOperands(next - 1) : \A c \in Columns(o.replacements) :
            \E d \in Columns(result.replacements) : Restrict(d, DOMAIN c) = c

(* An equivalence is true just when both operands are or neither is, an    *)
(* operand without constants being true when it has an instance for what   *)
(* the other one found; a true one has the columns that satisfy what the   *)
(* operands found, also if they are negations and both false.              *)
EquivalenceIsAgreement ==
  /\ connective \in Equivalences /\ PremiseDone /\ IsPlain
  /\ operands[2].kind # "generate"
  => LET holds == IF operands[2].kind = "compute" THEN operands[2].value
                  ELSE \E c \in Join(1) : c # <<>> /\ MatchesOf(c, operands[2]) # {}
         n == IF operands[2].kind = "find" /\ ~holds THEN 1 ELSE 2
         columns == IF result.value /\ KeysOf(n) # {} THEN Join(n) ELSE {}
     IN  /\ result.value <=> (operands[1].value <=> holds)
         /\ Columns(result.replacements) = columns

(* The conclusion is generated for the replacements of a premise that is   *)
(* not true only if the premise is a negation, or a disjunction with one:  *)
(* a conjunction that fails, at any operand, leaves none of the columns it *)
(* had found until then.                                                   *)
FalsePremiseIsInert ==
  PremiseDone /\ ~result.value =>
    \/ connective = "NEGATION"
    \/ connective = "DISJUNCTION" /\ FalseWithColumns
    \/ Columns(result.replacements) = {} /\ pc # "generate"

(* What a conjunction generates while it is computed, it generates for     *)
(* replacements that satisfy all the other operands, also those that come  *)
(* after the generated atom in the knowledge base.                         *)
GeneratedForJoin ==
  connective = "CONJUNCTION" /\ generated # {} /\ IsPlain =>
    /\ \A n \in 1 .. ComputedAmount : operands[n].value
    /\ \A c \in generated : \E d \in JoinOfAll : Compatible(WithoutEdges(c), d)

(* A formula with an ill-formed part, at any depth and also in its         *)
(* conclusion, is rejected before any part of it is computed or generated. *)
IllFormedIsInert ==
  (\E f \in Subformulas(input.formula) : ~IsWellFormed(f)) =>
    pc \in {"build", "thrown"} /\ generated = {} /\ result = NotFound

(* What is left for generation is every replacement of the premise that    *)
(* agrees with nothing the conclusion already has, and nothing else.       *)
NotInKbIsExact ==
  pc = "generate" /\ IsMatrix(result.replacements) =>
    LET common == DOMAIN result.replacements \cap DOMAIN existing
        known == {Restrict(c, common) : c \in Columns(existing)}
    IN  Columns(notInKb) =
          IF common = {} THEN Columns(result.replacements)
          ELSE {c \in Columns(result.replacements) : Restrict(c, common) \notin known}

(* scl-machine.tex:210: the replacements of a formula make it true.  (The  *)
(* conjunction tests the map of the intersection for keys; a map with keys *)
(* and no columns is then intersected as if it were no restriction.)       *)
ConjunctionHolds ==
  connective = "CONJUNCTION" /\ result.value =>
    \A c \in Columns(result.replacements) :
      \A o \in FoundOperands(IF next - 1 < ComputedAmount THEN next - 1 ELSE ComputedAmount) :
        Satisfies(c, o)

(* ReplacementsUtils.cpp:271: all vectors of the replacements have the     *)
(* same size.                                                              *)
ReplacementsAreMatrix == IsMatrix(result.replacements)
=============================================================================
