------------------- MODULE ImplicationExpressionNode_proofs -------------------
(***************************************************************************)
(* Proofs about the evaluation of an implication.                          *)
(***************************************************************************)
EXTENDS ImplicationExpressionNode, ReplacementsUtils_proofs

-----------------------------------------------------------------------------
(* The formulas at a depth.                                                *)

(* The formulas at each depth of f, to a depth.                            *)
AreLevels(level, f, depth) ==
  level = [d \in 0 .. depth |->
            IF d = 0 THEN {f} ELSE PartsOfAll(level[d - 1])]

LEMMA LevelsExist ==
  ASSUME NEW f, NEW depth \in Nat
  PROVE  \E level : AreLevels(level, f, depth)
<1>. DEFINE S == {n \in Nat : \E level : AreLevels(level, f, n)}
<1>1. 0 \in S
  <2>. DEFINE level == [d \in 0 .. 0 |-> {f}]
  <2>1. level = [d \in 0 .. 0 |-> IF d = 0 THEN {f} ELSE PartsOfAll(level[d - 1])]
    <3>1. \A d \in 0 .. 0 : level[d] = IF d = 0 THEN {f} ELSE PartsOfAll(level[d - 1])
      OBVIOUS
    <3>. QED  BY <3>1
  <2>2. AreLevels(level, f, 0)
    BY <2>1 DEF AreLevels
  <2>. HIDE DEF level
  <2>. QED  BY <2>2
<1>2. ASSUME NEW n \in Nat, n \in S
      PROVE  n + 1 \in S
  <2>1. PICK level : AreLevels(level, f, n)
    BY <1>2
  <2>. DEFINE longer == [d \in 0 .. n + 1 |-> IF d <= n THEN level[d] ELSE PartsOfAll(level[n])]
  <2>2. \A d \in 0 .. n : level[d] = IF d = 0 THEN {f} ELSE PartsOfAll(level[d - 1])
    <3>1. level = [d \in 0 .. n |-> IF d = 0 THEN {f} ELSE PartsOfAll(level[d - 1])]
      BY <2>1 DEF AreLevels
    <3>. QED  BY <3>1
  <2>3. ASSUME NEW d \in 0 .. n + 1
        PROVE  longer[d] = IF d = 0 THEN {f} ELSE PartsOfAll(longer[d - 1])
    <3>1. CASE d <= n
      <4>1. d \in 0 .. n /\ longer[d] = level[d] /\ (d # 0 => longer[d - 1] = level[d - 1])
        BY <3>1
      <4>. HIDE DEF longer
      <4>. QED  BY <2>2, <4>1
    <3>2. CASE d = n + 1
      BY <3>2
    <3>. QED  BY <3>1, <3>2
  <2>4. longer = [d \in 0 .. n + 1 |-> IF d = 0 THEN {f} ELSE PartsOfAll(longer[d - 1])]
    <3>1. longer = [d \in 0 .. n + 1 |-> longer[d]]
      OBVIOUS
    <3>. HIDE DEF longer
    <3>. QED  BY <2>3, <3>1
  <2>5. AreLevels(longer, f, n + 1)
    <3>. HIDE DEF longer
    <3>. QED  BY <2>4 DEF AreLevels
  <2>. HIDE DEF longer
  <2>. QED  BY <2>5
<1>. HIDE DEF S
<1>3. Nat \subseteq S
  BY <1>1, <1>2, Induction
<1>. QED  BY <1>3 DEF S

(* Each level but the first has the parts of the one before it.            *)
Follow(level, depth) ==
  \A d \in Nat : d < depth => level[d + 1] = PartsOfAll(level[d])

LEMMA LevelsValues ==
  ASSUME NEW f, NEW depth \in Nat, NEW level, AreLevels(level, f, depth)
  PROVE  /\ level[0] = {f}
         /\ Follow(level, depth)
<1>1. level = [d \in 0 .. depth |-> IF d = 0 THEN {f} ELSE PartsOfAll(level[d - 1])]
  BY DEF AreLevels
<1>2. \A d \in 0 .. depth : level[d] = IF d = 0 THEN {f} ELSE PartsOfAll(level[d - 1])
  BY <1>1
<1>3. \A d \in Nat : d < depth => level[d + 1] = PartsOfAll(level[d])
  <2>1. ASSUME NEW d \in Nat, d < depth
        PROVE  level[d + 1] = PartsOfAll(level[d])
    <3>1. d + 1 \in 0 .. depth /\ d + 1 # 0 /\ (d + 1) - 1 = d
      BY <2>1
    <3>. QED  BY <1>2, <3>1
  <2>. QED  BY <2>1
<1>. QED  BY <1>2, <1>3 DEF Follow

(* The levels do not depend on how many there are.                         *)
LEMMA LevelsAgree ==
  ASSUME NEW f, NEW depth \in Nat, NEW level, AreLevels(level, f, depth),
         NEW other \in Nat, NEW level2, AreLevels(level2, f, other), depth <= other
  PROVE  level[depth] = level2[depth]
<1>. DEFINE S == {n \in Nat : n <= depth => level[n] = level2[n]}
<1>1. level[0] = {f} /\ level2[0] = {f}
  BY LevelsValues
<1>2. Follow(level, depth)
  BY LevelsValues
<1>3. Follow(level2, other)
  BY LevelsValues
<1>4. ASSUME NEW n \in Nat, n \in S
      PROVE  n + 1 \in S
  <2>1. ASSUME n + 1 <= depth
        PROVE  level[n + 1] = level2[n + 1]
    <3>1. n < depth /\ n < other /\ level[n] = level2[n]
      BY <1>4, <2>1
    <3>. QED  BY <1>2, <1>3, <3>1 DEF Follow
  <2>. QED  BY <2>1
<1>5. 0 \in S
  BY <1>1
<1>. HIDE DEF S
<1>6. Nat \subseteq S
  BY <1>4, <1>5, Induction
<1>. QED  BY <1>6 DEF S

(* What is one deeper are the parts of what is at a depth.                 *)
LEMMA AtDepthValues ==
  ASSUME NEW f
  PROVE  /\ AtDepth(f, 0) = {f}
         /\ \A d \in Nat : AtDepth(f, d + 1) = PartsOfAll(AtDepth(f, d))
<1>. DEFINE levels(d) == CHOOSE level : AreLevels(level, f, d)
<1>1. ASSUME NEW d \in Nat
      PROVE  AreLevels(levels(d), f, d) /\ AtDepth(f, d) = levels(d)[d]
  <2>1. AreLevels(levels(d), f, d)
    BY LevelsExist
  <2>2. AtDepth(f, d) = levels(d)[d]
    BY DEF AtDepth, AreLevels
  <2>. QED  BY <2>1, <2>2
<1>. HIDE DEF levels
<1>2. AtDepth(f, 0) = {f}
  BY <1>1, LevelsValues
<1>3. ASSUME NEW d \in Nat
      PROVE  AtDepth(f, d + 1) = PartsOfAll(AtDepth(f, d))
  <2>1. d + 1 \in Nat /\ d < d + 1 /\ d <= d + 1
    OBVIOUS
  <2>2. /\ AreLevels(levels(d), f, d) /\ AtDepth(f, d) = levels(d)[d]
        /\ AreLevels(levels(d + 1), f, d + 1) /\ AtDepth(f, d + 1) = levels(d + 1)[d + 1]
    BY <1>1, <2>1
  <2>3. levels(d)[d] = levels(d + 1)[d]
    BY <2>1, <2>2, LevelsAgree
  <2>4. levels(d + 1)[d + 1] = PartsOfAll(levels(d + 1)[d])
    <3>1. Follow(levels(d + 1), d + 1)
      BY <2>1, <2>2, LevelsValues
    <3>. QED  BY <2>1, <3>1 DEF Follow
  <2>. QED  BY <2>2, <2>3, <2>4
<1>. QED  BY <1>2, <1>3

(* What is one deeper in f is as deep in some part of f.                   *)
LEMMA AtDepthOfParts ==
  ASSUME NEW f, NEW depth \in Nat
  PROVE  \A g \in AtDepth(f, depth + 1) : \E h \in Range(PartsOf(f)) : g \in AtDepth(h, depth)
<1>. DEFINE S == {n \in Nat : \A g \in AtDepth(f, n + 1) :
                                \E h \in Range(PartsOf(f)) : g \in AtDepth(h, n)}
<1>1. 0 \in S
  <2>1. AtDepth(f, 0 + 1) = Range(PartsOf(f))
    <3>1. AtDepth(f, 0 + 1) = PartsOfAll({f})
      BY AtDepthValues
    <3>. QED  BY <3>1 DEF PartsOfAll
  <2>2. \A h : h \in AtDepth(h, 0)
    BY AtDepthValues
  <2>. QED  BY <2>1, <2>2
<1>2. ASSUME NEW n \in Nat, n \in S
      PROVE  n + 1 \in S
  <2>1. ASSUME NEW g \in AtDepth(f, (n + 1) + 1)
        PROVE  \E h \in Range(PartsOf(f)) : g \in AtDepth(h, n + 1)
    <3>1. PICK p \in AtDepth(f, n + 1) : g \in Range(PartsOf(p))
      <4>1. n + 1 \in Nat
        OBVIOUS
      <4>2. AtDepth(f, (n + 1) + 1) = PartsOfAll(AtDepth(f, n + 1))
        BY <4>1, AtDepthValues
      <4>. QED  BY <4>2 DEF PartsOfAll
    <3>2. PICK h \in Range(PartsOf(f)) : p \in AtDepth(h, n)
      BY <1>2
    <3>3. AtDepth(h, n + 1) = PartsOfAll(AtDepth(h, n))
      BY AtDepthValues
    <3>4. g \in AtDepth(h, n + 1)
      BY <3>1, <3>2, <3>3 DEF PartsOfAll
    <3>. QED  BY <3>4
  <2>2. n + 1 \in Nat
    OBVIOUS
  <2>. QED  BY <2>1, <2>2
<1>. HIDE DEF S
<1>3. Nat \subseteq S
  BY <1>1, <1>2, Induction
<1>. QED  BY <1>3 DEF S

-----------------------------------------------------------------------------
(* The construction of the tree.                                           *)

LEMMA SubformulasOfParts ==
  ASSUME NEW f, NEW g \in Subformulas(f)
  PROVE  g = f \/ \E h \in Range(PartsOf(f)) : g \in Subformulas(h)
<1>1. PICK depth \in 0 .. MaxDepth : g \in AtDepth(f, depth)
  BY DEF Subformulas
<1>2. CASE depth = 0
  BY <1>1, <1>2, AtDepthValues
<1>3. CASE depth # 0
  <2>1. PICK d \in Nat : depth = d + 1 /\ d \in 0 .. MaxDepth
    <3>1. depth - 1 \in Nat /\ depth = (depth - 1) + 1 /\ depth - 1 \in 0 .. MaxDepth
      BY <1>3, MaxDepthAssumption
    <3>. QED  BY <3>1
  <2>2. PICK h \in Range(PartsOf(f)) : g \in AtDepth(h, d)
    BY <1>1, <2>1, AtDepthOfParts
  <2>3. g \in Subformulas(h)
    BY <2>1, <2>2 DEF Subformulas
  <2>. QED  BY <2>3
<1>. QED  BY <1>2, <1>3

LEMMA SubformulasSelf ==
  ASSUME NEW f
  PROVE  f \in Subformulas(f)
<1>1. f \in AtDepth(f, 0) /\ 0 \in 0 .. MaxDepth
  BY AtDepthValues, MaxDepthAssumption
<1>. QED  BY <1>1 DEF Subformulas

(* The parts of what is in an input are in the input.                      *)
LEMMA SubformulasOfInput ==
  ASSUME NEW i \in Inputs, NEW f \in Subformulas(i.formula)
  PROVE  /\ IsFormula(f)
         /\ PartsOf(f) \in Seq(Subformulas(i.formula))
<1>1. IsFormula(f) /\ AtDepth(i.formula, MaxDepth + 1) = {}
  BY InputsAssumption
<1>2. PICK d \in 0 .. MaxDepth : f \in AtDepth(i.formula, d)
  BY DEF Subformulas
<1>3. AtDepth(i.formula, d + 1) = PartsOfAll(AtDepth(i.formula, d))
  <2>1. d \in Nat
    OBVIOUS
  <2>2. \A g : AtDepth(g, d + 1) = PartsOfAll(AtDepth(g, d))
    BY <2>1, AtDepthValues
  <2>. QED  BY <2>2
<1>4. PartsOfAll({f}) \subseteq AtDepth(i.formula, d + 1)
  BY <1>2, <1>3 DEF PartsOfAll
<1>5. AtDepth(i.formula, d + 1) \subseteq Subformulas(i.formula)
  <2>1. CASE d = MaxDepth
    BY <1>1, <2>1
  <2>2. CASE d # MaxDepth
    <3>1. d + 1 \in 0 .. MaxDepth
      BY <2>2, MaxDepthAssumption
    <3>. QED  BY <3>1 DEF Subformulas
  <2>. QED  BY <2>1, <2>2
<1>6. PartsOf(f) \in Seq(PartsOfAll({f}))
  BY <1>1 DEF IsFormula
<1>7. PartsOf(f) \in Seq(Subformulas(i.formula))
  <2>. DEFINE P == PartsOfAll({f})
              S == Subformulas(i.formula)
  <2>1. P \subseteq S /\ PartsOf(f) \in Seq(P)
    BY <1>4, <1>5, <1>6
  <2>. HIDE DEF P, S
  <2>2. PartsOf(f) \in [1 .. Len(PartsOf(f)) -> S] /\ Len(PartsOf(f)) \in Nat
    BY <2>1, LenProperties
  <2>3. PartsOf(f) \in Seq(S)
    BY <2>2, IsASeq
  <2>. QED  BY <2>3 DEF S
<1>. QED  BY <1>1, <1>7

(* What waits after a call of build.                                       *)
LEMMA RangeOfCalls ==
  ASSUME NEW S, NEW s \in Seq(S), s # <<>>, NEW t \in Seq(S)
  PROVE  /\ t \o Tail(s) \in Seq(S)
         /\ Head(s) \in S
         /\ Range(s) \subseteq {Head(s)} \cup Range(t \o Tail(s))
         /\ Range(t) \subseteq Range(t \o Tail(s))
<1>1. /\ Len(s) \in Nat \ {0} /\ DOMAIN s = 1 .. Len(s) /\ Head(s) = s[1]
      /\ Tail(s) \in Seq(S) /\ Len(Tail(s)) = Len(s) - 1
      /\ \A n \in 1 .. Len(s) - 1 : Tail(s)[n] = s[n + 1]
  <2>1. Len(s) \in Nat \ {0} /\ DOMAIN s = 1 .. Len(s)
    BY EmptySeq, LenProperties
  <2>2. /\ Tail(s) \in Seq(S) /\ Len(Tail(s)) = Len(s) - 1
        /\ \A n \in 1 .. Len(s) - 1 : Tail(s)[n] = s[n + 1]
    BY HeadTailProperties
  <2>3. Head(s) = s[1]
    OBVIOUS
  <2>. QED  BY <2>1, <2>2, <2>3
<1>2. /\ Len(t) \in Nat /\ DOMAIN t = 1 .. Len(t)
      /\ t \o Tail(s) \in Seq(S) /\ Len(t \o Tail(s)) = Len(t) + Len(Tail(s))
      /\ DOMAIN (t \o Tail(s)) = 1 .. Len(t) + Len(Tail(s))
  BY <1>1, LenProperties, ConcatProperties
<1>3. \A n \in 1 .. Len(t) : (t \o Tail(s))[n] = t[n]
  BY <1>1, <1>2, ConcatProperties
<1>4. \A n \in 1 .. Len(s) - 1 : (t \o Tail(s))[Len(t) + n] = s[n + 1]
  BY <1>1, <1>2, ConcatProperties
<1>5. ASSUME NEW n \in 1 .. Len(s), n # 1
      PROVE  s[n] \in Range(t \o Tail(s))
  <2>1. n - 1 \in 1 .. Len(s) - 1 /\ (n - 1) + 1 = n
    BY <1>1, <1>5
  <2>2. Len(t) + (n - 1) \in DOMAIN (t \o Tail(s)) /\ (t \o Tail(s))[Len(t) + (n - 1)] = s[n]
    BY <1>1, <1>2, <1>4, <2>1
  <2>. QED  BY <2>2 DEF Range
<1>6. Range(s) \subseteq {Head(s)} \cup Range(t \o Tail(s))
  BY <1>1, <1>5 DEF Range
<1>7. Range(t) \subseteq Range(t \o Tail(s))
  <2>1. \A n \in DOMAIN t : n \in DOMAIN (t \o Tail(s)) /\ (t \o Tail(s))[n] = t[n]
    BY <1>1, <1>2, <1>3
  <2>. QED  BY <2>1 DEF Range
<1>8. Head(s) \in S
  BY <1>1, ElementOfSeq
<1>. QED  BY <1>2, <1>6, <1>7, <1>8

(* Until the tree is built, every part of the formula that may be          *)
(* ill-formed is a part of one that build is still to be called for.       *)
BuildInv ==
  pc = "build" =>
    /\ toBuild \in Seq(Subformulas(input.formula))
    /\ \A f \in Subformulas(input.formula) :
         IsWellFormed(f) \/ \E g \in Range(toBuild) : f \in Subformulas(g)
    /\ generated = {}
    /\ result = NotFound

TreeInv == input \in Inputs /\ BuildInv /\ IllFormedIsInert

LEMMA TreeInvInit ==
  Init => TreeInv
<1>. SUFFICES ASSUME Init PROVE TreeInv
  OBVIOUS
<1>1. /\ pc = "build" /\ input \in Inputs /\ toBuild = <<input.formula>>
      /\ generated = {} /\ result = NotFound
  BY DEF Init
<1>2. input.formula \in Subformulas(input.formula)
  BY SubformulasSelf
<1>3. toBuild \in Seq(Subformulas(input.formula))
  <2>. DEFINE S == Subformulas(input.formula)
              e == input.formula
  <2>1. e \in S /\ toBuild = <<e>>
    BY <1>1, <1>2
  <2>. HIDE DEF S, e
  <2>2. toBuild \in Seq(S)
    BY <2>1
  <2>. QED  BY <2>2 DEF S
<1>4. input.formula \in Range(toBuild)
  BY <1>1 DEF Range
<1>. QED  BY <1>1, <1>3, <1>4 DEF TreeInv, BuildInv, IllFormedIsInert

LEMMA TreeInvNext ==
  TreeInv /\ [Next]_vars => TreeInv'
<1>. SUFFICES ASSUME TreeInv, [Next]_vars PROVE TreeInv'
  OBVIOUS
<1>1. CASE UNCHANGED vars
  BY <1>1 DEF vars, TreeInv, BuildInv, IllFormedIsInert
<1>2. CASE Build
  <2>. DEFINE S == Subformulas(input.formula)
              f == Head(toBuild)
              s == toBuild'
  <2>1. /\ pc = "build" /\ pc' = "build" /\ toBuild # <<>> /\ IsWellFormed(f)
        /\ s = PartsOf(f) \o Tail(toBuild)
        /\ input' = input /\ generated' = generated /\ result' = result
    BY <1>2 DEF Build
  <2>2. /\ input \in Inputs /\ toBuild \in Seq(S)
        /\ \A g \in S : IsWellFormed(g) \/ \E h \in Range(toBuild) : g \in Subformulas(h)
        /\ generated = {} /\ result = NotFound
    BY <2>1 DEF TreeInv, BuildInv
  <2>3. f \in S
    <3>. HIDE DEF S
    <3>. QED  BY <2>1, <2>2, RangeOfCalls
  <2>4. PartsOf(f) \in Seq(S)
    BY <2>2, <2>3, SubformulasOfInput
  <2>. HIDE DEF S, f, s
  <2>5. /\ s \in Seq(S) /\ Range(toBuild) \subseteq {f} \cup Range(s)
        /\ Range(PartsOf(f)) \subseteq Range(s)
    BY <2>1, <2>2, <2>4, RangeOfCalls DEF f
  <2>6. ASSUME NEW g \in S, ~IsWellFormed(g)
        PROVE  \E h \in Range(s) : g \in Subformulas(h)
    <3>1. PICK h \in Range(toBuild) : g \in Subformulas(h)
      BY <2>2, <2>6
    <3>2. CASE h = f
      <4>1. g # f
        BY <2>1, <2>6
      <4>2. PICK p \in Range(PartsOf(f)) : g \in Subformulas(p)
        BY <3>1, <3>2, <4>1, SubformulasOfParts
      <4>. QED  BY <2>5, <4>2
    <3>3. CASE h # f
      BY <2>5, <3>1, <3>3
    <3>. QED  BY <3>2, <3>3
  <2>. QED  BY <2>1, <2>2, <2>5, <2>6 DEF S, s, TreeInv, BuildInv, IllFormedIsInert
<1>3. CASE BuildThrows
  <2>1. /\ pc = "build" /\ pc' = "thrown"
        /\ input' = input /\ generated' = generated /\ result' = result
    BY <1>3 DEF BuildThrows
  <2>. QED  BY <2>1 DEF TreeInv, BuildInv, IllFormedIsInert
<1>4. CASE ComputeTree
  <2>1. /\ pc = "build" /\ toBuild = <<>> /\ pc' = "premise" /\ input' = input
    BY <1>4 DEF ComputeTree
  <2>2. Range(toBuild) = {}
    BY <2>1 DEF Range
  <2>3. \A f \in Subformulas(input.formula) : IsWellFormed(f)
    BY <2>1, <2>2 DEF TreeInv, BuildInv
  <2>. QED  BY <2>1, <2>3 DEF TreeInv, BuildInv, IllFormedIsInert
<1>5. ASSUME pc \in {"premise", "fold", "conclusion"}, input' = input,
             pc' # "build"
      PROVE  TreeInv'
  <2>1. \A f \in Subformulas(input.formula) : IsWellFormed(f)
    BY <1>5 DEF TreeInv, IllFormedIsInert
  <2>. QED  BY <1>5, <2>1 DEF TreeInv, BuildInv, IllFormedIsInert
<1>6. CASE \/ EvaluateOperand \/ EvaluateThrows \/ OperandIsFalse \/ FirstOperand
           \/ NextOperand \/ Disjunct \/ DisjunctionFails \/ Equivalence \/ NoEquivalence
           \/ FoldThrows \/ OnlyOperand \/ PremiseComputed \/ ConclusionNotGenerated
           \/ SubtractExisting
  <2>1. pc \in {"premise", "fold", "conclusion"} /\ input' = input /\ pc' # "build"
    BY <1>6 DEF EvaluateOperand, EvaluateThrows, OperandIsFalse, FirstOperand, NextOperand,
                Disjunct, DisjunctionFails, Equivalence, NoEquivalence, FoldThrows, OnlyOperand,
                PremiseComputed, ConclusionNotGenerated, SubtractExisting, AtOperand, Folding,
                ConjunctionFails, Folded, afterPremise
  <2>. QED  BY <1>5, <2>1
<1>7. CASE Evaluated
  BY <1>1, <1>7 DEF Evaluated
<1>. QED  BY <1>1, <1>2, <1>3, <1>4, <1>6, <1>7 DEF Next

(* A formula with an ill-formed part, however deep and also in its         *)
(* conclusion, is rejected by LogicExpression::build before anything of it *)
(* is computed or generated.                                               *)
THEOREM IllFormedIsInertHolds == Spec => []IllFormedIsInert
<1>1. TreeInv => IllFormedIsInert
  BY DEF TreeInv
<1>. QED  BY <1>1, TreeInvInit, TreeInvNext, PTL DEF Spec

-----------------------------------------------------------------------------
(* The operands of the premise.                                            *)

Kinds == {"compute", "find", "generate"}

(* No row of what is computed is empty; of what is searched there is a     *)
(* matrix.                                                                 *)
IsOperand(o) ==
  /\ o.kind \in Kinds
  /\ o.value \in BOOLEAN
  /\ IsReplacements(o.replacements)
  /\ o.kind = "compute" => \A key \in DOMAIN o.replacements : o.replacements[key] # <<>>
  /\ o.kind # "compute" => ~o.value /\ IsMatrix(o.replacements)

LEMMA ResultType ==
  ASSUME NEW f, IsFormula(f)
  PROVE  /\ Result(f).value \in BOOLEAN
         /\ IsReplacements(Result(f).replacements)
         /\ \A key \in DOMAIN Result(f).replacements : Result(f).replacements[key] # <<>>
         /\ TypeOfFormula(f) = "ATOMIC" =>
              (Result(f).value <=> DOMAIN Result(f).replacements # {})
         /\ Result(f) = [value |-> Result(f).value, replacements |-> Result(f).replacements]
<1>. DEFINE copy == CopyReplacements(f.found)
<1>1. /\ Result(f).replacements = copy
      /\ Result(f).value = IF TypeOfFormula(f) = "ATOMIC" THEN DOMAIN copy # {} ELSE f.value
      /\ Result(f) = [value |-> Result(f).value, replacements |-> Result(f).replacements]
  BY DEF Result
<1>2. /\ IsReplacements(f.found)
      /\ TypeOfFormula(f) # "ATOMIC" => f.value \in BOOLEAN
  BY DEF IsFormula
<1>3. /\ IsReplacements(copy)
      /\ \A key \in DOMAIN copy : copy[key] # <<>>
  <2>1. /\ IsReplacements(copy)
        /\ \A key \in DOMAIN copy : copy[key] = f.found[key] /\ f.found[key] # <<>>
    BY <1>2, CopyKeeps
  <2>. QED  BY <2>1
<1>. HIDE DEF copy
<1>. QED  BY <1>1, <1>2, <1>3

LEMMA OperandType ==
  ASSUME NEW i \in Inputs, \A g \in Subformulas(i.formula) : IsWellFormed(g),
         NEW f \in Subformulas(i.formula),
         NEW kind \in Kinds, kind # "compute" => TypeOfFormula(f) = "ATOMIC"
  PROVE  /\ IsOperand(Operand(f, kind))
         /\ Operand(f, kind).kind = kind
         /\ kind = "compute" /\ TypeOfFormula(f) = "ATOMIC" =>
              (Operand(f, kind).value <=> DOMAIN Operand(f, kind).replacements # {})
<1>. DEFINE o == Operand(f, kind)
<1>1. /\ o.kind = kind
      /\ o.value = (kind = "compute" /\ Computed(f).value)
      /\ o.replacements = IF kind = "compute" THEN Computed(f).replacements ELSE f.found
  BY DEF Operand
<1>2. IsFormula(f)
  BY SubformulasOfInput
<1>3. CASE kind = "compute"
  <2>1. /\ Computed(f).value \in BOOLEAN
        /\ IsReplacements(Computed(f).replacements)
        /\ \A key \in DOMAIN Computed(f).replacements : Computed(f).replacements[key] # <<>>
        /\ TypeOfFormula(f) = "ATOMIC" =>
              (Computed(f).value <=> DOMAIN Computed(f).replacements # {})
    <3>1. CASE TypeOfFormula(f) = "NEGATION"
      <4>. DEFINE g == OperandsOf(f)[1]
      <4>1. g \in Subformulas(i.formula)
        <5>1. AmountFits(f)
          BY <3>1 DEF IsWellFormed
        <5>2. Len(OperandsOf(f)) = 1 /\ PartsOf(f) = OperandsOf(f)
          BY <3>1, <5>1 DEF AmountFits, PartsOf
        <5>3. OperandsOf(f) \in Seq(Subformulas(i.formula))
          BY <5>2, SubformulasOfInput
        <5>. QED  BY <5>2, <5>3, ElementOfSeq
      <4>2. IsFormula(g)
        BY <4>1, SubformulasOfInput
      <4>3. /\ Result(g).value \in BOOLEAN
            /\ IsReplacements(Result(g).replacements)
            /\ \A key \in DOMAIN Result(g).replacements : Result(g).replacements[key] # <<>>
            /\ Result(g) = [value |-> Result(g).value, replacements |-> Result(g).replacements]
        BY <4>2, ResultType
      <4>4. Computed(f) = [value |-> ~Result(g).value, replacements |-> Result(g).replacements]
        <5>1. Computed(f) = [Result(g) EXCEPT !.value = ~@]
          BY <3>1 DEF Computed
        <5>. HIDE DEF g
        <5>. QED  BY <4>3, <5>1
      <4>. HIDE DEF g
      <4>. QED  BY <3>1, <4>3, <4>4
    <3>2. CASE TypeOfFormula(f) # "NEGATION"
      <4>1. Computed(f) = Result(f)
        BY <3>2 DEF Computed
      <4>. QED  BY <1>2, <4>1, ResultType
    <3>. QED  BY <3>1, <3>2
  <2>. HIDE DEF o
  <2>. QED  BY <1>1, <1>3, <2>1 DEF IsOperand, o
<1>4. CASE kind # "compute"
  <2>1. IsReplacements(f.found) /\ IsMatrix(f.found)
    BY <1>2, <1>4 DEF IsFormula
  <2>2. o.value = FALSE /\ o.replacements = f.found
    BY <1>1, <1>4
  <2>. QED  BY <1>1, <1>4, <2>1, <2>2 DEF IsOperand
<1>. QED  BY <1>3, <1>4

(* A set of numbers with all smaller ones.                                 *)
LEMMA DownClosed ==
  ASSUME NEW N \in Nat, NEW S \in SUBSET (1 .. N), \A n \in S : \A m \in 1 .. n : m \in S
  PROVE  Cardinality(S) \in 0 .. N /\ S = 1 .. Cardinality(S)
<1>. DEFINE T == {m \in Nat : m + 1 \notin S}
<1>1. N \in T
  OBVIOUS
<1>2. PICK m \in T : \A n \in T : m <= n
  <2>1. T \subseteq Nat /\ T # {}
    BY <1>1
  <2>. HIDE DEF T
  <2>. QED  BY <2>1, Least
<1>3. m \in Nat /\ m + 1 \notin S /\ m <= N
  BY <1>1, <1>2
<1>4. S = 1 .. m
  <2>1. ASSUME NEW j \in 1 .. m
        PROVE  j \in S
    <3>1. j - 1 \notin T
      <4>. HIDE DEF T
      <4>. QED  BY <1>2, <1>3, <2>1
    <3>2. j - 1 \in Nat /\ (j - 1) + 1 = j
      BY <1>3
    <3>. QED  BY <3>1, <3>2
  <2>2. ASSUME NEW j \in S
        PROVE  j \in 1 .. m
    <3>1. ~(m + 1 \in 1 .. j)
      BY <1>3
    <3>. QED  BY <1>3, <3>1
  <2>. QED  BY <2>1, <2>2
<1>5. Cardinality(1 .. m) = m
  BY <1>3, FS_Interval
<1>. QED  BY <1>3, <1>4, <1>5

(* The order of the kinds.                                                 *)
Earlier(kind, other) ==
  \/ kind = "compute" /\ other # "compute"
  \/ kind = "find" /\ other = "generate"

(* Operands, those that are computed first, then those that are found.     *)
AreOperands(ops) ==
  /\ Len(ops) \in Nat /\ DOMAIN ops = 1 .. Len(ops)
  /\ \A n \in 1 .. Len(ops) : IsOperand(ops[n])
  /\ \A m, n \in 1 .. Len(ops) : m < n => ~Earlier(ops[n].kind, ops[m].kind)

LEMMA KindOrder ==
  ASSUME NEW kind \in Kinds, NEW other \in Kinds
  PROVE  LET kinds == <<"compute", "find", "generate">>
         IN  (\E k, l \in DOMAIN kinds : k < l /\ kinds[k] = kind /\ kinds[l] = other)
               <=> Earlier(kind, other)
<1>. DEFINE kinds == <<"compute", "find", "generate">>
<1>1. /\ DOMAIN kinds = 1 .. 3
      /\ kinds[1] = "compute" /\ kinds[2] = "find" /\ kinds[3] = "generate"
  OBVIOUS
<1>. HIDE DEF kinds
<1>2. ASSUME NEW k \in DOMAIN kinds, NEW l \in DOMAIN kinds, k < l,
             kinds[k] = kind, kinds[l] = other
      PROVE  Earlier(kind, other)
  <2>1. (k = 1 /\ l \in {2, 3}) \/ (k = 2 /\ l = 3)
    BY <1>1, <1>2
  <2>. QED  BY <1>1, <1>2, <2>1 DEF Earlier
<1>3. ASSUME Earlier(kind, other)
      PROVE  \E k, l \in DOMAIN kinds : k < l /\ kinds[k] = kind /\ kinds[l] = other
  <2>1. \E p \in {<<1, 2>>, <<1, 3>>, <<2, 3>>} : kinds[p[1]] = kind /\ kinds[p[2]] = other
    BY <1>1, <1>3 DEF Earlier, Kinds
  <2>2. \A p \in {<<1, 2>>, <<1, 3>>, <<2, 3>>} : p[1] \in DOMAIN kinds /\ p[2] \in DOMAIN kinds /\ p[1] < p[2]
    BY <1>1
  <2>. QED  BY <2>1, <2>2
<1>. QED  BY <1>2, <1>3 DEF kinds

LEMMA EvaluationOrderType ==
  ASSUME NEW i \in Inputs, \A g \in Subformulas(i.formula) : IsWellFormed(g),
         NEW f \in Subformulas(i.formula), TypeOfFormula(f) # "ATOMIC"
  PROVE  /\ AreOperands(EvaluationOrder(f))
         /\ Len(EvaluationOrder(f)) = Len(OperandsOf(f))
         /\ Len(OperandsOf(f)) \in Nat
<1>. DEFINE S == Subformulas(i.formula)
            parts == OperandsOf(f)
            L == Len(parts)
            kinds == <<"compute", "find", "generate">>
            kind(n) == Kind(parts[n])
            before == {p \in (DOMAIN parts) \X (DOMAIN parts) :
                         IF kind(p[1]) = kind(p[2]) THEN p[1] < p[2]
                         ELSE \E k, l \in DOMAIN kinds :
                                k < l /\ kinds[k] = kind(p[1]) /\ kinds[l] = kind(p[2])}
            order == InOrder(DOMAIN parts, before)
            ops == EvaluationOrder(f)
<1>1. ops = [n \in DOMAIN order |-> Operand(parts[order[n]], kind(order[n]))]
  BY DEF EvaluationOrder, Ordered
<1>2. parts \in Seq(S)
  <2>1. PartsOf(f) = parts
    BY DEF PartsOf
  <2>. QED  BY <2>1, SubformulasOfInput
<1>. HIDE DEF S
<1>3. L \in Nat /\ DOMAIN parts = 1 .. L /\ \A n \in 1 .. L : parts[n] \in S
  BY <1>2, LenProperties, ElementOfSeq
<1>4. \A n \in 1 .. L : kind(n) \in Kinds /\ (kind(n) # "compute" => TypeOfFormula(parts[n]) = "ATOMIC")
  BY DEF Kind, Kinds
<1>. HIDE DEF parts
<1>5. \A m, n \in 1 .. L :
        <<m, n>> \in before <=> IF kind(m) = kind(n) THEN m < n ELSE Earlier(kind(m), kind(n))
  <2>1. ASSUME NEW m \in 1 .. L, NEW n \in 1 .. L
        PROVE  (\E k, l \in DOMAIN kinds : k < l /\ kinds[k] = kind(m) /\ kinds[l] = kind(n))
                  <=> Earlier(kind(m), kind(n))
    BY <1>4, KindOrder
  <2>. HIDE DEF kinds, kind
  <2>. QED  BY <1>3, <2>1
<1>. HIDE DEF kinds, kind, before, L
<1>6. IsOrder(before, 1 .. L)
  BY <1>3, <1>4, <1>5 DEF IsOrder, Earlier, Kinds
<1>7. IsFiniteSet(1 .. L) /\ Cardinality(1 .. L) = L
  BY <1>3, FS_Interval
<1>8. /\ DOMAIN order = 1 .. L
      /\ \A n \in 1 .. L : order[n] \in 1 .. L
      /\ \A m, n \in 1 .. L : m < n => <<order[m], order[n]>> \in before
  <2>1. order \in [1 .. L -> 1 .. L]
    BY <1>3, <1>6, <1>7, InOrderProperties
  <2>2. \A m, n \in 1 .. L : m < n => <<order[m], order[n]>> \in before
    BY <1>3, <1>6, <1>7, InOrderProperties
  <2>. QED  BY <2>1, <2>2
<1>. HIDE DEF order
<1>9. \A n \in 1 .. L : ops[n] = Operand(parts[order[n]], kind(order[n]))
  BY <1>1, <1>8
<1>10. Len(ops) = L /\ DOMAIN ops = 1 .. L
  BY <1>1, <1>3, <1>8
<1>. HIDE DEF ops
<1>11. ASSUME NEW n \in 1 .. L
       PROVE  IsOperand(ops[n]) /\ ops[n].kind = kind(order[n])
  <2>1. order[n] \in 1 .. L
    BY <1>8
  <2>2. parts[order[n]] \in S /\ kind(order[n]) \in Kinds
        /\ (kind(order[n]) # "compute" => TypeOfFormula(parts[order[n]]) = "ATOMIC")
    BY <1>3, <1>4, <2>1
  <2>. QED  BY <1>9, <2>2, OperandType DEF S
<1>12. ASSUME NEW m \in 1 .. L, NEW n \in 1 .. L, m < n
       PROVE  ~Earlier(ops[n].kind, ops[m].kind)
  <2>1. /\ order[m] \in 1 .. L /\ order[n] \in 1 .. L
        /\ <<order[m], order[n]>> \in before
    BY <1>8, <1>12
  <2>2. kind(order[m]) = kind(order[n]) \/ Earlier(kind(order[m]), kind(order[n]))
    BY <1>5, <2>1
  <2>3. ops[m].kind = kind(order[m]) /\ ops[n].kind = kind(order[n])
    BY <1>11
  <2>. QED  BY <2>2, <2>3 DEF Earlier
<1>. QED  BY <1>3, <1>10, <1>11, <1>12 DEF AreOperands, L, ops, parts

(* The amount of operands that are computed tells which those are.         *)
LEMMA ComputedFirst ==
  ASSUME NEW ops, AreOperands(ops)
  PROVE  LET computed == {n \in DOMAIN ops : ops[n].kind = "compute"}
         IN  /\ Cardinality(computed) \in 0 .. Len(ops)
             /\ \A n \in DOMAIN ops : ops[n].kind = "compute" <=> n <= Cardinality(computed)
<1>. DEFINE S == {n \in DOMAIN ops : ops[n].kind = "compute"}
<1>1. /\ Len(ops) \in Nat /\ DOMAIN ops = 1 .. Len(ops)
      /\ \A m, n \in 1 .. Len(ops) : m < n => ~Earlier(ops[n].kind, ops[m].kind)
  BY DEF AreOperands
<1>2. ASSUME NEW n \in S, NEW m \in 1 .. n
      PROVE  m \in S
  BY <1>1, <1>2 DEF Earlier
<1>3. S \in SUBSET (1 .. Len(ops))
  BY <1>1
<1>4. Cardinality(S) \in 0 .. Len(ops) /\ S = 1 .. Cardinality(S)
  <2>. HIDE DEF S
  <2>. QED  BY <1>1, <1>2, <1>3, DownClosed
<1>5. \A n \in DOMAIN ops : n \in S <=> n <= Cardinality(S)
  <2>. HIDE DEF S
  <2>. QED  BY <1>1, <1>4
<1>6. \A n \in DOMAIN ops : n \in S <=> ops[n].kind = "compute"
  OBVIOUS
<1>. QED  BY <1>4, <1>5, <1>6

-----------------------------------------------------------------------------
(* An atom that is searched for.                                           *)

LEMMA WithoutEdgesType ==
  ASSUME NEW r, IsReplacements(r)
  PROVE  /\ IsReplacements(WithoutEdges(r))
         /\ DOMAIN WithoutEdges(r) = DOMAIN r \ EdgeVariables
         /\ \A key \in DOMAIN WithoutEdges(r) : WithoutEdges(r)[key] = r[key]
         /\ IsMatrix(r) => IsMatrix(WithoutEdges(r))
<1>. DEFINE s == WithoutEdges(r)
<1>1. /\ DOMAIN s = DOMAIN r \ EdgeVariables
      /\ s = [key \in DOMAIN s |-> r[key]]
  BY DEF WithoutEdges, Restrict
<1>. HIDE DEF s
<1>2. \A key \in DOMAIN s : key \in DOMAIN r /\ s[key] = r[key]
  BY <1>1
<1>3. IsReplacements(s)
  BY <1>1, <1>2 DEF IsReplacements
<1>4. IsMatrix(r) => IsMatrix(s)
  BY <1>2 DEF IsMatrix
<1>. QED  BY <1>1, <1>2, <1>3, <1>4 DEF s

LEMMA ParamsType ==
  ASSUME NEW r, IsReplacements(r), NEW walk, IsWalk(walk), ~OutOfRange(r, walk)
  PROVE  /\ Params(r, walk) \in Seq([DOMAIN r -> Values])
         /\ Len(Params(r, walk)) = ColumnsAmount(r, walk)
         /\ \A i \in 1 .. ColumnsAmount(r, walk) : Params(r, walk)[i] = Column(r, i)
<1>. DEFINE N == ColumnsAmount(r, walk)
<1>1. N \in Nat
  BY AmountType
<1>2. Params(r, walk) = [i \in 1 .. N |-> Column(r, i)]
  BY DEF Params
<1>3. ~ReadsBeyond(r, DOMAIN r, 1 .. N)
  BY DEF OutOfRange, ColumnNumbers
<1>. HIDE DEF N
<1>4. \A key \in DOMAIN r : r[key] \in Seq(Values) /\ 1 .. N \subseteq 1 .. Len(r[key])
  BY <1>1, <1>3, ReadableColumns
<1>5. ASSUME NEW i \in 1 .. N
      PROVE  Column(r, i) \in [DOMAIN r -> Values]
  <2>1. \A key \in DOMAIN r : r[key][i] \in Values
    <3>1. ASSUME NEW key \in DOMAIN r
          PROVE  r[key][i] \in Values
      <4>1. i \in 1 .. Len(r[key]) /\ r[key] \in Seq(Values)
        BY <1>4
      <4>. QED  BY <4>1, ElementOfSeq
    <3>. QED  BY <3>1
  <2>. QED  BY <2>1 DEF Column
<1>6. Params(r, walk) \in Seq([DOMAIN r -> Values])
  BY <1>1, <1>2, <1>5, IsASeq
<1>7. Len(Params(r, walk)) = N
  BY <1>1, <1>2
<1>. QED  BY <1>2, <1>6, <1>7 DEF N

(* The columns of a matrix, one after another.                             *)
LEMMA InstancesType ==
  ASSUME NEW found, IsReplacements(found), IsMatrix(found)
  PROVE  /\ Instances(found) \in Seq([DOMAIN found -> Values])
         /\ \A i \in DOMAIN Instances(found) : Instances(found)[i] = Column(found, i)
         /\ Columns(found) = Range(Instances(found))
         /\ DOMAIN found # {} => HasColumns(found, Len(Instances(found)))
<1>1. CASE DOMAIN found = {}
  <2>1. Instances(found) = <<>> /\ Columns(found) = {}
    BY <1>1 DEF Instances, Columns
  <2>. QED  BY <1>1, <2>1 DEF Range
<1>2. CASE DOMAIN found # {}
  <2>. DEFINE key == CHOOSE k \in DOMAIN found : TRUE
              N == Len(found[key])
              s == Instances(found)
  <2>1. key \in DOMAIN found
    BY <1>2
  <2>2. s = [i \in DOMAIN found[key] |-> Column(found, i)]
    BY <1>2 DEF Instances
  <2>. HIDE DEF key, s
  <2>3. N \in Nat /\ DOMAIN found[key] = 1 .. N
    BY <2>1, LenProperties DEF IsReplacements
  <2>4. HasColumns(found, N)
    BY <2>1, <2>3 DEF HasColumns, IsMatrix
  <2>. HIDE DEF N
  <2>5. \A i \in 1 .. N : Column(found, i) \in [DOMAIN found -> Values]
    BY <2>4, ColumnType
  <2>6. s = [i \in 1 .. N |-> Column(found, i)]
    BY <2>2, <2>3
  <2>7. s \in Seq([DOMAIN found -> Values]) /\ Len(s) = N /\ DOMAIN s = 1 .. N
    <3>1. s \in Seq([DOMAIN found -> Values])
      BY <2>3, <2>5, <2>6, IsASeq
    <3>. QED  BY <2>3, <2>6, <3>1
  <2>8. \A i \in 1 .. N : s[i] = Column(found, i)
    BY <2>6
  <2>9. Columns(found) = {Column(found, i) : i \in 1 .. N}
    BY <1>2, <2>4, ColumnsOfMatrix
  <2>10. Columns(found) = Range(s)
    BY <2>7, <2>8, <2>9 DEF Range
  <2>. QED  BY <2>4, <2>7, <2>8, <2>10 DEF s
<1>. QED  BY <1>1, <1>2

(* The instances that are found for params.                                *)
Found(instances, paramsVector, usingType) ==
  {p \in (DOMAIN paramsVector) \X (DOMAIN instances) :
     p[2] \in Hits(instances, paramsVector[p[1]], usingType)}

(* All of what is in S, once each, ordered by its first elements.          *)
AreInOrder(all, S) ==
  /\ Len(all) \in Nat
  /\ all \in [1 .. Len(all) -> S]
  /\ \A p \in S : \E n \in 1 .. Len(all) : all[n] = p
  /\ \A m, n \in 1 .. Len(all) : m < n => all[m] # all[n] /\ all[m][1] <= all[n][1]
  /\ Len(all) = 0 <=> S = {}

LEMMA FoundInOrder ==
  ASSUME NEW S, NEW T, NEW paramsVector \in Seq(S), NEW instances \in Seq(T), NEW usingType
  PROVE  LET hits == Found(instances, paramsVector, usingType)
         IN  /\ hits \subseteq (1 .. Len(paramsVector)) \X (1 .. Len(instances))
             /\ AreInOrder(InOrder(hits, Lexicographic(hits, Less(DOMAIN paramsVector))), hits)
<1>. DEFINE hits == Found(instances, paramsVector, usingType)
            N == Len(paramsVector)
            M == Len(instances)
            A == DOMAIN paramsVector
            before == Lexicographic(hits, Less(A))
            all == InOrder(hits, before)
            C == Cardinality(hits)
<1>1. N \in Nat /\ M \in Nat /\ A = 1 .. N /\ DOMAIN instances = 1 .. M
  BY LenProperties
<1>2. hits \subseteq (1 .. N) \X (1 .. M)
  BY <1>1 DEF Found
<1>. HIDE DEF hits
<1>3. IsFiniteSet(hits)
  <2>1. IsFiniteSet((1 .. N) \X (1 .. M))
    <3>1. IsFiniteSet(1 .. N) /\ IsFiniteSet(1 .. M)
      BY <1>1, FS_Interval
    <3>. QED  BY <3>1, FS_Product
  <2>. QED  BY <1>2, <2>1, FS_Subset
<1>4. IsOrder(before, hits)
  <2>1. IsOrder(Less(A), A) /\ hits \subseteq A \X Int
    BY <1>1, <1>2, LessIsOrder
  <2>. QED  BY <2>1, LexicographicIsOrder
<1>5. \A p, q \in hits : <<p, q>> \in before => p # q /\ p[1] <= q[1]
  BY <1>1, <1>2 DEF Lexicographic, Less
<1>. HIDE DEF before
<1>6. /\ C \in Nat
      /\ all \in [1 .. C -> hits]
      /\ \A e \in hits : \E n \in 1 .. C : all[n] = e
      /\ \A m, n \in 1 .. C : m < n => <<all[m], all[n]>> \in before
  BY <1>3, <1>4, InOrderProperties
<1>7. Len(all) = C
  <2>1. all = [n \in 1 .. C |-> all[n]]
    BY <1>6
  <2>. HIDE DEF all, C
  <2>. QED  BY <1>6, <2>1
<1>8. C = 0 <=> hits = {}
  BY <1>3, FS_EmptySet
<1>. HIDE DEF all, C
<1>9. AreInOrder(all, hits)
  BY <1>5, <1>6, <1>7, <1>8 DEF AreInOrder
<1>. QED  BY <1>1, <1>2, <1>9 DEF hits, all, before

LEMMA SearchForType ==
  ASSUME NEW found, IsReplacements(found), IsMatrix(found),
         NEW keys, NEW paramsVector \in Seq([keys -> Values]), NEW usingType
  PROVE  /\ IsReplacements(SearchFor(paramsVector, found, usingType))
         /\ DOMAIN SearchFor(paramsVector, found, usingType) =
              IF Found(Instances(found), paramsVector, usingType) = {} THEN {} ELSE DOMAIN found
<1>. DEFINE instances == Instances(found)
            hits == Found(instances, paramsVector, usingType)
            before == Lexicographic(hits, Less(DOMAIN paramsVector))
            all == InOrder(hits, before)
            N == Len(paramsVector)
            used == SubSeq(paramsVector, all[1][1], N)
            row(v) == IF v \in DOMAIN paramsVector[1]
                        THEN [n \in DOMAIN used |-> used[n][v]]
                        ELSE [n \in DOMAIN all |-> instances[all[n][2]][v]]
            s == SearchFor(paramsVector, found, usingType)
<1>1. s = IF hits = {} THEN NoReplacements ELSE [v \in DOMAIN found |-> row(v)]
  BY DEF SearchFor, Found
<1>2. instances \in Seq([DOMAIN found -> Values]) /\ N \in Nat
  BY InstancesType, LenProperties
<1>3. hits \subseteq (1 .. N) \X (1 .. Len(instances)) /\ AreInOrder(all, hits)
  BY <1>2, FoundInOrder
<1>. HIDE DEF instances, hits, before, all, s
<1>4. CASE hits = {}
  <2>1. s = NoReplacements
    BY <1>1, <1>4
  <2>2. DOMAIN s = {} /\ IsReplacements(s)
    BY <2>1 DEF NoReplacements, IsReplacements
  <2>. QED  BY <1>4, <2>2 DEF s, hits, instances
<1>5. CASE hits # {}
  <2>1. Len(all) \in Nat \ {0} /\ all \in [1 .. Len(all) -> hits]
    BY <1>3, <1>5 DEF AreInOrder
  <2>2. \A n \in 1 .. Len(all) : all[n][1] \in 1 .. N /\ all[n][2] \in 1 .. Len(instances)
    BY <1>3, <2>1
  <2>3. all[1][1] \in 1 .. N /\ 1 \in 1 .. N
    BY <1>2, <2>1, <2>2
  <2>4. used \in Seq([keys -> Values])
    <3>1. \A n \in all[1][1] .. N : paramsVector[n] \in [keys -> Values]
      BY <1>2, <2>3, ElementOfSeq
    <3>. QED  BY <1>2, <2>3, <3>1, SubSeqProperties
  <2>5. DOMAIN used = 1 .. Len(used) /\ Len(used) \in Nat
    BY <2>4, LenProperties
  <2>. HIDE DEF used
  <2>6. DOMAIN paramsVector[1] = keys
    <3>1. paramsVector[1] \in [keys -> Values]
      BY <2>3, ElementOfSeq
    <3>. QED  BY <3>1
  <2>7. ASSUME NEW v \in DOMAIN found
        PROVE  row(v) \in Seq(Values)
    <3>1. CASE v \in keys
      <4>1. \A n \in 1 .. Len(used) : used[n][v] \in Values
        <5>1. \A n \in 1 .. Len(used) : used[n] \in [keys -> Values]
          BY <2>4, ElementOfSeq
        <5>. QED  BY <3>1, <5>1
      <4>2. [n \in 1 .. Len(used) |-> used[n][v]] \in Seq(Values)
        BY <2>5, <4>1, IsASeq
      <4>. QED  BY <2>5, <2>6, <3>1, <4>2
    <3>2. CASE v \notin keys
      <4>1. \A n \in 1 .. Len(all) : instances[all[n][2]][v] \in Values
        <5>1. \A n \in 1 .. Len(all) : instances[all[n][2]] \in [DOMAIN found -> Values]
          BY <1>2, <2>2, ElementOfSeq
        <5>. QED  BY <5>1
      <4>2. [n \in 1 .. Len(all) |-> instances[all[n][2]][v]] \in Seq(Values)
        BY <2>1, <4>1, IsASeq
      <4>3. DOMAIN all = 1 .. Len(all)
        BY <2>1
      <4>. QED  BY <2>6, <3>2, <4>2, <4>3
    <3>. QED  BY <3>1, <3>2
  <2>. HIDE DEF row
  <2>8. s = [v \in DOMAIN found |-> row(v)] /\ DOMAIN s = DOMAIN found
    BY <1>1, <1>5
  <2>9. IsReplacements(s)
    BY <2>7, <2>8 DEF IsReplacements
  <2>. QED  BY <1>5, <2>8, <2>9 DEF s, hits, instances
<1>. QED  BY <1>4, <1>5

LEMMA FindType ==
  ASSUME NEW found, IsReplacements(found), IsMatrix(found),
         NEW r, IsReplacements(r), NEW walk, IsWalk(walk), ~FindThrows(r, walk), NEW usingType
  PROVE  LET evaluation == Find(found, r, usingType, walk)
         IN  /\ evaluation.value \in BOOLEAN
             /\ evaluation.value <=> DOMAIN evaluation.replacements # {}
             /\ IsReplacements(evaluation.replacements)
             /\ evaluation.generated = <<>>
             /\ DOMAIN r = {} => ~evaluation.value
<1>. DEFINE s == WithoutEdges(r)
            params == Params(s, walk)
            S == [DOMAIN s -> Values]
            replacements == SearchFor(params, found, usingType)
            evaluation == Find(found, r, usingType, walk)
<1>1. /\ evaluation.value = (DOMAIN replacements # {})
      /\ evaluation.replacements = replacements
      /\ evaluation.generated = <<>>
  BY DEF Find
<1>. HIDE DEF evaluation
<1>2. IsReplacements(s) /\ (DOMAIN r = {} => DOMAIN s = {})
  BY WithoutEdgesType
<1>3. ~OutOfRange(s, walk)
  BY DEF FindThrows
<1>. HIDE DEF s
<1>4. params \in Seq(S) /\ Len(params) = ColumnsAmount(s, walk)
  BY <1>2, <1>3, ParamsType
<1>5. DOMAIN r = {} => DOMAIN params = {}
  <2>. HIDE DEF params
  <2>1. DOMAIN r = {} => Len(params) = 0
    BY <1>2, <1>4, AmountType
  <2>. QED  BY <1>4, <2>1, LenProperties
<1>6. /\ IsReplacements(replacements)
      /\ DOMAIN replacements =
              IF Found(Instances(found), params, usingType) = {} THEN {} ELSE DOMAIN found
  <2>. HIDE DEF params
  <2>. QED  BY <1>4, SearchForType
<1>7. DOMAIN r = {} => Found(Instances(found), params, usingType) = {}
  BY <1>5 DEF Found
<1>. HIDE DEF replacements
<1>. QED  BY <1>1, <1>6, <1>7 DEF evaluation

-----------------------------------------------------------------------------
(* An atom that is generated.                                              *)

LEMMA RowsType ==
  ASSUME NEW keys \in SUBSET Variables, NEW columns \in Seq([keys -> Values])
  PROVE  /\ IsReplacements(Rows(columns, keys)) /\ IsMatrix(Rows(columns, keys))
         /\ DOMAIN Rows(columns, keys) \in {{}, keys}
<1>. DEFINE r == Rows(columns, keys)
<1>1. CASE columns = <<>>
  <2>1. r = NoReplacements
    BY <1>1 DEF Rows
  <2>. QED  BY <2>1 DEF NoReplacements, IsReplacements, IsMatrix
<1>2. CASE columns # <<>>
  <2>. DEFINE L == Len(columns)
  <2>1. L \in Nat /\ DOMAIN columns = 1 .. L /\ \A n \in 1 .. L : columns[n] \in [keys -> Values]
    BY LenProperties, ElementOfSeq
  <2>2. r = [v \in keys |-> [n \in 1 .. L |-> columns[n][v]]]
    BY <1>2, <2>1 DEF Rows
  <2>. HIDE DEF L, r
  <2>3. ASSUME NEW v \in keys
        PROVE  r[v] \in Seq(Values) /\ Len(r[v]) = L
    <3>1. r[v] = [n \in 1 .. L |-> columns[n][v]]
      BY <2>2
    <3>2. \A n \in 1 .. L : columns[n][v] \in Values
      BY <2>1
    <3>3. r[v] \in Seq(Values)
      BY <2>1, <3>1, <3>2, IsASeq
    <3>. QED  BY <2>1, <3>1, <3>3
  <2>4. DOMAIN r = keys /\ r = [v \in keys |-> r[v]]
    BY <2>2
  <2>. QED  BY <2>3, <2>4 DEF IsReplacements, IsMatrix, r
<1>. QED  BY <1>1, <1>2

LEMMA SelectedSeq ==
  ASSUME NEW T, NEW row \in Seq(T), NEW S, S \subseteq DOMAIN row
  PROVE  Selected(row, Ascending(S)) \in Seq(T)
<1>. DEFINE order == Ascending(S)
            M == Cardinality(S)
<1>1. Len(row) \in Nat /\ DOMAIN row = 1 .. Len(row) /\ row \in [1 .. Len(row) -> T]
  BY LenProperties
<1>2. IsFiniteSet(S)
  <2>1. IsFiniteSet(1 .. Len(row))
    BY <1>1, FS_Interval
  <2>. QED  BY <1>1, <2>1, FS_Subset
<1>3. M \in Nat /\ order \in [1 .. M -> S]
  <2>1. IsOrder(Less(S), S)
    BY <1>1, LessIsOrder
  <2>. QED  BY <1>2, <2>1, InOrderProperties DEF Ascending
<1>. HIDE DEF order, M
<1>4. Selected(row, order) \in [1 .. M -> T]
  BY <1>1, <1>3 DEF Selected
<1>5. Selected(row, order) \in Seq(T)
  BY <1>3, <1>4, IsASeq
<1>. QED  BY <1>5 DEF order

LEMMA ExistingRowsType ==
  ASSUME NEW found, IsReplacements(found), IsMatrix(found), NEW usingType
  PROVE  /\ IsReplacements(ExistingRows(found, usingType))
         /\ IsMatrix(ExistingRows(found, usingType))
         /\ DOMAIN ExistingRows(found, usingType) \in {{}, DOMAIN found}
<1>. DEFINE instances == Instances(found)
            hits == Hits(instances, <<>>, usingType)
            columns == Selected(instances, Ascending(hits))
<1>1. instances \in Seq([DOMAIN found -> Values])
  BY InstancesType
<1>2. hits \subseteq DOMAIN instances
  BY DEF Hits
<1>3. ExistingRows(found, usingType) = Rows(columns, DOMAIN found)
  BY DEF ExistingRows
<1>4. DOMAIN found \in SUBSET Variables
  BY DEF IsReplacements
<1>. HIDE DEF instances, hits
<1>5. columns \in Seq([DOMAIN found -> Values])
  BY <1>1, <1>2, SelectedSeq
<1>. HIDE DEF columns
<1>. QED  BY <1>3, <1>4, <1>5, RowsType

LEMMA SeqOfMore ==
  ASSUME NEW S, NEW T, S \subseteq T, NEW s \in Seq(S)
  PROVE  s \in Seq(T)
<1>1. Len(s) \in Nat /\ s \in [1 .. Len(s) -> S]
  BY LenProperties
<1>2. s \in [1 .. Len(s) -> T]
  BY <1>1
<1>. QED  BY <1>1, <1>2, IsASeq

(* Instances of the atom with the first m elements that are generated.     *)
InstancesUpto(found, m) ==
  [DOMAIN found -> Values \cup {Fresh[j] : j \in 1 .. m}]

(* What processTemplateParams has found and generated; what is generated   *)
(* agrees with params.                                                     *)
IsGeneration(d, paramsVector, found) ==
  /\ d = [searched |-> d.searched, generated |-> d.generated]
  /\ d.searched \in Seq(InstancesUpto(found, Len(d.generated)))
  /\ d.generated \in Seq(InstancesUpto(found, Len(d.generated)))
  /\ \A i \in 1 .. Len(d.generated) :
       \E p \in Range(paramsVector) : Compatible(d.generated[i], p)

LEMMA InstancesUptoMore ==
  ASSUME NEW found, NEW m \in Nat
  PROVE  /\ [DOMAIN found -> Values] \subseteq InstancesUpto(found, m)
         /\ InstancesUpto(found, m) \subseteq InstancesUpto(found, m + 1)
         /\ InstancesUpto(found, m) \subseteq [DOMAIN found -> Values \cup {Fresh[j] : j \in Nat}]
         /\ m <= Len(Fresh) => InstancesUpto(found, m) = [DOMAIN found -> Values]
<1>. DEFINE E == Values \cup {Fresh[j] : j \in 1 .. m}
            F == Values \cup {Fresh[j] : j \in 1 .. m + 1}
            G == Values \cup {Fresh[j] : j \in Nat}
<1>1. Values \subseteq E
  OBVIOUS
<1>2. E \subseteq F
  <2>1. 1 .. m \subseteq 1 .. m + 1
    OBVIOUS
  <2>. QED  BY <2>1
<1>3. E \subseteq G
  <2>1. 1 .. m \subseteq Nat
    OBVIOUS
  <2>. QED  BY <2>1
<1>4. m <= Len(Fresh) => E = Values
  <2>1. \A j \in 1 .. Len(Fresh) : Fresh[j] \in Values
    BY FreshAssumption, ElementOfSeq
  <2>2. Len(Fresh) \in Nat
    BY FreshAssumption, LenProperties
  <2>3. m <= Len(Fresh) => \A j \in 1 .. m : j \in 1 .. Len(Fresh)
    BY <2>2
  <2>. QED  BY <2>1, <2>3
<1>5. InstancesUpto(found, m) = [DOMAIN found -> E] /\ InstancesUpto(found, m + 1) = [DOMAIN found -> F]
  BY DEF InstancesUpto
<1>. HIDE DEF E, F, G
<1>6. \A X, Y : X \subseteq Y => [DOMAIN found -> X] \subseteq [DOMAIN found -> Y]
  OBVIOUS
<1>. QED  BY <1>1, <1>2, <1>3, <1>4, <1>5, <1>6 DEF G

LEMMA GeneratedKeeps ==
  ASSUME NEW found, IsReplacements(found), IsMatrix(found), NEW usingType,
         NEW keys, NEW paramsVector \in Seq([keys -> Values]), NEW params \in Range(paramsVector),
         NEW d, IsGeneration(d, paramsVector, found)
  PROVE  IsGeneration(Generated(params, d, found, usingType), paramsVector, found)
<1>. DEFINE m == Len(d.generated)
            C == InstancesUpto(found, m)
            instances == Instances(found) \o d.generated
            hits == Hits(instances, params, usingType)
            selected == Selected(instances, Ascending(hits))
            new == [v \in DOMAIN found |-> IF v \in DOMAIN params THEN params[v] ELSE Fresh[m + 1]]
            g == Generated(params, d, found, usingType)
<1>1. /\ d = [searched |-> d.searched, generated |-> d.generated]
      /\ d.searched \in Seq(C) /\ d.generated \in Seq(C)
      /\ \A i \in 1 .. m : \E p \in Range(paramsVector) : Compatible(d.generated[i], p)
  BY DEF IsGeneration
<1>2. m \in Nat
  BY <1>1, LenProperties
<1>3. g = IF usingType = "REPLACEMENTS_FIRST" /\ d.generated # <<>> THEN d
          ELSE IF hits # {} THEN [d EXCEPT !.searched = @ \o selected]
          ELSE [d EXCEPT !.generated = Append(@, new)]
  BY DEF Generated
<1>. HIDE DEF g
<1>4. CASE g = d
  BY <1>4 DEF g
<1>5. CASE g = [d EXCEPT !.searched = @ \o selected]
  <2>1. Instances(found) \in Seq(C)
    <3>1. Instances(found) \in Seq([DOMAIN found -> Values])
      BY InstancesType
    <3>2. [DOMAIN found -> Values] \subseteq C
      BY <1>2, InstancesUptoMore
    <3>. HIDE DEF C
    <3>. QED  BY <3>1, <3>2, SeqOfMore
  <2>2. instances \in Seq(C)
    <3>. HIDE DEF C
    <3>. QED  BY <1>1, <2>1, ConcatProperties
  <2>3. hits \subseteq DOMAIN instances
    BY DEF Hits
  <2>4. selected \in Seq(C)
    <3>. HIDE DEF C, instances, hits
    <3>. QED  BY <2>2, <2>3, SelectedSeq
  <2>5. d.searched \o selected \in Seq(C)
    <3>. HIDE DEF C, selected
    <3>. QED  BY <1>1, <2>4, ConcatProperties
  <2>6. g = [searched |-> d.searched \o selected, generated |-> d.generated]
    <3>. HIDE DEF selected
    <3>. QED  BY <1>1, <1>5
  <2>. HIDE DEF selected
  <2>. QED  BY <1>1, <2>5, <2>6 DEF IsGeneration, g
<1>6. CASE g = [d EXCEPT !.generated = Append(@, new)]
  <2>. DEFINE D == InstancesUpto(found, m + 1)
              more == Append(d.generated, new)
  <2>1. params \in [keys -> Values]
    <3>1. PICK n \in DOMAIN paramsVector : params = paramsVector[n]
      BY DEF Range
    <3>2. n \in 1 .. Len(paramsVector)
      BY <3>1, LenProperties
    <3>. QED  BY <3>1, <3>2, ElementOfSeq
  <2>2. new \in D
    <3>1. m + 1 \in 1 .. m + 1
      BY <1>2
    <3>2. \A v \in DOMAIN found :
            (IF v \in DOMAIN params THEN params[v] ELSE Fresh[m + 1])
              \in Values \cup {Fresh[j] : j \in 1 .. m + 1}
      BY <2>1, <3>1
    <3>. QED  BY <3>2 DEF InstancesUpto
  <2>3. Compatible(new, params)
    BY <2>1 DEF Compatible
  <2>. HIDE DEF new
  <2>4. d.searched \in Seq(D) /\ d.generated \in Seq(D)
    <3>1. C \subseteq D
      BY <1>2, InstancesUptoMore
    <3>. HIDE DEF C, D
    <3>. QED  BY <1>1, <3>1, SeqOfMore
  <2>5. /\ more \in Seq(D) /\ Len(more) = m + 1
        /\ \A i \in 1 .. m : more[i] = d.generated[i]
        /\ more[m + 1] = new
    <3>. HIDE DEF D
    <3>. QED  BY <1>2, <2>2, <2>4
  <2>6. g = [searched |-> d.searched, generated |-> more]
    <3>. HIDE DEF more
    <3>1. g = [d EXCEPT !.generated = more]
      BY <1>6 DEF more
    <3>. QED  BY <1>1, <3>1
  <2>. HIDE DEF more, m
  <2>7. \A i \in 1 .. m + 1 : \E p \in Range(paramsVector) : Compatible(more[i], p)
    <3>1. ASSUME NEW i \in 1 .. m + 1
          PROVE  \E p \in Range(paramsVector) : Compatible(more[i], p)
      <4>1. CASE i = m + 1
        BY <2>3, <2>5, <4>1
      <4>2. CASE i # m + 1
        <5>1. i \in 1 .. m
          BY <1>2, <4>2
        <5>. QED  BY <1>1, <2>5, <5>1
      <4>. QED  BY <4>1, <4>2
    <3>. QED  BY <3>1
  <2>. QED  BY <2>4, <2>5, <2>6, <2>7 DEF IsGeneration, g
<1>. QED  BY <1>3, <1>4, <1>5, <1>6

(* The stages of processTemplateParams.                                    *)
AreStages(done, paramsVector, found, usingType) ==
  done = [n \in 0 .. Len(paramsVector) |->
            IF n = 0 THEN [searched |-> <<>>, generated |-> <<>>]
            ELSE Generated(paramsVector[n], done[n - 1], found, usingType)]

LEMMA StagesExist ==
  ASSUME NEW found, IsReplacements(found), IsMatrix(found), NEW usingType,
         NEW keys, NEW paramsVector \in Seq([keys -> Values])
  PROVE  \E done : AreStages(done, paramsVector, found, usingType)
<1>. DEFINE N == Len(paramsVector)
            A == Seq([DOMAIN found -> Values \cup {Fresh[j] : j \in Nat}])
            S == {d \in [searched : A, generated : A] : IsGeneration(d, paramsVector, found)}
            base == [searched |-> <<>>, generated |-> <<>>]
            step == [q \in (0 .. N - 1) \X S |->
                       Generated(paramsVector[q[1] + 1], q[2], found, usingType)]
<1>1. N \in Nat /\ DOMAIN paramsVector = 1 .. N
  BY LenProperties
<1>2. \A d : IsGeneration(d, paramsVector, found) => d \in S
  <2>1. ASSUME NEW d, IsGeneration(d, paramsVector, found)
        PROVE  d \in S
    <3>. DEFINE C == InstancesUpto(found, Len(d.generated))
                T == [DOMAIN found -> Values \cup {Fresh[j] : j \in Nat}]
    <3>1. /\ d = [searched |-> d.searched, generated |-> d.generated]
          /\ d.searched \in Seq(C) /\ d.generated \in Seq(C)
      BY <2>1 DEF IsGeneration
    <3>2. Len(d.generated) \in Nat
      BY <3>1, LenProperties
    <3>3. C \subseteq T
      BY <3>2, InstancesUptoMore
    <3>4. d.searched \in Seq(T) /\ d.generated \in Seq(T)
      <4>. HIDE DEF C, T
      <4>. QED  BY <3>1, <3>3, SeqOfMore
    <3>. HIDE DEF C, T
    <3>5. d \in [searched : Seq(T), generated : Seq(T)]
      BY <3>1, <3>4
    <3>. QED  BY <2>1, <3>5 DEF T
  <2>. QED  BY <2>1
<1>3. \A d \in S : IsGeneration(d, paramsVector, found)
  OBVIOUS
<1>. HIDE DEF S
<1>4. base \in S
  <2>1. IsGeneration(base, paramsVector, found)
    <3>1. base.searched = <<>> /\ base.generated = <<>>
      OBVIOUS
    <3>2. base = [searched |-> base.searched, generated |-> base.generated]
      OBVIOUS
    <3>. HIDE DEF base
    <3>3. Len(base.generated) = 0 /\ 1 .. 0 = {}
      BY <3>1
    <3>. QED  BY <3>1, <3>2, <3>3, EmptySeq DEF IsGeneration
  <2>. HIDE DEF base
  <2>. QED  BY <1>2, <2>1
<1>5. step \in [(0 .. N - 1) \X S -> S]
  <2>1. ASSUME NEW q \in (0 .. N - 1) \X S
        PROVE  Generated(paramsVector[q[1] + 1], q[2], found, usingType) \in S
    <3>1. q[1] + 1 \in DOMAIN paramsVector /\ q[2] \in S
      BY <1>1
    <3>2. paramsVector[q[1] + 1] \in Range(paramsVector)
      BY <3>1 DEF Range
    <3>3. IsGeneration(Generated(paramsVector[q[1] + 1], q[2], found, usingType), paramsVector, found)
      BY <1>3, <3>1, <3>2, GeneratedKeeps
    <3>. QED  BY <1>2, <3>3
  <2>. QED  BY <2>1
<1>6. PICK f : IsUpto(f, S, base, step, N)
  <2>. HIDE DEF base, step, N
  <2>. QED  BY <1>1, <1>4, <1>5, RecursionUpto
<1>7. /\ f \in [0 .. N -> S] /\ f[0] = base
      /\ \A n \in 0 .. N - 1 : f[n + 1] = step[<<n, f[n]>>]
  BY <1>6 DEF IsUpto
<1>8. ASSUME NEW n \in 0 .. N
      PROVE  f[n] = IF n = 0 THEN base
                    ELSE Generated(paramsVector[n], f[n - 1], found, usingType)
  <2>1. CASE n = 0
    BY <1>7, <2>1
  <2>2. CASE n # 0
    <3>1. n - 1 \in 0 .. N - 1 /\ (n - 1) + 1 = n /\ n - 1 \in 0 .. N
      BY <1>1, <2>2
    <3>2. f[n - 1] \in S /\ f[n] = step[<<n - 1, f[n - 1]>>]
      <4>. HIDE DEF step
      <4>. QED  BY <1>7, <3>1
    <3>3. \A s \in S : step[<<n - 1, s>>] = Generated(paramsVector[n], s, found, usingType)
      <4>1. ASSUME NEW s \in S
            PROVE  step[<<n - 1, s>>] = Generated(paramsVector[n], s, found, usingType)
        <5>1. <<n - 1, s>> \in (0 .. N - 1) \X S /\ <<n - 1, s>>[1] + 1 = n /\ <<n - 1, s>>[2] = s
          BY <3>1
        <5>. QED  BY <5>1
      <4>. QED  BY <4>1
    <3>. HIDE DEF step
    <3>. QED  BY <2>2, <3>2, <3>3
  <2>. QED  BY <2>1, <2>2
<1>. HIDE DEF step, N, base
<1>9. f = [n \in 0 .. N |-> f[n]]
  BY <1>7
<1>10. f = [n \in 0 .. N |-> IF n = 0 THEN base
                             ELSE Generated(paramsVector[n], f[n - 1], found, usingType)]
  BY <1>8, <1>9
<1>. QED  BY <1>10 DEF AreStages, N, base

LEMMA GeneratedForType ==
  ASSUME NEW found, IsReplacements(found), IsMatrix(found), NEW usingType,
         NEW keys, NEW paramsVector \in Seq([keys -> Values])
  PROVE  IsGeneration(GeneratedFor(paramsVector, found, usingType), paramsVector, found)
<1>. DEFINE N == Len(paramsVector)
            done == CHOOSE d : AreStages(d, paramsVector, found, usingType)
            base == [searched |-> <<>>, generated |-> <<>>]
            T == {n \in Nat : n <= N => IsGeneration(done[n], paramsVector, found)}
<1>1. AreStages(done, paramsVector, found, usingType)
  BY StagesExist
<1>2. GeneratedFor(paramsVector, found, usingType) = done[N]
  BY DEF GeneratedFor, AreStages
<1>. HIDE DEF done
<1>3. N \in Nat /\ DOMAIN paramsVector = 1 .. N
  BY LenProperties
<1>4. \A n \in 0 .. N : done[n] = IF n = 0 THEN base
                                  ELSE Generated(paramsVector[n], done[n - 1], found, usingType)
  <2>1. done = [n \in 0 .. N |-> IF n = 0 THEN base
                                 ELSE Generated(paramsVector[n], done[n - 1], found, usingType)]
    BY <1>1 DEF AreStages
  <2>. HIDE DEF N, base
  <2>. QED  BY <2>1
<1>5. 0 \in T
  <2>1. done[0] = base
    BY <1>3, <1>4
  <2>2. /\ base.searched = <<>> /\ base.generated = <<>>
        /\ base = [searched |-> base.searched, generated |-> base.generated]
    OBVIOUS
  <2>. HIDE DEF base
  <2>3. Len(base.generated) = 0 /\ 1 .. 0 = {}
    BY <2>2
  <2>4. IsGeneration(base, paramsVector, found)
    BY <2>2, <2>3, EmptySeq DEF IsGeneration
  <2>. QED  BY <2>1, <2>4
<1>6. ASSUME NEW n \in Nat, n \in T
      PROVE  n + 1 \in T
  <2>1. ASSUME n + 1 <= N
        PROVE  IsGeneration(done[n + 1], paramsVector, found)
    <3>1. IsGeneration(done[n], paramsVector, found) /\ n + 1 \in DOMAIN paramsVector
      BY <1>3, <1>6, <2>1
    <3>2. done[n + 1] = Generated(paramsVector[n + 1], done[n], found, usingType)
      <4>1. n + 1 \in 0 .. N /\ n + 1 # 0 /\ (n + 1) - 1 = n
        BY <1>3, <2>1
      <4>. QED  BY <1>4, <4>1
    <3>3. paramsVector[n + 1] \in Range(paramsVector)
      BY <3>1 DEF Range
    <3>. QED  BY <3>1, <3>2, <3>3, GeneratedKeeps
  <2>. QED  BY <2>1
<1>. HIDE DEF T
<1>7. Nat \subseteq T
  BY <1>5, <1>6, Induction
<1>8. IsGeneration(done[N], paramsVector, found)
  BY <1>3, <1>7 DEF T
<1>. QED  BY <1>2, <1>8

LEMMA GenerateType ==
  ASSUME NEW found, IsReplacements(found), IsMatrix(found),
         NEW r, IsReplacements(r), NEW walk, IsWalk(walk), NEW usingType,
         ~GenerateThrows(found, r, usingType, walk)
  PROVE  LET evaluation == Generate(found, r, usingType, walk)
         IN  /\ evaluation.value \in BOOLEAN
             /\ Len(evaluation.generated) <= Len(Fresh) =>
                  IsReplacements(evaluation.replacements) /\ IsMatrix(evaluation.replacements)
             /\ evaluation.value => Range(evaluation.generated) # {}
             /\ \A c \in Range(evaluation.generated) : DOMAIN c \subseteq Variables
             /\ DOMAIN r = {} => ~evaluation.value /\ DOMAIN evaluation.replacements = {}
             /\ IsMatrix(r) =>
                  \A c \in Range(evaluation.generated) :
                    \E d \in Columns(r) : Compatible(WithoutEdges(c), d)
<1>. DEFINE evaluation == Generate(found, r, usingType, walk)
            old == ExistingRows(found, usingType)
            left == SubtractReplacements(r, old, walk)
            params == Params(WithoutEdges(left), walk)
            done == GeneratedFor(params, found, usingType)
            keys == DOMAIN found
            searched == Rows(done.searched, keys)
            new == Rows(done.generated, keys)
            both == UniteReplacements(searched, old, walk)
            all == UniteReplacements(both, new, walk)
            m == Len(done.generated)
<1>1. CASE ColumnsAmount(r, walk) = 0
  <2>1. evaluation = [value |-> FALSE, replacements |-> NoReplacements, generated |-> <<>>]
    BY <1>1 DEF Generate
  <2>2. Range(evaluation.generated) = {}
    BY <2>1 DEF Range
  <2>3. IsReplacements(NoReplacements) /\ DOMAIN NoReplacements = {} /\ IsMatrix(NoReplacements)
    BY DEF NoReplacements, IsReplacements, IsMatrix
  <2>. HIDE DEF evaluation
  <2>. QED  BY <2>1, <2>2, <2>3 DEF evaluation
<1>2. CASE ColumnsAmount(r, walk) # 0
  <2>1. evaluation = [value |-> done.generated # <<>>, replacements |-> all,
                      generated |-> done.generated]
    BY <1>2 DEF Generate
  <2>2. ColumnsAmount(r, walk) > 0 /\ DOMAIN r # {}
    <3>1. ColumnsAmount(r, walk) \in Nat /\ (DOMAIN r = {} => ColumnsAmount(r, walk) = 0)
      BY AmountType
    <3>. QED  BY <1>2, <3>1
  <2>3. ~SubtractThrows(r, old, walk) /\ ~OutOfRange(WithoutEdges(left), walk)
    BY <2>2 DEF GenerateThrows, FindThrows
  <2>. HIDE DEF evaluation
  <2>4. IsReplacements(old) /\ IsMatrix(old) /\ DOMAIN old \in {{}, keys}
    BY ExistingRowsType
  <2>. HIDE DEF old
  <2>5. IsReplacements(left)
    BY <2>3, <2>4, SubtractReplacementsType
  <2>6. IsMatrix(r) => IsMatrix(left) /\ Columns(left) \subseteq Columns(r)
    <3>1. ASSUME IsMatrix(r)
          PROVE  IsMatrix(left) /\ Columns(left) \subseteq Columns(r)
      <4>1. /\ IsReplacements(left) /\ IsMatrix(left)
            /\ Columns(left) = DifferenceOf(Columns(r), Columns(old), CommonKeys(r, old))
        BY <2>4, <3>1, SubtractReplacementsIsDifference
      <4>. QED  BY <4>1 DEF DifferenceOf
    <3>. QED  BY <3>1
  <2>. HIDE DEF left
  <2>. DEFINE plain == WithoutEdges(left)
              P == [DOMAIN plain -> Values]
  <2>7. IsReplacements(plain)
    BY <2>5, WithoutEdgesType
  <2>. HIDE DEF plain
  <2>8. params \in Seq(P)
    BY <2>3, <2>7, ParamsType DEF plain
  <2>. HIDE DEF params
  <2>9. IsGeneration(done, params, found)
    BY <2>8, GeneratedForType
  <2>. HIDE DEF done
  <2>10. /\ done.searched \in Seq(InstancesUpto(found, m))
         /\ done.generated \in Seq(InstancesUpto(found, m))
         /\ \A i \in 1 .. m : \E p \in Range(params) : Compatible(done.generated[i], p)
    BY <2>9 DEF IsGeneration
  <2>11. m \in Nat /\ DOMAIN done.generated = 1 .. m
    BY <2>10, LenProperties
  <2>12. keys \in SUBSET Variables
    BY DEF IsReplacements
  <2>13. ASSUME m <= Len(Fresh)
         PROVE  IsReplacements(all) /\ IsMatrix(all)
    <3>1. done.searched \in Seq([keys -> Values]) /\ done.generated \in Seq([keys -> Values])
      BY <2>10, <2>11, <2>13, InstancesUptoMore
    <3>. HIDE DEF keys, m
    <3>2. /\ IsReplacements(searched) /\ IsMatrix(searched) /\ DOMAIN searched \in {{}, keys}
          /\ IsReplacements(new) /\ IsMatrix(new) /\ DOMAIN new \in {{}, keys}
      BY <2>12, <3>1, RowsType
    <3>. HIDE DEF searched, new
    <3>3. IsReplacements(both) /\ IsMatrix(both) /\ DOMAIN both \in {{}, keys}
      <4>1. /\ IsReplacements(both) /\ IsMatrix(both)
            /\ DOMAIN both \in {{}, DOMAIN searched, DOMAIN old}
        BY <2>4, <3>2, UniteSameKeys DEF keys
      <4>. QED  BY <2>4, <3>2, <4>1 DEF keys
    <3>. HIDE DEF both
    <3>. QED  BY <3>2, <3>3, UniteSameKeys
  <2>14. ASSUME NEW c \in Range(done.generated)
         PROVE  /\ DOMAIN c = keys
                /\ IsMatrix(r) => \E d \in Columns(r) : Compatible(WithoutEdges(c), d)
    <3>1. PICK i \in 1 .. m : c = done.generated[i]
      BY <2>11 DEF Range
    <3>2. c \in InstancesUpto(found, m)
      BY <2>10, <3>1, ElementOfSeq
    <3>3. DOMAIN c = keys
      BY <3>2 DEF InstancesUpto
    <3>4. ASSUME IsMatrix(r)
          PROVE  \E d \in Columns(r) : Compatible(WithoutEdges(c), d)
      <4>1. PICK p \in Range(params) : Compatible(c, p)
        BY <2>10, <3>1
      <4>2. PICK n \in DOMAIN params : p = params[n]
        BY DEF Range
      <4>3. /\ n \in 1 .. ColumnsAmount(plain, walk) /\ p = Column(plain, n)
        <5>1. Len(params) = ColumnsAmount(plain, walk)
              /\ \A j \in 1 .. ColumnsAmount(plain, walk) : params[j] = Column(plain, j)
          BY <2>3, <2>7, ParamsType DEF params, plain
        <5>2. DOMAIN params = 1 .. Len(params)
          BY <2>8, LenProperties
        <5>. QED  BY <4>2, <5>1, <5>2
      <4>4. DOMAIN plain # {}
        <5>1. ColumnsAmount(plain, walk) \in Nat
              /\ (DOMAIN plain = {} => ColumnsAmount(plain, walk) = 0)
          BY <2>7, AmountType
        <5>2. ASSUME NEW N1 \in Nat, n \in 1 .. N1
              PROVE  N1 # 0
          BY <5>2
        <5>. HIDE DEF params
        <5>. QED  BY <4>3, <5>1, <5>2
      <4>5. /\ DOMAIN plain = DOMAIN left \ EdgeVariables
            /\ \A key \in DOMAIN plain : plain[key] = left[key]
            /\ IsMatrix(plain)
        BY <2>5, <2>6, <3>4, WithoutEdgesType DEF plain
      <4>6. DOMAIN left # {} /\ IsMatrix(left) /\ Columns(left) \subseteq Columns(r)
        BY <2>6, <3>4, <4>4, <4>5
      <4>7. ColumnsAmount(left, walk) = ColumnsAmount(plain, walk)
        <5>1. HasColumns(left, ColumnsAmount(left, walk)) /\ HasColumns(plain, ColumnsAmount(plain, walk))
          BY <2>5, <2>7, <4>5, <4>6, AmountOfMatrix
        <5>2. PICK key \in DOMAIN plain : TRUE
          BY <4>4
        <5>3. key \in DOMAIN left /\ plain[key] = left[key]
          BY <4>5, <5>2
        <5>. QED  BY <5>1, <5>2, <5>3 DEF HasColumns
      <4>8. Column(left, n) \in Columns(r)
        <5>1. Columns(left) = {Column(left, j) : j \in 1 .. ColumnsAmount(left, walk)}
          BY <2>5, <4>6, AmountIsZero DEF ColumnNumbers
        <5>. QED  BY <4>3, <4>6, <4>7, <5>1
      <4>9. Compatible(WithoutEdges(c), Column(left, n))
        <5>1. /\ DOMAIN WithoutEdges(c) = DOMAIN c \ EdgeVariables
              /\ \A key \in DOMAIN WithoutEdges(c) : WithoutEdges(c)[key] = c[key]
          BY DEF WithoutEdges, Restrict
        <5>2. /\ DOMAIN Column(left, n) = DOMAIN left /\ DOMAIN p = DOMAIN plain
              /\ \A key \in DOMAIN plain : p[key] = plain[key][n]
              /\ \A key \in DOMAIN left : Column(left, n)[key] = left[key][n]
          BY <4>3 DEF Column
        <5>3. ASSUME NEW key \in DOMAIN WithoutEdges(c) \cap DOMAIN Column(left, n)
              PROVE  WithoutEdges(c)[key] = Column(left, n)[key]
          <6>1. key \in DOMAIN c /\ key \in DOMAIN plain /\ key \in DOMAIN left /\ key \in DOMAIN p
            BY <4>5, <5>1, <5>2
          <6>2. c[key] = p[key]
            BY <4>1, <6>1 DEF Compatible
          <6>3. WithoutEdges(c)[key] = c[key] /\ p[key] = plain[key][n] /\ plain[key] = left[key]
                /\ Column(left, n)[key] = left[key][n]
            BY <4>5, <5>1, <5>2, <5>3, <6>1
          <6>. QED  BY <6>2, <6>3
        <5>. QED  BY <5>3 DEF Compatible
      <4>. QED  BY <4>8, <4>9
    <3>. QED  BY <3>3, <3>4
  <2>15. done.generated # <<>> => Range(done.generated) # {}
    <3>1. done.generated # <<>> => 1 \in DOMAIN done.generated
      BY <2>10, <2>11, EmptySeq
    <3>. QED  BY <3>1 DEF Range
  <2>. HIDE DEF all
  <2>16. /\ evaluation.value = (done.generated # <<>>)
         /\ evaluation.replacements = all
         /\ evaluation.generated = done.generated
    BY <2>1
  <2>17. \A c \in Range(done.generated) : DOMAIN c \subseteq Variables
    BY <2>12, <2>14
  <2>. QED  BY <2>2, <2>13, <2>14, <2>15, <2>16, <2>17 DEF evaluation
<1>. QED  BY <1>1, <1>2

-----------------------------------------------------------------------------
(* Types.                                                                  *)

(* The operands that the tree gives a premise of the class.                *)
OperandsOfClass(class, ops) ==
  /\ class \in Connectives
  /\ AreOperands(ops)
  /\ Len(ops) >= 1
  /\ class \in Equivalences => Len(ops) = 2
  /\ class \in {"NEGATION", "ATOMIC"} => Len(ops) = 1
  /\ class = "ATOMIC" => (ops[1].value <=> DOMAIN ops[1].replacements # {})

(* Before they are there nothing is computed.                              *)
OperandsInv ==
  \/ connective # "NONE" /\ OperandsOfClass(connective, operands)
  \/ connective = "NONE" /\ operands = <<>> /\ pc \in {"build", "thrown"}

LEMMA TreeOfPremise ==
  ASSUME TreeInv, pc = "build", toBuild = <<>>
  PROVE  /\ \A f \in Subformulas(input.formula) : IsWellFormed(f)
         /\ Premise \in Subformulas(input.formula)
         /\ TypeOfFormula(Premise) \in Connectives
<1>. DEFINE f == input.formula
<1>1. Range(toBuild) = {}
  BY DEF Range
<1>2. \A g \in Subformulas(f) : IsWellFormed(g)
  BY <1>1 DEF TreeInv, BuildInv
<1>3. input \in Inputs
  BY DEF TreeInv
<1>4. f \in Subformulas(f)
  BY SubformulasSelf
<1>5. TypeOfFormula(f) \in Implications
  <2>1. TypeOfFormula(f) \in {"NONE"} \cup Implications
    BY <1>3, InputsAssumption
  <2>2. TypeOfFormula(f) # "NONE"
    BY <1>2, <1>4, <2>1 DEF IsWellFormed, Implications
  <2>. QED  BY <2>1, <2>2
<1>6. Len(OperandsOf(f)) = 2 /\ PartsOf(f) = OperandsOf(f)
  <2>1. AmountFits(f)
    BY <1>2, <1>4, <1>5 DEF IsWellFormed, Implications
  <2>. QED  BY <1>5, <2>1 DEF AmountFits, PartsOf, Implications
<1>7. Premise \in Subformulas(f)
  <2>1. OperandsOf(f) \in Seq(Subformulas(f))
    BY <1>3, <1>4, <1>6, SubformulasOfInput
  <2>. QED  BY <1>6, <2>1, ElementOfSeq DEF Premise
<1>8. TypeOfFormula(Premise) \in Connectives
  <2>1. TypeOfFormula(Premise) \in {"NONE"} \cup Connectives
    BY <1>2, <1>3, <1>4, InputsAssumption DEF Premise
  <2>2. TypeOfFormula(Premise) # "NONE"
    BY <1>2, <1>7 DEF IsWellFormed
  <2>. QED  BY <2>1, <2>2
<1>. QED  BY <1>2, <1>7, <1>8

LEMMA ComputeTreeOperands ==
  ASSUME TreeInv, ComputeTree
  PROVE  OperandsOfClass(connective', operands') /\ connective' # "NONE"
<1>1. /\ pc = "build" /\ toBuild = <<>>
      /\ connective' = TypeOfFormula(Premise)
      /\ operands' = IF connective' \in {"ATOMIC", "NEGATION"}
                       THEN <<Operand(Premise, "compute")>>
                       ELSE EvaluationOrder(Premise)
  BY DEF ComputeTree
<1>2. /\ \A f \in Subformulas(input.formula) : IsWellFormed(f)
      /\ Premise \in Subformulas(input.formula)
      /\ connective' \in Connectives
      /\ input \in Inputs
  BY <1>1, TreeOfPremise DEF TreeInv
<1>. DEFINE p == Premise
            ops == operands'
            class == connective'
<1>3. p \in Subformulas(input.formula) /\ class = TypeOfFormula(p) /\ class \in Connectives
  BY <1>1, <1>2
<1>4. CASE class \in {"ATOMIC", "NEGATION"}
  <2>. DEFINE o == Operand(p, "compute")
  <2>1. /\ IsOperand(o)
        /\ class = "ATOMIC" => (o.value <=> DOMAIN o.replacements # {})
    <3>1. "compute" \in Kinds
      BY DEF Kinds
    <3>. QED  BY <1>2, <1>3, <3>1, OperandType
  <2>. HIDE DEF o
  <2>2. ops = <<o>>
    BY <1>1, <1>4 DEF o
  <2>3. Len(ops) = 1 /\ DOMAIN ops = 1 .. Len(ops) /\ ops[1] = o
    BY <2>2
  <2>. HIDE DEF ops, class, p
  <2>4. AreOperands(ops)
    BY <2>1, <2>3 DEF AreOperands
  <2>5. class \notin Equivalences
    BY <1>4 DEF Equivalences
  <2>6. OperandsOfClass(class, ops)
    BY <1>3, <1>4, <2>1, <2>3, <2>4, <2>5 DEF OperandsOfClass
  <2>. QED  BY <1>4, <2>6 DEF ops, class
<1>5. CASE class \notin {"ATOMIC", "NEGATION"}
  <2>1. ops = EvaluationOrder(p)
    BY <1>1, <1>5
  <2>2. /\ AreOperands(ops) /\ Len(ops) = Len(OperandsOf(p)) /\ Len(OperandsOf(p)) \in Nat
    BY <1>2, <1>3, <1>5, <2>1, EvaluationOrderType
  <2>3. AmountFits(p)
    BY <1>2, <1>3, <1>5 DEF IsWellFormed
  <2>. HIDE DEF ops, p
  <2>4. /\ class \in {"CONJUNCTION", "DISJUNCTION"} => Len(ops) > 0
        /\ class \in Equivalences => Len(ops) = 2
    BY <1>3, <2>2, <2>3 DEF AmountFits, Equivalences
  <2>5. class \in {"CONJUNCTION", "DISJUNCTION"} \cup Equivalences
    BY <1>3, <1>5 DEF Connectives
  <2>. HIDE DEF class
  <2>6. OperandsOfClass(class, ops)
    BY <1>3, <1>5, <2>2, <2>4, <2>5 DEF OperandsOfClass
  <2>7. class # "NONE"
    BY <2>5 DEF Equivalences
  <2>. QED  BY <2>6, <2>7 DEF ops, class
<1>. QED  BY <1>4, <1>5

(* An operand is evaluated or folded.                                      *)
FoldInv ==
  pc = "fold" =>
    /\ next \in 1 .. Len(operands)
    /\ connective \in {"CONJUNCTION", "DISJUNCTION"} \cup Equivalences

TypeInv == TreeInv /\ OperandsInv /\ TypeOK /\ FoldInv

LEMMA OperandsAre ==
  ASSUME TypeInv, pc \in {"premise", "fold", "conclusion", "generate", "done"}
  PROVE  /\ OperandsOfClass(connective, operands)
         /\ AreOperands(operands)
         /\ Len(operands) \in Nat /\ DOMAIN operands = 1 .. Len(operands) /\ Len(operands) >= 1
         /\ IsReplacements(Known)
<1>1. OperandsOfClass(connective, operands)
  BY DEF TypeInv, OperandsInv
<1>2. AreOperands(operands) /\ Len(operands) >= 1
  BY <1>1 DEF OperandsOfClass
<1>3. Len(operands) \in Nat /\ DOMAIN operands = 1 .. Len(operands)
  BY <1>2 DEF AreOperands
<1>4. IsReplacements(operands[1].replacements)
  BY <1>2, <1>3 DEF AreOperands, IsOperand
<1>5. IsReplacements(result.replacements)
  BY DEF TypeInv, TypeOK, IsResult
<1>. QED  BY <1>1, <1>2, <1>3, <1>4, <1>5 DEF Known

LEMMA EvaluationType ==
  ASSUME NEW o, IsOperand(o), IsReplacements(Known),
         NEW walk, IsWalk(walk), ~EvaluationThrows(o, walk)
  PROVE  LET evaluation == Evaluation(o, walk)
         IN  /\ evaluation.value \in BOOLEAN
             /\ Len(evaluation.generated) <= Len(Fresh) => IsReplacements(evaluation.replacements)
             /\ \A c \in Range(evaluation.generated) : DOMAIN c \subseteq Variables
             /\ o.kind # "generate" => Range(evaluation.generated) = {}
             /\ o.kind = "compute" => /\ evaluation.value = o.value
                                      /\ evaluation.replacements = o.replacements
             /\ o.kind # "compute" /\ DOMAIN Known = {} =>
                  ~evaluation.value /\ DOMAIN evaluation.replacements = {}
             /\ o.kind = "find" =>
                  (evaluation.value <=> DOMAIN evaluation.replacements # {})
             /\ o.kind = "generate" =>
                  /\ evaluation.value => Range(evaluation.generated) # {}
                  /\ Len(evaluation.generated) <= Len(Fresh) => IsMatrix(evaluation.replacements)
             /\ IsMatrix(Known) =>
                  \A c \in Range(evaluation.generated) :
                    \E d \in Columns(Known) : Compatible(WithoutEdges(c), d)
<1>. DEFINE evaluation == Evaluation(o, walk)
            found == o.replacements
            usingType == input.usingType
            r == Known
<1>1. /\ o.kind \in Kinds /\ o.value \in BOOLEAN /\ IsReplacements(found)
      /\ o.kind # "compute" => IsMatrix(found)
  BY DEF IsOperand
<1>2. IsReplacements(r)
  OBVIOUS
<1>3. CASE o.kind = "compute"
  <2>1. evaluation = [value |-> o.value, replacements |-> o.replacements, generated |-> <<>>]
    BY <1>3 DEF Evaluation
  <2>2. Range(evaluation.generated) = {}
    BY <2>1 DEF Range
  <2>. HIDE DEF evaluation
  <2>. QED  BY <1>1, <1>3, <2>1, <2>2 DEF evaluation
<1>4. CASE o.kind = "find"
  <2>1. evaluation = Find(found, r, usingType, walk)
    BY <1>4 DEF Evaluation
  <2>2. ~FindThrows(r, walk)
    BY <1>4 DEF EvaluationThrows
  <2>. HIDE DEF found, r, usingType
  <2>3. /\ evaluation.value \in BOOLEAN
        /\ evaluation.value <=> DOMAIN evaluation.replacements # {}
        /\ IsReplacements(evaluation.replacements)
        /\ evaluation.generated = <<>>
        /\ DOMAIN r = {} => ~evaluation.value
    BY <1>1, <1>2, <1>4, <2>1, <2>2, FindType
  <2>. HIDE DEF evaluation
  <2>4. Range(evaluation.generated) = {}
    BY <2>3 DEF Range
  <2>. QED  BY <1>4, <2>3, <2>4 DEF evaluation, r
<1>5. CASE o.kind = "generate"
  <2>1. evaluation = Generate(found, r, usingType, walk)
    BY <1>5 DEF Evaluation
  <2>2. ~GenerateThrows(found, r, usingType, walk)
    BY <1>5 DEF EvaluationThrows
  <2>. HIDE DEF found, r, usingType
  <2>3. /\ evaluation.value \in BOOLEAN
        /\ Len(evaluation.generated) <= Len(Fresh) =>
             IsReplacements(evaluation.replacements) /\ IsMatrix(evaluation.replacements)
        /\ evaluation.value => Range(evaluation.generated) # {}
        /\ \A c \in Range(evaluation.generated) : DOMAIN c \subseteq Variables
        /\ DOMAIN r = {} => ~evaluation.value /\ DOMAIN evaluation.replacements = {}
        /\ IsMatrix(r) =>
             \A c \in Range(evaluation.generated) :
               \E d \in Columns(r) : Compatible(WithoutEdges(c), d)
    BY <1>1, <1>2, <1>5, <2>1, <2>2, GenerateType
  <2>. HIDE DEF evaluation
  <2>. QED  BY <1>5, <2>3 DEF evaluation, r
<1>. QED  BY <1>1, <1>3, <1>4, <1>5 DEF Kinds

LEMMA NotFoundType ==
  IsResult(NotFound) /\ DOMAIN NotFound.replacements = {} /\ ~NotFound.value
  /\ IsReplacements(NoReplacements)
<1>1. DOMAIN NoReplacements = {} /\ IsReplacements(NoReplacements)
  BY DEF NoReplacements, IsReplacements
<1>. QED  BY <1>1 DEF NotFound, IsResult

LEMMA TypeInvInit ==
  Init => TypeInv
<1>. SUFFICES ASSUME Init PROVE TypeInv
  OBVIOUS
<1>1. TreeInv
  BY TreeInvInit
<1>2. /\ pc = "build" /\ connective = "NONE" /\ operands = <<>> /\ next = 1
      /\ lastResult = NotFound /\ result = NotFound /\ generated = {}
      /\ existing = NoReplacements /\ notInKb = NoReplacements
  BY DEF Init
<1>3. DOMAIN operands = {} /\ Len(operands) = 0
  BY <1>2
<1>. QED  BY <1>1, <1>2, <1>3, NotFoundType DEF TypeInv, OperandsInv, FoldInv, TypeOK

(* The steps that compute the premise.                                     *)
LEMMA PremiseStepType ==
  ASSUME TypeInv, TreeInv', UNCHANGED afterPremise,
         pc \in {"premise", "fold", "conclusion"},
         pc' \in {"premise", "fold", "conclusion", "done", "thrown"},
         next' \in 1 .. Len(operands) + 1,
         IsResult(lastResult'), IsResult(result'),
         \A c \in generated' : DOMAIN c \subseteq Variables,
         pc' = "fold" => /\ next' \in 1 .. Len(operands)
                         /\ connective \in {"CONJUNCTION", "DISJUNCTION"} \cup Equivalences
  PROVE  TypeInv'
<1>1. /\ input' = input /\ toBuild' = toBuild /\ connective' = connective /\ operands' = operands
      /\ existing' = existing /\ notInKb' = notInKb
  BY DEF afterPremise
<1>2. OperandsInv'
  BY <1>1 DEF TypeInv, OperandsInv
<1>3. TypeOK'
  <2>1. TypeOK
    BY DEF TypeInv
  <2>. QED  BY <1>1, <2>1 DEF TypeOK
<1>4. FoldInv'
  BY <1>1 DEF FoldInv
<1>. QED  BY <1>2, <1>3, <1>4 DEF TypeInv

LEMMA ComputeTreeType ==
  ASSUME TypeInv, TreeInv', ComputeTree
  PROVE  TypeInv'
<1>1. /\ pc' = "premise" /\ next' = (IF connective' \in Equivalences THEN 2 ELSE 1)
      /\ lastResult' = lastResult /\ result' = result /\ generated' = generated
      /\ existing' = existing /\ notInKb' = notInKb
  BY DEF ComputeTree
<1>2. OperandsOfClass(connective', operands') /\ connective' # "NONE"
  BY ComputeTreeOperands DEF TypeInv
<1>3. AreOperands(operands') /\ Len(operands') >= 1 /\ connective' \in Connectives
      /\ (connective' \in Equivalences => Len(operands') = 2)
  BY <1>2 DEF OperandsOfClass
<1>4. /\ Len(operands') \in Nat /\ DOMAIN operands' = 1 .. Len(operands')
      /\ \A n \in DOMAIN operands' :
           /\ operands'[n].kind \in {"compute", "find", "generate"}
           /\ operands'[n].value \in BOOLEAN
           /\ IsReplacements(operands'[n].replacements)
  BY <1>3 DEF AreOperands, IsOperand, Kinds
<1>5. next' \in 1 .. Len(operands') + 1
  BY <1>1, <1>3, <1>4
<1>6. TypeOK
  BY DEF TypeInv
<1>7. TypeOK'
  BY <1>1, <1>3, <1>4, <1>5, <1>6 DEF TypeOK
<1>8. OperandsInv'
  BY <1>2 DEF OperandsInv
<1>9. FoldInv'
  BY <1>1 DEF FoldInv
<1>. QED  BY <1>7, <1>8, <1>9 DEF TypeInv

LEMMA TypeInvNext ==
  TypeInv /\ [Next]_vars => TypeInv'
<1>. SUFFICES ASSUME TypeInv, [Next]_vars PROVE TypeInv'
  OBVIOUS
<1>1. TreeInv'
  BY TreeInvNext DEF TypeInv
<1>2. TypeOK
  BY DEF TypeInv
<1>. DEFINE L == Len(operands)
<1>3. /\ pc \in {"build", "premise", "fold", "conclusion", "generate", "done", "thrown"}
      /\ next \in 1 .. L + 1 /\ IsResult(lastResult) /\ IsResult(result)
      /\ \A c \in generated : DOMAIN c \subseteq Variables
  BY <1>2 DEF TypeOK
<1>4. pc \in {"premise", "fold", "conclusion"} =>
        /\ OperandsOfClass(connective, operands) /\ connective \in Connectives
        /\ L \in Nat /\ DOMAIN operands = 1 .. L /\ L >= 1
        /\ IsReplacements(Known)
        /\ \A n \in 1 .. L : IsOperand(operands[n])
  BY OperandsAre DEF OperandsOfClass, AreOperands
<1>5. pc = "fold" => next \in 1 .. L /\ connective \in {"CONJUNCTION", "DISJUNCTION"} \cup Equivalences
  BY DEF TypeInv, FoldInv
<1>6. /\ result.value \in BOOLEAN /\ IsReplacements(result.replacements)
      /\ lastResult.value \in BOOLEAN /\ IsReplacements(lastResult.replacements)
  BY <1>3 DEF IsResult
<1>. HIDE DEF L
<1>7. CASE UNCHANGED vars
  <2>1. /\ pc' = pc /\ connective' = connective /\ operands' = operands /\ next' = next
        /\ lastResult' = lastResult /\ result' = result /\ generated' = generated
        /\ existing' = existing /\ notInKb' = notInKb
    BY <1>7 DEF vars
  <2>2. TypeOK' /\ OperandsInv' /\ FoldInv'
    BY <1>2, <2>1 DEF TypeInv, TypeOK, OperandsInv, FoldInv
  <2>. QED  BY <1>1, <2>2 DEF TypeInv
<1>8. CASE Build \/ BuildThrows
  <2>1. /\ pc = "build" /\ pc' \in {"build", "thrown"}
        /\ connective' = connective /\ operands' = operands /\ next' = next
        /\ lastResult' = lastResult /\ result' = result /\ generated' = generated
        /\ existing' = existing /\ notInKb' = notInKb
    BY <1>8 DEF Build, BuildThrows
  <2>2. TypeOK' /\ OperandsInv' /\ FoldInv'
    BY <1>2, <2>1 DEF TypeInv, TypeOK, OperandsInv, FoldInv
  <2>. QED  BY <1>1, <2>2 DEF TypeInv
<1>9. CASE ComputeTree
  BY <1>1, <1>9, ComputeTreeType
<1>10. CASE EvaluateOperand
  <2>. DEFINE o == operands[next]
  <2>1. PICK walk \in WalkSet :
          /\ ~EvaluationThrows(o, walk)
          /\ Len(Evaluation(o, walk).generated) <= Len(Fresh)
          /\ lastResult' = [value |-> Evaluation(o, walk).value,
                            replacements |-> Evaluation(o, walk).replacements]
          /\ generated' = generated \cup Range(Evaluation(o, walk).generated)
    BY <1>10 DEF EvaluateOperand
  <2>2. /\ AtOperand /\ pc' = "fold" /\ next' = next /\ result' = result /\ UNCHANGED afterPremise
    BY <1>10 DEF EvaluateOperand
  <2>3. pc = "premise" /\ next \in 1 .. L /\ connective \notin {"NEGATION", "ATOMIC"}
    BY <1>3, <1>4, <2>2 DEF AtOperand, L
  <2>4. connective \in {"CONJUNCTION", "DISJUNCTION"} \cup Equivalences
    BY <1>4, <2>3 DEF Connectives
  <2>5. IsOperand(o) /\ IsReplacements(Known) /\ IsWalk(walk)
    BY <1>4, <2>3, WalkSetAssumption
  <2>. DEFINE e == Evaluation(o, walk)
  <2>. HIDE DEF o
  <2>6. /\ e.value \in BOOLEAN
        /\ Len(e.generated) <= Len(Fresh) => IsReplacements(e.replacements)
        /\ \A c \in Range(e.generated) : DOMAIN c \subseteq Variables
    BY <2>1, <2>5, EvaluationType
  <2>. HIDE DEF e
  <2>7. IsResult(lastResult')
    BY <2>1, <2>6 DEF IsResult, e
  <2>8. \A c \in generated' : DOMAIN c \subseteq Variables
    BY <1>3, <2>1, <2>6 DEF e
  <2>. QED  BY <1>1, <1>3, <2>2, <2>3, <2>4, <2>7, <2>8, PremiseStepType DEF L
<1>11. CASE EvaluateThrows \/ FoldThrows \/ PremiseComputed \/ ConclusionNotGenerated
  <2>1. /\ pc \in {"premise", "fold", "conclusion"} /\ pc' \in {"conclusion", "done", "thrown"}
        /\ next' = next /\ lastResult' = lastResult /\ result' = result /\ generated' = generated
        /\ UNCHANGED afterPremise
    BY <1>11 DEF EvaluateThrows, AtOperand, FoldThrows, PremiseComputed, ConclusionNotGenerated
  <2>. QED  BY <1>1, <1>3, <2>1, PremiseStepType DEF L
<1>12. CASE OperandIsFalse \/ DisjunctionFails
  <2>1. /\ pc \in {"premise", "fold"} /\ pc' = "conclusion" /\ result' = NotFound
        /\ next' = next /\ lastResult' = lastResult /\ generated' = generated
        /\ UNCHANGED afterPremise
    BY <1>12 DEF OperandIsFalse, DisjunctionFails, Folding, ConjunctionFails
  <2>. QED  BY <1>1, <1>3, <2>1, NotFoundType, PremiseStepType DEF L
<1>13. ASSUME pc = "fold", NEW r, IsResult(r), Folded(r)
       PROVE  TypeInv'
  <2>1. /\ pc' = "premise" /\ result' = r /\ next' = next + 1 /\ lastResult' = lastResult
        /\ generated' = generated /\ UNCHANGED afterPremise
    BY <1>13 DEF Folded
  <2>2. next' \in 1 .. L + 1
    BY <1>4, <1>5, <1>13, <2>1
  <2>. QED  BY <1>1, <1>3, <1>13, <2>1, <2>2, PremiseStepType DEF L
<1>14. CASE FirstOperand
  BY <1>3, <1>13, <1>14 DEF FirstOperand, Folding
<1>15. CASE NextOperand
  <2>1. PICK walk \in WalkSet :
          /\ IntersectsWithLast(walk)
          /\ LET replacements == IntersectReplacements(Known, lastResult.replacements, walk)
             IN  IF DOMAIN replacements = {}
                   THEN ConjunctionFails
                   ELSE Folded([result EXCEPT !.replacements = replacements])
    BY <1>15 DEF NextOperand
  <2>2. pc = "fold"
    BY <1>15 DEF NextOperand, Folding
  <2>. DEFINE both == IntersectReplacements(Known, lastResult.replacements, walk)
  <2>3. IsReplacements(both)
    BY <1>4, <1>6, <2>1, <2>2, WalkSetAssumption, IntersectReplacementsType DEF IntersectsWithLast
  <2>. HIDE DEF both
  <2>4. CASE ConjunctionFails
    <3>1. /\ pc' = "conclusion" /\ result' = NotFound
          /\ next' = next /\ lastResult' = lastResult /\ generated' = generated
          /\ UNCHANGED afterPremise
      BY <2>4 DEF ConjunctionFails
    <3>. QED  BY <1>1, <1>3, <2>2, <3>1, NotFoundType, PremiseStepType DEF L
  <2>5. CASE Folded([result EXCEPT !.replacements = both])
    <3>1. IsResult([result EXCEPT !.replacements = both])
      BY <1>3, <2>3 DEF IsResult
    <3>. QED  BY <1>13, <2>2, <2>5, <3>1
  <2>. QED  BY <2>1, <2>4, <2>5 DEF both
<1>16. CASE Disjunct
  <2>1. PICK walk \in WalkSet :
          /\ ~UniteThrows(Known, lastResult.replacements, walk)
          /\ Folded([value |-> result.value \/ lastResult.value,
                     replacements |-> UniteReplacements(Known, lastResult.replacements, walk)])
    BY <1>16 DEF Disjunct
  <2>2. pc = "fold"
    BY <1>16 DEF Disjunct, Folding
  <2>. DEFINE united == UniteReplacements(Known, lastResult.replacements, walk)
              r == [value |-> result.value \/ lastResult.value, replacements |-> united]
  <2>3. IsReplacements(united)
    BY <1>4, <1>6, <2>1, <2>2, WalkSetAssumption, UniteReplacementsType
  <2>. HIDE DEF united
  <2>4. IsResult(r)
    BY <1>6, <2>3 DEF IsResult
  <2>5. Folded(r)
    BY <2>1 DEF united
  <2>. HIDE DEF r
  <2>. QED  BY <1>13, <2>2, <2>4, <2>5
<1>17. CASE Equivalence
  <2>1. PICK walk \in WalkSet :
          /\ IntersectsWithLast(walk)
          /\ Folded([value |-> TRUE,
                     replacements |-> IntersectReplacements(Known, lastResult.replacements, walk)])
    BY <1>17 DEF Equivalence
  <2>2. pc = "fold"
    BY <1>17 DEF Equivalence, Folding
  <2>. DEFINE both == IntersectReplacements(Known, lastResult.replacements, walk)
              r == [value |-> TRUE, replacements |-> both]
  <2>3. IsReplacements(both)
    BY <1>4, <1>6, <2>1, <2>2, WalkSetAssumption, IntersectReplacementsType DEF IntersectsWithLast
  <2>. HIDE DEF both
  <2>4. IsResult(r)
    BY <2>3 DEF IsResult
  <2>5. Folded(r)
    BY <2>1 DEF both
  <2>. HIDE DEF r
  <2>. QED  BY <1>13, <2>2, <2>4, <2>5
<1>18. CASE NoEquivalence
  BY <1>13, <1>18, NotFoundType DEF NoEquivalence, Folding
<1>19. CASE OnlyOperand
  <2>1. /\ pc = "premise" /\ pc' = "conclusion" /\ next' = 2
        /\ result' = [value |-> operands[1].value, replacements |-> operands[1].replacements]
        /\ lastResult' = lastResult /\ generated' = generated /\ UNCHANGED afterPremise
    BY <1>19 DEF OnlyOperand
  <2>2. IsOperand(operands[1]) /\ next' \in 1 .. L + 1
    BY <1>4, <2>1
  <2>3. IsResult(result')
    BY <2>1, <2>2 DEF IsResult, IsOperand
  <2>. QED  BY <1>1, <1>3, <2>1, <2>2, <2>3, PremiseStepType DEF L
<1>20. CASE SubtractExisting
  <2>1. /\ pc = "conclusion" /\ existing' \in Existing
        /\ connective' = connective /\ operands' = operands /\ next' = next
        /\ lastResult' = lastResult /\ result' = result /\ generated' = generated
    BY <1>20 DEF SubtractExisting
  <2>2. PICK walk \in WalkSet :
          IF SubtractThrows(result.replacements, existing', walk)
            THEN pc' = "thrown" /\ UNCHANGED notInKb
            ELSE /\ notInKb' = SubtractReplacements(result.replacements, existing', walk)
                 /\ pc' = "generate"
    BY <1>20 DEF SubtractExisting
  <2>3. IsReplacements(existing')
    BY <2>1, ExistingAssumption
  <2>4. pc' \in {"generate", "thrown"} /\ IsReplacements(notInKb')
    <3>1. CASE SubtractThrows(result.replacements, existing', walk)
      BY <1>2, <2>2, <3>1 DEF TypeOK
    <3>2. CASE ~SubtractThrows(result.replacements, existing', walk)
      BY <1>6, <2>2, <2>3, <3>2, WalkSetAssumption, SubtractReplacementsType
    <3>. QED  BY <3>1, <3>2
  <2>5. TypeOK' /\ OperandsInv' /\ FoldInv'
    BY <1>2, <2>1, <2>3, <2>4 DEF TypeInv, TypeOK, OperandsInv, FoldInv
  <2>. QED  BY <1>1, <2>5 DEF TypeInv
<1>21. CASE Evaluated
  BY <1>7, <1>21 DEF Evaluated
<1>. QED  BY <1>7, <1>8, <1>9, <1>10, <1>11, <1>12, <1>14, <1>15, <1>16, <1>17, <1>18, <1>19,
             <1>20, <1>21 DEF Next

(* The results of operands and of the premise are replacements of the      *)
(* formula's variables, whatever orders the hash containers of             *)
(* ReplacementsUtils are iterated in: no operation that does not throw     *)
(* copies a value from beyond the end of a vector.                         *)
THEOREM TypeOKHolds == Spec => []TypeOK
<1>1. TypeInv => TypeOK
  BY DEF TypeInv
<1>. QED  BY <1>1, TypeInvInit, TypeInvNext, PTL DEF Spec

LEMMA NotInKbNext ==
  TypeInv /\ NotInKbIsExact /\ [Next]_vars => NotInKbIsExact'
<1>. SUFFICES ASSUME TypeInv, NotInKbIsExact, [Next]_vars PROVE NotInKbIsExact'
  OBVIOUS
<1>1. CASE UNCHANGED vars \/ Evaluated
  <2>1. pc' = pc /\ result' = result /\ existing' = existing /\ notInKb' = notInKb
    BY <1>1 DEF vars, Evaluated
  <2>. QED  BY <2>1 DEF NotInKbIsExact
<1>2. CASE SubtractExisting
  <2>. DEFINE r == result.replacements
              old == existing'
              left == notInKb'
              common == DOMAIN r \cap DOMAIN old
  <2>1. SUFFICES ASSUME pc' = "generate", IsMatrix(r)
                 PROVE  Columns(left) = DifferenceOf(Columns(r), Columns(old), common)
    <3>1. result' = result
      BY <1>2 DEF SubtractExisting
    <3>. QED  BY <2>1, <3>1 DEF NotInKbIsExact, DifferenceOf
  <2>2. PICK walk \in WalkSet : left = SubtractReplacements(r, old, walk)
    BY <1>2, <2>1 DEF SubtractExisting
  <2>3. IsReplacements(old) /\ IsMatrix(old)
    BY <1>2, ExistingAssumption DEF SubtractExisting
  <2>4. IsReplacements(r) /\ IsWalk(walk)
    BY WalkSetAssumption DEF TypeInv, TypeOK, IsResult
  <2>5. common = CommonKeys(r, old)
    BY DEF CommonKeys
  <2>. HIDE DEF r, old, left, common
  <2>6. LET taken == SubtractReplacements(r, old, walk)
        IN  /\ IsReplacements(taken) /\ IsMatrix(taken)
            /\ Columns(taken) = DifferenceOf(Columns(r), Columns(old), CommonKeys(r, old))
    BY <2>1, <2>3, <2>4, SubtractReplacementsIsDifference
  <2>. QED  BY <2>2, <2>5, <2>6
<1>3. CASE ~(UNCHANGED vars) /\ ~Evaluated /\ ~SubtractExisting
  <2>1. pc' # "generate"
    BY <1>3 DEF Next, Build, BuildThrows, ComputeTree, EvaluateOperand, EvaluateThrows,
                OperandIsFalse, FirstOperand, NextOperand, Disjunct, DisjunctionFails,
                Equivalence, NoEquivalence, FoldThrows, OnlyOperand, PremiseComputed,
                ConclusionNotGenerated, ConjunctionFails, Folded
  <2>. QED  BY <2>1 DEF NotInKbIsExact
<1>. QED  BY <1>1, <1>2, <1>3

(* TemplateExpressionNode::generate leaves for generation every replacement *)
(* of the premise that agrees with nothing the conclusion has, and nothing *)
(* else, whatever the hashes and the iteration orders are.                 *)
THEOREM NotInKbIsExactHolds == Spec => []NotInKbIsExact
<1>1. Init => NotInKbIsExact
  BY DEF Init, NotInKbIsExact
<1>. QED  BY <1>1, TypeInvInit, TypeInvNext, NotInKbNext, PTL DEF Spec

-----------------------------------------------------------------------------
(* A premise that is false.                                                *)

HasNegation == connective = "DISJUNCTION" /\ FalseWithColumns

IsEmpty(r) == DOMAIN r.replacements = {}

(* Until something is true there are no replacements, and without them     *)
(* nothing that is searched for is found.                                  *)
InertInv ==
  /\ pc \in {"premise", "fold"} /\ ~result.value => HasNegation \/ IsEmpty(result)
  /\ pc = "fold" /\ ~result.value /\ connective = "DISJUNCTION" /\ ~lastResult.value =>
       HasNegation \/ IsEmpty(lastResult)
  /\ pc = "fold" /\ ~result.value /\ connective = "CONJUNCTION"
       /\ operands[next].kind # "compute" => ~lastResult.value
  /\ pc \in {"conclusion", "done"} /\ ~result.value =>
       connective = "NEGATION" \/ HasNegation \/ IsEmpty(result)
  /\ pc = "generate" /\ ~result.value => connective = "NEGATION" \/ HasNegation

LEMMA InertInvNext ==
  TypeInv /\ InertInv /\ [Next]_vars => InertInv'
<1>. SUFFICES ASSUME TypeInv, InertInv, [Next]_vars PROVE InertInv'
  OBVIOUS
<1>1. operands' = operands /\ connective' = connective => (HasNegation' <=> HasNegation)
  BY DEF HasNegation, FalseWithColumns
<1>2. IsEmpty(NotFound) /\ ~NotFound.value
  BY NotFoundType DEF IsEmpty
<1>3. pc \in {"premise", "fold", "conclusion"} =>
        /\ OperandsOfClass(connective, operands) /\ AreOperands(operands)
        /\ Len(operands) \in Nat /\ DOMAIN operands = 1 .. Len(operands)
        /\ IsReplacements(Known)
  BY OperandsAre
<1>4. /\ result.value \in BOOLEAN /\ IsReplacements(result.replacements)
      /\ lastResult.value \in BOOLEAN /\ IsReplacements(lastResult.replacements)
      /\ next \in 1 .. Len(operands) + 1
      /\ DOMAIN result = {"value", "replacements"}
  BY DEF TypeInv, TypeOK, IsResult
<1>5. connective \notin Equivalences => Known = result.replacements
  BY DEF Known
<1>6. CASE UNCHANGED vars \/ Evaluated
  <2>1. /\ pc' = pc /\ connective' = connective /\ operands' = operands /\ next' = next
        /\ lastResult' = lastResult /\ result' = result
    BY <1>6 DEF vars, Evaluated
  <2>. QED  BY <1>1, <2>1 DEF InertInv, IsEmpty
<1>7. CASE Build \/ BuildThrows
  <2>1. pc' \in {"build", "thrown"}
    BY <1>7 DEF Build, BuildThrows
  <2>. QED  BY <2>1 DEF InertInv
<1>8. CASE ComputeTree
  <2>1. pc = "build" /\ pc' = "premise" /\ result' = result
    BY <1>8 DEF ComputeTree
  <2>2. result' = NotFound
    BY <2>1 DEF TypeInv, TreeInv, BuildInv
  <2>. QED  BY <1>2, <2>1, <2>2 DEF InertInv, IsEmpty
<1>9. CASE EvaluateOperand
  <2>. DEFINE o == operands[next]
  <2>1. PICK walk \in WalkSet :
          /\ ~EvaluationThrows(o, walk)
          /\ lastResult' = [value |-> Evaluation(o, walk).value,
                            replacements |-> Evaluation(o, walk).replacements]
    BY <1>9 DEF EvaluateOperand
  <2>2. /\ pc = "premise" /\ next \in 1 .. Len(operands)
        /\ pc' = "fold" /\ next' = next /\ result' = result
        /\ operands' = operands /\ connective' = connective
    BY <1>3, <1>4, <1>9 DEF EvaluateOperand, AtOperand, afterPremise
  <2>3. IsOperand(o) /\ IsReplacements(Known) /\ IsWalk(walk)
    BY <1>3, <2>2, WalkSetAssumption DEF AreOperands
  <2>. DEFINE e == Evaluation(o, walk)
  <2>4. o' = o
    BY <2>2
  <2>. HIDE DEF o
  <2>5. /\ o.kind = "compute" => e.value = o.value /\ e.replacements = o.replacements
        /\ o.kind # "compute" /\ DOMAIN Known = {} => ~e.value /\ DOMAIN e.replacements = {}
    BY <2>1, <2>3, EvaluationType
  <2>. HIDE DEF e
  <2>6. lastResult'.value = e.value /\ lastResult'.replacements = e.replacements
    BY <2>1 DEF e
  <2>7. ASSUME ~result.value, ~HasNegation, connective \in {"CONJUNCTION", "DISJUNCTION"}
        PROVE  /\ IsEmpty(result)
               /\ o.kind # "compute" => ~e.value /\ DOMAIN e.replacements = {}
    <3>1. IsEmpty(result) /\ Known = result.replacements
      BY <1>5, <2>2, <2>7 DEF InertInv, Equivalences
    <3>. QED  BY <2>5, <3>1 DEF IsEmpty
  <2>8. ASSUME connective = "DISJUNCTION", ~HasNegation, o.kind = "compute", ~o.value
        PROVE  DOMAIN o.replacements = {}
    <3>1. o \in Range(operands)
      BY <1>3, <2>2 DEF o, Range
    <3>. QED  BY <2>8, <3>1 DEF HasNegation, FalseWithColumns
  <2>9. connective = "CONJUNCTION" => ~HasNegation
    BY DEF HasNegation
  <2>10. ~result.value => HasNegation \/ IsEmpty(result)
    BY <2>2 DEF InertInv
  <2>11. ASSUME ~result.value, connective = "DISJUNCTION", ~e.value, ~HasNegation
         PROVE  DOMAIN e.replacements = {}
    BY <2>5, <2>7, <2>8, <2>11
  <2>12. ASSUME ~result.value, connective = "CONJUNCTION", o.kind # "compute"
         PROVE  ~e.value
    BY <2>7, <2>9, <2>12
  <2>13. operands'[next'].kind = o.kind
    BY <2>2 DEF o
  <2>. QED  BY <1>1, <2>2, <2>6, <2>10, <2>11, <2>12, <2>13 DEF InertInv, IsEmpty
<1>10. CASE EvaluateThrows \/ FoldThrows
  <2>1. pc' = "thrown"
    BY <1>10 DEF EvaluateThrows, FoldThrows
  <2>. QED  BY <2>1 DEF InertInv
<1>11. CASE pc' \in {"premise", "conclusion"} /\ (result'.value \/ result' = NotFound)
  BY <1>2, <1>11 DEF InertInv, IsEmpty
<1>12. CASE OperandIsFalse \/ DisjunctionFails \/ NoEquivalence \/ Equivalence \/ FirstOperand
  <2>1. CASE OperandIsFalse \/ DisjunctionFails \/ NoEquivalence
    BY <1>11, <2>1 DEF OperandIsFalse, DisjunctionFails, NoEquivalence, ConjunctionFails, Folded
  <2>2. CASE Equivalence
    BY <1>11, <2>2 DEF Equivalence, Folded
  <2>3. CASE FirstOperand
    BY <1>11, <2>3 DEF FirstOperand, Folded
  <2>. QED  BY <1>12, <2>1, <2>2, <2>3
<1>13. CASE NextOperand
  <2>1. /\ pc = "fold" /\ connective = "CONJUNCTION" /\ lastResult.value /\ ~IsFirst
        /\ \/ ConjunctionFails
           \/ \E replacements : Folded([result EXCEPT !.replacements = replacements])
    BY <1>13 DEF NextOperand, Folding
  <2>2. result.value
    BY <1>4, <2>1 DEF InertInv, IsFirst
  <2>3. CASE ConjunctionFails
    BY <1>11, <2>3 DEF ConjunctionFails
  <2>4. ASSUME NEW replacements, Folded([result EXCEPT !.replacements = replacements])
        PROVE  InertInv'
    BY <1>4, <1>11, <2>2, <2>4 DEF Folded
  <2>. QED  BY <2>1, <2>3, <2>4
<1>14. CASE Disjunct
  <2>. DEFINE united(walk) == UniteReplacements(Known, lastResult.replacements, walk)
  <2>1. PICK walk \in WalkSet :
          /\ ~UniteThrows(Known, lastResult.replacements, walk)
          /\ Folded([value |-> result.value \/ lastResult.value, replacements |-> united(walk)])
    BY <1>14 DEF Disjunct
  <2>2. pc = "fold" /\ connective = "DISJUNCTION"
    BY <1>14 DEF Disjunct, Folding
  <2>3. DOMAIN united(walk) \subseteq DOMAIN Known \cup DOMAIN lastResult.replacements
    BY <1>3, <1>4, <2>1, <2>2, WalkSetAssumption, UniteReplacementsType
  <2>. HIDE DEF united
  <2>4. /\ pc' = "premise" /\ operands' = operands /\ connective' = connective
        /\ result'.value = (result.value \/ lastResult.value)
        /\ result'.replacements = united(walk)
    BY <2>1 DEF Folded, afterPremise
  <2>5. ASSUME ~result'.value, ~HasNegation
        PROVE  IsEmpty(result')
    <3>1. IsEmpty(result) /\ IsEmpty(lastResult)
      BY <1>4, <2>2, <2>4, <2>5 DEF InertInv
    <3>2. Known = result.replacements
      BY <1>5, <2>2 DEF Equivalences
    <3>. QED  BY <2>3, <2>4, <3>1, <3>2 DEF IsEmpty
  <2>. QED  BY <1>1, <2>4, <2>5 DEF InertInv, IsEmpty
<1>15. CASE OnlyOperand
  <2>1. /\ pc = "premise" /\ pc' = "conclusion" /\ connective \in {"NEGATION", "ATOMIC"}
        /\ connective' = connective
        /\ result'.value = operands[1].value /\ result'.replacements = operands[1].replacements
    BY <1>15 DEF OnlyOperand, afterPremise
  <2>2. connective = "ATOMIC" => (operands[1].value <=> DOMAIN operands[1].replacements # {})
    BY <1>3, <2>1 DEF OperandsOfClass
  <2>. QED  BY <2>1, <2>2 DEF InertInv, IsEmpty
<1>16. CASE PremiseComputed \/ ConclusionNotGenerated
  <2>1. /\ pc \in {"premise", "conclusion"} /\ pc' \in {"conclusion", "done"}
        /\ operands' = operands /\ connective' = connective /\ result' = result
    BY <1>16 DEF PremiseComputed, ConclusionNotGenerated, afterPremise
  <2>. QED  BY <1>1, <2>1 DEF InertInv, IsEmpty
<1>17. CASE SubtractExisting
  <2>1. /\ pc = "conclusion" /\ pc' \in {"generate", "thrown"}
        /\ operands' = operands /\ connective' = connective /\ result' = result
    BY <1>17 DEF SubtractExisting
  <2>2. ~IsEmpty(result)
    <3>1. PICK walk \in WalkSet : ColumnsAmount(result.replacements, walk) > 0
      BY <1>17 DEF SubtractExisting
    <3>2. DOMAIN result.replacements = {} => ColumnsAmount(result.replacements, walk) = 0
      BY <1>4, WalkSetAssumption, AmountType
    <3>. QED  BY <3>1, <3>2 DEF IsEmpty
  <2>. QED  BY <1>1, <2>1, <2>2 DEF InertInv, IsEmpty
<1>. QED  BY <1>6, <1>7, <1>8, <1>9, <1>10, <1>12, <1>13, <1>14, <1>15, <1>16, <1>17 DEF Next

(* ImplicationExpressionNode::compute hands whatever replacements the      *)
(* premise left to the conclusion; a premise that is false leaves none,    *)
(* unless it is a negation or a disjunction with one.                      *)
THEOREM FalsePremiseIsInertHolds == Spec => []FalsePremiseIsInert
<1>1. Init => InertInv
  BY DEF Init, InertInv
<1>2. InertInv => FalsePremiseIsInert
  <2>1. ASSUME IsEmpty(result)
        PROVE  Columns(result.replacements) = {}
    BY <2>1 DEF IsEmpty, Columns
  <2>. QED  BY <2>1 DEF InertInv, FalsePremiseIsInert, PremiseDone, HasNegation
<1>. QED  BY <1>1, <1>2, TypeInvInit, TypeInvNext, InertInvNext, PTL DEF Spec

-----------------------------------------------------------------------------
(* An exact search.                                                        *)

LEMMA IncreasingOnto ==
  ASSUME NEW L \in Nat, NEW N \in Nat, NEW f \in [1 .. L -> 1 .. N],
         \A m, n \in 1 .. L : m < n => f[m] < f[n],
         \A k \in 1 .. N : \E n \in 1 .. L : f[n] = k
  PROVE  L = N /\ \A n \in 1 .. N : f[n] = n
<1>. DEFINE S == {n \in Nat : \A m \in 1 .. L : m <= n => f[m] = m}
<1>1. \A n \in 1 .. L : f[n] \in Nat /\ 1 <= f[n] /\ f[n] <= N
  OBVIOUS
<1>2. 0 \in S
  OBVIOUS
<1>3. ASSUME NEW n \in Nat, n \in S
      PROVE  n + 1 \in S
  <2>1. \A m \in 1 .. L : m <= n => f[m] = m
    BY <1>3
  <2>2. ASSUME n + 1 \in 1 .. L
        PROVE  f[n + 1] = n + 1
    <3>1. f[n + 1] >= n + 1
      <4>1. CASE n = 0
        BY <1>1, <2>2, <4>1
      <4>2. CASE n # 0
        <5>1. n \in 1 .. L /\ n < n + 1
          BY <2>2, <4>2
        <5>2. f[n] = n /\ f[n] < f[n + 1]
          BY <2>1, <2>2, <5>1
        <5>. QED  BY <1>1, <2>2, <5>2
      <4>. QED  BY <4>1, <4>2
    <3>2. n + 1 \in 1 .. N
      BY <1>1, <2>2, <3>1
    <3>3. PICK k \in 1 .. L : f[k] = n + 1
      BY <3>2
    <3>4. CASE k <= n
      BY <2>1, <3>3, <3>4
    <3>5. CASE k > n + 1
      <4>1. f[n + 1] < f[k]
        BY <2>2, <3>5
      <4>. QED  BY <1>1, <2>2, <3>1, <3>3, <4>1
    <3>6. CASE k = n + 1
      BY <3>3, <3>6
    <3>. QED  BY <3>4, <3>5, <3>6
  <2>3. \A m \in 1 .. L : m <= n + 1 => f[m] = m
    <3>1. \A m \in 1 .. L : m <= n + 1 => m <= n \/ m = n + 1
      OBVIOUS
    <3>. QED  BY <2>1, <2>2, <3>1
  <2>. QED  BY <2>3
<1>. HIDE DEF S
<1>4. Nat \subseteq S
  BY <1>2, <1>3, Induction
<1>5. \A n \in 1 .. L : f[n] = n
  <2>1. L \in S
    BY <1>4
  <2>2. \A m \in 1 .. L : m <= L => f[m] = m
    BY <2>1 DEF S
  <2>. QED  BY <2>2
<1>6. L <= N
  <2>1. CASE L = 0
    BY <2>1
  <2>2. CASE L # 0
    BY <1>1, <1>5, <2>2
  <2>. QED  BY <2>1, <2>2
<1>7. N <= L
  <2>1. CASE N = 0
    BY <2>1
  <2>2. CASE N # 0
    <3>1. PICK n \in 1 .. L : f[n] = N
      BY <2>2
    <3>. QED  BY <1>5, <3>1
  <2>. QED  BY <2>1, <2>2
<1>. QED  BY <1>5, <1>6, <1>7

LEMMA CompatibleSymmetric ==
  ASSUME NEW c, NEW d
  PROVE  Compatible(c, d) <=> Compatible(d, c)
BY DEF Compatible

(* The instances in found that agree with the column c.                    *)
Agreeing(c, found) ==
  {i \in DOMAIN Instances(found) : Compatible(WithoutEdges(c), Instances(found)[i])}

(* The params of a matrix that does not only have edges.                   *)
LEMMA ParamsOfMatrix ==
  ASSUME NEW r, IsReplacements(r), IsMatrix(r), ~(DOMAIN r \subseteq EdgeVariables),
         NEW walk, IsWalk(walk)
  PROVE  LET N == ColumnsAmount(r, walk)
             params == Params(WithoutEdges(r), walk)
         IN  /\ N \in Nat /\ Len(params) = N
             /\ params \in Seq([DOMAIN r \ EdgeVariables -> Values])
             /\ \A i \in 1 .. N : params[i] = WithoutEdges(Column(r, i))
<1>. DEFINE N == ColumnsAmount(r, walk)
            plain == WithoutEdges(r)
            params == Params(plain, walk)
<1>1. /\ IsReplacements(plain) /\ IsMatrix(plain)
      /\ DOMAIN plain = DOMAIN r \ EdgeVariables
      /\ \A key \in DOMAIN plain : plain[key] = r[key]
  BY WithoutEdgesType
<1>2. DOMAIN plain # {} /\ N \in Nat /\ HasColumns(r, N)
  BY <1>1, AmountType, AmountOfMatrix
<1>. HIDE DEF plain, N
<1>3. HasColumns(plain, N)
  BY <1>1, <1>2 DEF HasColumns
<1>4. ColumnsAmount(plain, walk) = N
  BY <1>2, <1>3, AmountOfColumns
<1>5. ~OutOfRange(plain, walk)
  BY <1>2, <1>3, <1>4 DEF HasColumns, OutOfRange, ReadsBeyond, ColumnNumbers
<1>6. /\ params \in Seq([DOMAIN plain -> Values]) /\ Len(params) = N
      /\ \A i \in 1 .. N : params[i] = Column(plain, i)
  BY <1>1, <1>4, <1>5, ParamsType
<1>7. ASSUME NEW i \in 1 .. N
      PROVE  Column(plain, i) = WithoutEdges(Column(r, i))
  <2>1. DOMAIN Column(r, i) = DOMAIN r
    BY DEF Column
  <2>2. /\ WithoutEdges(Column(r, i)) = [key \in DOMAIN plain |-> r[key][i]]
        /\ Column(plain, i) = [key \in DOMAIN plain |-> plain[key][i]]
    BY <1>1, <2>1 DEF WithoutEdges, Restrict, Column
  <2>3. [key \in DOMAIN plain |-> r[key][i]] = [key \in DOMAIN plain |-> plain[key][i]]
    BY <1>1
  <2>. QED  BY <2>2, <2>3
<1>. HIDE DEF params
<1>. QED  BY <1>1, <1>2, <1>6, <1>7 DEF N, params, plain

(* x[i] is the only instance that agrees with params[i].                   *)
Picks(x, params, instances) ==
  /\ x \in [1 .. Len(params) -> 1 .. Len(instances)]
  /\ \A i \in 1 .. Len(params) : \A j \in 1 .. Len(instances) :
       Compatible(instances[j], params[i]) <=> j = x[i]

(* What is found for each params of the vector, in their order.           *)
OneEach(x, params, instances, usingType) ==
  LET hits == Found(instances, params, usingType)
      all == InOrder(hits, Lexicographic(hits, Less(DOMAIN params)))
  IN  /\ Len(all) = Len(params) /\ DOMAIN all = 1 .. Len(params)
      /\ \A n \in 1 .. Len(params) : all[n] = <<n, x[n]>>
      /\ Len(params) # 0 => hits # {}

(* What is found for params each of which agrees with one instance.        *)
LEMMA OneHitEach ==
  ASSUME NEW S, NEW T, NEW params \in Seq(S), NEW instances \in Seq(T), NEW usingType,
         NEW x, Picks(x, params, instances)
  PROVE  OneEach(x, params, instances, usingType)
<1>. DEFINE hits == Found(instances, params, usingType)
            all == InOrder(hits, Lexicographic(hits, Less(DOMAIN params)))
            N == Len(params)
            L == Len(all)
<1>1. N \in Nat /\ DOMAIN params = 1 .. N /\ DOMAIN instances = 1 .. Len(instances)
      /\ Len(instances) \in Nat
      /\ x \in [1 .. N -> 1 .. Len(instances)]
      /\ \A i \in 1 .. N : \A j \in 1 .. Len(instances) :
           Compatible(instances[j], params[i]) <=> j = x[i]
  BY LenProperties DEF Picks
<1>2. \A i \in 1 .. N : Hits(instances, params[i], usingType) = {x[i]}
  <2>1. ASSUME NEW i \in 1 .. N
        PROVE  Hits(instances, params[i], usingType) = {x[i]}
    <3>1. \A j \in DOMAIN instances : Compatible(instances[j], params[i]) <=> j = x[i]
      BY <1>1
    <3>2. x[i] \in DOMAIN instances
      BY <1>1
    <3>3. \A m \in 1 .. x[i] - 1 : m \in DOMAIN instances /\ m # x[i]
      BY <1>1, <3>2
    <3>. QED  BY <3>1, <3>2, <3>3 DEF Hits
  <2>. QED  BY <2>1
<1>3. hits = {<<i, x[i]>> : i \in 1 .. N}
  <2>1. hits = {p \in (1 .. N) \X (1 .. Len(instances)) : p[2] \in {x[p[1]]}}
    BY <1>1, <1>2 DEF Found
  <2>2. \A i \in 1 .. N : x[i] \in 1 .. Len(instances)
    BY <1>1
  <2>. QED  BY <2>1, <2>2
<1>4. AreInOrder(all, hits)
  BY FoundInOrder
<1>. HIDE DEF hits, all, N
<1>5. /\ L \in Nat /\ all \in [1 .. L -> hits]
      /\ \A p \in hits : \E n \in 1 .. L : all[n] = p
      /\ \A m, n \in 1 .. L : m < n => all[m] # all[n] /\ all[m][1] <= all[n][1]
      /\ L = 0 <=> hits = {}
  BY <1>4 DEF AreInOrder
<1>. HIDE DEF L
<1>6. \A n \in 1 .. L : all[n][1] \in 1 .. N /\ all[n] = <<all[n][1], x[all[n][1]]>>
  <2>1. ASSUME NEW n \in 1 .. L
        PROVE  all[n][1] \in 1 .. N /\ all[n] = <<all[n][1], x[all[n][1]]>>
    <3>1. all[n] \in hits
      BY <1>5
    <3>2. \A p \in hits : \E i \in 1 .. N : p = <<i, x[i]>>
      BY <1>3
    <3>3. PICK i \in 1 .. N : all[n] = <<i, x[i]>>
      BY <3>1, <3>2
    <3>. QED  BY <3>3
  <2>. QED  BY <2>1
<1>. DEFINE f == [n \in 1 .. L |-> all[n][1]]
<1>7. f \in [1 .. L -> 1 .. N] /\ \A n \in 1 .. L : f[n] = all[n][1]
  BY <1>6
<1>. HIDE DEF f
<1>8. \A m, n \in 1 .. L : m < n => f[m] < f[n]
  <2>1. ASSUME NEW m \in 1 .. L, NEW n \in 1 .. L, m < n
        PROVE  f[m] < f[n]
    <3>1. all[m] # all[n] /\ all[m][1] <= all[n][1]
      BY <1>5, <2>1
    <3>2. all[m][1] # all[n][1]
      BY <1>6, <3>1
    <3>3. all[m][1] \in Nat /\ all[n][1] \in Nat
      BY <1>1, <1>6
    <3>. QED  BY <1>7, <3>1, <3>2, <3>3
  <2>. QED  BY <2>1
<1>9. \A k \in 1 .. N : \E n \in 1 .. L : f[n] = k
  <2>1. ASSUME NEW k \in 1 .. N
        PROVE  \E n \in 1 .. L : f[n] = k
    <3>1. <<k, x[k]>> \in hits
      BY <1>3
    <3>2. PICK n \in 1 .. L : all[n] = <<k, x[k]>>
      BY <1>5, <3>1
    <3>. QED  BY <1>7, <3>2
  <2>. QED  BY <2>1
<1>10. L = N /\ \A n \in 1 .. N : f[n] = n
  BY <1>1, <1>5, <1>7, <1>8, <1>9, IncreasingOnto
<1>11. \A n \in 1 .. N : all[n] = <<n, x[n]>>
  BY <1>6, <1>7, <1>10
<1>12. N # 0 => hits # {}
  BY <1>5, <1>10
<1>. QED  BY <1>5, <1>10, <1>11, <1>12 DEF hits, all, N, L, OneEach

(* The columns of found that agree with one of the columns.                *)
FoundBy(columns, found) ==
  {d \in Columns(found) : \E c \in columns : Compatible(WithoutEdges(c), d)}

(* What the search finds if each params has one instance, x[n].            *)
FoundAs(s, x, params, found) ==
  /\ HasColumns(s, Len(params)) /\ DOMAIN s = DOMAIN found
  /\ \A n \in 1 .. Len(params) : Column(s, n) = Instances(found)[x[n]]

LEMMA FoundForEach ==
  ASSUME NEW found, IsReplacements(found), IsMatrix(found), DOMAIN found # {},
         NEW keys, NEW params \in Seq([keys -> Values]), params # <<>>, NEW usingType,
         NEW x, Picks(x, params, Instances(found))
  PROVE  FoundAs(SearchFor(params, found, usingType), x, params, found)
<1>. DEFINE instances == Instances(found)
            hits == Found(instances, params, usingType)
            all == InOrder(hits, Lexicographic(hits, Less(DOMAIN params)))
            N == Len(params)
            used == SubSeq(params, all[1][1], N)
            row(v) == IF v \in DOMAIN params[1]
                        THEN [n \in DOMAIN used |-> used[n][v]]
                        ELSE [n \in DOMAIN all |-> instances[all[n][2]][v]]
            s == SearchFor(params, found, usingType)
<1>1. /\ N \in Nat \ {0} /\ DOMAIN params = 1 .. N
      /\ \A n \in 1 .. N : params[n] \in [keys -> Values]
  BY LenProperties, EmptySeq, ElementOfSeq
<1>2. /\ instances \in Seq([DOMAIN found -> Values])
      /\ \A i \in 1 .. Len(instances) : instances[i] \in [DOMAIN found -> Values]
  BY InstancesType, ElementOfSeq
<1>3. /\ Len(all) = N /\ DOMAIN all = 1 .. N
      /\ \A n \in 1 .. N : all[n] = <<n, x[n]>>
      /\ hits # {}
  <2>1. Picks(x, params, instances)
    OBVIOUS
  <2>. HIDE DEF instances
  <2>2. /\ Len(all) = Len(params) /\ DOMAIN all = 1 .. Len(params)
        /\ \A n \in 1 .. Len(params) : all[n] = <<n, x[n]>>
        /\ Len(params) # 0 => hits # {}
    <3>1. OneEach(x, params, instances, usingType)
      BY <1>2, <2>1, OneHitEach
    <3>. QED  BY <3>1 DEF OneEach
  <2>. QED  BY <1>1, <2>2
<1>4. s = [v \in DOMAIN found |-> row(v)]
  BY <1>3 DEF SearchFor, Found
<1>5. IsReplacements(s)
  BY SearchForType
<1>. HIDE DEF instances, hits, all, s
<1>6. DOMAIN used = 1 .. N /\ \A n \in 1 .. N : used[n] = params[n]
  <2>1. all[1][1] = 1
    <3>. HIDE DEF N
    <3>1. all[1] = <<1, x[1]>>
      BY <1>1, <1>3
    <3>. QED  BY <3>1
  <2>2. used = SubSeq(params, 1, N)
    BY <2>1
  <2>. HIDE DEF used, N
  <2>3. /\ used \in Seq([keys -> Values])
        /\ Len(used) = IF 1 <= N THEN N - 1 + 1 ELSE 0
        /\ \A i \in 1 .. N - 1 + 1 : used[i] = params[1 + i - 1]
    BY <1>1, <2>2, SubSeqProperties
  <2>4. Len(used) = N /\ DOMAIN used = 1 .. N
    BY <1>1, <2>3, LenProperties
  <2>. QED  BY <1>1, <2>3, <2>4
<1>. HIDE DEF used, N
<1>7. ASSUME NEW v \in DOMAIN found
      PROVE  /\ DOMAIN row(v) = 1 .. N
             /\ \A n \in 1 .. N : row(v)[n] = instances[x[n]][v]
  <2>1. DOMAIN params[1] = keys
    BY <1>1
  <2>2. CASE v \in keys
    <3>1. row(v) = [n \in 1 .. N |-> params[n][v]]
      BY <1>6, <2>1, <2>2
    <3>2. ASSUME NEW n \in 1 .. N
          PROVE  params[n][v] = instances[x[n]][v]
      <4>1. x[n] \in 1 .. Len(instances) /\ Compatible(instances[x[n]], params[n])
        BY DEF N, instances, Picks
      <4>2. v \in DOMAIN instances[x[n]] \cap DOMAIN params[n]
        BY <1>1, <1>2, <2>2, <4>1
      <4>. QED  BY <4>1, <4>2 DEF Compatible
    <3>. QED  BY <3>1, <3>2
  <2>3. CASE v \notin keys
    <3>1. row(v) = [n \in 1 .. N |-> instances[all[n][2]][v]]
      BY <1>3, <2>1, <2>3
    <3>2. ASSUME NEW n \in 1 .. N
          PROVE  all[n][2] = x[n] /\ row(v)[n] = instances[all[n][2]][v]
      <4>1. all[n] = <<n, x[n]>>
        BY <1>3
      <4>2. all[n][2] = x[n]
        BY <4>1
      <4>3. row(v)[n] = instances[all[n][2]][v]
        BY <3>1
      <4>. QED  BY <4>2, <4>3
    <3>3. DOMAIN row(v) = 1 .. N
      BY <3>1
    <3>. HIDE DEF row
    <3>. QED  BY <3>2, <3>3
  <2>. QED  BY <2>2, <2>3
<1>. HIDE DEF row
<1>8. /\ DOMAIN s = DOMAIN found
      /\ \A v \in DOMAIN found : DOMAIN s[v] = 1 .. N /\ \A n \in 1 .. N : s[v][n] = instances[x[n]][v]
  BY <1>4, <1>7
<1>9. HasColumns(s, N)
  <2>1. \A v \in DOMAIN s : Len(s[v]) = N
    <3>1. ASSUME NEW v \in DOMAIN s
          PROVE  Len(s[v]) = N
      <4>1. s[v] \in Seq(Values) /\ DOMAIN s[v] = 1 .. N
        BY <1>5, <1>8 DEF IsReplacements
      <4>. QED  BY <1>1, <4>1, LenProperties
    <3>. QED  BY <3>1
  <2>. QED  BY <1>1, <1>5, <2>1 DEF HasColumns
<1>10. ASSUME NEW n \in 1 .. N
       PROVE  Column(s, n) = instances[x[n]]
  <2>1. Column(s, n) = [v \in DOMAIN found |-> instances[x[n]][v]]
    BY <1>8 DEF Column
  <2>2. instances[x[n]] \in [DOMAIN found -> Values]
    BY <1>2 DEF N, instances, Picks
  <2>. QED  BY <2>1, <2>2
<1>. QED  BY <1>8, <1>9, <1>10 DEF s, N, instances, FoundAs

(* An atom is searched for columns none of which agrees with an instance,  *)
(* or each of which agrees with exactly one.                               *)
LEMMA FindExact ==
  ASSUME NEW found, IsReplacements(found), IsMatrix(found),
         NEW r, IsReplacements(r), IsMatrix(r), ~(DOMAIN r \subseteq EdgeVariables),
         NEW walk, IsWalk(walk), NEW usingType
  PROVE  LET evaluation == Find(found, r, usingType, walk)
         IN  /\ (\A c \in Columns(r) : Agreeing(c, found) = {}) => ~evaluation.value
             /\ Columns(r) # {} /\ (\A c \in Columns(r) : \E i : Agreeing(c, found) = {i}) =>
                  /\ evaluation.value
                  /\ IsMatrix(evaluation.replacements)
                  /\ DOMAIN evaluation.replacements = DOMAIN found
                  /\ Columns(evaluation.replacements) = FoundBy(Columns(r), found)
<1>. DEFINE N == ColumnsAmount(r, walk)
            params == Params(WithoutEdges(r), walk)
            keys == DOMAIN r \ EdgeVariables
            instances == Instances(found)
            M == Len(instances)
            s == SearchFor(params, found, usingType)
            evaluation == Find(found, r, usingType, walk)
<1>1. /\ evaluation.value = (DOMAIN s # {})
      /\ evaluation.replacements = s
  BY DEF Find
<1>2. /\ N \in Nat /\ Len(params) = N
      /\ params \in Seq([keys -> Values])
      /\ \A i \in 1 .. N : params[i] = WithoutEdges(Column(r, i))
  BY ParamsOfMatrix
<1>3. Columns(r) = {Column(r, i) : i \in 1 .. N} /\ (N = 0 <=> Columns(r) = {})
  BY AmountIsZero DEF ColumnNumbers
<1>4. /\ instances \in Seq([DOMAIN found -> Values])
      /\ Columns(found) = Range(instances)
      /\ DOMAIN instances = 1 .. M
      /\ \A i \in 1 .. M : instances[i] \in [DOMAIN found -> Values]
  BY InstancesType, LenProperties, ElementOfSeq
<1>5. DOMAIN s = IF Found(instances, params, usingType) = {} THEN {} ELSE DOMAIN found
  <2>. HIDE DEF params
  <2>. QED  BY <1>2, SearchForType
<1>. HIDE DEF evaluation, N, params, instances
<1>6. ASSUME NEW i \in 1 .. N, NEW j \in 1 .. M
      PROVE  Compatible(instances[j], params[i]) <=> j \in Agreeing(Column(r, i), found)
  BY <1>2, <1>4, CompatibleSymmetric DEF Agreeing, instances
<1>7. ASSUME \A c \in Columns(r) : Agreeing(c, found) = {}
      PROVE  ~evaluation.value
  <2>1. DOMAIN params = 1 .. N
    BY <1>2, LenProperties
  <2>2. Found(instances, params, usingType) = {}
    <3>1. SUFFICES ASSUME NEW p \in Found(instances, params, usingType)
                   PROVE  FALSE
      OBVIOUS
    <3>2. p[1] \in 1 .. N /\ p[2] \in 1 .. M /\ Compatible(instances[p[2]], params[p[1]])
      BY <1>4, <2>1 DEF Found, Hits
    <3>3. p[2] \in Agreeing(Column(r, p[1]), found) /\ Column(r, p[1]) \in Columns(r)
      BY <1>3, <1>6, <3>2
    <3>. QED  BY <1>7, <3>3
  <2>. HIDE DEF s
  <2>. QED  BY <1>1, <1>5, <2>2
<1>8. ASSUME Columns(r) # {}, \A c \in Columns(r) : \E i : Agreeing(c, found) = {i}
      PROVE  /\ evaluation.value
             /\ IsMatrix(evaluation.replacements)
             /\ DOMAIN evaluation.replacements = DOMAIN found
             /\ Columns(evaluation.replacements) = FoundBy(Columns(r), found)
  <2>. DEFINE x == [i \in 1 .. N |-> CHOOSE j : Agreeing(Column(r, i), found) = {j}]
  <2>1. \A i \in 1 .. N : Agreeing(Column(r, i), found) = {x[i]}
    <3>1. ASSUME NEW i \in 1 .. N
          PROVE  Agreeing(Column(r, i), found) = {x[i]}
      <4>1. \E j : Agreeing(Column(r, i), found) = {j}
        BY <1>3, <1>8
      <4>2. x[i] = CHOOSE j : Agreeing(Column(r, i), found) = {j}
        OBVIOUS
      <4>. QED  BY <4>1, <4>2
    <3>. QED  BY <3>1
  <2>2. DOMAIN x = 1 .. N /\ x = [i \in 1 .. N |-> x[i]]
    OBVIOUS
  <2>. HIDE DEF x
  <2>3. Agreeing(Column(r, 1), found) \subseteq 1 .. M /\ \A i \in 1 .. N : x[i] \in 1 .. M
    <3>1. \A c : Agreeing(c, found) \subseteq 1 .. M
      BY <1>4 DEF Agreeing, instances
    <3>. QED  BY <2>1, <3>1
  <2>4. x \in [1 .. N -> 1 .. M]
    BY <2>2, <2>3
  <2>5. \A i \in 1 .. N : \A j \in 1 .. M : Compatible(instances[j], params[i]) <=> j = x[i]
    BY <1>6, <2>1
  <2>6. N # 0 /\ 1 \in 1 .. N
    BY <1>2, <1>3, <1>8
  <2>7. params # <<>> /\ DOMAIN found # {}
    <3>1. DOMAIN found = {} => instances = <<>>
      BY DEF instances, Instances
    <3>2. x[1] \in 1 .. M
      BY <2>3, <2>6
    <3>3. instances # <<>>
      BY <1>4, <3>2, EmptySeq
    <3>. QED  BY <1>2, <2>6, <3>1, <3>3, EmptySeq
  <2>8. /\ HasColumns(s, N) /\ DOMAIN s = DOMAIN found
        /\ \A n \in 1 .. N : Column(s, n) = instances[x[n]]
    <3>1. /\ HasColumns(s, Len(params)) /\ DOMAIN s = DOMAIN found
          /\ \A n \in 1 .. Len(params) : Column(s, n) = Instances(found)[x[n]]
      <4>1. Picks(x, params, Instances(found))
        BY <1>2, <2>4, <2>5 DEF M, instances, Picks
      <4>2. FoundAs(s, x, params, found)
        BY <1>2, <2>7, <4>1, FoundForEach
      <4>. QED  BY <4>2 DEF FoundAs
    <3>. QED  BY <1>2, <3>1 DEF instances
  <2>. HIDE DEF s
  <2>9. IsMatrix(s) /\ Columns(s) = {Column(s, i) : i \in 1 .. N}
    BY <2>7, <2>8, ColumnsOfMatrix
  <2>10. Columns(s) = FoundBy(Columns(r), found)
    <3>1. ASSUME NEW d \in Columns(s)
          PROVE  d \in FoundBy(Columns(r), found)
      <4>1. PICK i \in 1 .. N : d = instances[x[i]]
        BY <2>8, <2>9
      <4>2. d \in Columns(found)
        BY <1>4, <2>3, <4>1 DEF Range
      <4>3. x[i] \in Agreeing(Column(r, i), found)
        BY <2>1
      <4>4. Compatible(WithoutEdges(Column(r, i)), d)
        BY <4>1, <4>3 DEF Agreeing, instances
      <4>. QED  BY <1>3, <4>2, <4>4 DEF FoundBy
    <3>2. ASSUME NEW d \in FoundBy(Columns(r), found)
          PROVE  d \in Columns(s)
      <4>1. /\ d \in Columns(found)
            /\ \E c \in Columns(r) : Compatible(WithoutEdges(c), d)
        BY DEF FoundBy
      <4>2. PICK j \in 1 .. M : d = instances[j]
        BY <1>4, <4>1 DEF Range
      <4>3. PICK i \in 1 .. N : Compatible(WithoutEdges(Column(r, i)), d)
        BY <1>3, <4>1
      <4>4. j \in Agreeing(Column(r, i), found)
        BY <1>4, <4>2, <4>3 DEF Agreeing, instances
      <4>5. j = x[i]
        BY <2>1, <4>4
      <4>6. Column(s, i) = d
        BY <2>8, <4>2, <4>5
      <4>. QED  BY <2>9, <4>6
    <3>. QED  BY <3>1, <3>2
  <2>. QED  BY <1>1, <2>7, <2>8, <2>9, <2>10
<1>. QED  BY <1>7, <1>8 DEF evaluation

-----------------------------------------------------------------------------
(* The columns that satisfy the operands.                                  *)

(* The operands restrict the replacements.                                 *)
Restricts(o) ==
  o.kind = "find" \/ (o.kind = "compute" /\ DOMAIN o.replacements # {})

LEMMA FoundOperandsAre ==
  ASSUME AreOperands(operands), NEW n \in Nat
  PROVE  \A o : o \in FoundOperands(n) <=>
                  Restricts(o) /\ \E i \in 1 .. Len(operands) : i <= n /\ o = operands[i]
<1>1. DOMAIN operands = 1 .. Len(operands)
  BY DEF AreOperands
<1>. QED  BY <1>1 DEF FoundOperands, Restricts

LEMMA RestrictTwice ==
  ASSUME NEW c, NEW K, NEW D, D \subseteq K
  PROVE  Restrict(Restrict(c, K), D) = Restrict(c, D)
<1>1. \A key \in D : Restrict(c, K)[key] = c[key]
  BY DEF Restrict
<1>. QED  BY <1>1 DEF Restrict

LEMMA ColumnValues ==
  ASSUME NEW r, IsReplacements(r), IsMatrix(r), NEW d \in Columns(r)
  PROVE  /\ d \in [DOMAIN r -> Values] /\ DOMAIN r # {}
         /\ \A key \in DOMAIN r : d[key] \in Range(r[key])
<1>1. DOMAIN r # {}
  BY DEF Columns
<1>. DEFINE N == Len(Instances(r))
<1>2. HasColumns(r, N)
  BY <1>1, InstancesType
<1>. HIDE DEF N
<1>3. /\ \A key \in DOMAIN r : DOMAIN r[key] = 1 .. N /\ r[key] \in [1 .. N -> Values]
      /\ Columns(r) = {Column(r, i) : i \in 1 .. N}
  BY <1>1, <1>2, ColumnsOfMatrix
<1>4. PICK i \in 1 .. N : d = Column(r, i)
  BY <1>3
<1>5. d = [key \in DOMAIN r |-> r[key][i]]
  BY <1>4 DEF Column
<1>6. \A key \in DOMAIN r : r[key][i] \in Values /\ r[key][i] \in Range(r[key])
  BY <1>3 DEF Range
<1>. QED  BY <1>1, <1>5, <1>6

(* The operands, and those that are evaluated found matrices.              *)
AreMatrices ==
  /\ AreOperands(operands)
  /\ \A n \in 1 .. Len(operands) : IsMatrix(operands[n].replacements)

LEMMA JoinValues ==
  ASSUME AreMatrices, NEW n \in Nat
  PROVE  /\ KeysOf(n) \subseteq Variables
         /\ \A c : c \in Join(n) <=>
              c \in [KeysOf(n) -> Values] /\ \A o \in FoundOperands(n) : Satisfies(c, o)
<1>1. /\ \A o \in FoundOperands(n) :
           IsReplacements(o.replacements) /\ IsMatrix(o.replacements)
  BY FoundOperandsAre DEF AreMatrices, AreOperands, IsOperand
<1>2. KeysOf(n) \subseteq Variables
  BY <1>1 DEF KeysOf, IsReplacements
<1>3. ASSUME NEW c \in [KeysOf(n) -> ValuesOf(n)]
      PROVE  c \in [KeysOf(n) -> Values]
  <2>1. ASSUME NEW o \in FoundOperands(n), NEW key \in DOMAIN o.replacements
        PROVE  Range(o.replacements[key]) \subseteq Values
    <3>1. o.replacements[key] \in Seq(Values)
      BY <1>1 DEF IsReplacements
    <3>2. \A i \in DOMAIN o.replacements[key] : o.replacements[key][i] \in Values
      BY <3>1, ElementOfSeq, LenProperties
    <3>. QED  BY <3>2 DEF Range
  <2>2. ValuesOf(n) \subseteq Values
    BY <2>1 DEF ValuesOf
  <2>. QED  BY <2>2
<1>4. ASSUME NEW c \in [KeysOf(n) -> Values], \A o \in FoundOperands(n) : Satisfies(c, o)
      PROVE  c \in [KeysOf(n) -> ValuesOf(n)]
  <2>1. ASSUME NEW key \in KeysOf(n)
        PROVE  c[key] \in ValuesOf(n)
    <3>1. PICK o \in FoundOperands(n) : key \in DOMAIN o.replacements
      BY DEF KeysOf
    <3>. DEFINE d == Restrict(c, DOMAIN o.replacements)
    <3>2. d \in Columns(o.replacements)
      BY <1>4 DEF Satisfies
    <3>3. d[key] = c[key]
      BY <3>1 DEF Restrict
    <3>. HIDE DEF d
    <3>4. d[key] \in Range(o.replacements[key])
      BY <1>1, <3>1, <3>2, ColumnValues
    <3>. QED  BY <3>1, <3>3, <3>4 DEF ValuesOf
  <2>. QED  BY <2>1
<1>. QED  BY <1>2, <1>3, <1>4 DEF Join

(* Fewer operands, fewer variables; and what satisfies more of them        *)
(* satisfies fewer.                                                        *)
LEMMA JoinOfFewer ==
  ASSUME AreMatrices, NEW n \in Nat, NEW m \in Nat, m <= n
  PROVE  /\ FoundOperands(m) \subseteq FoundOperands(n)
         /\ KeysOf(m) \subseteq KeysOf(n)
         /\ \A c \in Join(n) : Restrict(c, KeysOf(m)) \in Join(m)
         /\ Join(n) # {} => Join(m) # {}
<1>1. FoundOperands(m) \subseteq FoundOperands(n)
  BY FoundOperandsAre DEF AreMatrices
<1>2. KeysOf(m) \subseteq KeysOf(n)
  BY <1>1 DEF KeysOf
<1>3. ASSUME NEW c \in Join(n)
      PROVE  Restrict(c, KeysOf(m)) \in Join(m)
  <2>. DEFINE d == Restrict(c, KeysOf(m))
  <2>1. c \in [KeysOf(n) -> Values] /\ \A o \in FoundOperands(n) : Satisfies(c, o)
    BY <1>3, JoinValues
  <2>2. d \in [KeysOf(m) -> Values]
    BY <1>2, <2>1 DEF Restrict
  <2>3. ASSUME NEW o \in FoundOperands(m)
        PROVE  Satisfies(d, o)
    <3>1. DOMAIN o.replacements \subseteq KeysOf(m)
      BY DEF KeysOf
    <3>2. Restrict(d, DOMAIN o.replacements) = Restrict(c, DOMAIN o.replacements)
      BY <3>1, RestrictTwice
    <3>. QED  BY <1>1, <2>1, <3>2 DEF Satisfies
  <2>. HIDE DEF d
  <2>. QED  BY <2>2, <2>3, JoinValues DEF d
<1>. QED  BY <1>1, <1>2, <1>3

(* Nothing restricts the replacements.                                     *)
LEMMA JoinOfNone ==
  ASSUME AreMatrices, NEW n \in Nat, FoundOperands(n) = {}
  PROVE  /\ KeysOf(n) = {}
         /\ Join(n) # {}
         /\ \A c : Restrict(c, {}) \in Join(n)
<1>1. KeysOf(n) = {}
  BY DEF KeysOf
<1>2. \A c : Restrict(c, {}) \in [{} -> Values]
  BY DEF Restrict
<1>3. \A c : Restrict(c, {}) \in Join(n)
  BY <1>1, <1>2, JoinValues
<1>. QED  BY <1>1, <1>3

(* Operands that do not restrict the replacements change nothing.          *)
LEMMA JoinSkips ==
  ASSUME AreMatrices, NEW n \in Nat, NEW m \in Nat, m <= n,
         \A i \in 1 .. Len(operands) : m < i /\ i <= n => ~Restricts(operands[i])
  PROVE  /\ FoundOperands(n) = FoundOperands(m)
         /\ KeysOf(n) = KeysOf(m)
         /\ Join(n) = Join(m)
<1>1. Len(operands) \in Nat
  BY DEF AreMatrices, AreOperands
<1>2. ASSUME NEW o \in FoundOperands(n)
      PROVE  o \in FoundOperands(m)
  <2>1. PICK i \in 1 .. Len(operands) : i <= n /\ o = operands[i] /\ Restricts(o)
    BY FoundOperandsAre DEF AreMatrices
  <2>2. i <= m
    BY <1>1, <2>1
  <2>. QED  BY <2>1, <2>2, FoundOperandsAre DEF AreMatrices
<1>3. FoundOperands(n) = FoundOperands(m)
  BY <1>2, JoinOfFewer
<1>4. KeysOf(n) = KeysOf(m) /\ ValuesOf(n) = ValuesOf(m)
  BY <1>3 DEF KeysOf, ValuesOf
<1>. QED  BY <1>3, <1>4 DEF Join

(* One that does is joined with those before it.                           *)
LEMMA JoinStep ==
  ASSUME AreMatrices, NEW n \in 1 .. Len(operands), Restricts(operands[n])
  PROVE  LET found == operands[n].replacements
         IN  /\ KeysOf(n) = KeysOf(n - 1) \cup DOMAIN found
             /\ Join(n) = JoinOf(Join(n - 1), KeysOf(n - 1), Columns(found), DOMAIN found)
<1>. DEFINE o == operands[n]
            found == o.replacements
            K == KeysOf(n - 1)
            D == DOMAIN found
<1>1. n \in Nat /\ n - 1 \in Nat /\ n - 1 <= n /\ Len(operands) \in Nat
  BY DEF AreMatrices, AreOperands
<1>2. FoundOperands(n) = FoundOperands(n - 1) \cup {o}
  <2>1. ASSUME NEW p
        PROVE  p \in FoundOperands(n) <=> p \in FoundOperands(n - 1) \cup {o}
    <3>1. p \in FoundOperands(n) <=>
            Restricts(p) /\ \E i \in 1 .. Len(operands) : i <= n /\ p = operands[i]
      BY <1>1, FoundOperandsAre DEF AreMatrices
    <3>2. p \in FoundOperands(n - 1) <=>
            Restricts(p) /\ \E i \in 1 .. Len(operands) : i <= n - 1 /\ p = operands[i]
      BY <1>1, FoundOperandsAre DEF AreMatrices
    <3>3. \A i \in 1 .. Len(operands) : i <= n <=> (i <= n - 1 \/ i = n)
      BY <1>1
    <3>. QED  BY <3>1, <3>2, <3>3
  <2>. QED  BY <2>1
<1>3. KeysOf(n) = K \cup D
  BY <1>2 DEF KeysOf
<1>4. ASSUME NEW c
      PROVE  c \in Join(n) <=> c \in JoinOf(Join(n - 1), K, Columns(found), D)
  <2>1. c \in Join(n) <=>
          /\ c \in [K \cup D -> Values]
          /\ \A p \in FoundOperands(n - 1) : Satisfies(c, p)
          /\ Restrict(c, D) \in Columns(found)
    <3>1. c \in Join(n) <=>
            c \in [KeysOf(n) -> Values] /\ \A p \in FoundOperands(n) : Satisfies(c, p)
      BY <1>1, JoinValues
    <3>2. Satisfies(c, o) <=> Restrict(c, D) \in Columns(found)
      BY DEF Satisfies
    <3>. HIDE DEF o, D, found, K
    <3>. QED  BY <1>2, <1>3, <3>1, <3>2
  <2>. DEFINE d == Restrict(c, K)
  <2>2. d \in Join(n - 1) <=>
          d \in [K -> Values] /\ \A p \in FoundOperands(n - 1) : Satisfies(d, p)
    BY <1>1, JoinValues
  <2>3. \A p \in FoundOperands(n - 1) : Satisfies(d, p) <=> Satisfies(c, p)
    <3>1. ASSUME NEW p \in FoundOperands(n - 1)
          PROVE  Satisfies(d, p) <=> Satisfies(c, p)
      <4>1. DOMAIN p.replacements \subseteq K
        BY DEF KeysOf
      <4>2. Restrict(d, DOMAIN p.replacements) = Restrict(c, DOMAIN p.replacements)
        BY <4>1, RestrictTwice
      <4>. QED  BY <4>2 DEF Satisfies
    <3>. QED  BY <3>1
  <2>4. c \in [K \cup D -> Values] => d \in [K -> Values]
    BY DEF Restrict
  <2>5. c \in JoinOf(Join(n - 1), K, Columns(found), D) <=>
          c \in [K \cup D -> Values] /\ d \in Join(n - 1) /\ Restrict(c, D) \in Columns(found)
    BY DEF JoinOf
  <2>. HIDE DEF K, D, found, d
  <2>. QED  BY <2>1, <2>2, <2>3, <2>4, <2>5
<1>5. Join(n) = JoinOf(Join(n - 1), K, Columns(found), D)
  <2>1. \A c : c \in Join(n) <=> c \in JoinOf(Join(n - 1), K, Columns(found), D)
    BY <1>4
  <2>. HIDE DEF K, D, found
  <2>. QED  BY <2>1 DEF Join, JoinOf
<1>. QED  BY <1>3, <1>5

(* The first that does found what the join is.                             *)
LEMMA JoinOfOne ==
  ASSUME AreMatrices, NEW n \in 1 .. Len(operands), Restricts(operands[n]),
         FoundOperands(n - 1) = {}
  PROVE  /\ KeysOf(n) = DOMAIN operands[n].replacements
         /\ Join(n) = Columns(operands[n].replacements)
<1>. DEFINE found == operands[n].replacements
            D == DOMAIN found
<1>1. n - 1 \in Nat
  BY DEF AreMatrices, AreOperands
<1>2. KeysOf(n - 1) = {} /\ \A c : Restrict(c, {}) \in Join(n - 1)
  BY <1>1, JoinOfNone
<1>3. /\ KeysOf(n) = KeysOf(n - 1) \cup D
      /\ Join(n) = JoinOf(Join(n - 1), KeysOf(n - 1), Columns(found), D)
  BY JoinStep
<1>4. \A c \in Columns(found) : c \in [D -> Values]
  BY ColumnValues DEF AreMatrices, AreOperands, IsOperand
<1>5. \A c \in [D -> Values] : Restrict(c, D) = c
  BY DEF Restrict
<1>6. Join(n) = {c \in [D -> Values] : Restrict(c, D) \in Columns(found)}
  <2>. HIDE DEF D, found
  <2>1. {} \cup D = D
    OBVIOUS
  <2>. QED  BY <1>2, <1>3, <2>1 DEF JoinOf
<1>. HIDE DEF D, found
<1>7. Join(n) = Columns(found)
  BY <1>4, <1>5, <1>6
<1>. QED  BY <1>2, <1>3, <1>7 DEF D, found

(* A search for the join of the operands before an atom is exact: it finds *)
(* what the atom has for them, and nothing just when they have nothing in  *)
(* common with it.                                                         *)
LEMMA SearchStep ==
  ASSUME AreMatrices, NEW n \in 1 .. Len(operands), operands[n].kind = "find",
         SearchIsExact(n), KeysOf(n - 1) # {}, Join(n - 1) # {},
         NEW r, IsReplacements(r), IsMatrix(r), DOMAIN r = KeysOf(n - 1), Columns(r) = Join(n - 1),
         NEW walk, IsWalk(walk), NEW usingType
  PROVE  LET found == operands[n].replacements
             evaluation == Find(found, r, usingType, walk)
         IN  /\ evaluation.value =>
                  /\ IsMatrix(evaluation.replacements)
                  /\ DOMAIN evaluation.replacements = DOMAIN found
                  /\ Columns(evaluation.replacements) = FoundBy(Join(n - 1), found)
                  /\ Join(n) # {}
             /\ ~evaluation.value => Join(n) = {}
<1>. DEFINE o == operands[n]
            found == o.replacements
            evaluation == Find(found, r, usingType, walk)
            J == Join(n - 1)
            amounts == {Cardinality(MatchesOf(c, o)) : c \in J}
<1>1. IsReplacements(found) /\ IsMatrix(found)
  BY DEF AreMatrices, AreOperands, IsOperand
<1>2. \A c : MatchesOf(c, o) = Agreeing(c, found) /\ IsFiniteSet(Agreeing(c, found))
  <2>1. ASSUME NEW c
        PROVE  MatchesOf(c, o) = Agreeing(c, found) /\ IsFiniteSet(Agreeing(c, found))
    <3>. DEFINE M == Len(Instances(found))
    <3>1. M \in Nat /\ DOMAIN Instances(found) = 1 .. M
      BY <1>1, InstancesType, LenProperties
    <3>. HIDE DEF M
    <3>2. Agreeing(c, found) \in SUBSET (1 .. M)
      BY <3>1 DEF Agreeing
    <3>3. IsFiniteSet(1 .. M)
      BY <3>1, FS_Interval
    <3>4. IsFiniteSet(Agreeing(c, found))
      BY <3>2, <3>3, FS_Subset
    <3>. QED  BY <3>4 DEF MatchesOf, Agreeing
  <2>. QED  BY <2>1
<1>3. /\ amounts \subseteq {0} \/ (amounts \subseteq {1} /\ Join(n) # {})
      /\ ~(KeysOf(n - 1) \subseteq EdgeVariables)
  BY DEF SearchIsExact
<1>4. /\ (\A c \in Columns(r) : Agreeing(c, found) = {}) => ~evaluation.value
      /\ Columns(r) # {} /\ (\A c \in Columns(r) : \E i : Agreeing(c, found) = {i}) =>
           /\ evaluation.value
           /\ IsMatrix(evaluation.replacements)
           /\ DOMAIN evaluation.replacements = DOMAIN found
           /\ Columns(evaluation.replacements) = FoundBy(Columns(r), found)
  <2>. HIDE DEF found
  <2>. QED  BY <1>1, <1>3, FindExact
<1>. HIDE DEF evaluation
<1>5. ASSUME amounts \subseteq {0}
      PROVE  ~evaluation.value /\ Join(n) = {}
  <2>1. \A c \in J : Agreeing(c, found) = {}
    <3>1. ASSUME NEW c \in J
          PROVE  Agreeing(c, found) = {}
      <4>1. Cardinality(MatchesOf(c, o)) \in amounts
        OBVIOUS
      <4>2. Cardinality(Agreeing(c, found)) = 0
        BY <1>2, <1>5, <4>1
      <4>. QED  BY <1>2, <4>2, FS_EmptySet
    <3>. QED  BY <3>1
  <2>2. ~evaluation.value
    BY <1>4, <2>1
  <2>3. ASSUME NEW c \in Join(n)
        PROVE  FALSE
    <3>. DEFINE d == Restrict(c, KeysOf(n - 1))
                e == Restrict(c, DOMAIN found)
    <3>1. Join(n) = JoinOf(J, KeysOf(n - 1), Columns(found), DOMAIN found)
      BY JoinStep DEF Restricts
    <3>2. d \in J /\ e \in Columns(found)
      BY <2>3, <3>1 DEF JoinOf
    <3>3. Compatible(WithoutEdges(d), e)
      BY DEF Compatible, WithoutEdges, Restrict
    <3>. HIDE DEF d, e
    <3>4. PICK i \in DOMAIN Instances(found) : e = Instances(found)[i]
      <4>1. Columns(found) = Range(Instances(found))
        BY <1>1, InstancesType
      <4>. QED  BY <3>2, <4>1 DEF Range
    <3>5. i \in Agreeing(d, found)
      BY <3>3, <3>4 DEF Agreeing
    <3>. QED  BY <2>1, <3>2, <3>5
  <2>. QED  BY <2>2, <2>3
<1>6. ASSUME amounts \subseteq {1}
      PROVE  /\ evaluation.value
             /\ IsMatrix(evaluation.replacements)
             /\ DOMAIN evaluation.replacements = DOMAIN found
             /\ Columns(evaluation.replacements) = FoundBy(J, found)
  <2>1. \A c \in J : \E i : Agreeing(c, found) = {i}
    <3>1. ASSUME NEW c \in J
          PROVE  \E i : Agreeing(c, found) = {i}
      <4>1. Cardinality(MatchesOf(c, o)) \in amounts
        OBVIOUS
      <4>2. Cardinality(Agreeing(c, found)) = 1
        BY <1>2, <1>6, <4>1
      <4>. QED  BY <1>2, <4>2, FS_Singleton
    <3>. QED  BY <3>1
  <2>. HIDE DEF found
  <2>. QED  BY <1>4, <2>1
<1>. QED  BY <1>3, <1>5, <1>6 DEF evaluation

(* Joining what the search found is joining all the atom has.              *)
LEMMA JoinOfFound ==
  ASSUME NEW columns, NEW keys, NEW found
  PROVE  JoinOf(columns, keys, FoundBy(columns, found), DOMAIN found) =
           JoinOf(columns, keys, Columns(found), DOMAIN found)
<1>1. ASSUME NEW c, Restrict(c, keys) \in columns, Restrict(c, DOMAIN found) \in Columns(found)
      PROVE  Restrict(c, DOMAIN found) \in FoundBy(columns, found)
  <2>1. Compatible(WithoutEdges(Restrict(c, keys)), Restrict(c, DOMAIN found))
    BY DEF Compatible, WithoutEdges, Restrict
  <2>. QED  BY <1>1, <2>1 DEF FoundBy
<1>2. FoundBy(columns, found) \subseteq Columns(found)
  BY DEF FoundBy
<1>. QED  BY <1>1, <1>2 DEF JoinOf

(* One of the first n operands is an atom for generation.                  *)
Generates(n) ==
  \E m \in 1 .. Len(operands) : m <= n /\ operands[m].kind = "generate"

(* The replacements of a conjunction after its first n operands, all true: *)
(* those that satisfy them, with what was generated for some of them.      *)
HasJoin(r, n) ==
  /\ operands[1].kind = "compute"
  /\ \A m \in 1 .. Len(operands) : m <= n /\ operands[m].kind = "compute" => operands[m].value
  /\ IsMatrix(r)
  /\ KeysOf(n) \subseteq DOMAIN r
  /\ n >= 2 => KeysOf(2) # {}
  /\ KeysOf(n) # {} =>
       Join(n) # {} /\ \A c \in Columns(r) : Restrict(c, KeysOf(n)) \in Join(n)
  /\ Generates(n) => KeysOf(n) # {}
  /\ ~Generates(n) => DOMAIN r = KeysOf(n) /\ (KeysOf(n) # {} => Columns(r) = Join(n))

(* What operand n evaluates to if r are the replacements of those before.  *)
IsLast(r, last, n) ==
  LET o == operands[n]
  IN  /\ o.kind = "compute" => last.value = o.value /\ last.replacements = o.replacements
      /\ o.kind = "find" /\ last.value =>
           /\ KeysOf(n - 1) # {} /\ Join(n) # {}
           /\ IsMatrix(last.replacements)
           /\ DOMAIN last.replacements = DOMAIN o.replacements
           /\ Columns(last.replacements) = FoundBy(Join(n - 1), o.replacements)
      /\ o.kind = "find" /\ ~last.value /\ KeysOf(n - 1) # {} => Join(n) = {}
      /\ o.kind = "generate" /\ last.value =>
           KeysOf(n - 1) # {} /\ IsMatrix(last.replacements) /\ Columns(r) # {}

(* What the order of the operands says about those before one of them.     *)
LEMMA KindsBefore ==
  ASSUME AreMatrices, NEW n \in 1 .. Len(operands)
  PROVE  /\ n \in Nat /\ n - 1 \in Nat /\ n - 1 <= n /\ Len(operands) \in Nat /\ n <= Len(operands)
         /\ operands[n].kind \in Kinds
         /\ operands[n].kind # "generate" => ~Generates(n) /\ ~Generates(n - 1)
         /\ operands[n].kind = "compute" =>
              \A m \in 1 .. Len(operands) : m <= n => operands[m].kind = "compute"
         /\ operands[n].kind = "generate" =>
              \A m \in 1 .. Len(operands) : n <= m => operands[m].kind = "generate"
<1>1. /\ Len(operands) \in Nat
      /\ \A m \in 1 .. Len(operands) : operands[m].kind \in Kinds
      /\ \A m, k \in 1 .. Len(operands) : m < k => ~Earlier(operands[k].kind, operands[m].kind)
  BY DEF AreMatrices, AreOperands, IsOperand
<1>2. \A m \in 1 .. Len(operands) : m <= n => m = n \/ m < n
  BY <1>1
<1>3. \A m \in 1 .. Len(operands) : n <= m => m = n \/ n < m
  BY <1>1
<1>4. operands[n].kind # "generate" => ~Generates(n)
  BY <1>1, <1>2 DEF Generates, Earlier, Kinds
<1>5. ~Generates(n) => ~Generates(n - 1)
  BY <1>1 DEF Generates
<1>6. /\ operands[n].kind = "compute" =>
           \A m \in 1 .. Len(operands) : m <= n => operands[m].kind = "compute"
      /\ operands[n].kind = "generate" =>
           \A m \in 1 .. Len(operands) : n <= m => operands[m].kind = "generate"
  BY <1>1, <1>2, <1>3 DEF Earlier, Kinds
<1>. QED  BY <1>1, <1>4, <1>5, <1>6

(* Before the first operand nothing restricts the replacements.            *)
LEMMA JoinOfZero ==
  ASSUME AreMatrices
  PROVE  FoundOperands(0) = {} /\ KeysOf(0) = {}
<1>1. FoundOperands(0) = {}
  BY FoundOperandsAre DEF AreMatrices
<1>. QED  BY <1>1 DEF KeysOf

(* As long as all operands are computed, without variables there are no    *)
(* restrictions.                                                           *)
LEMMA NoKeysOfComputed ==
  ASSUME AreMatrices, NEW n \in Nat, KeysOf(n) = {},
         \A m \in 1 .. Len(operands) : m <= n => operands[m].kind = "compute"
  PROVE  FoundOperands(n) = {}
<1>1. ASSUME NEW o \in FoundOperands(n)
      PROVE  FALSE
  <2>1. Restricts(o) /\ o.kind = "compute"
    BY <1>1, FoundOperandsAre DEF AreMatrices
  <2>2. DOMAIN o.replacements \subseteq KeysOf(n)
    BY DEF KeysOf
  <2>. QED  BY <2>1, <2>2 DEF Restricts
<1>. QED  BY <1>1

(* The first operand of a plain conjunction.                               *)
LEMMA FirstHasJoin ==
  ASSUME AreMatrices, IsPlain, Len(operands) >= 1,
         operands[1].kind = "compute", operands[1].value
  PROVE  HasJoin(operands[1].replacements, 1)
<1>. DEFINE o == operands[1]
            r == o.replacements
<1>1. 1 \in 1 .. Len(operands) /\ 1 - 1 = 0 /\ DOMAIN operands = 1 .. Len(operands)
  BY DEF AreMatrices, AreOperands
<1>2. IsMatrix(r) /\ IsReplacements(r) /\ ~Generates(1)
  BY <1>1, KindsBefore DEF AreMatrices, AreOperands, IsOperand
<1>3. Join(1) # {}
  BY <1>1 DEF IsPlain
<1>4. CASE DOMAIN r = {}
  <2>1. KeysOf(1) = KeysOf(0)
    <3>1. \A i \in 1 .. Len(operands) : 0 < i /\ i <= 1 => ~Restricts(operands[i])
      BY <1>1, <1>4 DEF Restricts
    <3>2. 0 \in Nat /\ 1 \in Nat /\ 0 <= 1
      OBVIOUS
    <3>. QED  BY <3>1, <3>2, JoinSkips
  <2>2. KeysOf(1) = {}
    BY <2>1, JoinOfZero
  <2>. QED  BY <1>2, <1>4, <2>2 DEF HasJoin
<1>5. CASE DOMAIN r # {}
  <2>1. KeysOf(1) = DOMAIN r /\ Join(1) = Columns(r)
    <3>1. Restricts(o) /\ FoundOperands(1 - 1) = {}
      BY <1>1, <1>5, JoinOfZero DEF Restricts
    <3>. QED  BY <1>1, <3>1, JoinOfOne
  <2>2. \A c \in Columns(r) : Restrict(c, DOMAIN r) = c
    <3>1. \A c \in Columns(r) : c \in [DOMAIN r -> Values]
      BY <1>2, ColumnValues
    <3>. HIDE DEF r
    <3>. QED  BY <3>1 DEF Restrict
  <2>. HIDE DEF r
  <2>3. \A c \in Columns(r) : Restrict(c, KeysOf(1)) \in Join(1)
    BY <2>1, <2>2
  <2>4. \A m \in 1 .. Len(operands) : m <= 1 => m = 1
    OBVIOUS
  <2>5. HasJoin(r, 1)
    BY <1>2, <1>3, <1>5, <2>1, <2>3, <2>4 DEF HasJoin
  <2>. QED  BY <2>5 DEF r
<1>. QED  BY <1>4, <1>5

(* What is known and what the operand found, joined.                       *)
LEMMA HasJoinOfMore ==
  ASSUME AreMatrices, IsPlain, NEW n \in 2 .. Len(operands),
         NEW r, IsReplacements(r), HasJoin(r, n - 1), KeysOf(n - 1) # {},
         NEW s, IsReplacements(s), IsMatrix(s),
         NEW both, IsReplacements(both), IsMatrix(both),
         Columns(r) # {} /\ Columns(s) # {} =>
           /\ DOMAIN both = DOMAIN r \cup DOMAIN s
           /\ Columns(both) = JoinOf(Columns(r), DOMAIN r, Columns(s), DOMAIN s),
         Columns(r) # {} /\ Columns(s) = {} => both = r,
         IsLast(r, [value |-> TRUE, replacements |-> s], n)
  PROVE  DOMAIN both # {} /\ HasJoin(both, n)
<1>. DEFINE o == operands[n]
            found == o.replacements
            K == KeysOf(n - 1)
            J == Join(n - 1)
            last == [value |-> TRUE, replacements |-> s]
<1>1. /\ n \in 1 .. Len(operands) /\ n \in Nat /\ n - 1 \in Nat /\ n - 1 <= n
      /\ Len(operands) \in Nat /\ 2 \in Nat /\ 2 <= n
      /\ o.kind \in Kinds
      /\ o.kind # "generate" => ~Generates(n) /\ ~Generates(n - 1)
      /\ DOMAIN operands = 1 .. Len(operands)
  <2>1. Len(operands) \in Nat /\ DOMAIN operands = 1 .. Len(operands)
    BY DEF AreMatrices, AreOperands
  <2>2. n \in 1 .. Len(operands) /\ 2 <= n
    BY <2>1
  <2>. QED  BY <2>1, <2>2, KindsBefore
<1>2. /\ operands[1].kind = "compute"
      /\ \A m \in 1 .. Len(operands) :
           m <= n - 1 /\ operands[m].kind = "compute" => operands[m].value
      /\ IsMatrix(r)
      /\ K \subseteq DOMAIN r
      /\ J # {} /\ \A c \in Columns(r) : Restrict(c, K) \in J
      /\ ~Generates(n - 1) => DOMAIN r = K /\ Columns(r) = J
  BY DEF HasJoin
<1>3. /\ o.kind = "compute" => o.value /\ s = found
      /\ o.kind = "find" =>
           /\ Join(n) # {}
           /\ DOMAIN s = DOMAIN found
           /\ Columns(s) = FoundBy(J, found)
      /\ o.kind = "generate" => Columns(r) # {}
  BY DEF IsLast
<1>4. \A m \in 1 .. Len(operands) : m <= n /\ operands[m].kind = "compute" => operands[m].value
  <2>1. \A m \in 1 .. Len(operands) : m <= n => m = n \/ m <= n - 1
    BY <1>1
  <2>. QED  BY <1>2, <1>3, <2>1
<1>5. KeysOf(2) # {}
  <2>1. CASE n = 2
    <3>1. KeysOf(1) \subseteq KeysOf(2) /\ n - 1 = 1
      BY <1>1, <2>1, JoinOfFewer
    <3>. QED  BY <3>1
  <2>2. CASE n # 2
    <3>1. n - 1 >= 2
      BY <1>1, <2>2
    <3>. QED  BY <3>1 DEF HasJoin
  <2>. QED  BY <2>1, <2>2
<1>6. K \subseteq KeysOf(n)
  BY <1>1, JoinOfFewer
<1>7. Columns(r) # {}
  <2>1. o.kind # "generate" => Columns(r) = J
    BY <1>1, <1>2
  <2>. QED  BY <1>2, <1>3, <2>1
<1>8. CASE o.kind = "generate" \/ (o.kind = "compute" /\ DOMAIN found = {})
  <2>1. KeysOf(n) = K /\ Join(n) = J
    <3>1. ~Restricts(o)
      BY <1>8 DEF Restricts
    <3>2. \A i \in 1 .. Len(operands) : n - 1 < i /\ i <= n => i = n
      BY <1>1
    <3>. QED  BY <1>1, <3>1, <3>2, JoinSkips
  <2>2. CASE o.kind = "generate"
    <3>1. Generates(n)
      BY <1>1, <2>2 DEF Generates
    <3>2. ASSUME NEW c \in Columns(both)
          PROVE  Restrict(c, K) \in J
      <4>1. CASE Columns(s) = {}
        BY <1>2, <1>7, <4>1
      <4>2. CASE Columns(s) # {}
        <5>1. Restrict(c, DOMAIN r) \in Columns(r)
          BY <1>7, <4>2 DEF JoinOf
        <5>2. Restrict(Restrict(c, DOMAIN r), K) = Restrict(c, K)
          BY <1>2, RestrictTwice
        <5>. QED  BY <1>2, <5>1, <5>2
      <4>. QED  BY <4>1, <4>2
    <3>3. K \subseteq DOMAIN both
      BY <1>2, <1>7
    <3>. HIDE DEF K, J
    <3>. QED  BY <1>1, <1>2, <1>4, <1>5, <2>1, <3>1, <3>2, <3>3 DEF HasJoin, K
  <2>3. CASE o.kind = "compute" /\ DOMAIN found = {}
    <3>1. Columns(s) = {} /\ both = r
      BY <1>3, <1>7, <2>3 DEF Columns
    <3>2. ~Generates(n) /\ ~Generates(n - 1)
      BY <1>1, <2>3
    <3>3. DOMAIN r = K /\ Columns(r) = J
      BY <1>2, <3>2
    <3>. HIDE DEF K, J
    <3>. QED  BY <1>1, <1>2, <1>4, <1>5, <2>1, <3>1, <3>2, <3>3 DEF HasJoin, K
  <2>. QED  BY <1>8, <2>2, <2>3
<1>9. CASE o.kind = "find" \/ (o.kind = "compute" /\ DOMAIN found # {})
  <2>1. /\ KeysOf(n) = K \cup DOMAIN found
        /\ Join(n) = JoinOf(J, K, Columns(found), DOMAIN found)
    <3>1. Restricts(o)
      BY <1>9 DEF Restricts
    <3>. QED  BY <1>1, <3>1, JoinStep
  <2>2. DOMAIN r = K /\ Columns(r) = J /\ ~Generates(n)
    BY <1>1, <1>2, <1>9
  <2>3. DOMAIN s = DOMAIN found
    BY <1>3, <1>9
  <2>4. Join(n) # {}
    <3>1. o.kind = "compute" => Join(n) # {}
      BY <1>1 DEF IsPlain
    <3>. QED  BY <1>3, <1>9, <3>1
  <2>5. JoinOf(J, K, Columns(s), DOMAIN found) = Join(n)
    <3>1. CASE o.kind = "compute"
      BY <1>3, <2>1, <3>1
    <3>2. CASE o.kind = "find"
      <4>1. Columns(s) = FoundBy(J, found)
        BY <1>3, <3>2
      <4>. QED  BY <2>1, <4>1, JoinOfFound
    <3>. QED  BY <1>9, <3>1, <3>2
  <2>6. Columns(s) # {}
    <3>. HIDE DEF J, K, found
    <3>. QED  BY <2>4, <2>5 DEF JoinOf
  <2>7. DOMAIN both = KeysOf(n) /\ Columns(both) = Join(n)
    BY <1>7, <2>1, <2>2, <2>3, <2>5, <2>6
  <2>8. \A c \in Join(n) : Restrict(c, KeysOf(n)) = c
    <3>1. \A c \in Join(n) : c \in [KeysOf(n) -> Values]
      BY <1>1, JoinValues
    <3>. QED  BY <3>1 DEF Restrict
  <2>. HIDE DEF K, J, found
  <2>. QED  BY <1>2, <1>4, <1>5, <1>6, <2>2, <2>4, <2>7, <2>8 DEF HasJoin, K
<1>. QED  BY <1>1, <1>8, <1>9 DEF Kinds

(* An operand that is true is folded into a conjunction.  No row is left   *)
(* only if neither of the first two operands has any.                      *)
LEMMA FoldStep ==
  ASSUME AreMatrices, IsPlain, NEW n \in 2 .. Len(operands),
         NEW r, IsReplacements(r), HasJoin(r, n - 1),
         NEW last, IsReplacements(last.replacements), last.value, IsLast(r, last, n),
         NEW walk, IsWalk(walk)
  PROVE  LET both == IntersectReplacements(r, last.replacements, walk)
         IN  IF DOMAIN both = {} THEN KeysOf(2) = {} ELSE HasJoin(both, n)
<1>. DEFINE o == operands[n]
            s == last.replacements
            both == IntersectReplacements(r, s, walk)
            K == KeysOf(n - 1)
<1>1. /\ n \in 1 .. Len(operands) /\ n \in Nat /\ n - 1 \in Nat /\ n - 1 <= n
      /\ Len(operands) \in Nat /\ 2 \in Nat /\ 2 <= n
      /\ o.kind \in Kinds
      /\ o.kind # "generate" => ~Generates(n) /\ ~Generates(n - 1)
      /\ DOMAIN operands = 1 .. Len(operands)
      /\ o.kind = "compute" =>
           \A m \in 1 .. Len(operands) : m <= n => operands[m].kind = "compute"
  <2>1. Len(operands) \in Nat /\ DOMAIN operands = 1 .. Len(operands)
    BY DEF AreMatrices, AreOperands
  <2>2. n \in 1 .. Len(operands) /\ 2 <= n
    BY <2>1
  <2>. QED  BY <2>1, <2>2, KindsBefore
<1>2. IsMatrix(r) /\ IsMatrix(s)
  <2>1. IsMatrix(o.replacements)
    BY <1>1 DEF AreMatrices
  <2>. QED  BY <1>1, <2>1 DEF HasJoin, IsLast, Kinds
<1>3. /\ IsReplacements(both) /\ IsMatrix(both)
      /\ Columns(r) = {} => both = CopyReplacements(s)
      /\ Columns(r) # {} /\ Columns(s) = {} => both = r
      /\ Columns(r) # {} /\ Columns(s) # {} =>
           /\ DOMAIN both = DOMAIN r \cup DOMAIN s
           /\ Columns(both) = JoinOf(Columns(r), DOMAIN r, Columns(s), DOMAIN s)
  <2>. HIDE DEF s
  <2>. QED  BY <1>2, IntersectReplacementsIsJoin DEF s
<1>. HIDE DEF both
<1>4. CASE K # {}
  <2>1. IsLast(r, [value |-> TRUE, replacements |-> s], n)
    BY DEF IsLast
  <2>2. DOMAIN both # {} /\ HasJoin(both, n)
    <3>. HIDE DEF s
    <3>1. IsReplacements(s)
      BY DEF s
    <3>. QED  BY <1>2, <1>3, <1>4, <2>1, <3>1, HasJoinOfMore
  <2>. QED  BY <2>2 DEF both
<1>5. CASE K = {}
  <2>1. o.kind = "compute" /\ o.value /\ s = o.replacements
    BY <1>1, <1>5 DEF IsLast, Kinds
  <2>2. n = 2
    <3>1. n - 1 >= 2 => KeysOf(2) \subseteq K /\ KeysOf(2) # {}
      BY <1>1, JoinOfFewer DEF HasJoin
    <3>. QED  BY <1>1, <1>5, <3>1
  <2>3. DOMAIN r = {} /\ ~Generates(n)
    BY <1>1, <1>5, <2>1 DEF HasJoin
  <2>4. both = CopyReplacements(s)
    BY <1>3, <2>3 DEF Columns
  <2>5. CASE DOMAIN s = {}
    <3>1. DOMAIN both = {}
      BY <2>4, <2>5 DEF CopyReplacements, Restrict
    <3>2. KeysOf(n) = K
      <4>1. ~Restricts(o)
        BY <2>1, <2>5 DEF Restricts
      <4>2. \A i \in 1 .. Len(operands) : n - 1 < i /\ i <= n => i = n
        BY <1>1
      <4>. QED  BY <1>1, <4>1, <4>2, JoinSkips
    <3>. QED  BY <1>5, <2>2, <3>1, <3>2 DEF both
  <2>6. CASE DOMAIN s # {}
    <3>1. FoundOperands(n - 1) = {}
      <4>1. \A m \in 1 .. Len(operands) : m <= n - 1 => operands[m].kind = "compute"
        BY <1>1, <2>1
      <4>. QED  BY <1>1, <1>5, <4>1, NoKeysOfComputed
    <3>2. KeysOf(n) = DOMAIN s /\ Join(n) = Columns(s)
      <4>1. Restricts(o)
        BY <2>1, <2>6 DEF Restricts
      <4>. QED  BY <1>1, <2>1, <3>1, <4>1, JoinOfOne
    <3>3. Join(n) # {}
      BY <1>1, <2>1 DEF IsPlain
    <3>4. both = s
      BY <1>2, <2>4, <3>2, <3>3, CopyKeeps
    <3>5. \A c \in Join(n) : Restrict(c, KeysOf(n)) = c
      <4>1. \A c \in Join(n) : c \in [KeysOf(n) -> Values]
        BY <1>1, JoinValues
      <4>. QED  BY <4>1 DEF Restrict
    <3>6. \A m \in 1 .. Len(operands) : m <= n /\ operands[m].kind = "compute" => operands[m].value
      <4>1. \A m \in 1 .. Len(operands) : m <= n => m = n \/ m <= n - 1
        BY <1>1
      <4>. QED  BY <2>1, <4>1 DEF HasJoin
    <3>7. operands[1].kind = "compute"
      BY DEF HasJoin
    <3>. HIDE DEF s
    <3>8. KeysOf(2) # {} /\ DOMAIN both # {}
      BY <2>2, <2>6, <3>2, <3>4
    <3>9. HasJoin(both, n)
      BY <1>2, <2>3, <2>6, <3>2, <3>3, <3>4, <3>5, <3>6, <3>7, <3>8 DEF HasJoin
    <3>. QED  BY <3>8, <3>9 DEF both, s
  <2>. QED  BY <2>5, <2>6
<1>. QED  BY <1>4, <1>5

(* An operand of a plain conjunction is evaluated for the replacements of  *)
(* those before it; what it generates, it generates for the join of all.   *)
LEMMA EvaluationIsLast ==
  ASSUME AreMatrices, IsPlain, NEW n \in 1 .. Len(operands),
         IsReplacements(Known),
         n = 1 => DOMAIN Known = {},
         n # 1 => HasJoin(Known, n - 1),
         NEW walk, IsWalk(walk), ~EvaluationThrows(operands[n], walk)
  PROVE  LET evaluation == Evaluation(operands[n], walk)
         IN  /\ Len(evaluation.generated) <= Len(Fresh) => IsLast(Known, evaluation, n)
             /\ Range(evaluation.generated) # {} =>
                  /\ \A m \in 1 .. ComputedAmount : operands[m].value
                  /\ \A c \in Range(evaluation.generated) :
                       \E d \in JoinOfAll : Compatible(WithoutEdges(c), d)
<1>. DEFINE o == operands[n]
            r == Known
            e == Evaluation(o, walk)
            K == KeysOf(n - 1)
<1>1. /\ n \in Nat /\ n - 1 \in Nat /\ n - 1 <= n /\ Len(operands) \in Nat /\ n <= Len(operands)
      /\ o.kind \in Kinds
      /\ o.kind # "generate" => ~Generates(n) /\ ~Generates(n - 1)
      /\ DOMAIN operands = 1 .. Len(operands)
      /\ IsOperand(o)
  <2>1. DOMAIN operands = 1 .. Len(operands) /\ IsOperand(o)
    BY DEF AreMatrices, AreOperands
  <2>. QED  BY <2>1, KindsBefore
<1>2. /\ o.kind # "generate" => Range(e.generated) = {}
      /\ o.kind = "compute" => e.value = o.value /\ e.replacements = o.replacements
      /\ o.kind # "compute" /\ DOMAIN r = {} => ~e.value /\ DOMAIN e.replacements = {}
      /\ o.kind = "generate" =>
           /\ e.value => Range(e.generated) # {}
           /\ Len(e.generated) <= Len(Fresh) => IsMatrix(e.replacements)
      /\ IsMatrix(r) =>
           \A c \in Range(e.generated) :
             \E d \in Columns(r) : Compatible(WithoutEdges(c), d)
  <2>. HIDE DEF o
  <2>1. /\ e.value \in BOOLEAN
        /\ Len(e.generated) <= Len(Fresh) => IsReplacements(e.replacements)
        /\ \A c \in Range(e.generated) : DOMAIN c \subseteq Variables
        /\ o.kind # "generate" => Range(e.generated) = {}
        /\ o.kind = "compute" => /\ e.value = o.value
                                 /\ e.replacements = o.replacements
        /\ o.kind # "compute" /\ DOMAIN Known = {} =>
             ~e.value /\ DOMAIN e.replacements = {}
        /\ o.kind = "find" => (e.value <=> DOMAIN e.replacements # {})
        /\ o.kind = "generate" =>
             /\ e.value => Range(e.generated) # {}
             /\ Len(e.generated) <= Len(Fresh) => IsMatrix(e.replacements)
        /\ IsMatrix(Known) =>
             \A c \in Range(e.generated) :
               \E d \in Columns(Known) : Compatible(WithoutEdges(c), d)
    <3>1. IsOperand(o) /\ ~EvaluationThrows(o, walk)
      BY <1>1 DEF o
    <3>. QED  BY <3>1, EvaluationType
  <2>. HIDE DEF e
  <2>. QED  BY <2>1
<1>3. n = 1 => K = {} /\ Columns(r) = {} /\ IsMatrix(r)
  BY JoinOfZero DEF Columns, IsMatrix
<1>4. n # 1 => IsMatrix(r)
  BY DEF HasJoin
<1>5. DOMAIN r # {} => K # {}
  <2>1. ASSUME n # 1, ~Generates(n - 1)
        PROVE  DOMAIN r = K
    BY <2>1 DEF HasJoin
  <2>2. ASSUME n # 1, Generates(n - 1)
        PROVE  K # {}
    BY <2>2 DEF HasJoin
  <2>. QED  BY <2>1, <2>2
<1>6. CASE o.kind = "compute"
  <2>. HIDE DEF e
  <2>1. IsLast(r, e, n)
    BY <1>2, <1>6 DEF IsLast
  <2>. QED  BY <1>2, <1>6, <2>1 DEF e
<1>7. CASE o.kind = "find"
  <2>1. e = Find(o.replacements, r, input.usingType, walk)
    BY <1>7 DEF Evaluation
  <2>2. CASE K = {}
    <3>1. ~e.value
      BY <1>2, <1>5, <1>7, <2>2
    <3>. HIDE DEF e
    <3>2. IsLast(r, e, n)
      BY <1>7, <2>2, <3>1 DEF IsLast
    <3>. QED  BY <1>2, <1>7, <3>2 DEF e
  <2>3. CASE K # {}
    <3>1. /\ n # 1 /\ DOMAIN r = K /\ Columns(r) = Join(n - 1) /\ Join(n - 1) # {}
          /\ IsMatrix(r) /\ SearchIsExact(n)
      BY <1>1, <1>3, <1>7, <2>3 DEF HasJoin, IsPlain
    <3>2. /\ e.value =>
               /\ IsMatrix(e.replacements)
               /\ DOMAIN e.replacements = DOMAIN o.replacements
               /\ Columns(e.replacements) = FoundBy(Join(n - 1), o.replacements)
               /\ Join(n) # {}
          /\ ~e.value => Join(n) = {}
      <4>. HIDE DEF r
      <4>. QED  BY <1>7, <2>1, <2>3, <3>1, SearchStep DEF r
    <3>. HIDE DEF e
    <3>3. IsLast(r, e, n)
      BY <1>7, <2>3, <3>2 DEF IsLast
    <3>. QED  BY <1>2, <1>7, <3>3 DEF e
  <2>. QED  BY <2>2, <2>3
<1>8. CASE o.kind = "generate"
  <2>. HIDE DEF e
  <2>1. ASSUME Range(e.generated) # {}
        PROVE  /\ Columns(r) # {} /\ K # {} /\ n # 1
               /\ \A m \in 1 .. ComputedAmount : operands[m].value
               /\ \A c \in Range(e.generated) :
                    \E d \in JoinOfAll : Compatible(WithoutEdges(c), d)
    <3>1. Columns(r) # {}
      BY <1>2, <1>3, <1>4, <2>1
    <3>2. K # {} /\ n # 1
      BY <1>3, <1>5, <3>1 DEF Columns
    <3>3. \A m \in 1 .. ComputedAmount : operands[m].value
      <4>1. ASSUME NEW m \in 1 .. ComputedAmount
            PROVE  operands[m].value
        <5>1. m \in 1 .. Len(operands) /\ operands[m].kind = "compute"
          BY <1>1, ComputedFirst DEF ComputedAmount, AreMatrices
        <5>2. m <= n - 1
          <6>1. ~(n <= m)
            BY <1>8, <5>1, KindsBefore
          <6>. QED  BY <1>1, <5>1, <6>1
        <5>. QED  BY <3>2, <5>1, <5>2 DEF HasJoin
      <4>. QED  BY <4>1
    <3>4. JoinOfAll = Join(n - 1)
      <4>1. ASSUME NEW i \in 1 .. Len(operands), n - 1 < i
            PROVE  ~Restricts(operands[i])
        <5>1. n <= i
          BY <1>1, <4>1
        <5>2. operands[i].kind = "generate"
          BY <1>8, <5>1, KindsBefore
        <5>. QED  BY <5>2 DEF Restricts
      <4>2. n - 1 <= Len(operands)
        BY <1>1
      <4>. QED  BY <1>1, <4>1, <4>2, JoinSkips DEF JoinOfAll
    <3>5. ASSUME NEW c \in Range(e.generated)
          PROVE  \E d \in Join(n - 1) : Compatible(WithoutEdges(c), d)
      <4>1. PICK d \in Columns(r) : Compatible(WithoutEdges(c), d)
        BY <1>2, <1>4, <3>2
      <4>2. Restrict(d, K) \in Join(n - 1) /\ K \subseteq DOMAIN r
        BY <3>2 DEF HasJoin
      <4>3. DOMAIN d = DOMAIN r
        BY DEF Columns, Column
      <4>4. Compatible(WithoutEdges(c), Restrict(d, K))
        BY <4>1, <4>2, <4>3 DEF Compatible, Restrict
      <4>. QED  BY <4>2, <4>4
    <3>. QED  BY <3>1, <3>2, <3>3, <3>4, <3>5
  <2>2. Len(e.generated) <= Len(Fresh) => IsLast(r, e, n)
    BY <1>2, <1>8, <2>1 DEF IsLast
  <2>. QED  BY <2>1, <2>2 DEF e
<1>. QED  BY <1>1, <1>6, <1>7, <1>8 DEF Kinds

(* Why a conjunction is false: an operand is, the operands have nothing in *)
(* common, or the first two have no variables.                             *)
HasReason ==
  \/ \E n \in 1 .. ComputedAmount : ~operands[n].value
  \/ JoinOfAll = {}
  \/ KeysOf(2) = {}

(* The result r after the first n operands.                                *)
JoinSoFar(r, n) ==
  IF n = 0 THEN r = NotFound ELSE r.value /\ HasJoin(r.replacements, n)

(* The conjunction from operand to operand; `at` is where it is.           *)
JoinFacts(at, n, r, last, columns) ==
  /\ at \in {"premise", "fold"} => JoinSoFar(r, n - 1)
  /\ at = "fold" => IsLast(r.replacements, last, n)
  /\ at \in {"conclusion", "generate", "done"} /\ r.value =>
       HasJoin(r.replacements, Len(operands))
  /\ at \in {"conclusion", "generate", "done"} /\ ~r.value /\ ~Generates(Len(operands))
       /\ FoundOperands(ComputedAmount) # {} => HasReason
  /\ columns # {} =>
       /\ \A m \in 1 .. ComputedAmount : operands[m].value
       /\ \A c \in columns : \E d \in JoinOfAll : Compatible(WithoutEdges(c), d)

JoinInv ==
  connective = "CONJUNCTION" /\ IsPlain => JoinFacts(pc, next, result, lastResult, generated)

(* All of this is about the operands.                                      *)
LEMMA OperandsKept ==
  ASSUME operands' = operands
  PROVE  /\ IsPlain' <=> IsPlain
         /\ \A at, n, r, last, columns :
              JoinFacts(at, n, r, last, columns)' <=> JoinFacts(at, n, r, last, columns)
<1>1. \A n : FoundOperands(n)' = FoundOperands(n)
  BY DEF FoundOperands
<1>2. \A n : KeysOf(n)' = KeysOf(n) /\ ValuesOf(n)' = ValuesOf(n)
  BY <1>1 DEF KeysOf, ValuesOf
<1>3. \A n : Join(n)' = Join(n)
  BY <1>1, <1>2 DEF Join
<1>4. JoinOfAll' = JoinOfAll
  BY <1>3 DEF JoinOfAll
<1>5. ComputedAmount' = ComputedAmount
  BY DEF ComputedAmount
<1>6. \A n : SearchIsExact(n)' <=> SearchIsExact(n)
  BY <1>2, <1>3 DEF SearchIsExact
<1>7. IsPlain' <=> IsPlain
  BY <1>3, <1>6 DEF IsPlain
<1>8. \A n : Generates(n)' <=> Generates(n)
  BY DEF Generates
<1>9. \A r, n : HasJoin(r, n)' <=> HasJoin(r, n)
  BY <1>2, <1>3, <1>8 DEF HasJoin
<1>10. \A r, last, n : IsLast(r, last, n)' <=> IsLast(r, last, n)
  BY <1>2, <1>3 DEF IsLast
<1>11. \A r, n : JoinSoFar(r, n)' <=> JoinSoFar(r, n)
  BY <1>9 DEF JoinSoFar
<1>12. HasReason' <=> HasReason
  BY <1>2, <1>4, <1>5 DEF HasReason
<1>13. FoundOperands(ComputedAmount)' = FoundOperands(ComputedAmount)
       /\ (Generates(Len(operands))' <=> Generates(Len(operands)))
  BY <1>1, <1>5, <1>8
<1>14. \A at, n, r, last, columns :
         JoinFacts(at, n, r, last, columns)' <=> JoinFacts(at, n, r, last, columns)
  BY <1>4, <1>5, <1>9, <1>10, <1>11, <1>12, <1>13 DEF JoinFacts
<1>. QED  BY <1>7, <1>14

(* A plain conjunction that is being computed.                             *)
LEMMA PlainConjunction ==
  ASSUME TypeInv, connective = "CONJUNCTION", IsPlain,
         pc \in {"premise", "fold", "conclusion", "generate", "done"}
  PROVE  /\ AreMatrices /\ AreOperands(operands)
         /\ Len(operands) \in Nat /\ DOMAIN operands = 1 .. Len(operands) /\ Len(operands) >= 1
         /\ next \in 1 .. Len(operands) + 1
         /\ pc = "fold" => next \in 1 .. Len(operands)
         /\ Known = result.replacements
         /\ IsReplacements(result.replacements) /\ IsReplacements(lastResult.replacements)
         /\ result.value \in BOOLEAN
<1>1. /\ AreOperands(operands)
      /\ Len(operands) \in Nat /\ DOMAIN operands = 1 .. Len(operands) /\ Len(operands) >= 1
  BY OperandsAre
<1>2. AreMatrices
  BY <1>1 DEF IsPlain, AreMatrices, Range
<1>3. /\ next \in 1 .. Len(operands) + 1
      /\ IsReplacements(result.replacements) /\ IsReplacements(lastResult.replacements)
      /\ result.value \in BOOLEAN
  BY DEF TypeInv, TypeOK, IsResult
<1>4. pc = "fold" => next \in 1 .. Len(operands)
  BY DEF TypeInv, FoldInv
<1>5. Known = result.replacements
  BY DEF Known, Equivalences
<1>. QED  BY <1>1, <1>2, <1>3, <1>4, <1>5

LEMMA EvaluateJoin ==
  ASSUME TypeInv, connective = "CONJUNCTION", IsPlain,
         JoinFacts(pc, next, result, lastResult, generated), EvaluateOperand
  PROVE  JoinFacts(pc', next', result', lastResult', generated')
<1>. DEFINE o == operands[next]
            e(walk) == Evaluation(o, walk)
<1>1. PICK walk \in WalkSet :
        /\ ~EvaluationThrows(o, walk)
        /\ Len(e(walk).generated) <= Len(Fresh)
        /\ lastResult' = [value |-> e(walk).value, replacements |-> e(walk).replacements]
        /\ generated' = generated \cup Range(e(walk).generated)
  BY DEF EvaluateOperand
<1>2. pc = "premise" /\ next <= Len(operands) /\ pc' = "fold" /\ next' = next /\ result' = result
  BY DEF EvaluateOperand, AtOperand
<1>3. /\ AreMatrices /\ next \in 1 .. Len(operands) /\ Len(operands) \in Nat
      /\ Known = result.replacements /\ IsReplacements(Known) /\ IsWalk(walk)
  BY <1>2, PlainConjunction, WalkSetAssumption
<1>4. JoinSoFar(result, next - 1)
  BY <1>2 DEF JoinFacts
<1>5. /\ next = 1 => DOMAIN Known = {}
      /\ next # 1 => HasJoin(Known, next - 1)
  BY <1>3, <1>4, NotFoundType DEF JoinSoFar
<1>. HIDE DEF o
<1>6. /\ Len(e(walk).generated) <= Len(Fresh) => IsLast(Known, e(walk), next)
      /\ Range(e(walk).generated) # {} =>
           /\ \A m \in 1 .. ComputedAmount : operands[m].value
           /\ \A c \in Range(e(walk).generated) :
                \E d \in JoinOfAll : Compatible(WithoutEdges(c), d)
  BY <1>1, <1>3, <1>5, EvaluationIsLast DEF o
<1>. HIDE DEF e
<1>7. IsLast(result.replacements, lastResult', next)
  <2>1. IsLast(result.replacements, e(walk), next)
    BY <1>1, <1>3, <1>6
  <2>2. lastResult'.value = e(walk).value /\ lastResult'.replacements = e(walk).replacements
    BY <1>1
  <2>. QED  BY <2>1, <2>2 DEF IsLast
<1>8. generated' # {} =>
        /\ \A m \in 1 .. ComputedAmount : operands[m].value
        /\ \A c \in generated' : \E d \in JoinOfAll : Compatible(WithoutEdges(c), d)
  BY <1>1, <1>6 DEF JoinFacts
<1>. QED  BY <1>2, <1>4, <1>7, <1>8 DEF JoinFacts

(* Without a true result there is a reason.                                *)
LEMMA FalseJoin ==
  ASSUME TypeInv, connective = "CONJUNCTION", IsPlain,
         JoinFacts(pc, next, result, lastResult, generated), OperandIsFalse
  PROVE  JoinFacts(pc', next', result', lastResult', generated')
<1>. DEFINE o == operands[next]
            n == next
<1>1. /\ pc = "fold" /\ ~lastResult.value /\ pc' = "conclusion" /\ result' = NotFound
      /\ generated' = generated
  BY DEF OperandIsFalse, Folding, ConjunctionFails
<1>2. /\ AreMatrices /\ n \in 1 .. Len(operands) /\ Len(operands) \in Nat
      /\ n \in Nat /\ n - 1 \in Nat /\ n - 1 <= n /\ n <= Len(operands)
      /\ DOMAIN operands = 1 .. Len(operands)
      /\ o.kind \in Kinds
  BY <1>1, PlainConjunction, KindsBefore
<1>3. IsLast(result.replacements, lastResult, n)
  BY <1>1 DEF JoinFacts
<1>4. /\ ComputedAmount \in 0 .. Len(operands)
      /\ \A m \in DOMAIN operands : operands[m].kind = "compute" <=> m <= ComputedAmount
  <2>. DEFINE computed == {m \in DOMAIN operands : operands[m].kind = "compute"}
  <2>1. /\ Cardinality(computed) \in 0 .. Len(operands)
        /\ \A m \in DOMAIN operands : operands[m].kind = "compute" <=> m <= Cardinality(computed)
    BY <1>2, ComputedFirst DEF AreMatrices
  <2>. QED  BY <2>1 DEF ComputedAmount
<1>5. ASSUME ~Generates(Len(operands)), FoundOperands(ComputedAmount) # {}
      PROVE  HasReason
  <2>1. CASE o.kind = "compute"
    <3>1. ~o.value
      BY <1>1, <1>3, <2>1 DEF IsLast
    <3>2. n \in 1 .. ComputedAmount
      BY <1>2, <1>4, <2>1
    <3>. QED  BY <3>1, <3>2 DEF HasReason
  <2>2. CASE o.kind = "find"
    <3>1. KeysOf(n - 1) # {}
      <4>1. ComputedAmount <= n - 1 /\ ComputedAmount \in Nat
        BY <1>2, <1>4, <2>2
      <4>2. KeysOf(ComputedAmount) # {}
        <5>1. KeysOf(ComputedAmount) = {} => FoundOperands(ComputedAmount) = {}
          BY <1>2, <1>4, <4>1, NoKeysOfComputed
        <5>. QED  BY <1>5, <5>1
      <4>3. KeysOf(ComputedAmount) \subseteq KeysOf(n - 1)
        BY <1>2, <4>1, JoinOfFewer
      <4>. QED  BY <4>2, <4>3
    <3>2. Join(n) = {}
      BY <1>1, <1>3, <2>2, <3>1 DEF IsLast
    <3>3. JoinOfAll = {}
      BY <1>2, <3>2, JoinOfFewer DEF JoinOfAll
    <3>. QED  BY <3>3 DEF HasReason
  <2>3. CASE o.kind = "generate"
    BY <1>2, <1>5, <2>3 DEF Generates
  <2>. QED  BY <1>2, <2>1, <2>2, <2>3 DEF Kinds
<1>6. ~NotFound.value
  BY NotFoundType
<1>. QED  BY <1>1, <1>5, <1>6 DEF JoinFacts

LEMMA FirstJoin ==
  ASSUME TypeInv, connective = "CONJUNCTION", IsPlain,
         JoinFacts(pc, next, result, lastResult, generated), FirstOperand
  PROVE  JoinFacts(pc', next', result', lastResult', generated')
<1>1. /\ pc = "fold" /\ lastResult.value /\ ~result.value /\ operands[next].kind = "compute"
      /\ pc' = "premise" /\ next' = next + 1 /\ result' = lastResult /\ generated' = generated
  BY DEF FirstOperand, Folding, Folded, IsFirst
<1>2. AreMatrices /\ next \in 1 .. Len(operands) /\ Len(operands) \in Nat /\ Len(operands) >= 1
  BY <1>1, PlainConjunction
<1>3. next = 1
  <2>1. JoinSoFar(result, next - 1)
    BY <1>1 DEF JoinFacts
  <2>. QED  BY <1>1, <1>2, <2>1 DEF JoinSoFar
<1>4. /\ lastResult.value = operands[1].value
      /\ lastResult.replacements = operands[1].replacements
  BY <1>1, <1>3 DEF JoinFacts, IsLast
<1>5. HasJoin(lastResult.replacements, 1)
  BY <1>1, <1>2, <1>3, <1>4, FirstHasJoin
<1>6. JoinSoFar(result', next' - 1)
  <2>1. next' - 1 = 1
    BY <1>1, <1>3
  <2>. QED  BY <1>1, <1>5, <2>1 DEF JoinSoFar
<1>. QED  BY <1>1, <1>6 DEF JoinFacts

LEMMA NextJoin ==
  ASSUME TypeInv, connective = "CONJUNCTION", IsPlain,
         JoinFacts(pc, next, result, lastResult, generated), NextOperand
  PROVE  JoinFacts(pc', next', result', lastResult', generated')
<1>. DEFINE r == result.replacements
            both(walk) == IntersectReplacements(Known, lastResult.replacements, walk)
<1>1. PICK walk \in WalkSet :
        IF DOMAIN both(walk) = {}
          THEN ConjunctionFails
          ELSE Folded([result EXCEPT !.replacements = both(walk)])
  BY DEF NextOperand
<1>2. pc = "fold" /\ lastResult.value /\ (result.value \/ operands[next].kind # "compute")
  BY DEF NextOperand, Folding, IsFirst
<1>3. /\ AreMatrices /\ next \in 1 .. Len(operands) /\ Len(operands) \in Nat
      /\ Known = r /\ IsReplacements(r) /\ IsReplacements(lastResult.replacements)
      /\ IsWalk(walk) /\ operands[next].kind \in Kinds
  BY <1>2, PlainConjunction, WalkSetAssumption, KindsBefore
<1>4. JoinSoFar(result, next - 1) /\ IsLast(r, lastResult, next)
  BY <1>2 DEF JoinFacts
<1>5. next # 1
  <2>1. ASSUME next = 1
        PROVE  FALSE
    <3>1. KeysOf(next - 1) = {}
      BY <1>3, <2>1, JoinOfZero
    <3>2. ~result.value
      BY <1>4, <2>1, NotFoundType DEF JoinSoFar
    <3>. QED  BY <1>2, <1>3, <1>4, <3>1, <3>2 DEF IsLast, Kinds
  <2>. QED  BY <2>1
<1>6. next \in 2 .. Len(operands) /\ result.value /\ HasJoin(r, next - 1)
  BY <1>3, <1>4, <1>5 DEF JoinSoFar
<1>7. IF DOMAIN both(walk) = {} THEN KeysOf(2) = {} ELSE HasJoin(both(walk), next)
  <2>. HIDE DEF r
  <2>1. Known = r
    BY <1>3
  <2>2. LET both2 == IntersectReplacements(r, lastResult.replacements, walk)
        IN  IF DOMAIN both2 = {} THEN KeysOf(2) = {} ELSE HasJoin(both2, next)
    BY <1>2, <1>3, <1>4, <1>6, FoldStep
  <2>. QED  BY <2>1, <2>2
<1>. HIDE DEF both
<1>8. CASE DOMAIN both(walk) = {}
  <2>1. pc' = "conclusion" /\ result' = NotFound /\ generated' = generated
    BY <1>1, <1>8 DEF ConjunctionFails
  <2>2. ~NotFound.value
    BY NotFoundType
  <2>3. HasReason
    BY <1>7, <1>8 DEF HasReason
  <2>. QED  BY <2>1, <2>2, <2>3 DEF JoinFacts
<1>9. CASE DOMAIN both(walk) # {}
  <2>1. /\ pc' = "premise" /\ next' = next + 1 /\ generated' = generated
        /\ result' = [result EXCEPT !.replacements = both(walk)]
    BY <1>1, <1>9 DEF Folded
  <2>2. result'.value /\ result'.replacements = both(walk)
    <3>1. DOMAIN result = {"value", "replacements"}
      BY DEF TypeInv, TypeOK, IsResult
    <3>. QED  BY <1>6, <2>1, <3>1
  <2>3. next' - 1 = next
    BY <1>3, <2>1
  <2>4. JoinSoFar(result', next' - 1)
    <3>1. next # 0 /\ JoinSoFar(result', next)
      BY <1>6, <1>7, <1>9, <2>2 DEF JoinSoFar
    <3>. QED  BY <2>3, <3>1
  <2>. QED  BY <2>1, <2>4 DEF JoinFacts
<1>. QED  BY <1>8, <1>9

LEMMA JoinInvInit ==
  Init => JoinInv
<1>. SUFFICES ASSUME Init PROVE JoinInv
  OBVIOUS
<1>1. connective = "NONE"
  BY DEF Init
<1>. QED  BY <1>1 DEF JoinInv

LEMMA JoinInvNext ==
  TypeInv /\ JoinInv /\ [Next]_vars => JoinInv'
<1>. SUFFICES ASSUME TypeInv, JoinInv, [Next]_vars PROVE JoinInv'
  OBVIOUS
<1>1. CASE pc = "build" /\ ~UNCHANGED vars
  <2>1. generated = {} /\ result = NotFound
    BY <1>1 DEF TypeInv, TreeInv, BuildInv
  <2>2. CASE Build \/ BuildThrows
    <3>1. pc' \in {"build", "thrown"} /\ generated' = generated
      BY <2>2 DEF Build, BuildThrows
    <3>. QED  BY <2>1, <3>1 DEF JoinInv, JoinFacts
  <2>3. CASE ComputeTree
    <3>1. /\ pc' = "premise" /\ generated' = generated /\ result' = result
          /\ connective' = "CONJUNCTION" => next' = 1
      BY <2>3 DEF ComputeTree, Equivalences
    <3>2. connective' = "CONJUNCTION" => JoinSoFar(result, next - 1)'
      <4>1. connective' = "CONJUNCTION" => next' - 1 = 0
        BY <3>1
      <4>. QED  BY <2>1, <3>1, <4>1 DEF JoinSoFar
    <3>. QED  BY <2>1, <3>1, <3>2 DEF JoinInv, JoinFacts
  <2>4. Build \/ BuildThrows \/ ComputeTree
    BY <1>1 DEF Next, EvaluateOperand, EvaluateThrows, OperandIsFalse, FirstOperand, NextOperand,
               Disjunct, DisjunctionFails, Equivalence, NoEquivalence, FoldThrows, OnlyOperand,
               PremiseComputed, ConclusionNotGenerated, SubtractExisting, Evaluated, AtOperand,
               Folding
  <2>. QED  BY <2>2, <2>3, <2>4
<1>2. CASE UNCHANGED vars \/ Evaluated
  <2>1. /\ pc' = pc /\ next' = next /\ result' = result /\ lastResult' = lastResult
        /\ generated' = generated /\ operands' = operands /\ connective' = connective
    BY <1>2 DEF vars, Evaluated
  <2>. QED  BY <2>1, OperandsKept DEF JoinInv
<1>3. CASE pc # "build" /\ ~(UNCHANGED vars \/ Evaluated)
  <2>1. operands' = operands /\ connective' = connective
    BY <1>3 DEF Next, Build, BuildThrows, ComputeTree, EvaluateOperand, EvaluateThrows,
               OperandIsFalse, FirstOperand, NextOperand, Disjunct, DisjunctionFails, Equivalence,
               NoEquivalence, FoldThrows, OnlyOperand, PremiseComputed, ConclusionNotGenerated,
               SubtractExisting, ConjunctionFails, Folded, afterPremise
  <2>2. SUFFICES ASSUME connective = "CONJUNCTION", IsPlain,
                        JoinFacts(pc, next, result, lastResult, generated)
                 PROVE  JoinFacts(pc', next', result', lastResult', generated')
    BY <2>1, OperandsKept DEF JoinInv
  <2>3. connective \notin Equivalences /\ connective \notin {"NEGATION", "ATOMIC"}
    BY <2>2 DEF Equivalences
  <2>4. CASE EvaluateOperand
    BY <2>2, <2>4, EvaluateJoin
  <2>5. CASE OperandIsFalse
    BY <2>2, <2>5, FalseJoin
  <2>6. CASE FirstOperand
    BY <2>2, <2>6, FirstJoin
  <2>7. CASE NextOperand
    BY <2>2, <2>7, NextJoin
  <2>8. CASE EvaluateThrows \/ FoldThrows
    <3>1. pc' = "thrown" /\ generated' = generated
      BY <2>8 DEF EvaluateThrows, FoldThrows
    <3>. QED  BY <2>2, <3>1 DEF JoinFacts
  <2>9. CASE PremiseComputed
    <3>1. /\ pc = "premise" /\ pc' = "conclusion" /\ next > Len(operands)
          /\ result' = result /\ generated' = generated
      BY <2>9 DEF PremiseComputed
    <3>2. next \in 1 .. Len(operands) + 1 /\ Len(operands) \in Nat /\ Len(operands) >= 1
      BY <2>2, <3>1, PlainConjunction
    <3>3. next - 1 = Len(operands) /\ next - 1 # 0
      BY <3>1, <3>2
    <3>4. result.value /\ HasJoin(result.replacements, Len(operands))
      BY <2>2, <3>1, <3>3 DEF JoinFacts, JoinSoFar
    <3>. QED  BY <2>2, <3>1, <3>4 DEF JoinFacts
  <2>10. CASE ConclusionNotGenerated \/ SubtractExisting
    <3>1. /\ pc = "conclusion" /\ pc' \in {"generate", "done", "thrown"}
          /\ result' = result /\ generated' = generated
      BY <2>10 DEF ConclusionNotGenerated, SubtractExisting
    <3>. QED  BY <2>2, <3>1 DEF JoinFacts
  <2>11. ~Disjunct /\ ~DisjunctionFails /\ ~Equivalence /\ ~NoEquivalence /\ ~OnlyOperand
    BY <2>2, <2>3 DEF Disjunct, DisjunctionFails, NothingUnited, Equivalence, NoEquivalence,
                     OnlyOperand, Folding
  <2>12. ~Build /\ ~BuildThrows /\ ~ComputeTree
    BY <1>3 DEF Build, BuildThrows, ComputeTree
  <2>. QED  BY <1>3, <2>4, <2>5, <2>6, <2>7, <2>8, <2>9, <2>10, <2>11, <2>12 DEF Next
<1>. QED  BY <1>1, <1>2, <1>3

(* ConjunctionExpressionNode::compute: whatever the operands, the order of *)
(* the hashes and the iteration orders, a conjunction of which no operand  *)
(* is generated is true just when its computed operands are and the join   *)
(* of all operands is not empty, and has the columns of the join; or it is *)
(* false since the first two operands have no variables.                   *)
THEOREM ConjunctionIsJoinHolds == Spec => []ConjunctionIsJoin
<1>1. TypeInv /\ JoinInv => ConjunctionIsJoin
  <2>1. SUFFICES ASSUME TypeInv, JoinInv, connective = "CONJUNCTION", PremiseDone, IsPlain,
                        \A o \in Range(operands) : o.kind # "generate",
                        FoundOperands(ComputedAmount) # {}
                 PROVE  /\ result.value <=> /\ \A n \in 1 .. ComputedAmount : operands[n].value
                                            /\ JoinOfAll # {}
                                            /\ KeysOf(2) # {}
                        /\ result.value => /\ IsMatrix(result.replacements)
                                           /\ Columns(result.replacements) = JoinOfAll
    BY DEF ConjunctionIsJoin
  <2>. DEFINE L == Len(operands)
  <2>2. /\ AreMatrices /\ L \in Nat /\ DOMAIN operands = 1 .. L /\ L >= 1
        /\ result.value \in BOOLEAN
    BY <2>1, PlainConjunction DEF PremiseDone
  <2>3. JoinFacts(pc, next, result, lastResult, generated)
    BY <2>1 DEF JoinInv
  <2>4. ~Generates(L)
    BY <2>1, <2>2 DEF Generates, Range
  <2>5. ComputedAmount \in 0 .. L
        /\ \A m \in 1 .. L : operands[m].kind = "compute" <=> m <= ComputedAmount
    <3>. DEFINE computed == {m \in DOMAIN operands : operands[m].kind = "compute"}
    <3>1. /\ Cardinality(computed) \in 0 .. Len(operands)
          /\ \A m \in DOMAIN operands : operands[m].kind = "compute" <=> m <= Cardinality(computed)
      BY <2>2, ComputedFirst DEF AreMatrices
    <3>. QED  BY <2>2, <3>1 DEF ComputedAmount
  <2>6. KeysOf(L) # {}
    <3>1. KeysOf(ComputedAmount) # {}
      <4>1. ComputedAmount \in Nat
        BY <2>2, <2>5
      <4>. QED  BY <2>1, <2>2, <2>5, <4>1, NoKeysOfComputed
    <3>2. KeysOf(ComputedAmount) \subseteq KeysOf(L)
      BY <2>2, <2>5, JoinOfFewer
    <3>. QED  BY <3>1, <3>2
  <2>7. ASSUME result.value
        PROVE  /\ \A n \in 1 .. ComputedAmount : operands[n].value
               /\ JoinOfAll # {} /\ KeysOf(2) # {}
               /\ IsMatrix(result.replacements) /\ Columns(result.replacements) = JoinOfAll
    <3>1. HasJoin(result.replacements, L)
      BY <2>1, <2>3, <2>7 DEF JoinFacts, PremiseDone
    <3>2. /\ Join(L) # {} /\ IsMatrix(result.replacements)
          /\ Columns(result.replacements) = Join(L)
      BY <2>4, <2>6, <3>1 DEF HasJoin
    <3>3. \A n \in 1 .. ComputedAmount : operands[n].value
      BY <2>2, <2>5, <3>1 DEF HasJoin
    <3>4. KeysOf(2) # {}
      <4>1. CASE L >= 2
        BY <3>1, <4>1 DEF HasJoin
      <4>2. CASE L = 1
        <5>1. L <= 2 /\ 2 \in Nat /\ \A i \in 1 .. L : ~(L < i)
          BY <4>2
        <5>2. KeysOf(2) = KeysOf(L)
          BY <2>2, <5>1, JoinSkips
        <5>. QED  BY <2>6, <5>2
      <4>. QED  BY <2>2, <4>1, <4>2
    <3>. QED  BY <3>2, <3>3, <3>4 DEF JoinOfAll
  <2>8. ASSUME ~result.value
        PROVE  HasReason
    BY <2>1, <2>3, <2>4, <2>8 DEF JoinFacts, PremiseDone
  <2>. QED  BY <2>2, <2>7, <2>8 DEF HasReason
<1>. QED  BY <1>1, TypeInvInit, TypeInvNext, JoinInvInit, JoinInvNext, PTL DEF Spec

(* What is generated stays when the conjunction fails or throws later, so  *)
(* it must not depend on operands that are still to come.                  *)
THEOREM GeneratedForJoinHolds == Spec => []GeneratedForJoin
<1>1. JoinInv => GeneratedForJoin
  BY DEF JoinInv, JoinFacts, GeneratedForJoin
<1>. QED  BY <1>1, TypeInvInit, TypeInvNext, JoinInvInit, JoinInvNext, PTL DEF Spec

-----------------------------------------------------------------------------
(* Equivalences.                                                           *)

(* The second operand is true: by itself, or for what the first one found. *)
Holds ==
  IF operands[2].kind = "compute" THEN operands[2].value
  ELSE \E c \in Join(1) : c # <<>> /\ MatchesOf(c, operands[2]) # {}

(* The result of an equivalence.                                           *)
Agreement(value, r) ==
  LET n == IF operands[2].kind = "find" /\ ~Holds THEN 1 ELSE 2
  IN  /\ value <=> (operands[1].value <=> Holds)
      /\ Columns(r) = IF value /\ KeysOf(n) # {} THEN Join(n) ELSE {}

(* What the second operand evaluates to.                                   *)
AgreesWith(last) ==
  LET o == operands[2]
  IN  /\ last.value <=> Holds
      /\ o.kind = "compute" => last.replacements = o.replacements
      /\ o.kind = "find" /\ last.value =>
           /\ KeysOf(1) # {} /\ Join(2) # {}
           /\ IsMatrix(last.replacements)
           /\ DOMAIN last.replacements = DOMAIN o.replacements
           /\ Columns(last.replacements) = FoundBy(Join(1), o.replacements)
      /\ o.kind = "find" /\ ~last.value => DOMAIN last.replacements = {}

(* The first operand, if it is computed.                                   *)
LEMMA JoinOfFirst ==
  ASSUME AreMatrices, IsPlain, Len(operands) >= 1, operands[1].kind = "compute"
  PROVE  LET r == operands[1].replacements
         IN  /\ Join(1) # {}
             /\ KeysOf(1) = DOMAIN r
             /\ DOMAIN r = {} => FoundOperands(1) = {}
             /\ DOMAIN r # {} => Join(1) = Columns(r) /\ Columns(r) # {}
<1>. DEFINE r == operands[1].replacements
<1>1. 1 \in 1 .. Len(operands) /\ 1 - 1 = 0 /\ DOMAIN operands = 1 .. Len(operands)
  BY DEF AreMatrices, AreOperands
<1>2. Join(1) # {}
  BY <1>1 DEF IsPlain
<1>3. CASE DOMAIN r = {}
  <2>1. \A i \in 1 .. Len(operands) : 0 < i /\ i <= 1 => ~Restricts(operands[i])
    BY <1>1, <1>3 DEF Restricts
  <2>2. 0 \in Nat /\ 1 \in Nat /\ 0 <= 1
    OBVIOUS
  <2>3. FoundOperands(1) = FoundOperands(0) /\ KeysOf(1) = KeysOf(0)
    BY <2>1, <2>2, JoinSkips
  <2>. QED  BY <1>2, <1>3, <2>3, JoinOfZero
<1>4. CASE DOMAIN r # {}
  <2>1. Restricts(operands[1]) /\ FoundOperands(1 - 1) = {}
    BY <1>1, <1>4, JoinOfZero DEF Restricts
  <2>2. KeysOf(1) = DOMAIN r /\ Join(1) = Columns(r)
    BY <1>1, <2>1, JoinOfOne
  <2>. QED  BY <1>2, <1>4, <2>2
<1>. QED  BY <1>3, <1>4

(* A search that is exact finds something just when the atom has something *)
(* in common with the first operand.                                       *)
LEMMA HoldsIsJoin ==
  ASSUME AreMatrices, IsPlain, Len(operands) = 2,
         operands[1].kind = "compute", operands[2].kind = "find"
  PROVE  Holds <=> KeysOf(1) # {} /\ Join(2) # {}
<1>. DEFINE o == operands[2]
            found == o.replacements
<1>1. /\ 2 \in 1 .. Len(operands) /\ 1 \in Nat /\ 2 - 1 = 1 /\ DOMAIN operands = 1 .. 2
      /\ IsReplacements(found) /\ IsMatrix(found)
  BY DEF AreMatrices, AreOperands, IsOperand
<1>2. SearchIsExact(2)
  BY <1>1 DEF IsPlain
<1>3. \A c \in Join(1) : c \in [KeysOf(1) -> Values]
  BY <1>1, JoinValues
<1>4. \A c \in Join(1) : c # <<>> <=> KeysOf(1) # {}
  BY <1>3
<1>5. Holds <=> KeysOf(1) # {} /\ \E c \in Join(1) : MatchesOf(c, o) # {}
  BY <1>4 DEF Holds
<1>6. ASSUME NEW c \in Join(1), MatchesOf(c, o) # {}
      PROVE  Join(2) # {}
  <2>. DEFINE M == Len(Instances(found))
  <2>1. M \in Nat /\ DOMAIN Instances(found) = 1 .. M
    BY <1>1, InstancesType, LenProperties
  <2>. HIDE DEF M
  <2>2. MatchesOf(c, o) \in SUBSET (1 .. M) /\ IsFiniteSet(1 .. M)
    BY <2>1, FS_Interval DEF MatchesOf
  <2>3. Cardinality(MatchesOf(c, o)) # 0
    BY <1>6, <2>2, FS_Subset, FS_EmptySet
  <2>. QED  BY <1>1, <1>2, <2>3 DEF SearchIsExact
<1>7. ASSUME NEW c \in Join(2)
      PROVE  \E d \in Join(1) : MatchesOf(d, o) # {}
  <2>. DEFINE d == Restrict(c, KeysOf(1))
              e == Restrict(c, DOMAIN found)
  <2>1. Join(2) = JoinOf(Join(1), KeysOf(1), Columns(found), DOMAIN found)
    BY <1>1, JoinStep DEF Restricts
  <2>2. d \in Join(1) /\ e \in Columns(found)
    BY <2>1 DEF JoinOf
  <2>3. Compatible(WithoutEdges(d), e)
    BY DEF Compatible, WithoutEdges, Restrict
  <2>. HIDE DEF d, e
  <2>4. PICK i \in DOMAIN Instances(found) : e = Instances(found)[i]
    <3>1. Columns(found) = Range(Instances(found))
      BY <1>1, InstancesType
    <3>. QED  BY <2>2, <3>1 DEF Range
  <2>5. i \in MatchesOf(d, o)
    BY <2>3, <2>4 DEF MatchesOf
  <2>. QED  BY <2>2, <2>5
<1>. QED  BY <1>5, <1>6, <1>7

LEMMA EvaluationAgrees ==
  ASSUME AreMatrices, IsPlain, Len(operands) = 2, operands[1].kind = "compute",
         operands[2].kind # "generate", Known = operands[1].replacements,
         NEW walk, IsWalk(walk), ~EvaluationThrows(operands[2], walk)
  PROVE  AgreesWith(Evaluation(operands[2], walk))
<1>. DEFINE o == operands[2]
            r == operands[1].replacements
            e == Evaluation(o, walk)
<1>1. /\ 2 \in 1 .. Len(operands) /\ 1 \in 1 .. Len(operands) /\ 2 - 1 = 1
      /\ DOMAIN operands = 1 .. 2
      /\ IsOperand(o) /\ IsReplacements(r) /\ IsMatrix(r)
  BY DEF AreMatrices, AreOperands, IsOperand
<1>2. /\ o.kind = "compute" => e.value = o.value /\ e.replacements = o.replacements
      /\ o.kind # "compute" /\ DOMAIN Known = {} => ~e.value /\ DOMAIN e.replacements = {}
      /\ o.kind = "find" => (e.value <=> DOMAIN e.replacements # {})
  <2>. HIDE DEF o
  <2>1. /\ e.value \in BOOLEAN
        /\ Len(e.generated) <= Len(Fresh) => IsReplacements(e.replacements)
        /\ \A c \in Range(e.generated) : DOMAIN c \subseteq Variables
        /\ o.kind # "generate" => Range(e.generated) = {}
        /\ o.kind = "compute" => /\ e.value = o.value
                                 /\ e.replacements = o.replacements
        /\ o.kind # "compute" /\ DOMAIN Known = {} =>
             ~e.value /\ DOMAIN e.replacements = {}
        /\ o.kind = "find" => (e.value <=> DOMAIN e.replacements # {})
        /\ o.kind = "generate" =>
             /\ e.value => Range(e.generated) # {}
             /\ Len(e.generated) <= Len(Fresh) => IsMatrix(e.replacements)
        /\ IsMatrix(Known) =>
             \A c \in Range(e.generated) :
               \E d \in Columns(Known) : Compatible(WithoutEdges(c), d)
    <3>1. IsOperand(o) /\ ~EvaluationThrows(o, walk) /\ IsReplacements(Known)
      BY <1>1 DEF o
    <3>. QED  BY <3>1, EvaluationType
  <2>. HIDE DEF e
  <2>. QED  BY <2>1
<1>3. CASE o.kind = "compute"
  <2>. HIDE DEF e
  <2>1. AgreesWith(e)
    BY <1>2, <1>3 DEF AgreesWith, Holds
  <2>. QED  BY <2>1 DEF e
<1>4. CASE o.kind = "find"
  <2>1. e = Find(o.replacements, r, input.usingType, walk)
    BY <1>4 DEF Evaluation
  <2>2. Holds <=> KeysOf(1) # {} /\ Join(2) # {}
    BY <1>4, HoldsIsJoin
  <2>3. /\ Join(1) # {} /\ KeysOf(1) = DOMAIN r
        /\ DOMAIN r # {} => Join(1) = Columns(r)
    BY JoinOfFirst
  <2>4. CASE DOMAIN r = {}
    <3>. HIDE DEF e
    <3>1. AgreesWith(e)
      BY <1>2, <1>4, <2>2, <2>3, <2>4 DEF AgreesWith
    <3>. QED  BY <3>1 DEF e
  <2>5. CASE DOMAIN r # {}
    <3>1. /\ KeysOf(2 - 1) = DOMAIN r /\ KeysOf(2 - 1) # {} /\ Join(2 - 1) # {}
          /\ Columns(r) = Join(2 - 1) /\ SearchIsExact(2)
      BY <1>1, <1>4, <2>3, <2>5 DEF IsPlain
    <3>2. /\ e.value =>
               /\ IsMatrix(e.replacements)
               /\ DOMAIN e.replacements = DOMAIN o.replacements
               /\ Columns(e.replacements) = FoundBy(Join(2 - 1), o.replacements)
               /\ Join(2) # {}
          /\ ~e.value => Join(2) = {}
      <4>. HIDE DEF r
      <4>1. IsReplacements(r) /\ IsMatrix(r)
        BY <1>1
      <4>. QED  BY <1>1, <1>4, <2>1, <3>1, <4>1, SearchStep
    <3>. HIDE DEF e
    <3>3. AgreesWith(e)
      BY <1>1, <1>2, <1>4, <2>2, <3>1, <3>2 DEF AgreesWith
    <3>. QED  BY <3>3 DEF e
  <2>. QED  BY <2>4, <2>5
<1>. QED  BY <1>1, <1>3, <1>4 DEF IsOperand, Kinds

(* Whether both are true or both are false, the replacements of the two    *)
(* operands are intersected.                                               *)
LEMMA EquivalenceFold ==
  ASSUME AreMatrices, IsPlain, Len(operands) = 2, operands[1].kind = "compute",
         operands[2].kind # "generate",
         NEW last, IsReplacements(last.replacements), last.value \in BOOLEAN, AgreesWith(last),
         operands[1].value = last.value, NEW walk, IsWalk(walk)
  PROVE  Agreement(TRUE, IntersectReplacements(operands[1].replacements, last.replacements, walk))
<1>. DEFINE o == operands[2]
            found == o.replacements
            r == operands[1].replacements
            s == last.replacements
            both == IntersectReplacements(r, s, walk)
<1>1. /\ 2 \in 1 .. Len(operands) /\ 1 \in 1 .. Len(operands) /\ 2 - 1 = 1
      /\ DOMAIN operands = 1 .. 2 /\ 1 \in Nat /\ 2 \in Nat
      /\ IsOperand(o) /\ IsReplacements(r) /\ IsMatrix(r) /\ IsMatrix(found)
  BY DEF AreMatrices, AreOperands, IsOperand
<1>2. o.kind = "compute" \/ o.kind = "find"
  BY <1>1 DEF IsOperand, Kinds
<1>3. IsMatrix(s)
  BY <1>1, <1>2 DEF AgreesWith, IsMatrix
<1>4. /\ Columns(r) = {} => both = CopyReplacements(s)
      /\ Columns(r) # {} /\ Columns(s) = {} => both = r
      /\ Columns(r) # {} /\ Columns(s) # {} =>
           Columns(both) = JoinOf(Columns(r), DOMAIN r, Columns(s), DOMAIN s)
  <2>. HIDE DEF r, s, both
  <2>1. /\ IsReplacements(both) /\ IsMatrix(both)
        /\ Columns(r) = {} => both = CopyReplacements(s)
        /\ Columns(r) # {} /\ Columns(s) = {} => both = r
        /\ Columns(r) # {} /\ Columns(s) # {} =>
             /\ DOMAIN both = DOMAIN r \cup DOMAIN s
             /\ Columns(both) = JoinOf(Columns(r), DOMAIN r, Columns(s), DOMAIN s)
    <3>1. IsReplacements(r) /\ IsReplacements(s)
      BY <1>1 DEF s
    <3>. QED  BY <1>1, <1>3, <3>1, IntersectReplacementsIsJoin DEF both
  <2>. QED  BY <2>1
<1>5. Columns(CopyReplacements(s)) = Columns(s)
  <2>. HIDE DEF s
  <2>1. IsReplacements(s)
    BY DEF s
  <2>. QED  BY <1>3, <2>1, CopyKeeps
<1>. HIDE DEF both
<1>6. /\ Join(1) # {} /\ KeysOf(1) = DOMAIN r
      /\ DOMAIN r = {} => FoundOperands(1) = {} /\ Columns(r) = {}
      /\ DOMAIN r # {} => Join(1) = Columns(r) /\ Columns(r) # {}
  BY JoinOfFirst DEF Columns
<1>7. operands[1].value <=> Holds
  BY DEF AgreesWith
<1>8. ASSUME NEW n \in {1, 2}, n = IF o.kind = "find" /\ ~Holds THEN 1 ELSE 2,
             Columns(both) = IF KeysOf(n) # {} THEN Join(n) ELSE {}
      PROVE  Agreement(TRUE, both)
  BY <1>7, <1>8 DEF Agreement
<1>9. CASE o.kind = "find" /\ ~Holds
  <2>1. DOMAIN s = {}
    BY <1>9 DEF AgreesWith
  <2>2. Columns(s) = {}
    BY <2>1 DEF Columns
  <2>3. Columns(both) = Columns(r)
    BY <1>4, <1>5, <2>2
  <2>4. Columns(both) = IF KeysOf(1) # {} THEN Join(1) ELSE {}
    BY <1>6, <2>3
  <2>. QED  BY <1>8, <1>9, <2>4 DEF both
<1>10. CASE ~(o.kind = "find" /\ ~Holds)
  <2>1. /\ DOMAIN s = DOMAIN found
        /\ o.kind = "compute" => s = found
        /\ o.kind = "find" => /\ KeysOf(1) # {}
                              /\ Columns(s) = FoundBy(Join(1), found)
        /\ Join(2) # {}
    <3>1. o.kind = "compute" => Join(2) # {}
      BY <1>1 DEF IsPlain
    <3>. QED  BY <1>2, <1>10, <3>1 DEF AgreesWith
  <2>2. CASE o.kind = "compute" /\ DOMAIN found = {}
    <3>1. KeysOf(2) = KeysOf(1) /\ Join(2) = Join(1)
      <4>1. \A i \in 1 .. Len(operands) : 1 < i /\ i <= 2 => ~Restricts(operands[i])
        BY <2>2 DEF Restricts
      <4>2. 1 <= 2
        OBVIOUS
      <4>. QED  BY <1>1, <4>1, <4>2, JoinSkips
    <3>2. Columns(s) = {}
      BY <2>1, <2>2 DEF Columns
    <3>3. Columns(both) = Columns(r)
      BY <1>4, <1>5, <3>2
    <3>4. Columns(both) = IF KeysOf(2) # {} THEN Join(2) ELSE {}
      BY <1>6, <3>1, <3>3
    <3>. QED  BY <1>8, <1>10, <3>4 DEF both
  <2>3. CASE Restricts(o)
    <3>1. /\ KeysOf(2) = KeysOf(1) \cup DOMAIN found
          /\ Join(2) = JoinOf(Join(1), KeysOf(1), Columns(found), DOMAIN found)
      BY <1>1, <2>3, JoinStep
    <3>2. Columns(both) = Join(2) /\ KeysOf(2) # {}
      <4>1. CASE DOMAIN r = {}
        <5>1. o.kind = "compute" /\ DOMAIN found # {}
          BY <1>6, <2>1, <2>3, <4>1 DEF Restricts
        <5>2. KeysOf(2) = DOMAIN found /\ Join(2) = Columns(found)
          BY <1>1, <1>6, <2>3, <4>1, JoinOfOne
        <5>. QED  BY <1>4, <1>5, <1>6, <2>1, <4>1, <5>1, <5>2
      <4>2. CASE DOMAIN r # {}
        <5>1. Join(2) = JoinOf(Columns(r), DOMAIN r, Columns(s), DOMAIN s)
          <6>1. CASE o.kind = "compute"
            BY <1>6, <2>1, <3>1, <4>2, <6>1
          <6>2. CASE o.kind = "find"
            BY <1>6, <2>1, <3>1, <4>2, <6>2, JoinOfFound
          <6>. QED  BY <1>2, <6>1, <6>2
        <5>. HIDE DEF r, s, found
        <5>2. Columns(s) # {}
          BY <2>1, <5>1 DEF JoinOf
        <5>. QED  BY <1>4, <1>6, <3>1, <4>2, <5>1, <5>2
      <4>. QED  BY <4>1, <4>2
    <3>. QED  BY <1>8, <1>10, <3>2 DEF both
  <2>. QED  BY <1>2, <2>2, <2>3 DEF Restricts
<1>. QED  BY <1>9, <1>10

(* The equivalence from operand to operand; `at` is where it is.           *)
EquivalenceFacts(at, n, r, last) ==
  /\ at = "premise" => n = 2 \/ (n = 3 /\ Agreement(r.value, r.replacements))
  /\ at = "fold" => n = 2 /\ operands[1].kind = "compute" /\ AgreesWith(last)
  /\ at \in {"conclusion", "generate", "done"} => Agreement(r.value, r.replacements)

EquivalenceInv ==
  connective \in Equivalences /\ IsPlain /\ operands[2].kind # "generate" =>
    EquivalenceFacts(pc, next, result, lastResult)

LEMMA EquivalenceKept ==
  ASSUME operands' = operands
  PROVE  /\ IsPlain' <=> IsPlain
         /\ \A at, n, r, last :
              EquivalenceFacts(at, n, r, last)' <=> EquivalenceFacts(at, n, r, last)
<1>1. \A n : FoundOperands(n)' = FoundOperands(n)
  BY DEF FoundOperands
<1>2. \A n : KeysOf(n)' = KeysOf(n) /\ ValuesOf(n)' = ValuesOf(n)
  BY <1>1 DEF KeysOf, ValuesOf
<1>3. \A n : Join(n)' = Join(n)
  BY <1>1, <1>2 DEF Join
<1>4. Holds' <=> Holds
  BY <1>3 DEF Holds
<1>5. \A value, r : Agreement(value, r)' <=> Agreement(value, r)
  BY <1>2, <1>3, <1>4 DEF Agreement
<1>6. \A last : AgreesWith(last)' <=> AgreesWith(last)
  BY <1>2, <1>3, <1>4 DEF AgreesWith
<1>7. \A at, n, r, last :
        EquivalenceFacts(at, n, r, last)' <=> EquivalenceFacts(at, n, r, last)
  BY <1>5, <1>6 DEF EquivalenceFacts
<1>. QED  BY <1>7, OperandsKept

LEMMA EquivalenceInvNext ==
  TypeInv /\ EquivalenceInv /\ [Next]_vars => EquivalenceInv'
<1>. SUFFICES ASSUME TypeInv, EquivalenceInv, [Next]_vars PROVE EquivalenceInv'
  OBVIOUS
<1>1. CASE pc = "build" /\ ~UNCHANGED vars
  <2>1. Build \/ BuildThrows \/ ComputeTree
    BY <1>1 DEF Next, EvaluateOperand, EvaluateThrows, OperandIsFalse, FirstOperand, NextOperand,
               Disjunct, DisjunctionFails, Equivalence, NoEquivalence, FoldThrows, OnlyOperand,
               PremiseComputed, ConclusionNotGenerated, SubtractExisting, Evaluated, AtOperand,
               Folding
  <2>2. CASE Build \/ BuildThrows
    <3>1. pc' \in {"build", "thrown"}
      BY <2>2 DEF Build, BuildThrows
    <3>. QED  BY <3>1 DEF EquivalenceInv, EquivalenceFacts
  <2>3. CASE ComputeTree
    <3>1. pc' = "premise" /\ (connective' \in Equivalences => next' = 2)
      BY <2>3 DEF ComputeTree
    <3>. QED  BY <3>1 DEF EquivalenceInv, EquivalenceFacts
  <2>. QED  BY <2>1, <2>2, <2>3
<1>2. CASE UNCHANGED vars \/ Evaluated
  <2>1. /\ pc' = pc /\ next' = next /\ result' = result /\ lastResult' = lastResult
        /\ operands' = operands /\ connective' = connective
    BY <1>2 DEF vars, Evaluated
  <2>. QED  BY <2>1, EquivalenceKept DEF EquivalenceInv
<1>3. CASE pc # "build" /\ ~(UNCHANGED vars \/ Evaluated)
  <2>1. operands' = operands /\ connective' = connective
    BY <1>3 DEF Next, Build, BuildThrows, ComputeTree, EvaluateOperand, EvaluateThrows,
               OperandIsFalse, FirstOperand, NextOperand, Disjunct, DisjunctionFails, Equivalence,
               NoEquivalence, FoldThrows, OnlyOperand, PremiseComputed, ConclusionNotGenerated,
               SubtractExisting, ConjunctionFails, Folded, afterPremise
  <2>2. SUFFICES ASSUME connective \in Equivalences, IsPlain, operands[2].kind # "generate",
                        EquivalenceFacts(pc, next, result, lastResult)
                 PROVE  EquivalenceFacts(pc', next', result', lastResult')
    BY <2>1, EquivalenceKept DEF EquivalenceInv
  <2>3. connective \notin {"CONJUNCTION", "DISJUNCTION", "NEGATION", "ATOMIC"}
    BY <2>2 DEF Equivalences
  <2>4. ASSUME pc \in {"premise", "fold"}
        PROVE  /\ AreMatrices /\ Len(operands) = 2 /\ DOMAIN operands = 1 .. 2
               /\ Known = operands[1].replacements
               /\ lastResult.value \in BOOLEAN /\ IsReplacements(lastResult.replacements)
               /\ operands[1].value \in BOOLEAN
    <3>1. OperandsOfClass(connective, operands) /\ AreOperands(operands)
      BY <2>4, OperandsAre
    <3>2. Len(operands) = 2 /\ DOMAIN operands = 1 .. 2
      BY <2>2, <3>1 DEF OperandsOfClass, AreOperands
    <3>3. AreMatrices
      BY <2>2, <3>1, <3>2 DEF IsPlain, AreMatrices, Range
    <3>4. operands[1].value \in BOOLEAN
      BY <3>1, <3>2 DEF AreOperands, IsOperand
    <3>5. lastResult.value \in BOOLEAN /\ IsReplacements(lastResult.replacements)
      BY DEF TypeInv, TypeOK, IsResult
    <3>. QED  BY <2>2, <3>2, <3>3, <3>4, <3>5 DEF Known
  <2>5. CASE EvaluateOperand
    <3>. DEFINE e(walk) == Evaluation(operands[next], walk)
    <3>1. PICK walk \in WalkSet :
            /\ ~EvaluationThrows(operands[next], walk)
            /\ lastResult' = [value |-> e(walk).value, replacements |-> e(walk).replacements]
      BY <2>5 DEF EvaluateOperand
    <3>2. pc = "premise" /\ next <= Len(operands) /\ ~NothingToCompare /\ pc' = "fold" /\ next' = next
      BY <2>5 DEF EvaluateOperand, AtOperand
    <3>3. next = 2
      <4>1. Len(operands) = 2 /\ (next = 2 \/ next = 3)
        BY <2>2, <2>4, <3>2 DEF EquivalenceFacts
      <4>. QED  BY <3>2, <4>1
    <3>4. operands[1].kind = "compute"
      <4>1. ComputedAmount # 0
        BY <2>2, <3>2 DEF NothingToCompare
      <4>. DEFINE computed == {m \in DOMAIN operands : operands[m].kind = "compute"}
      <4>2. /\ Cardinality(computed) \in 0 .. Len(operands)
            /\ \A m \in DOMAIN operands : operands[m].kind = "compute" <=> m <= Cardinality(computed)
        BY <2>4, <3>2, ComputedFirst DEF AreMatrices
      <4>. QED  BY <2>4, <3>2, <4>1, <4>2 DEF ComputedAmount
    <3>5. IsWalk(walk)
      BY WalkSetAssumption
    <3>6. AgreesWith(e(walk))
      BY <2>2, <2>4, <3>1, <3>2, <3>3, <3>4, <3>5, EvaluationAgrees
    <3>. HIDE DEF e
    <3>7. AgreesWith(lastResult')
      <4>1. lastResult'.value = e(walk).value /\ lastResult'.replacements = e(walk).replacements
        BY <3>1
      <4>. QED  BY <3>6, <4>1 DEF AgreesWith
    <3>. QED  BY <3>2, <3>3, <3>4, <3>7 DEF EquivalenceFacts
  <2>6. CASE Equivalence
    <3>1. PICK walk \in WalkSet :
            Folded([value |-> TRUE,
                    replacements |-> IntersectReplacements(Known, lastResult.replacements, walk)])
      BY <2>6 DEF Equivalence
    <3>2. pc = "fold" /\ operands[1].value = lastResult.value
      BY <2>6 DEF Equivalence, Folding, SidesAgree
    <3>3. /\ pc' = "premise" /\ next' = next + 1 /\ result'.value = TRUE
          /\ result'.replacements = IntersectReplacements(Known, lastResult.replacements, walk)
      BY <3>1 DEF Folded
    <3>4. next = 2 /\ operands[1].kind = "compute" /\ AgreesWith(lastResult) /\ IsWalk(walk)
      BY <2>2, <3>2, WalkSetAssumption DEF EquivalenceFacts
    <3>5. Agreement(TRUE, result'.replacements)
      BY <2>2, <2>4, <3>2, <3>3, <3>4, EquivalenceFold
    <3>6. Agreement(result'.value, result'.replacements)
      BY <3>3, <3>5 DEF Agreement
    <3>7. next' = 3
      BY <3>3, <3>4
    <3>. QED  BY <3>3, <3>6, <3>7 DEF EquivalenceFacts
  <2>7. CASE NoEquivalence
    <3>1. /\ pc = "fold" /\ operands[1].value # lastResult.value
          /\ pc' = "premise" /\ next' = next + 1 /\ result' = NotFound
      BY <2>7 DEF NoEquivalence, Folding, SidesAgree, Folded
    <3>2. next = 2 /\ AgreesWith(lastResult)
      BY <2>2, <3>1 DEF EquivalenceFacts
    <3>3. Columns(NotFound.replacements) = {} /\ NotFound.value = FALSE
      BY NotFoundType DEF Columns, NotFound
    <3>4. ~(operands[1].value <=> Holds)
      BY <2>4, <3>1, <3>2 DEF AgreesWith
    <3>5. Agreement(result'.value, result'.replacements)
      BY <3>1, <3>3, <3>4 DEF Agreement
    <3>. QED  BY <3>1, <3>2, <3>5 DEF EquivalenceFacts
  <2>8. CASE PremiseComputed
    <3>1. pc = "premise" /\ pc' = "conclusion" /\ next > Len(operands) /\ result' = result
      BY <2>8 DEF PremiseComputed
    <3>2. Agreement(result.value, result.replacements)
      <4>1. Len(operands) = 2
        BY <2>4, <3>1
      <4>2. next # 2
        BY <3>1, <4>1
      <4>. QED  BY <2>2, <3>1, <4>2 DEF EquivalenceFacts
    <3>. QED  BY <3>1, <3>2 DEF EquivalenceFacts
  <2>9. CASE ConclusionNotGenerated \/ SubtractExisting
    <3>1. pc = "conclusion" /\ pc' \in {"generate", "done", "thrown"} /\ result' = result
      BY <2>9 DEF ConclusionNotGenerated, SubtractExisting
    <3>. QED  BY <2>2, <3>1 DEF EquivalenceFacts
  <2>10. CASE EvaluateThrows \/ FoldThrows
    <3>1. pc' = "thrown"
      BY <2>10 DEF EvaluateThrows, FoldThrows
    <3>. QED  BY <3>1 DEF EquivalenceFacts
  <2>11. /\ ~OperandIsFalse /\ ~FirstOperand /\ ~NextOperand /\ ~Disjunct /\ ~DisjunctionFails
         /\ ~OnlyOperand
    BY <2>3 DEF OperandIsFalse, FirstOperand, NextOperand, Disjunct, DisjunctionFails,
               NothingUnited, OnlyOperand, Folding
  <2>12. ~Build /\ ~BuildThrows /\ ~ComputeTree
    BY <1>3 DEF Build, BuildThrows, ComputeTree
  <2>. QED  BY <1>3, <2>5, <2>6, <2>7, <2>8, <2>9, <2>10, <2>11, <2>12 DEF Next
<1>. QED  BY <1>1, <1>2, <1>3

(* EquivalenceExpressionNode::compute: an equivalence is true just when    *)
(* both operands are or neither is, and then has the columns that satisfy  *)
(* what both found, or what the first found if the search for it found     *)
(* nothing.                                                                *)
THEOREM EquivalenceIsAgreementHolds == Spec => []EquivalenceIsAgreement
<1>1. Init => EquivalenceInv
  <2>1. Init => connective \notin Equivalences
    BY DEF Init, Equivalences
  <2>. QED  BY <2>1 DEF EquivalenceInv
<1>2. EquivalenceInv => EquivalenceIsAgreement
  <2>1. SUFFICES ASSUME EquivalenceInv, connective \in Equivalences, PremiseDone, IsPlain,
                        operands[2].kind # "generate"
                 PROVE  EquivalenceIsAgreement
    BY DEF EquivalenceIsAgreement
  <2>2. Agreement(result.value, result.replacements)
    BY <2>1 DEF EquivalenceInv, EquivalenceFacts, PremiseDone
  <2>. QED  BY <2>2 DEF Agreement, Holds, EquivalenceIsAgreement
<1>. QED  BY <1>1, <1>2, TypeInvInit, TypeInvNext, EquivalenceInvNext, PTL DEF Spec

-----------------------------------------------------------------------------
(* Disjunctions.                                                           *)

(* A single variable is told apart by its value, whatever the hash is.     *)
LEMMA OneIsToldApart ==
  ASSUME NEW keys \in SUBSET Variables, \A k, m \in keys : k = m
  PROVE  keys \in ToldApart
<1>1. keys = Variables \ (Variables \ keys)
  OBVIOUS
<1>2. keys \in {Variables \ others : others \in SUBSET Variables}
  BY <1>1
<1>3. ASSUME NEW walk \in WalkSet, NEW c \in [keys -> Values], NEW d \in [keys -> Values],
             keys # {} => c[KeySeq(walk, keys)[1]] = d[KeySeq(walk, keys)[1]]
      PROVE  c = d
  <2>1. ASSUME NEW key \in keys
        PROVE  c[key] = d[key]
    <3>1. KeySeq(walk, keys)[1] \in keys
      BY WalkSetAssumption, FirstKey
    <3>2. KeySeq(walk, keys)[1] = key
      BY <3>1
    <3>. QED  BY <1>3, <3>2
  <2>. QED  BY <2>1
<1>. QED  BY <1>2, <1>3 DEF ToldApart

(* The columns of matrices whose common variables are told apart are not   *)
(* confused.                                                               *)
LEMMA ToldApartTells ==
  ASSUME NEW walk \in WalkSet,
         NEW first, IsReplacements(first), IsMatrix(first),
         NEW second, IsReplacements(second), IsMatrix(second),
         CommonKeys(first, second) \in ToldApart
  PROVE  HashTells(first, second, walk)
<1>. DEFINE common == CommonKeys(first, second)
            key1 == KeySeq(walk, common)[1]
            row(e) == [key \in common |-> <<e[key]>>]
            hash(e) == Hash(row(e), common, 1, walk)
<1>1. IsWalk(walk) /\ common \in SUBSET Variables
  BY WalkSetAssumption DEF CommonKeys, IsReplacements
<1>2. \A c, d \in [common -> Values] :
        (common # {} => c[key1] = d[key1]) /\ hash(c) = hash(d) => c = d
  BY DEF ToldApart
<1>3. ASSUME NEW i \in ColumnNumbers(first, walk), NEW j \in ColumnNumbers(second, walk),
             Hash(first, common, i, walk) = Hash(second, common, j, walk),
             common # {} => first[key1][i] = second[key1][j]
      PROVE  Agree(first, i, second, j)
  <2>. DEFINE c == [key \in common |-> first[key][i]]
              d == [key \in common |-> second[key][j]]
  <2>1. c \in [common -> Values] /\ d \in [common -> Values]
    <3>1. \A key \in common : first[key] \in Seq(Values) /\ second[key] \in Seq(Values)
      BY DEF CommonKeys, IsReplacements
    <3>2. /\ \A key \in common : i \in 1 .. Len(first[key])
          /\ \A key \in common : j \in 1 .. Len(second[key])
      BY <1>1, AmountOfMatrix DEF ColumnNumbers, HasColumns, CommonKeys
    <3>. QED  BY <3>1, <3>2, ElementOfSeq
  <2>2. /\ row(c) = [key \in common |-> <<first[key][i]>>]
        /\ row(d) = [key \in common |-> <<second[key][j]>>]
    OBVIOUS
  <2>3. hash(c) = Hash(first, common, i, walk) /\ hash(d) = Hash(second, common, j, walk)
    <3>. HIDE DEF common, c, d
    <3>1. \A s : s = [key \in common |-> <<first[key][i]>>] =>
            Hash(s, common, 1, walk) = Hash(first, common, i, walk)
      BY <1>1, HashOfColumn
    <3>2. \A s : s = [key \in common |-> <<second[key][j]>>] =>
            Hash(s, common, 1, walk) = Hash(second, common, j, walk)
      BY <1>1, HashOfColumn
    <3>. QED  BY <2>2, <3>1, <3>2
  <2>4. common # {} => c[key1] = d[key1]
    <3>1. common # {} => key1 \in common
      BY <1>1, FirstKey
    <3>2. \A key \in common : c[key] = first[key][i] /\ d[key] = second[key][j]
      OBVIOUS
    <3>. HIDE DEF common, key1, c, d
    <3>. QED  BY <1>3, <3>1, <3>2
  <2>5. c = d
    <3>. HIDE DEF c, d, key1, hash, common
    <3>. QED  BY <1>2, <1>3, <2>1, <2>3, <2>4
  <2>6. \A key \in common : c[key] = first[key][i] /\ d[key] = second[key][j]
    OBVIOUS
  <2>. HIDE DEF c, d
  <2>. QED  BY <2>5, <2>6 DEF Agree
<1>. HIDE DEF hash
<1>. QED  BY <1>3 DEF HashTells

(* The computed operands are matrices, and not nested.                     *)
AreUnited ==
  /\ AreOperands(operands) /\ ~Nested
  /\ \A n \in 1 .. ComputedAmount : IsMatrix(operands[n].replacements)

(* The matrix r is the union of the first n operands.                      *)
UnionAt(r, n) ==
  /\ IsReplacements(r) /\ IsMatrix(r) /\ DOMAIN r = KeysOf(n)
  /\ DOMAIN r # {} => Columns(r) # {}
  /\ \A c \in Columns(r) : \E o \in FoundOperands(n) : Satisfies(c, o)
  /\ AreToldApart =>
       \A o \in FoundOperands(n) : \A c \in Columns(o.replacements) :
         \E d \in Columns(r) : Restrict(d, DOMAIN c) = c

LEMMA ColumnDomain ==
  ASSUME NEW r, NEW c \in Columns(r)
  PROVE  DOMAIN c = DOMAIN r
BY DEF Columns, Column

(* A computed operand has a column if it has a variable, and restricts the *)
(* replacements just then.                                                 *)
LEMMA ComputedOperand ==
  ASSUME AreUnited, NEW n \in 1 .. ComputedAmount
  PROVE  /\ n \in Nat /\ n - 1 \in Nat /\ n \in 1 .. Len(operands)
         /\ IsReplacements(operands[n].replacements) /\ IsMatrix(operands[n].replacements)
         /\ DOMAIN operands[n].replacements # {} => Columns(operands[n].replacements) # {}
         /\ \A o : o \in FoundOperands(n) <=>
              \/ o \in FoundOperands(n - 1)
              \/ o = operands[n] /\ DOMAIN operands[n].replacements # {}
         /\ KeysOf(n) = KeysOf(n - 1) \cup DOMAIN operands[n].replacements
<1>. DEFINE computed == {m \in DOMAIN operands : operands[m].kind = "compute"}
<1>1. /\ Cardinality(computed) \in 0 .. Len(operands)
      /\ \A m \in DOMAIN operands : operands[m].kind = "compute" <=> m <= Cardinality(computed)
  BY ComputedFirst DEF AreUnited
<1>2. ComputedAmount = Cardinality(computed)
  BY DEF ComputedAmount
<1>. HIDE DEF computed
<1>3. AreOperands(operands) /\ Len(operands) \in Nat /\ DOMAIN operands = 1 .. Len(operands)
  BY DEF AreUnited, AreOperands
<1>4. n \in Nat /\ n - 1 \in Nat /\ n \in 1 .. Len(operands) /\ operands[n].kind = "compute"
  BY <1>1, <1>2, <1>3
<1>5. IsOperand(operands[n]) /\ IsMatrix(operands[n].replacements)
  BY <1>3, <1>4 DEF AreOperands, AreUnited
<1>6. /\ IsReplacements(operands[n].replacements)
      /\ \A key \in DOMAIN operands[n].replacements : operands[n].replacements[key] # <<>>
  BY <1>4, <1>5 DEF IsOperand
<1>7. ASSUME DOMAIN operands[n].replacements # {}
      PROVE  Columns(operands[n].replacements) # {}
  <2>1. PICK key \in DOMAIN operands[n].replacements : TRUE
    BY <1>7
  <2>2. operands[n].replacements[key] \in Seq(Values) /\ operands[n].replacements[key] # <<>>
    BY <1>6 DEF IsReplacements
  <2>3. 1 \in DOMAIN operands[n].replacements[key]
    BY <2>2
  <2>. QED  BY <2>1, <2>3 DEF Columns
<1>8. \A i \in 1 .. Len(operands) : i <= n <=> i <= n - 1 \/ i = n
  BY <1>3, <1>4
<1>9. Restricts(operands[n]) <=> DOMAIN operands[n].replacements # {}
  BY <1>4 DEF Restricts
<1>10. \A o : o \in FoundOperands(n) <=>
         \/ o \in FoundOperands(n - 1)
         \/ o = operands[n] /\ DOMAIN operands[n].replacements # {}
  <2>1. /\ \A o : o \in FoundOperands(n) <=>
             Restricts(o) /\ \E i \in 1 .. Len(operands) : i <= n /\ o = operands[i]
        /\ \A o : o \in FoundOperands(n - 1) <=>
             Restricts(o) /\ \E i \in 1 .. Len(operands) : i <= n - 1 /\ o = operands[i]
    BY <1>3, <1>4, FoundOperandsAre
  <2>. QED  BY <1>4, <1>8, <1>9, <2>1
<1>11. KeysOf(n) = KeysOf(n - 1) \cup DOMAIN operands[n].replacements
  <2>1. \A key : key \in KeysOf(n) <=> \E o \in FoundOperands(n) : key \in DOMAIN o.replacements
    BY DEF KeysOf
  <2>2. \A key : key \in KeysOf(n - 1) <=> \E o \in FoundOperands(n - 1) : key \in DOMAIN o.replacements
    BY DEF KeysOf
  <2>. QED  BY <1>10, <2>1, <2>2
<1>. QED  BY <1>4, <1>5, <1>6, <1>7, <1>10, <1>11

(* uniteReplacements adds one operand to the union.                        *)
LEMMA UnionStep ==
  ASSUME AreUnited, NEW n \in 1 .. ComputedAmount, NEW walk \in WalkSet,
         NEW r, UnionAt(r, n - 1),
         NEW united, united = UniteReplacements(r, operands[n].replacements, walk)
  PROVE  UnionAt(united, n)
<1>1. PICK o : o = operands[n]
  OBVIOUS
<1>2. PICK s : s = o.replacements
  OBVIOUS
<1>3. /\ n \in Nat /\ n - 1 \in Nat /\ n \in 1 .. Len(operands)
      /\ IsReplacements(s) /\ IsMatrix(s)
      /\ DOMAIN s # {} => Columns(s) # {}
      /\ \A p : p \in FoundOperands(n) <=>
           p \in FoundOperands(n - 1) \/ (p = o /\ DOMAIN s # {})
      /\ KeysOf(n) = KeysOf(n - 1) \cup DOMAIN s
  BY <1>1, <1>2, ComputedOperand
<1>4. /\ IsReplacements(r) /\ IsMatrix(r) /\ DOMAIN r = KeysOf(n - 1)
      /\ DOMAIN r # {} => Columns(r) # {}
      /\ \A c \in Columns(r) : \E p \in FoundOperands(n - 1) : Satisfies(c, p)
      /\ AreToldApart =>
           \A p \in FoundOperands(n - 1) : \A c \in Columns(p.replacements) :
             \E d \in Columns(r) : Restrict(d, DOMAIN c) = c
  BY DEF UnionAt
<1>5. IsWalk(walk)
  BY WalkSetAssumption
<1>6. Len(operands) \in Nat
  BY DEF AreUnited, AreOperands
<1>7. n = 1 => DOMAIN r = {}
  <2>1. ASSUME n = 1
        PROVE  KeysOf(n - 1) = {}
    <3>1. FoundOperands(0) = {}
      BY FoundOperandsAre DEF AreUnited
    <3>2. n - 1 = 0
      BY <2>1
    <3>3. KeysOf(0) = {}
      BY <3>1 DEF KeysOf
    <3>. QED  BY <3>2, <3>3
  <2>. QED  BY <1>4, <2>1
<1>8. AreUnnested(r, s)
  <2>1. ASSUME n # 1
        PROVE  AreUnnested(r, s)
    <3>1. n \in 2 .. Len(operands)
      BY <1>3, <1>6, <2>1
    <3>2. ~(/\ DOMAIN s # {} /\ KeysOf(n - 1) # {} /\ DOMAIN s # KeysOf(n - 1)
            /\ DOMAIN s \subseteq KeysOf(n - 1) \/ KeysOf(n - 1) \subseteq DOMAIN s)
      BY <1>1, <1>2, <3>1 DEF AreUnited, Nested
    <3>. QED  BY <1>4, <3>2 DEF AreUnnested
  <2>. QED  BY <1>7, <2>1 DEF AreUnnested
<1>9. IsUnion(united, r, s, walk)
  BY <1>1, <1>2, <1>3, <1>4, <1>5, <1>8, UniteReplacementsIsUnion
<1>10. /\ IsReplacements(united) /\ IsMatrix(united)
       /\ DOMAIN united = (IF Columns(r) = {} THEN {} ELSE DOMAIN r) \cup
                          (IF Columns(s) = {} THEN {} ELSE DOMAIN s)
       /\ \A c \in Columns(united) : \/ Restrict(c, DOMAIN r) \in Columns(r)
                                     \/ Restrict(c, DOMAIN s) \in Columns(s)
       /\ \A c \in Columns(r) : IsPart(c, united)
       /\ HashTells(r, s, walk) => \A c \in Columns(s) : IsPart(c, united)
  BY <1>9 DEF IsUnion
<1>11. DOMAIN united = KeysOf(n)
  BY <1>3, <1>4, <1>10
<1>12. DOMAIN r = {} => HashTells(r, s, walk)
  <2>1. ASSUME DOMAIN r = {}
        PROVE  ColumnNumbers(r, walk) = {}
    <3>1. ColumnsAmount(r, walk) = 0
      BY <1>4, <1>5, <2>1, AmountType
    <3>. QED  BY <3>1 DEF ColumnNumbers
  <2>. QED  BY <2>1 DEF HashTells
<1>13. DOMAIN united # {} => Columns(united) # {}
  <2>1. ASSUME NEW c, IsPart(c, united)
        PROVE  Columns(united) # {}
    BY <2>1 DEF IsPart
  <2>2. CASE DOMAIN r # {}
    BY <1>4, <1>10, <2>1, <2>2
  <2>3. CASE DOMAIN r = {}
    BY <1>3, <1>4, <1>10, <1>11, <1>12, <2>1, <2>3
  <2>. QED  BY <2>2, <2>3
<1>14. ASSUME NEW c \in Columns(united)
       PROVE  \E p \in FoundOperands(n) : Satisfies(c, p)
  <2>1. CASE Restrict(c, DOMAIN r) \in Columns(r)
    <3>1. PICK p \in FoundOperands(n - 1) : Satisfies(Restrict(c, DOMAIN r), p)
      BY <1>4, <2>1
    <3>2. DOMAIN p.replacements \subseteq DOMAIN r
      BY <1>4 DEF KeysOf
    <3>3. Restrict(Restrict(c, DOMAIN r), DOMAIN p.replacements) = Restrict(c, DOMAIN p.replacements)
      BY <3>2, RestrictTwice
    <3>4. Satisfies(c, p)
      BY <3>1, <3>3 DEF Satisfies
    <3>. QED  BY <1>3, <3>4
  <2>2. CASE Restrict(c, DOMAIN s) \in Columns(s)
    <3>1. DOMAIN s # {}
      BY <2>2 DEF Columns
    <3>2. o \in FoundOperands(n)
      BY <1>3, <3>1
    <3>. QED  BY <1>2, <2>2, <3>2 DEF Satisfies
  <2>. QED  BY <1>10, <2>1, <2>2
<1>15. ASSUME AreToldApart, NEW p \in FoundOperands(n), NEW c \in Columns(p.replacements)
       PROVE  \E e \in Columns(united) : Restrict(e, DOMAIN c) = c
  <2>1. CASE p \in FoundOperands(n - 1)
    <3>1. PICK d \in Columns(r) : Restrict(d, DOMAIN c) = c
      BY <1>4, <1>15, <2>1
    <3>2. DOMAIN c \subseteq DOMAIN d
      <4>1. DOMAIN c = DOMAIN p.replacements /\ DOMAIN d = DOMAIN r
        BY ColumnDomain
      <4>2. DOMAIN p.replacements \subseteq KeysOf(n - 1)
        BY <2>1 DEF KeysOf
      <4>. QED  BY <1>4, <4>1, <4>2
    <3>3. PICK e \in Columns(united) : Restrict(e, DOMAIN d) = d
      BY <1>10 DEF IsPart
    <3>4. Restrict(e, DOMAIN c) = c
      BY <3>1, <3>2, <3>3, RestrictTwice
    <3>. QED  BY <3>4
  <2>2. CASE p = o
    <3>1. HashTells(r, s, walk)
      <4>1. ASSUME n # 1
            PROVE  HashTells(r, s, walk)
        <5>1. n \in 2 .. ComputedAmount
          BY <1>3, <4>1
        <5>2. KeysOf(n - 1) \cap DOMAIN s \in ToldApart
          BY <1>1, <1>2, <1>15, <5>1 DEF AreToldApart
        <5>3. CommonKeys(r, s) = KeysOf(n - 1) \cap DOMAIN s
          BY <1>4 DEF CommonKeys
        <5>. QED  BY <1>3, <1>4, <5>2, <5>3, ToldApartTells
      <4>. QED  BY <1>7, <1>12, <4>1
    <3>2. IsPart(c, united)
      BY <1>2, <1>10, <1>15, <2>2, <3>1
    <3>. QED  BY <3>2 DEF IsPart
  <2>. QED  BY <1>3, <1>15, <2>1, <2>2
<1>. QED  BY <1>10, <1>11, <1>13, <1>14, <1>15 DEF UnionAt

(* The disjunction from operand to operand; `at` is where it is.           *)
UnionFacts(at, n, r, last) ==
  /\ n <= ComputedAmount + 1 => UnionAt(r.replacements, n - 1)
  /\ at = "fold" /\ n <= ComputedAmount => last.replacements = operands[n].replacements

UnionInv ==
  connective = "DISJUNCTION" /\ AreUnited => UnionFacts(pc, next, result, lastResult)

LEMMA UnionKept ==
  ASSUME operands' = operands
  PROVE  /\ AreUnited' <=> AreUnited
         /\ \A at, n, r, last : UnionFacts(at, n, r, last)' <=> UnionFacts(at, n, r, last)
<1>1. \A n : FoundOperands(n)' = FoundOperands(n)
  BY DEF FoundOperands
<1>2. \A n : KeysOf(n)' = KeysOf(n)
  BY <1>1 DEF KeysOf
<1>3. ComputedAmount' = ComputedAmount
  BY DEF ComputedAmount
<1>4. Nested' <=> Nested
  BY <1>2 DEF Nested
<1>5. AreUnited' <=> AreUnited
  BY <1>3, <1>4 DEF AreUnited
<1>6. AreToldApart' <=> AreToldApart
  BY <1>2, <1>3 DEF AreToldApart
<1>7. \A r, n : UnionAt(r, n)' <=> UnionAt(r, n)
  BY <1>1, <1>2, <1>6 DEF UnionAt
<1>8. \A at, n, r, last : UnionFacts(at, n, r, last)' <=> UnionFacts(at, n, r, last)
  BY <1>3, <1>7 DEF UnionFacts
<1>. QED  BY <1>5, <1>8

(* Before the first operand the union is empty.                            *)
LEMMA UnionStarts ==
  ASSUME AreUnited', next' = 1, result' = NotFound, pc' = "premise"
  PROVE  UnionFacts(pc, next, result, lastResult)'
<1>1. FoundOperands(0)' = {}
  <2>1. DOMAIN operands' = 1 .. Len(operands')
    BY DEF AreUnited, AreOperands
  <2>2. {i \in DOMAIN operands' : i <= 0} = {}
    BY <2>1
  <2>. QED  BY <2>2 DEF FoundOperands
<1>2. KeysOf(0)' = {}
  BY <1>1 DEF KeysOf
<1>3. /\ IsReplacements(NotFound.replacements) /\ IsMatrix(NotFound.replacements)
      /\ DOMAIN NotFound.replacements = {} /\ Columns(NotFound.replacements) = {}
  <2>1. DOMAIN NotFound.replacements = {}
    BY DEF NotFound, NoReplacements
  <2>2. IsReplacements(NotFound.replacements)
    BY NotFoundType DEF IsResult
  <2>. QED  BY <2>1, <2>2 DEF IsMatrix, Columns
<1>4. UnionAt(NotFound.replacements, 0)'
  BY <1>1, <1>2, <1>3 DEF UnionAt
<1>5. UnionAt(result.replacements, next - 1)'
  BY <1>4
<1>. QED  BY <1>5 DEF UnionFacts

LEMMA UnionInvNext ==
  TypeInv /\ UnionInv /\ [Next]_vars => UnionInv'
<1>. SUFFICES ASSUME TypeInv, UnionInv, [Next]_vars PROVE UnionInv'
  OBVIOUS
<1>1. CASE pc = "build" /\ ~UNCHANGED vars
  <2>1. Build \/ BuildThrows \/ ComputeTree
    BY <1>1 DEF Next, EvaluateOperand, EvaluateThrows, OperandIsFalse, FirstOperand, NextOperand,
               Disjunct, DisjunctionFails, Equivalence, NoEquivalence, FoldThrows, OnlyOperand,
               PremiseComputed, ConclusionNotGenerated, SubtractExisting, Evaluated, AtOperand,
               Folding
  <2>2. CASE Build \/ BuildThrows
    <3>1. connective' = connective /\ operands' = operands /\ next' = next /\ result' = result
      BY <2>2 DEF Build, BuildThrows
    <3>2. pc' # "fold"
      BY <1>1, <2>2 DEF Build, BuildThrows
    <3>. QED  BY <3>1, <3>2, UnionKept DEF UnionInv, UnionFacts
  <2>3. CASE ComputeTree
    <3>1. /\ connective' = "DISJUNCTION" => next' = 1
          /\ result' = NotFound /\ pc' = "premise"
      BY <1>1, <2>3 DEF ComputeTree, Equivalences, TypeInv, TreeInv, BuildInv
    <3>. QED  BY <3>1, UnionStarts DEF UnionInv
  <2>. QED  BY <2>1, <2>2, <2>3
<1>2. CASE UNCHANGED vars \/ Evaluated
  <2>1. /\ pc' = pc /\ next' = next /\ result' = result /\ lastResult' = lastResult
        /\ operands' = operands /\ connective' = connective
    BY <1>2 DEF vars, Evaluated
  <2>. QED  BY <2>1, UnionKept DEF UnionInv
<1>3. CASE pc # "build" /\ ~(UNCHANGED vars \/ Evaluated)
  <2>1. operands' = operands /\ connective' = connective
    BY <1>3 DEF Next, Build, BuildThrows, ComputeTree, EvaluateOperand, EvaluateThrows,
               OperandIsFalse, FirstOperand, NextOperand, Disjunct, DisjunctionFails, Equivalence,
               NoEquivalence, FoldThrows, OnlyOperand, PremiseComputed, ConclusionNotGenerated,
               SubtractExisting, ConjunctionFails, Folded, afterPremise
  <2>2. SUFFICES ASSUME connective = "DISJUNCTION", AreUnited,
                        UnionFacts(pc, next, result, lastResult)
                 PROVE  UnionFacts(pc', next', result', lastResult')
    BY <2>1, UnionKept DEF UnionInv
  <2>3. connective \notin Equivalences
    BY <2>2 DEF Equivalences
  <2>4. /\ Len(operands) \in Nat /\ DOMAIN operands = 1 .. Len(operands)
        /\ next \in 1 .. Len(operands) + 1
        /\ Known = result.replacements
    BY <2>2, <2>3 DEF TypeInv, TypeOK, AreUnited, AreOperands, Known
  <2>5. /\ ComputedAmount \in 0 .. Len(operands)
        /\ \A m \in DOMAIN operands : operands[m].kind = "compute" <=> m <= ComputedAmount
    <3>. DEFINE computed == {m \in DOMAIN operands : operands[m].kind = "compute"}
    <3>1. /\ Cardinality(computed) \in 0 .. Len(operands)
          /\ \A m \in DOMAIN operands : operands[m].kind = "compute" <=> m <= Cardinality(computed)
      BY <2>2, ComputedFirst DEF AreUnited
    <3>2. ComputedAmount = Cardinality(computed)
      BY DEF ComputedAmount
    <3>. HIDE DEF computed
    <3>. QED  BY <3>1, <3>2
  <2>6. CASE EvaluateOperand
    <3>. DEFINE e(walk) == Evaluation(operands[next], walk)
    <3>1. PICK walk \in WalkSet : lastResult'.replacements = e(walk).replacements
      BY <2>6 DEF EvaluateOperand
    <3>2. next <= Len(operands) /\ pc' = "fold" /\ next' = next /\ result' = result
      BY <2>6 DEF EvaluateOperand, AtOperand
    <3>3. next <= ComputedAmount => e(walk).replacements = operands[next].replacements
      BY <2>4, <2>5, <3>2 DEF Evaluation
    <3>. HIDE DEF e
    <3>. QED  BY <2>2, <3>1, <3>2, <3>3 DEF UnionFacts
  <2>7. CASE Disjunct
    <3>1. PICK walk \in WalkSet :
            Folded([value |-> result.value \/ lastResult.value,
                    replacements |-> UniteReplacements(Known, lastResult.replacements, walk)])
      BY <2>7 DEF Disjunct
    <3>2. pc = "fold"
      BY <2>7 DEF Disjunct, Folding
    <3>3. /\ pc' = "premise" /\ next' = next + 1
          /\ result'.replacements = UniteReplacements(result.replacements, lastResult.replacements, walk)
      BY <2>4, <3>1 DEF Folded
    <3>4. ASSUME next' <= ComputedAmount + 1
          PROVE  UnionAt(result'.replacements, next' - 1)
      <4>1. next \in 1 .. ComputedAmount /\ next' - 1 = next
        BY <2>4, <2>5, <3>3, <3>4
      <4>2. /\ UnionAt(result.replacements, next - 1)
            /\ lastResult.replacements = operands[next].replacements
        <5>1. next <= ComputedAmount + 1 /\ next <= ComputedAmount
          BY <2>5, <4>1
        <5>. QED  BY <2>2, <3>2, <5>1 DEF UnionFacts
      <4>3. UnionAt(result'.replacements, next)
        BY <2>2, <3>3, <4>1, <4>2, UnionStep
      <4>. QED  BY <4>1, <4>3
    <3>. QED  BY <3>3, <3>4 DEF UnionFacts
  <2>8. CASE DisjunctionFails
    <3>1. /\ DOMAIN result.replacements = {} /\ next = ComputedAmount + 1
          /\ pc' = "conclusion" /\ next' = next /\ result' = NotFound
      BY <2>8 DEF DisjunctionFails, NothingUnited
    <3>2. result.replacements = NotFound.replacements
      <4>1. result.replacements = [key \in {} |-> result.replacements[key]]
        BY <3>1 DEF TypeInv, TypeOK, IsResult, IsReplacements
      <4>2. NotFound.replacements = [key \in {} |-> {}]
        BY DEF NotFound, NoReplacements
      <4>. QED  BY <4>1, <4>2
    <3>. QED  BY <2>2, <3>1, <3>2 DEF UnionFacts
  <2>9. CASE PremiseComputed \/ ConclusionNotGenerated \/ SubtractExisting \/ EvaluateThrows \/ FoldThrows
    <3>1. pc' # "fold" /\ next' = next /\ result' = result
      BY <2>9 DEF PremiseComputed, ConclusionNotGenerated, SubtractExisting, EvaluateThrows,
                  FoldThrows
    <3>. QED  BY <2>2, <3>1 DEF UnionFacts
  <2>10. /\ ~OperandIsFalse /\ ~FirstOperand /\ ~NextOperand /\ ~Equivalence /\ ~NoEquivalence
         /\ ~OnlyOperand
    BY <2>2, <2>3 DEF OperandIsFalse, FirstOperand, NextOperand, Equivalence, NoEquivalence,
                      OnlyOperand, Folding
  <2>11. ~Build /\ ~BuildThrows /\ ~ComputeTree
    BY <1>3 DEF Build, BuildThrows, ComputeTree
  <2>. QED  BY <1>3, <2>6, <2>7, <2>8, <2>9, <2>10, <2>11 DEF Next
<1>. QED  BY <1>1, <1>2, <1>3

(* DisjunctionExpressionNode::compute: the results of the operands that    *)
(* are computed by themselves are united without mixing the columns of one *)
(* with those of another, and without losing a column that the hashes tell *)
(* from the others.                                                        *)
THEOREM DisjunctionIsUnionHolds == Spec => []DisjunctionIsUnion
<1>1. Init => UnionInv
  BY DEF Init, UnionInv
<1>2. TypeInv /\ UnionInv => DisjunctionIsUnion
  <2>1. SUFFICES ASSUME TypeInv, UnionInv, connective = "DISJUNCTION", ~Nested,
                        next <= ComputedAmount + 1,
                        \A n \in 1 .. ComputedAmount : IsMatrix(operands[n].replacements)
                 PROVE  DisjunctionIsUnion
    BY DEF DisjunctionIsUnion
  <2>2. AreOperands(operands)
    BY <2>1 DEF TypeInv, OperandsInv, OperandsOfClass
  <2>3. UnionAt(result.replacements, next - 1)
    BY <2>1, <2>2 DEF AreUnited, UnionInv, UnionFacts
  <2>. QED  BY <2>3 DEF UnionAt, DisjunctionIsUnion
<1>. QED  BY <1>1, <1>2, TypeInvInit, TypeInvNext, UnionInvNext, PTL DEF Spec
=============================================================================
