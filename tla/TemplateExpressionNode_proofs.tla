-------------------- MODULE TemplateExpressionNode_proofs --------------------
(***************************************************************************)
(* Proofs about TemplateExpressionNode: what the generation of a           *)
(* conclusion promises to one evaluation, and how far it holds however     *)
(* many others run at the same time.                                       *)
(***************************************************************************)
EXTENDS TemplateExpressionNode, SequenceTheorems, FiniteSetTheorems, TLAPS

-----------------------------------------------------------------------------
(* The invariant.  Each conjunct is about one evaluation and what the      *)
(* storage has for it.                                                     *)

AtWork(e) == eval[e].pc \in {"params", "generate"}

(* With unique formulas a column that is not fit ends the evaluation; it   *)
(* is passed over otherwise.                                               *)
Possible(e, column) == Unique(e) \/ column \notin eval[e].input.unfit

(* params[next], params[next + 1], ...                                     *)
Ahead(e, column) == \E k \in DOMAIN eval[e].params : k >= eval[e].next /\ eval[e].params[k] = column

(* The formulas the conjunction has passed hold for all replacements that  *)
(* are left; none that is possible was dropped.                            *)
Narrowed(e) ==
  LET v == eval[e] IN
  /\ Range(v.replacements) \subseteq Range(v.input.replacements)
  /\ v.formula = 1 => v.replacements = v.input.replacements
  /\ v.formula > 1 => v.replacements # <<>>
  /\ ~First(e) =>
       \A column \in Range(v.input.replacements) :
         Possible(e, column) => column \in Range(v.replacements)
  /\ \A k \in 1 .. v.formula - 1 : \A column \in Range(v.replacements) :
       Holds(v.input.conclusion[k], column)

(* The loop over the params: what it has found and generated, and that it  *)
(* comes to every replacement for which nothing was found yet.             *)
Collected(e) ==
  LET v == eval[e] IN
  AtWork(e) =>
    /\ Range(v.params) \subseteq Range(v.replacements)
    /\ \A n \in Result(e) : storage[n].formula = Formula(e)
    /\ ColumnsOf(v.searchResult \cup v.generated) \subseteq Range(v.replacements)
    /\ v.generated \subseteq GeneratedBy(e)
    /\ ColumnsOf(v.generated) \cap v.input.unfit = {}
    /\ \A column \in Range(v.replacements) :
         Possible(e, column) => column \in ColumnsOf(Result(e)) \/ Ahead(e, column)

(* Between the search and the generation only others generated what was    *)
(* not found.                                                              *)
Searched(e) ==
  eval[e].pc = "generate" =>
    /\ Unique(e)
    /\ eval[e].next \in DOMAIN eval[e].params
    /\ Params(e) \notin eval[e].input.unfit
    /\ ~Stops(e)
    /\ \A n \in DOMAIN storage :
         storage[n].formula = Formula(e) /\ storage[n].column = Params(e)
           => storage[n].by \notin {e, Nobody}

(* What e generated belongs to the formulas it has passed, each of which   *)
(* it generated at least once, and to the one at work.                     *)
Attributed(e) ==
  LET v == eval[e] IN
  /\ \A k \in 1 .. v.formula - 1 :
       \E n \in GeneratedBy(e) : storage[n].formula = v.input.conclusion[k]
  /\ Distinct(e) =>
       \A n \in GeneratedBy(e) :
         /\ \A k \in DOMAIN v.input.conclusion :
              storage[n].formula = v.input.conclusion[k] => k <= v.formula
         /\ storage[n].formula = Formula(e) =>
              /\ v.pc # "search"
              /\ AtWork(e) => n \in v.generated

Unrepeated(e) ==
  /\ Unique(e) =>
       \A n \in GeneratedBy(e) : \A m \in 1 .. n - 1 :
         /\ storage[m].formula = storage[n].formula
         /\ storage[m].column = storage[n].column
         => storage[m].by \notin {e, Nobody}
  /\ First(e) /\ Distinct(e) =>
       \A n, m \in GeneratedBy(e) : storage[n].formula = storage[m].formula => n = m

(* An instance the storage had at first, for a replacement of the premise. *)
Given(e, n) ==
  storage[n].by = Nobody /\ storage[n].column \in Range(eval[e].input.replacements)

Written(e) ==
  LET v == eval[e] IN
  /\ v.pc # "thrown" => GeneratedBy(e) \subseteq v.output
  /\ \A n, m \in GeneratedBy(e) \ v.output : n = m
  /\ v.output \subseteq
       IF v.input.fillingType = "GENERATED_ONLY" THEN GeneratedBy(e)
       ELSE {n \in DOMAIN storage : storage[n].column \in Range(v.input.replacements)}

(* What was found is in the output structure, or about to be.              *)
Filled(e) ==
  LET v == eval[e] IN
  Unique(e) /\ ~First(e) =>
    \A n \in DOMAIN storage : Given(e, n) =>
      /\ v.input.fillingType = "SEARCHED_AND_GENERATED" =>
           \A k \in 1 .. v.formula : storage[n].formula = v.input.conclusion[k] =>
             \/ n \in v.output
             \/ k = v.formula /\ v.pc # "done"
      /\ AtWork(e) /\ storage[n].formula = Formula(e) =>
           n \in v.existing \cup v.searchResult \/ Ahead(e, storage[n].column)

Reported(e) ==
  LET v == eval[e] IN
  /\ v.value = v.isGenerated
  /\ v.isGenerated =>
       /\ v.pc = "done"
       /\ v.formula = Len(v.input.conclusion)
       /\ \E n \in GeneratedBy(e) :
            /\ storage[n].formula = Formula(e)
            /\ storage[n].column \in Fit(e, v.replacements)
  /\ v.pc = "done" /\ ~v.isGenerated /\ Distinct(e) =>
       \A n \in GeneratedBy(e) : storage[n].formula # Formula(e)
  /\ v.pc = "done" /\ (First(e) => ~v.isGenerated) =>
       \A column \in Range(v.replacements) : Possible(e, column) => Holds(Formula(e), column)

EvaluationInv(e) ==
  /\ Narrowed(e)
  /\ Collected(e)
  /\ Searched(e)
  /\ Attributed(e)
  /\ Unrepeated(e)
  /\ Written(e)
  /\ Filled(e)
  /\ Reported(e)

GenerationInv == TypeOK /\ \A e \in Evaluations : EvaluationInv(e)

-----------------------------------------------------------------------------
(* The operators of the model.                                             *)

(* A reordering is a sequence and has the values of what it reorders.      *)
LEMMA ReorderingsRange ==
  ASSUME NEW f, IsFiniteSet(DOMAIN f), NEW s \in Reorderings(f)
  PROVE  /\ s \in Seq(Range(f))
         /\ Range(s) = Range(f)
<1>1. Cardinality(DOMAIN f) \in Nat
  BY FS_CardinalityType
<1>2. /\ s \in [1 .. Cardinality(DOMAIN f) -> Range(f)]
      /\ \A column \in Range(f) : Occurrences(s, column) = Occurrences(f, column)
  BY DEF Reorderings
<1>3. s \in Seq(Range(f)) /\ Range(s) \subseteq Range(f) /\ DOMAIN s = 1 .. Cardinality(DOMAIN f)
  BY <1>1, <1>2 DEF Range
<1>4. ASSUME NEW c \in Range(f)
      PROVE  c \in Range(s)
  <2>. DEFINE ofF == {n \in DOMAIN f : f[n] = c}
              ofS == {n \in DOMAIN s : s[n] = c}
  <2>1. IsFiniteSet(ofF) /\ ofF # {}
    BY <1>4, FS_Subset DEF Range
  <2>2. Cardinality(ofF) # 0
    BY <2>1, FS_EmptySet
  <2>3. Cardinality(ofS) = Cardinality(ofF)
    BY <1>2, <1>4 DEF Occurrences
  <2>4. ofS # {}
    BY <2>2, <2>3, FS_EmptySet
  <2>. QED  BY <2>4 DEF Range
<1>. QED  BY <1>3, <1>4

(* A search finds something just when there is something to be found, and  *)
(* all of it unless it stops at the first instance.                        *)
LEMMA SearchResultsFound ==
  ASSUME NEW e, NEW instances, NEW hits \in SearchResults(e, instances)
  PROVE  /\ hits \subseteq instances
         /\ hits = {} <=> instances = {}
         /\ ~First(e) => hits = instances
BY DEF SearchResults

(* After the subtraction of what exists no replacement is lost and none is *)
(* new.                                                                    *)
LEMMA SubtractedRange ==
  ASSUME NEW rs \in Seq(Columns), NEW existing, NEW s \in Subtracted(rs, existing)
  PROVE  /\ s \in Seq(Columns)
         /\ Range(s) \subseteq Range(rs)
         /\ Range(rs) \subseteq Range(s) \cup ColumnsOf(existing)
<1>. DEFINE new == {k \in DOMAIN rs : rs[k] \notin ColumnsOf(existing)}
            f == [k \in new |-> rs[k]]
<1>1. CASE existing = {}
  BY <1>1 DEF Subtracted
<1>2. CASE existing # {}
  <2>1. IsFiniteSet(DOMAIN rs)
    BY LenProperties, FS_Interval
  <2>2. DOMAIN f = new /\ IsFiniteSet(new)
    BY <2>1, FS_Subset
  <2>3. s \in Reorderings(f)
    BY <1>2 DEF Subtracted
  <2>4. s \in Seq(Range(f)) /\ Range(s) = Range(f)
    BY <2>2, <2>3, ReorderingsRange
  <2>5. Range(f) = {rs[k] : k \in new}
    BY DEF Range
  <2>6. Range(f) \subseteq Range(rs)
    BY <2>5 DEF Range
  <2>7. s \in Seq(Columns)
    BY <2>4, <2>6, RangeOfSeq
  <2>8. Range(rs) \subseteq Range(f) \cup ColumnsOf(existing)
    BY <2>5 DEF Range
  <2>. QED  BY <2>4, <2>6, <2>7, <2>8
<1>. QED  BY <1>1, <1>2

(* The replacements the conjunction goes on with are those that have an    *)
(* instance in the result.                                                 *)
LEMMA IntersectedRange ==
  ASSUME TypeOK, NEW e \in Evaluations, NEW s \in Intersected(e)
  PROVE  /\ s \in Seq(Columns)
         /\ Range(s) = Range(eval[e].replacements) \cap ColumnsOf(Result(e))
<1>. DEFINE rs == eval[e].replacements
            pairs == {p \in (DOMAIN rs) \X Result(e) : rs[p[1]] = storage[p[2]].column}
            f == [p \in pairs |-> rs[p[1]]]
<1>1. rs \in Seq(Columns) /\ Result(e) \subseteq DOMAIN storage /\ storage \in Seq(Instances)
  BY DEF TypeOK, Locals, Result
<1>2. IsFiniteSet(DOMAIN rs) /\ IsFiniteSet(DOMAIN storage)
  BY <1>1, LenProperties, FS_Interval
<1>3. IsFiniteSet(Result(e))
  BY <1>1, <1>2, FS_Subset
<1>4. IsFiniteSet(pairs)
  <2>1. IsFiniteSet((DOMAIN rs) \X Result(e))
    BY <1>2, <1>3, FS_Product
  <2>. QED  BY <2>1, FS_Subset
<1>5. s \in Reorderings(f) /\ DOMAIN f = pairs
  BY DEF Intersected
<1>6. s \in Seq(Range(f)) /\ Range(s) = Range(f)
  BY <1>4, <1>5, ReorderingsRange
<1>7. Range(f) = {rs[p[1]] : p \in pairs}
  BY DEF Range
<1>8. Range(f) \subseteq Range(rs) \cap ColumnsOf(Result(e))
  BY <1>7 DEF Range, ColumnsOf
<1>9. ASSUME NEW c \in Range(rs) \cap ColumnsOf(Result(e))
      PROVE  c \in Range(f)
  <2>1. PICK k \in DOMAIN rs : rs[k] = c
    BY DEF Range
  <2>2. PICK i \in Result(e) : storage[i].column = c
    BY DEF ColumnsOf
  <2>3. <<k, i>> \in pairs
    BY <2>1, <2>2
  <2>. QED  BY <1>7, <2>1, <2>3
<1>10. Range(rs) \subseteq Columns
  BY <1>1, RangeOfSeq
<1>11. s \in Seq(Columns)
  BY <1>6, <1>8, <1>10
<1>. QED  BY <1>6, <1>8, <1>9, <1>11

-----------------------------------------------------------------------------
(* Types, and what a step of one evaluation leaves alone.                  *)

(* Generating appends one instance, of e; nothing else changes the         *)
(* storage.                                                                *)
Grows(e) ==
  /\ DOMAIN storage \subseteq DOMAIN storage'
  /\ \A n \in DOMAIN storage : storage'[n] = storage[n]
  /\ \A n \in DOMAIN storage' \ DOMAIN storage : n = Len(storage) + 1 /\ storage'[n].by = e
  /\ \A x \in Evaluations \ {e} : eval'[x] = eval[x]
  /\ eval'[e].input = eval[e].input

LEMMA StorageDomain ==
  ASSUME TypeOK
  PROVE  DOMAIN storage = 1 .. Len(storage) /\ Len(storage) \in Nat
BY LenProperties DEF TypeOK

LEMMA InstanceType ==
  ASSUME TypeOK, NEW n \in DOMAIN storage
  PROVE  storage[n] \in Instances /\ storage[n].column \in Columns
<1>1. storage[n] \in Instances
  BY ElementOfSeq, StorageDomain DEF TypeOK
<1>. QED  BY <1>1 DEF Instances

LEMMA ParamsType ==
  ASSUME TypeOK, NEW e \in Evaluations, eval[e].next \in DOMAIN eval[e].params
  PROVE  Params(e) \in Range(eval[e].params) /\ Params(e) \in Columns
<1>1. eval[e].params \in Seq(Columns)
  BY DEF TypeOK, Locals
<1>. QED  BY <1>1, RangeOfSeq DEF Params, Range

LEMMA FormulaType ==
  ASSUME TypeOK, NEW e \in Evaluations
  PROVE  /\ eval[e].formula \in DOMAIN eval[e].input.conclusion
         /\ DOMAIN eval[e].input.conclusion = 1 .. Len(eval[e].input.conclusion)
         /\ Formula(e) \in Formulas
<1>1. eval[e] \in Locals /\ eval[e].formula <= Len(eval[e].input.conclusion)
  BY DEF TypeOK
<1>2. eval[e].formula \in Nat \ {0} /\ eval[e].input.conclusion \in Seq(Formulas)
  BY <1>1 DEF Locals, InputType
<1>3. DOMAIN eval[e].input.conclusion = 1 .. Len(eval[e].input.conclusion)
  BY <1>2, LenProperties
<1>4. eval[e].formula \in DOMAIN eval[e].input.conclusion
  BY <1>1, <1>2, <1>3
<1>. QED  BY <1>2, <1>3, <1>4, ElementOfSeq DEF Formula

LEMMA TypeInit == Init => TypeOK
<1>. SUFFICES ASSUME Init PROVE TypeOK
  OBVIOUS
<1>1. storage \in Seq(Instances)
  BY StoragesAssumption DEF Init
<1>2. PICK input \in [Evaluations -> UNION {Inputs[e] : e \in Evaluations}] :
        /\ \A e \in Evaluations : input[e] \in Inputs[e]
        /\ eval = [e \in Evaluations |->
             [pc |-> "search", input |-> input[e], formula |-> 1,
              replacements |-> input[e].replacements, params |-> <<>>, next |-> 1,
              existing |-> {}, searchResult |-> {}, generated |-> {}, output |-> {},
              value |-> FALSE, isGenerated |-> FALSE]]
  BY DEF Init
<1>3. ASSUME NEW e \in Evaluations
      PROVE  /\ eval[e] \in Locals
             /\ eval[e].formula <= Len(eval[e].input.conclusion)
             /\ eval[e].next <= Len(eval[e].params) + 1
  <2>1. input[e] \in InputType
    BY <1>2, InputsAssumption
  <2>2. input[e].replacements \in Seq(Columns) /\ input[e].conclusion \in Seq(Formulas) \ {<<>>}
    BY <2>1 DEF InputType
  <2>3. Len(input[e].conclusion) >= 1
    BY <2>2, LenProperties, EmptySeq
  <2>4. <<>> \in Seq(Columns) /\ Len(<<>>) = 0
    BY EmptySeq
  <2>. QED  BY <1>2, <2>1, <2>2, <2>3, <2>4 DEF Locals
<1>. QED  BY <1>1, <1>2, <1>3 DEF TypeOK

(* An update of the locals of e that keeps its input.                      *)
LEMMA TypeUpdate ==
  ASSUME TypeOK, storage' = storage, NEW e \in Evaluations, NEW v \in Locals,
         eval' = [eval EXCEPT ![e] = v],
         v.input = eval[e].input,
         v.formula <= Len(v.input.conclusion),
         v.next <= Len(v.params) + 1
  PROVE  TypeOK' /\ Grows(e)
<1>1. Locals' = Locals
  BY DEF Locals
<1>. QED  BY <1>1 DEF TypeOK, Grows

LEMMA ReturnType ==
  ASSUME TypeOK, storage' = storage, NEW e \in Evaluations,
         NEW output \in SUBSET DOMAIN storage, NEW isGenerated \in BOOLEAN,
         Return(e, output, isGenerated)
  PROVE  TypeOK' /\ Grows(e)
<1>. DEFINE last == eval[e].formula = Len(eval[e].input.conclusion)
<1>1. eval[e] \in Locals /\ eval[e].formula <= Len(eval[e].input.conclusion)
  BY DEF TypeOK
<1>2. Len(eval[e].input.conclusion) \in Nat
  BY <1>1, LenProperties DEF Locals, InputType
<1>3. CASE isGenerated /\ ~last
  <2>1. PICK replacements \in Intersected(e) :
          eval' = [eval EXCEPT ![e].pc = "search", ![e].formula = @ + 1,
                     ![e].replacements = replacements, ![e].output = output]
    BY <1>3 DEF Return
  <2>2. replacements \in Seq(Columns)
    BY IntersectedRange
  <2>. DEFINE v == [eval[e] EXCEPT !.pc = "search", !.formula = @ + 1,
                      !.replacements = replacements, !.output = output]
  <2>3. eval' = [eval EXCEPT ![e] = v]
    BY <2>1, <1>1 DEF TypeOK, Locals
  <2>4. v \in Locals /\ v.input = eval[e].input /\ v.formula <= Len(v.input.conclusion)
    <3>1. eval[e].formula \in Nat \ {0}
      BY <1>1 DEF Locals
    <3>2. v.formula = eval[e].formula + 1 /\ v.input = eval[e].input
      BY <1>1 DEF Locals
    <3>3. eval[e].formula + 1 \in Nat \ {0} /\ eval[e].formula + 1 <= Len(eval[e].input.conclusion)
      BY <1>1, <1>2, <1>3, <3>1
    <3>4. v \in Locals
      BY <1>1, <2>2, <3>3 DEF Locals
    <3>. QED  BY <3>2, <3>3, <3>4
  <2>5. v.next <= Len(v.params) + 1
    BY <1>1 DEF TypeOK, Locals
  <2>. HIDE DEF v
  <2>. QED  BY <2>3, <2>4, <2>5, TypeUpdate
<1>4. CASE ~(isGenerated /\ ~last)
  <2>. DEFINE v == [eval[e] EXCEPT !.pc = "done", !.output = output,
                      !.value = isGenerated, !.isGenerated = isGenerated]
  <2>1. eval' = [eval EXCEPT ![e] = v]
    BY <1>1, <1>4 DEF Return, TypeOK, Locals
  <2>2. v \in Locals /\ v.input = eval[e].input /\ v.formula <= Len(v.input.conclusion)
    BY <1>1 DEF Locals
  <2>3. v.next <= Len(v.params) + 1
    BY <1>1 DEF TypeOK, Locals
  <2>. HIDE DEF v
  <2>. QED  BY <2>1, <2>2, <2>3, TypeUpdate
<1>. QED  BY <1>3, <1>4

LEMMA ExistingFound ==
  ASSUME NEW e,
         NEW existing \in
           IF eval[e].input.searchType = "SEARCH_WITHOUT_REPLACEMENTS"
             THEN SearchResults(e, InstancesFor(e, Columns)) ELSE {{}}
  PROVE  /\ existing \subseteq InstancesFor(e, Columns)
         /\ existing # {} /\ ~First(e) => existing = InstancesFor(e, Columns)
BY SearchResultsFound

LEMMA ParamsSearched ==
  ASSUME TypeOK, NEW e \in Evaluations, NEW existing,
         NEW params \in IF Unique(e) THEN Subtracted(eval[e].replacements, existing)
                        ELSE {eval[e].replacements}
  PROVE  /\ params \in Seq(Columns)
         /\ Range(params) \subseteq Range(eval[e].replacements)
         /\ Range(eval[e].replacements) \subseteq Range(params) \cup ColumnsOf(existing)
<1>1. eval[e].replacements \in Seq(Columns)
  BY DEF TypeOK, Locals
<1>2. CASE Unique(e)
  BY <1>1, <1>2, SubtractedRange
<1>3. CASE ~Unique(e)
  BY <1>1, <1>3
<1>. QED  BY <1>2, <1>3

LEMMA GenerateType ==
  ASSUME TypeOK, NEW e \in Evaluations, Generate(e),
         eval[e].next \in DOMAIN eval[e].params
  PROVE  TypeOK' /\ Grows(e)
<1>. DEFINE x == [formula |-> Formula(e), column |-> Params(e), by |-> e]
<1>1. x \in Instances
  BY FormulaType, ParamsType DEF Instances
<1>2. storage \in Seq(Instances) /\ storage' = Append(storage, x)
  BY DEF TypeOK, Generate
<1>3. /\ storage' \in Seq(Instances) /\ Len(storage') = Len(storage) + 1
      /\ \A n \in 1 .. Len(storage) : storage'[n] = storage[n]
      /\ storage'[Len(storage) + 1] = x
  BY <1>1, <1>2, AppendProperties
<1>4. /\ DOMAIN storage = 1 .. Len(storage) /\ Len(storage) \in Nat
      /\ DOMAIN storage' = 1 .. Len(storage) + 1
  BY <1>2, <1>3, LenProperties
<1>5. eval[e] \in Locals /\ eval[e].formula <= Len(eval[e].input.conclusion)
  BY DEF TypeOK
<1>6. /\ eval[e].params \in Seq(Columns) /\ DOMAIN eval[e].params = 1 .. Len(eval[e].params)
      /\ Len(eval[e].params) \in Nat
  BY <1>5, LenProperties DEF Locals
<1>7. ASSUME NEW y \in Evaluations PROVE eval[y] \in Locals'
  <2>1. eval[y] \in Locals
    BY DEF TypeOK
  <2>. QED  BY <2>1, <1>4 DEF Locals
<1>8. CASE Formula(e) \in eval[e].input.stray
  <2>1. eval' = [eval EXCEPT ![e].pc = "thrown"]
    BY <1>8 DEF Generate
  <2>2. /\ eval'[e] \in Locals' /\ eval'[e].formula = eval[e].formula
        /\ eval'[e].input = eval[e].input /\ eval'[e].next = eval[e].next
        /\ eval'[e].params = eval[e].params
    BY <2>1, <1>7 DEF Locals, TypeOK
  <2>3. eval' \in [Evaluations -> Locals']
    BY <2>1, <2>2, <1>7 DEF TypeOK
  <2>. QED  BY <2>1, <2>2, <2>3, <1>3, <1>4, <1>7 DEF TypeOK, Grows
<1>9. CASE Formula(e) \notin eval[e].input.stray
  <2>1. eval' = [eval EXCEPT ![e].pc = "params", ![e].next = @ + 1,
                   ![e].generated = @ \cup {Len(storage')},
                   ![e].output = @ \cup {Len(storage')}]
    BY <1>9 DEF Generate
  <2>2. /\ eval'[e] \in Locals' /\ eval'[e].formula = eval[e].formula
        /\ eval'[e].input = eval[e].input /\ eval'[e].next = eval[e].next + 1
        /\ eval'[e].params = eval[e].params
    <3>1. Len(storage') \in DOMAIN storage'
      BY <1>3, <1>4
    <3>2. eval[e] \in Locals'
      BY <1>7
    <3>3. /\ eval[e].generated \cup {Len(storage')} \in SUBSET DOMAIN storage'
          /\ eval[e].output \cup {Len(storage')} \in SUBSET DOMAIN storage'
      BY <3>1, <3>2 DEF Locals
    <3>4. eval[e].next + 1 \in Nat \ {0}
      BY <1>5 DEF Locals
    <3>5. eval'[e] = [eval[e] EXCEPT !.pc = "params", !.next = @ + 1,
                        !.generated = @ \cup {Len(storage')},
                        !.output = @ \cup {Len(storage')}]
      BY <2>1 DEF TypeOK, Locals
    <3>6. eval'[e] \in Locals'
      BY <3>2, <3>3, <3>4, <3>5 DEF Locals
    <3>. QED  BY <3>2, <3>5, <3>6 DEF Locals
  <2>3. eval' \in [Evaluations -> Locals']
    BY <2>1, <2>2, <1>7 DEF TypeOK
  <2>4. eval[e].next + 1 <= Len(eval[e].params) + 1
    BY <1>6
  <2>. QED  BY <2>1, <2>2, <2>3, <2>4, <1>3, <1>4, <1>7 DEF TypeOK, Grows
<1>. QED  BY <1>8, <1>9

LEMMA StepType ==
  ASSUME TypeOK, NEW e \in Evaluations, Searched(e), GenerateConclusion(e)
  PROVE  TypeOK' /\ Grows(e)
<1>1. /\ eval[e] \in Locals /\ eval \in [Evaluations -> Locals]
      /\ eval[e].formula <= Len(eval[e].input.conclusion)
      /\ eval[e].next <= Len(eval[e].params) + 1
  BY DEF TypeOK
<1>2. /\ eval[e].params \in Seq(Columns) /\ DOMAIN eval[e].params = 1 .. Len(eval[e].params)
      /\ Len(eval[e].params) \in Nat
      /\ eval[e].next \in Nat \ {0}
  BY <1>1, LenProperties DEF Locals
<1>3. AtParams(e) => eval[e].next \in DOMAIN eval[e].params
  BY <1>2 DEF AtParams
<1>4. CASE NotGenerated(e)
  <2>. DEFINE v == [eval[e] EXCEPT !.pc = "done"]
  <2>1. /\ eval' = [eval EXCEPT ![e] = v] /\ storage' = storage
        /\ v \in Locals /\ v.input = eval[e].input /\ v.formula <= Len(v.input.conclusion)
        /\ v.next <= Len(v.params) + 1
    BY <1>1, <1>4 DEF NotGenerated, Locals
  <2>. HIDE DEF v
  <2>. QED  BY <2>1, TypeUpdate
<1>5. CASE SearchBeforeGeneration(e)
  <2>1. PICK existing \in
               IF eval[e].input.searchType = "SEARCH_WITHOUT_REPLACEMENTS"
                 THEN SearchResults(e, InstancesFor(e, Columns)) ELSE {{}} :
             \E params \in
               IF Unique(e) THEN Subtracted(eval[e].replacements, existing)
               ELSE {eval[e].replacements} :
               eval' = [eval EXCEPT ![e].pc = "params", ![e].params = params, ![e].next = 1,
                 ![e].existing = existing, ![e].searchResult = {}, ![e].generated = {}]
    BY <1>5 DEF SearchBeforeGeneration
  <2>2. PICK params \in
               IF Unique(e) THEN Subtracted(eval[e].replacements, existing)
               ELSE {eval[e].replacements} :
               eval' = [eval EXCEPT ![e].pc = "params", ![e].params = params, ![e].next = 1,
                 ![e].existing = existing, ![e].searchResult = {}, ![e].generated = {}]
    BY <2>1
  <2>3. params \in Seq(Columns) /\ Len(params) \in Nat
    BY ParamsSearched, LenProperties
  <2>4. existing \subseteq DOMAIN storage
    BY ExistingFound DEF InstancesFor
  <2>. DEFINE v == [eval[e] EXCEPT !.pc = "params", !.params = params, !.next = 1,
                      !.existing = existing, !.searchResult = {}, !.generated = {}]
  <2>5. /\ eval' = [eval EXCEPT ![e] = v] /\ storage' = storage
        /\ v \in Locals /\ v.input = eval[e].input /\ v.formula <= Len(v.input.conclusion)
    <3>1. eval' = [eval EXCEPT ![e] = v] /\ storage' = storage
      <4>1. storage' = storage
        BY <1>5 DEF SearchBeforeGeneration
      <4>2. eval' = [eval EXCEPT ![e] = v]
        BY <1>1, <2>2, Zenon
      <4>. QED  BY <4>1, <4>2
    <3>2. PICK one \in Nat \ {0} : one = 1
      OBVIOUS
    <3>3. v \in Locals
      <4>1. [eval[e] EXCEPT !.pc = "params", !.params = params, !.next = one,
               !.existing = existing, !.searchResult = {}, !.generated = {}] \in Locals
        BY <1>1, <2>3, <2>4 DEF Locals
      <4>. QED  BY <3>2, <4>1, Zenon
    <3>. QED  BY <1>1, <3>1, <3>3 DEF Locals
  <2>6. v.next <= Len(v.params) + 1
    BY <1>1, <2>3 DEF Locals
  <2>. HIDE DEF v
  <2>. QED  BY <2>5, <2>6, TypeUpdate
<1>6. CASE SearchThrows(e)
  <2>. DEFINE v == [eval[e] EXCEPT !.pc = "thrown"]
  <2>1. /\ eval' = [eval EXCEPT ![e] = v] /\ storage' = storage
        /\ v \in Locals /\ v.input = eval[e].input /\ v.formula <= Len(v.input.conclusion)
        /\ v.next <= Len(v.params) + 1
    BY <1>1, <1>6 DEF SearchThrows, Locals
  <2>. HIDE DEF v
  <2>. QED  BY <2>1, TypeUpdate
<1>7. CASE SearchParams(e)
  <2>1. PICK hits \in SearchResults(e, InstancesFor(e, {Params(e)})) :
          eval' = [eval EXCEPT ![e].searchResult = @ \cup hits,
                     ![e].pc = IF hits = {} THEN "generate" ELSE @,
                     ![e].next = IF hits = {} THEN @ ELSE @ + 1]
    BY <1>7 DEF SearchParams
  <2>2. hits \subseteq DOMAIN storage
    BY SearchResultsFound DEF InstancesFor
  <2>3. eval[e].next + 1 \in Nat \ {0} /\ eval[e].next + 1 <= Len(eval[e].params) + 1
    <3>1. AtParams(e)
      BY <1>7 DEF SearchParams
    <3>. QED  BY <1>2, <1>3, <3>1
  <2>. DEFINE v == [eval[e] EXCEPT !.searchResult = @ \cup hits,
                      !.pc = IF hits = {} THEN "generate" ELSE @,
                      !.next = IF hits = {} THEN @ ELSE @ + 1]
  <2>4. /\ eval' = [eval EXCEPT ![e] = v] /\ storage' = storage
        /\ v \in Locals /\ v.input = eval[e].input /\ v.formula <= Len(v.input.conclusion)
    BY <1>1, <1>7, <2>1, <2>2, <2>3 DEF SearchParams, Locals
  <2>5. v.next <= Len(v.params) + 1
    BY <1>1, <2>3 DEF Locals
  <2>. HIDE DEF v
  <2>. QED  BY <2>4, <2>5, TypeUpdate
<1>8. CASE Generate(e)
  <2>1. eval[e].next \in DOMAIN eval[e].params
    BY <1>3, <1>8 DEF Generate, Searched
  <2>. QED  BY <1>8, <2>1, GenerateType
<1>9. CASE GenerateFails(e)
  <2>1. eval[e].next + 1 \in Nat \ {0} /\ eval[e].next + 1 <= Len(eval[e].params) + 1
    BY <1>2, <1>9 DEF GenerateFails, AtParams
  <2>. DEFINE v == [eval[e] EXCEPT !.next = @ + 1]
  <2>2. /\ eval' = [eval EXCEPT ![e] = v] /\ storage' = storage
        /\ v \in Locals /\ v.input = eval[e].input /\ v.formula <= Len(v.input.conclusion)
        /\ v.next <= Len(v.params) + 1
    BY <1>1, <1>9, <2>1 DEF GenerateFails, Locals
  <2>. HIDE DEF v
  <2>. QED  BY <2>2, TypeUpdate
<1>10. CASE ParamsProcessed(e)
  <2>1. FillOutputStructure(e) \subseteq DOMAIN storage
    BY <1>1 DEF FillOutputStructure, Locals
  <2>. QED  BY <1>10, <2>1, ReturnType DEF ParamsProcessed
<1>. QED  BY <1>4, <1>5, <1>6, <1>7, <1>8, <1>9, <1>10 DEF GenerateConclusion

(* What an evaluation has of its own is not touched by the steps of the    *)
(* others: it finds more, and nothing of what it found goes.               *)
LEMMA OthersKeep ==
  ASSUME TypeOK, TypeOK', NEW e \in Evaluations, NEW x \in Evaluations, x # e,
         Grows(x), EvaluationInv(e)
  PROVE  EvaluationInv(e)'
<1>1. eval'[e] = eval[e]
  BY DEF Grows
<1>2. DOMAIN storage = 1 .. Len(storage) /\ Len(storage) \in Nat /\ DOMAIN storage \subseteq DOMAIN storage'
  BY StorageDomain DEF Grows
<1>3. \A n \in DOMAIN storage : storage'[n] = storage[n]
  BY DEF Grows
<1>4. \A n \in DOMAIN storage' \ DOMAIN storage : n = Len(storage) + 1 /\ storage'[n].by = x
  BY DEF Grows
<1>5. x # Nobody
  BY NobodyAssumption
<1>6. GeneratedBy(e)' = GeneratedBy(e)
  BY <1>2, <1>3, <1>4 DEF GeneratedBy
<1>7. \A f, c : Holds(f, c) => Holds(f, c)'
  BY <1>2, <1>3 DEF Holds
<1>8. ASSUME NEW ns \in SUBSET DOMAIN storage PROVE ColumnsOf(ns)' = ColumnsOf(ns)
  BY <1>3 DEF ColumnsOf
<1>9. /\ Formula(e)' = Formula(e) /\ Params(e)' = Params(e) /\ Result(e)' = Result(e)
      /\ Unique(e)' = Unique(e) /\ First(e)' = First(e) /\ AtWork(e)' = AtWork(e)
      /\ Stops(e)' = Stops(e) /\ Distinct(e)' = Distinct(e)
      /\ \A c : Ahead(e, c)' = Ahead(e, c) /\ Possible(e, c)' = Possible(e, c)
      /\ \A r : Fit(e, r)' = Fit(e, r)
  BY <1>1 DEF Formula, Params, Result, Unique, First, AtWork, Stops, Distinct, Ahead, Possible, Fit
<1>10. /\ Result(e) \subseteq DOMAIN storage
       /\ eval[e].searchResult \cup eval[e].generated \subseteq DOMAIN storage
       /\ eval[e].generated \subseteq DOMAIN storage
       /\ eval[e].output \subseteq DOMAIN storage
  BY DEF Result, TypeOK, Locals
<1>11. Narrowed(e)'
  BY <1>1, <1>7, <1>9 DEF Narrowed, EvaluationInv
<1>12. Collected(e)'
  BY <1>1, <1>3, <1>6, <1>8, <1>9, <1>10 DEF Collected, EvaluationInv
<1>13. Searched(e)'
  BY <1>1, <1>3, <1>4, <1>5, <1>9 DEF Searched, EvaluationInv
<1>14. Attributed(e)'
  BY <1>1, <1>3, <1>6, <1>9 DEF Attributed, EvaluationInv, GeneratedBy
<1>15. Unrepeated(e)'
  BY <1>1, <1>2, <1>3, <1>6, <1>9 DEF Unrepeated, EvaluationInv, GeneratedBy
<1>16. Written(e)'
  BY <1>1, <1>2, <1>3, <1>6, <1>10 DEF Written, EvaluationInv
<1>17. Filled(e)'
  <2>1. \A n \in DOMAIN storage' : Given(e, n)' => n \in DOMAIN storage /\ Given(e, n)
    BY <1>1, <1>3, <1>4, <1>5 DEF Given
  <2>. QED  BY <1>1, <1>3, <1>9, <2>1 DEF Filled, EvaluationInv
<1>18. Reported(e)'
  BY <1>1, <1>3, <1>6, <1>7, <1>9 DEF Reported, EvaluationInv, GeneratedBy
<1>. QED
  BY <1>11, <1>12, <1>13, <1>14, <1>15, <1>16, <1>17, <1>18 DEF EvaluationInv

-----------------------------------------------------------------------------
(* Each step of an evaluation preserves its invariant.                     *)

LEMMA SameCall ==
  ASSUME NEW e \in Evaluations, Grows(e)
  PROVE  /\ eval'[e].input = eval[e].input
         /\ Unique(e)' = Unique(e) /\ First(e)' = First(e) /\ Distinct(e)' = Distinct(e)
         /\ \A column : Possible(e, column)' = Possible(e, column)
         /\ \A r : Fit(e, r)' = Fit(e, r)
BY DEF Grows, Unique, First, Distinct, Possible, Fit

LEMMA SameStorage ==
  ASSUME storage' = storage, NEW e \in Evaluations, Grows(e)
  PROVE  /\ GeneratedBy(e)' = GeneratedBy(e)
         /\ \A formula, column : Holds(formula, column)' = Holds(formula, column)
         /\ \A ns : ColumnsOf(ns)' = ColumnsOf(ns)
         /\ \A n : Given(e, n)' = Given(e, n)
BY DEF GeneratedBy, Holds, ColumnsOf, Given, Grows

LEMMA NotGeneratedKeeps ==
  ASSUME TypeOK, NEW e \in Evaluations, EvaluationInv(e), NotGenerated(e), Grows(e)
  PROVE  EvaluationInv(e)'
<1>1. /\ eval[e].pc = "search" /\ eval[e].replacements = <<>>
      /\ eval' = [eval EXCEPT ![e].pc = "done"] /\ storage' = storage
  BY DEF NotGenerated
<1>2. eval'[e] = [eval[e] EXCEPT !.pc = "done"]
  BY <1>1 DEF TypeOK
<1>3. /\ eval'[e].pc = "done" /\ eval'[e].formula = eval[e].formula
      /\ eval'[e].replacements = eval[e].replacements /\ eval'[e].output = eval[e].output
      /\ eval'[e].value = eval[e].value /\ eval'[e].isGenerated = eval[e].isGenerated
      /\ Formula(e)' = Formula(e) /\ ~AtWork(e)' /\ eval'[e].input = eval[e].input
  BY <1>2 DEF TypeOK, Locals, Formula, AtWork
<1>4. Range(eval[e].replacements) = {}
  BY <1>1 DEF Range
<1>. USE SameCall, SameStorage, <1>1, <1>3 DEF EvaluationInv
<1>5. Narrowed(e)' /\ Collected(e)' /\ Searched(e)'
  BY DEF Narrowed, Collected, Searched
<1>6. Attributed(e)' /\ Unrepeated(e)' /\ Written(e)'
  BY DEF Attributed, Unrepeated, Written
<1>7. Filled(e)'
  <2>1. eval[e].formula \in Nat \ {0}
    BY DEF TypeOK, Locals
  <2>2. eval[e].formula = 1 /\ eval[e].replacements = eval[e].input.replacements
    BY <2>1 DEF Narrowed
  <2>3. \A n : ~Given(e, n)
    BY <1>4, <2>2 DEF Given
  <2>. QED  BY <2>3 DEF Filled
<1>8. Reported(e)'
  BY <1>4 DEF Reported, Attributed
<1>. QED  BY <1>5, <1>6, <1>7, <1>8

LEMMA SearchBeforeGenerationKeeps ==
  ASSUME TypeOK, NEW e \in Evaluations, EvaluationInv(e), SearchBeforeGeneration(e), Grows(e)
  PROVE  EvaluationInv(e)'
<1>1. eval[e].pc = "search" /\ storage' = storage
  BY DEF SearchBeforeGeneration
<1>2. PICK existing \in
             IF eval[e].input.searchType = "SEARCH_WITHOUT_REPLACEMENTS"
               THEN SearchResults(e, InstancesFor(e, Columns)) ELSE {{}} :
           \E params \in
             IF Unique(e) THEN Subtracted(eval[e].replacements, existing)
             ELSE {eval[e].replacements} :
             eval' = [eval EXCEPT ![e].pc = "params", ![e].params = params, ![e].next = 1,
               ![e].existing = existing, ![e].searchResult = {}, ![e].generated = {}]
  BY DEF SearchBeforeGeneration
<1>3. PICK params \in
             IF Unique(e) THEN Subtracted(eval[e].replacements, existing)
             ELSE {eval[e].replacements} :
             eval' = [eval EXCEPT ![e].pc = "params", ![e].params = params, ![e].next = 1,
               ![e].existing = existing, ![e].searchResult = {}, ![e].generated = {}]
  BY <1>2
<1>4. eval'[e] = [eval[e] EXCEPT !.pc = "params", !.params = params, !.next = 1,
                    !.existing = existing, !.searchResult = {}, !.generated = {}]
  BY <1>3, Zenon DEF TypeOK
<1>5. eval[e] \in Locals
  BY DEF TypeOK
<1>6. /\ eval'[e].pc = "params" /\ eval'[e].formula = eval[e].formula
      /\ eval'[e].replacements = eval[e].replacements /\ eval'[e].output = eval[e].output
      /\ eval'[e].value = eval[e].value /\ eval'[e].isGenerated = eval[e].isGenerated
      /\ eval'[e].input = eval[e].input
  BY <1>4, <1>5 DEF Locals
<1>7. /\ eval'[e].params = params /\ eval'[e].next = 1 /\ eval'[e].existing = existing
      /\ eval'[e].searchResult = {} /\ eval'[e].generated = {}
  BY <1>4, <1>5 DEF Locals
<1>8. /\ Formula(e)' = Formula(e) /\ AtWork(e)' /\ Result(e)' = existing
      /\ \A column \in Range(params) : Ahead(e, column)'
  <2>1. DOMAIN params = 1 .. Len(params)
    BY ParamsSearched, LenProperties
  <2>. QED  BY <1>6, <1>7, <2>1 DEF Formula, AtWork, Result, Ahead, Range
<1>9. /\ Range(params) \subseteq Range(eval[e].replacements)
      /\ Range(eval[e].replacements) \subseteq Range(params) \cup ColumnsOf(existing)
  BY ParamsSearched
<1>10. /\ existing \subseteq InstancesFor(e, Columns)
       /\ existing # {} /\ ~First(e) => existing = InstancesFor(e, Columns)
  BY ExistingFound
<1>. USE SameCall, SameStorage, <1>1, <1>6, <1>7, <1>8 DEF EvaluationInv
<1>11. Narrowed(e)' /\ Searched(e)'
  BY DEF Narrowed, Searched
<1>12. Collected(e)'
  <2>1. ColumnsOf({}) = {}
    BY DEF ColumnsOf
  <2>. QED  BY <1>9, <1>10, <2>1 DEF Collected, InstancesFor
<1>13. Attributed(e)' /\ Unrepeated(e)' /\ Written(e)'
  BY DEF Attributed, Unrepeated, Written
<1>14. Filled(e)'
  <2>. SUFFICES ASSUME Unique(e), ~First(e), NEW n \in DOMAIN storage, Given(e, n),
                       storage[n].formula = Formula(e)
                PROVE  n \in existing \/ Ahead(e, storage[n].column)'
    BY DEF Filled
  <2>1. storage[n].column \in Range(eval[e].replacements)
    BY DEF Given, Narrowed, Possible
  <2>2. CASE storage[n].column \in Range(params)
    BY <2>2
  <2>3. CASE storage[n].column \in ColumnsOf(existing)
    <3>1. existing # {}
      BY <2>3 DEF ColumnsOf
    <3>2. storage[n].column \in Columns
      BY InstanceType
    <3>. QED  BY <1>10, <3>1, <3>2 DEF InstancesFor
  <2>. QED  BY <1>9, <2>1, <2>2, <2>3
<1>15. Reported(e)'
  BY DEF Reported
<1>. QED  BY <1>11, <1>12, <1>13, <1>14, <1>15

LEMMA SearchThrowsKeeps ==
  ASSUME TypeOK, NEW e \in Evaluations, EvaluationInv(e), SearchThrows(e), Grows(e)
  PROVE  EvaluationInv(e)'
<1>1. /\ eval[e].pc = "params" /\ storage' = storage
      /\ eval' = [eval EXCEPT ![e].pc = "thrown"]
  BY DEF SearchThrows, AtParams
<1>2. eval'[e] = [eval[e] EXCEPT !.pc = "thrown"] /\ eval[e] \in Locals
  BY <1>1 DEF TypeOK
<1>3. /\ eval'[e].pc = "thrown" /\ eval'[e].formula = eval[e].formula
      /\ eval'[e].replacements = eval[e].replacements /\ eval'[e].output = eval[e].output
      /\ eval'[e].value = eval[e].value /\ eval'[e].isGenerated = eval[e].isGenerated
      /\ Formula(e)' = Formula(e) /\ ~AtWork(e)' /\ eval'[e].input = eval[e].input
  BY <1>2 DEF Locals, Formula, AtWork
<1>. USE SameCall, SameStorage, <1>1, <1>3 DEF EvaluationInv
<1>4. Narrowed(e)' /\ Collected(e)' /\ Searched(e)'
  BY DEF Narrowed, Collected, Searched
<1>5. Attributed(e)' /\ Unrepeated(e)' /\ Written(e)'
  BY DEF Attributed, Unrepeated, Written
<1>6. Filled(e)' /\ Reported(e)'
  BY DEF Filled, Reported
<1>. QED  BY <1>4, <1>5, <1>6

LEMMA SearchParamsKeeps ==
  ASSUME TypeOK, NEW e \in Evaluations, EvaluationInv(e), SearchParams(e), Grows(e)
  PROVE  EvaluationInv(e)'
<1>1. /\ AtParams(e) /\ eval[e].pc = "params" /\ Unique(e) /\ storage' = storage
      /\ Params(e) \notin eval[e].input.unfit /\ ~Stops(e)
  BY DEF SearchParams, AtParams
<1>2. PICK hits \in SearchResults(e, InstancesFor(e, {Params(e)})) :
        eval' = [eval EXCEPT ![e].searchResult = @ \cup hits,
                   ![e].pc = IF hits = {} THEN "generate" ELSE @,
                   ![e].next = IF hits = {} THEN @ ELSE @ + 1]
  BY DEF SearchParams
<1>3. /\ hits \subseteq InstancesFor(e, {Params(e)})
      /\ hits = {} <=> InstancesFor(e, {Params(e)}) = {}
      /\ ~First(e) => hits = InstancesFor(e, {Params(e)})
  BY SearchResultsFound
<1>4. eval[e] \in Locals
  BY DEF TypeOK
<1>5. /\ eval'[e].pc = (IF hits = {} THEN "generate" ELSE "params")
      /\ eval'[e].next = (IF hits = {} THEN eval[e].next ELSE eval[e].next + 1)
      /\ eval'[e].searchResult = eval[e].searchResult \cup hits
      /\ eval'[e].input = eval[e].input
  BY <1>1, <1>2, <1>4 DEF TypeOK, Locals
<1>6. /\ eval'[e].formula = eval[e].formula /\ eval'[e].params = eval[e].params
      /\ eval'[e].replacements = eval[e].replacements /\ eval'[e].output = eval[e].output
      /\ eval'[e].value = eval[e].value /\ eval'[e].isGenerated = eval[e].isGenerated
      /\ eval'[e].existing = eval[e].existing /\ eval'[e].generated = eval[e].generated
  BY <1>2, <1>4 DEF TypeOK, Locals
<1>7. /\ eval[e].next \in DOMAIN eval[e].params /\ DOMAIN eval[e].params \subseteq Nat
      /\ Params(e) \in Range(eval[e].params)
  <2>1. /\ eval[e].params \in Seq(Columns) /\ eval[e].next \in Nat \ {0}
        /\ eval[e].next <= Len(eval[e].params)
    BY <1>1, <1>4 DEF Locals, AtParams
  <2>2. DOMAIN eval[e].params = 1 .. Len(eval[e].params) /\ Len(eval[e].params) \in Nat
    BY <2>1, LenProperties
  <2>3. eval[e].next \in DOMAIN eval[e].params
    BY <2>1, <2>2
  <2>. QED  BY <2>2, <2>3, ParamsType
<1>8. /\ Formula(e)' = Formula(e) /\ AtWork(e) /\ AtWork(e)'
      /\ Result(e)' = Result(e) \cup hits
      /\ Stops(e)' = Stops(e)
      /\ hits = {} => Params(e)' = Params(e)
  BY <1>1, <1>5, <1>6, SameCall DEF Formula, AtWork, Result, Stops, Params
<1>9. \A column : Ahead(e, column) =>
        Ahead(e, column)' \/ (hits # {} /\ column = Params(e))
  BY <1>5, <1>6, <1>7 DEF Ahead, Params
<1>. USE SameCall, SameStorage, <1>1, <1>5, <1>6, <1>8 DEF EvaluationInv
<1>10. Narrowed(e)'
  BY DEF Narrowed
<1>11. Collected(e)'
  <2>1. /\ ColumnsOf(Result(e) \cup hits) = ColumnsOf(Result(e)) \cup ColumnsOf(hits)
        /\ ColumnsOf((eval[e].searchResult \cup hits) \cup eval[e].generated) =
             ColumnsOf(eval[e].searchResult \cup eval[e].generated) \cup ColumnsOf(hits)
    BY DEF ColumnsOf
  <2>2. ColumnsOf(hits) \subseteq {Params(e)} /\ (hits # {} => Params(e) \in ColumnsOf(hits))
    BY <1>3 DEF ColumnsOf, InstancesFor
  <2>3. \A n \in hits : storage[n].formula = Formula(e)
    BY <1>3 DEF InstancesFor
  <2>4. ASSUME NEW column \in Range(eval[e].replacements), Possible(e, column)
        PROVE  column \in ColumnsOf(Result(e) \cup hits) \/ Ahead(e, column)'
    BY <1>9, <2>1, <2>2, <2>4 DEF Collected
  <2>5. /\ ColumnsOf(Result(e))' = ColumnsOf(Result(e) \cup hits)
        /\ ColumnsOf(eval[e].searchResult \cup eval[e].generated)' =
             ColumnsOf((eval[e].searchResult \cup hits) \cup eval[e].generated)
        /\ ColumnsOf(eval[e].generated)' = ColumnsOf(eval[e].generated)
    BY <1>6 DEF ColumnsOf
  <2>6. /\ Range(eval[e].params) \subseteq Range(eval[e].replacements)
        /\ \A n \in Result(e) \cup hits : storage[n].formula = Formula(e)
        /\ ColumnsOf((eval[e].searchResult \cup hits) \cup eval[e].generated)
             \subseteq Range(eval[e].replacements)
        /\ eval[e].generated \subseteq GeneratedBy(e)
        /\ ColumnsOf(eval[e].generated) \cap eval[e].input.unfit = {}
    BY <1>7, <2>1, <2>2, <2>3 DEF Collected
  <2>. QED  BY <1>6, <2>4, <2>5, <2>6 DEF Collected
<1>12. Searched(e)'
  <2>. SUFFICES ASSUME hits = {} PROVE Searched(e)'
    BY DEF Searched
  <2>1. \A n \in DOMAIN storage : ~(storage[n].formula = Formula(e) /\ storage[n].column = Params(e))
    BY <1>3 DEF InstancesFor
  <2>2. Params(e)' = Params(e) /\ eval'[e].next = eval[e].next
    OBVIOUS
  <2>. QED  BY <1>7, <2>1, <2>2 DEF Searched
<1>13. Attributed(e)' /\ Unrepeated(e)' /\ Written(e)'
  BY DEF Attributed, Unrepeated, Written
<1>14. Filled(e)'
  <2>. SUFFICES ASSUME ~First(e), NEW n \in DOMAIN storage, Given(e, n),
                       storage[n].formula = Formula(e)
                PROVE  \/ n \in eval[e].existing \cup (eval[e].searchResult \cup hits)
                       \/ Ahead(e, storage[n].column)'
    BY DEF Filled
  <2>1. n \in eval[e].existing \cup eval[e].searchResult \/ Ahead(e, storage[n].column)
    BY DEF Filled
  <2>2. storage[n].column = Params(e) => n \in hits
    BY <1>3 DEF InstancesFor
  <2>. QED  BY <1>9, <2>1, <2>2
<1>15. Reported(e)'
  BY DEF Reported
<1>. QED  BY <1>10, <1>11, <1>12, <1>13, <1>14, <1>15

LEMMA GenerateFailsKeeps ==
  ASSUME TypeOK, NEW e \in Evaluations, EvaluationInv(e), GenerateFails(e), Grows(e)
  PROVE  EvaluationInv(e)'
<1>1. /\ eval[e].pc = "params" /\ ~Unique(e) /\ storage' = storage
      /\ Params(e) \in eval[e].input.unfit
      /\ eval' = [eval EXCEPT ![e].next = @ + 1]
  BY DEF GenerateFails, AtParams
<1>2. eval'[e] = [eval[e] EXCEPT !.next = @ + 1] /\ eval[e] \in Locals
  BY <1>1 DEF TypeOK
<1>3. /\ eval'[e].pc = eval[e].pc /\ eval'[e].formula = eval[e].formula
      /\ eval'[e].replacements = eval[e].replacements /\ eval'[e].output = eval[e].output
      /\ eval'[e].value = eval[e].value /\ eval'[e].isGenerated = eval[e].isGenerated
      /\ eval'[e].input = eval[e].input /\ eval'[e].params = eval[e].params
      /\ eval'[e].existing = eval[e].existing /\ eval'[e].generated = eval[e].generated
      /\ eval'[e].searchResult = eval[e].searchResult
  BY <1>2 DEF Locals
<1>4. Formula(e)' = Formula(e) /\ AtWork(e)' = AtWork(e) /\ Result(e)' = Result(e)
  BY <1>3 DEF Formula, AtWork, Result
<1>5. ASSUME NEW column, Ahead(e, column)
      PROVE  Ahead(e, column)' \/ column = Params(e)
  <2>1. eval'[e].next = eval[e].next + 1 /\ eval[e].next \in Nat
    BY <1>2 DEF Locals
  <2>2. DOMAIN eval[e].params \subseteq Nat
    BY <1>2, LenProperties DEF Locals
  <2>. QED  BY <1>3, <1>5, <2>1, <2>2 DEF Ahead, Params
<1>. USE SameCall, SameStorage, <1>1, <1>3, <1>4 DEF EvaluationInv
<1>6. Narrowed(e)' /\ Searched(e)'
  BY DEF Narrowed, Searched
<1>7. Collected(e)'
  <2>1. /\ ColumnsOf(Result(e))' = ColumnsOf(Result(e))
        /\ ColumnsOf(eval[e].searchResult \cup eval[e].generated)' =
             ColumnsOf(eval[e].searchResult \cup eval[e].generated)
        /\ ColumnsOf(eval[e].generated)' = ColumnsOf(eval[e].generated)
    BY DEF ColumnsOf
  <2>2. ASSUME NEW column, Possible(e, column), Ahead(e, column)
        PROVE  Ahead(e, column)'
    BY <1>5, <2>2 DEF Possible
  <2>. QED  BY <2>1, <2>2 DEF Collected, AtWork
<1>8. Attributed(e)' /\ Unrepeated(e)' /\ Written(e)'
  BY DEF Attributed, Unrepeated, Written
<1>9. Filled(e)'
  <2>1. ~Unique(e)'
    OBVIOUS
  <2>. QED  BY <2>1 DEF Filled
<1>10. Reported(e)'
  BY DEF Reported
<1>. QED  BY <1>6, <1>7, <1>8, <1>9, <1>10

(* The new instance, and what is known of it: it is for a replacement that *)
(* is fit, and with unique formulas neither the evaluation nor the storage *)
(* at first had it.                                                        *)
LEMMA GenerateInstance ==
  ASSUME TypeOK, NEW e \in Evaluations, EvaluationInv(e), Generate(e), Grows(e)
  PROVE  /\ AtWork(e) /\ ~Stops(e) /\ (Unique(e) => eval[e].pc = "generate")
         /\ eval[e].next \in DOMAIN eval[e].params
         /\ Params(e) \in Range(eval[e].replacements) \ eval[e].input.unfit
         /\ Len(storage) \in Nat /\ DOMAIN storage = 1 .. Len(storage)
         /\ Len(storage') = Len(storage) + 1
         /\ DOMAIN storage' = DOMAIN storage \cup {Len(storage')}
         /\ Len(storage') \notin DOMAIN storage
         /\ storage'[Len(storage')].formula = Formula(e)
         /\ storage'[Len(storage')].column = Params(e)
         /\ storage'[Len(storage')].by = e
         /\ \A n \in DOMAIN storage : storage'[n] = storage[n]
<1>. DEFINE x == [formula |-> Formula(e), column |-> Params(e), by |-> e]
<1>1. /\ eval[e].pc = "generate" \/ (AtParams(e) /\ ~Unique(e))
      /\ Params(e) \notin eval[e].input.unfit
      /\ storage' = Append(storage, x)
  BY DEF Generate
<1>2. /\ eval[e].params \in Seq(Columns) /\ eval[e].next \in Nat \ {0}
  BY DEF TypeOK, Locals
<1>3. DOMAIN eval[e].params = 1 .. Len(eval[e].params) /\ Len(eval[e].params) \in Nat
  BY <1>2, LenProperties
<1>4. /\ AtWork(e) /\ ~Stops(e) /\ (Unique(e) => eval[e].pc = "generate")
      /\ eval[e].next \in DOMAIN eval[e].params
  <2>1. CASE eval[e].pc = "generate"
    BY <2>1 DEF EvaluationInv, Searched, AtWork
  <2>2. CASE AtParams(e) /\ ~Unique(e)
    BY <2>2, <1>2, <1>3 DEF AtParams, AtWork
  <2>. QED  BY <1>1, <2>1, <2>2
<1>5. Params(e) \in Range(eval[e].replacements) /\ Params(e) \in Columns
  BY <1>4, ParamsType DEF EvaluationInv, Collected
<1>6. x \in Instances
  BY <1>5, FormulaType DEF Instances
<1>7. storage \in Seq(Instances)
  BY DEF TypeOK
<1>8. /\ storage' \in Seq(Instances) /\ Len(storage') = Len(storage) + 1
      /\ \A n \in 1 .. Len(storage) : storage'[n] = storage[n]
      /\ storage'[Len(storage) + 1] = x
  BY <1>1, <1>6, <1>7, AppendProperties
<1>9. /\ DOMAIN storage = 1 .. Len(storage) /\ Len(storage) \in Nat
      /\ DOMAIN storage' = 1 .. Len(storage) + 1
  BY <1>7, <1>8, LenProperties
<1>. QED  BY <1>1, <1>4, <1>5, <1>8, <1>9

LEMMA GenerateKeeps ==
  ASSUME TypeOK, NEW e \in Evaluations, EvaluationInv(e), Generate(e), Grows(e)
  PROVE  EvaluationInv(e)'
<1>. DEFINE new == Len(storage')
<1>1. /\ AtWork(e) /\ ~Stops(e) /\ (Unique(e) => eval[e].pc = "generate")
      /\ eval[e].next \in DOMAIN eval[e].params
      /\ Params(e) \in Range(eval[e].replacements) \ eval[e].input.unfit
  BY GenerateInstance
<1>2. /\ Len(storage) \in Nat /\ DOMAIN storage = 1 .. Len(storage)
      /\ new = Len(storage) + 1
      /\ DOMAIN storage' = DOMAIN storage \cup {new} /\ new \notin DOMAIN storage
  BY GenerateInstance
<1>3. /\ storage'[new].formula = Formula(e) /\ storage'[new].column = Params(e)
      /\ storage'[new].by = e
      /\ \A n \in DOMAIN storage : storage'[n] = storage[n]
  BY GenerateInstance
<1>. HIDE DEF new
<1>4. eval[e] \in Locals
  BY DEF TypeOK
<1>5. /\ eval'[e].formula = eval[e].formula /\ eval'[e].params = eval[e].params
      /\ eval'[e].replacements = eval[e].replacements
      /\ eval'[e].value = eval[e].value /\ eval'[e].isGenerated = eval[e].isGenerated
      /\ eval'[e].existing = eval[e].existing
      /\ eval'[e].searchResult = eval[e].searchResult
      /\ eval'[e].input = eval[e].input
  BY <1>4 DEF Generate, TypeOK, Locals
<1>6. \/ /\ eval'[e].pc = "thrown" /\ eval'[e].output = eval[e].output
      \/ /\ eval'[e].pc = "params" /\ eval'[e].next = eval[e].next + 1
         /\ eval'[e].generated = eval[e].generated \cup {new}
         /\ eval'[e].output = eval[e].output \cup {new}
  <2>1. CASE Formula(e) \in eval[e].input.stray
    <3>1. eval' = [eval EXCEPT ![e].pc = "thrown"]
      BY <2>1 DEF Generate
    <3>. QED  BY <1>4, <3>1 DEF TypeOK, Locals
  <2>2. CASE Formula(e) \notin eval[e].input.stray
    <3>1. eval' = [eval EXCEPT ![e].pc = "params", ![e].next = @ + 1,
                     ![e].generated = @ \cup {new}, ![e].output = @ \cup {new}]
      BY <2>2 DEF Generate, new
    <3>2. eval'[e] = [eval[e] EXCEPT !.pc = "params", !.next = @ + 1,
                        !.generated = @ \cup {new}, !.output = @ \cup {new}]
      BY <1>4, <3>1 DEF TypeOK, Locals
    <3>. QED  BY <1>4, <3>2 DEF Locals
  <2>. QED  BY <2>1, <2>2
<1>7. /\ Formula(e)' = Formula(e) /\ eval[e].pc \in {"params", "generate"}
      /\ AtWork(e)' <=> eval'[e].pc = "params"
  BY <1>1, <1>5, <1>6 DEF Formula, AtWork
<1>8. /\ eval[e].existing \subseteq DOMAIN storage /\ eval[e].searchResult \subseteq DOMAIN storage
      /\ eval[e].generated \subseteq DOMAIN storage /\ eval[e].output \subseteq DOMAIN storage
  BY <1>4 DEF Locals
<1>9. GeneratedBy(e)' = GeneratedBy(e) \cup {new}
  BY <1>2, <1>3 DEF GeneratedBy
<1>10. \A formula, column : Holds(formula, column) => Holds(formula, column)'
  BY <1>2, <1>3 DEF Holds
<1>11. e # Nobody
  BY NobodyAssumption
<1>12. \A n : n \in DOMAIN storage' /\ Given(e, n)' => n \in DOMAIN storage /\ Given(e, n)
  BY <1>2, <1>3, <1>5, <1>11 DEF Given
<1>13. \A column : Ahead(e, column) /\ eval'[e].pc = "params" =>
         Ahead(e, column)' \/ column = Params(e)
  <2>1. DOMAIN eval[e].params \subseteq Nat /\ eval[e].next \in Nat
    BY <1>4, LenProperties DEF Locals
  <2>. QED  BY <1>5, <1>6, <2>1 DEF Ahead, Params
<1>. USE SameCall, <1>5 DEF EvaluationInv
<1>14. Narrowed(e)'
  BY <1>10 DEF Narrowed
<1>15. Collected(e)'
  <2>. SUFFICES ASSUME eval'[e].pc = "params" PROVE Collected(e)'
    BY <1>7 DEF Collected
  <2>1. Result(e)' = Result(e) \cup {new} /\ eval'[e].generated = eval[e].generated \cup {new}
    BY <1>6 DEF Result
  <2>2. Result(e) \subseteq DOMAIN storage
    BY <1>8 DEF Result
  <2>3. /\ ColumnsOf(Result(e))' = ColumnsOf(Result(e)) \cup {Params(e)}
        /\ ColumnsOf(eval[e].searchResult \cup eval[e].generated)' =
             ColumnsOf(eval[e].searchResult \cup eval[e].generated) \cup {Params(e)}
        /\ ColumnsOf(eval[e].generated)' = ColumnsOf(eval[e].generated) \cup {Params(e)}
    BY <1>2, <1>3, <1>8, <2>1, <2>2 DEF ColumnsOf
  <2>4. \A n \in Result(e)' : storage'[n].formula = Formula(e)
    BY <1>1, <1>2, <1>3, <2>1, <2>2 DEF Collected
  <2>5. ASSUME NEW column \in Range(eval[e].replacements), Possible(e, column)
        PROVE  column \in ColumnsOf(Result(e))' \/ Ahead(e, column)'
    BY <1>1, <1>13, <2>3, <2>5 DEF Collected
  <2>6. /\ Range(eval[e].params) \subseteq Range(eval[e].replacements)
        /\ ColumnsOf(eval[e].searchResult \cup eval[e].generated)'
             \subseteq Range(eval[e].replacements)
        /\ eval'[e].generated \subseteq GeneratedBy(e)'
        /\ ColumnsOf(eval[e].generated)' \cap eval[e].input.unfit = {}
    BY <1>1, <1>9, <2>1, <2>3 DEF Collected
  <2>. QED  BY <1>7, <2>4, <2>5, <2>6 DEF Collected
<1>16. Searched(e)'
  BY <1>6 DEF Searched
<1>17. Attributed(e)'
  <2>1. \A k \in 1 .. eval[e].formula - 1 :
          \E n \in GeneratedBy(e)' : storage'[n].formula = eval[e].input.conclusion[k]
    BY <1>3, <1>9 DEF Attributed, GeneratedBy
  <2>2. ASSUME Distinct(e), NEW n \in GeneratedBy(e)'
        PROVE  /\ \A k \in DOMAIN eval[e].input.conclusion :
                    storage'[n].formula = eval[e].input.conclusion[k] => k <= eval[e].formula
               /\ storage'[n].formula = Formula(e) =>
                    /\ eval'[e].pc # "search"
                    /\ eval'[e].pc = "params" => n \in eval'[e].generated
    <3>1. CASE n = new
      <4>1. eval[e].formula \in DOMAIN eval[e].input.conclusion /\ eval[e].formula \in Nat
        BY <1>4, FormulaType DEF Locals
      <4>2. \A k \in DOMAIN eval[e].input.conclusion :
              Formula(e) = eval[e].input.conclusion[k] => k = eval[e].formula
        BY <2>2, <4>1 DEF Distinct, IsInjective, Formula
      <4>. QED  BY <1>3, <1>6, <3>1, <4>1, <4>2
    <3>2. CASE n \in GeneratedBy(e)
      BY <1>1, <1>3, <1>6, <2>2, <3>2 DEF Attributed, GeneratedBy
    <3>. QED  BY <1>9, <2>2, <3>1, <3>2
  <2>. QED  BY <1>7, <2>1, <2>2 DEF Attributed
<1>18. Unrepeated(e)'
  <2>1. ASSUME Unique(e), NEW n \in GeneratedBy(e)', NEW m \in 1 .. n - 1,
               storage'[m].formula = storage'[n].formula,
               storage'[m].column = storage'[n].column
        PROVE  storage'[m].by \notin {e, Nobody}
    <3>1. CASE n = new
      BY <1>1, <1>2, <1>3, <2>1, <3>1 DEF Searched
    <3>2. CASE n \in GeneratedBy(e)
      <4>1. n \in DOMAIN storage /\ m \in DOMAIN storage
        BY <1>2, <2>1, <3>2 DEF GeneratedBy
      <4>. QED  BY <1>3, <2>1, <3>2, <4>1 DEF Unrepeated
    <3>. QED  BY <1>9, <2>1, <3>1, <3>2
  <2>2. ASSUME First(e), Distinct(e), NEW n \in GeneratedBy(e), storage[n].formula = Formula(e)
        PROVE  FALSE
    BY <1>1, <2>2 DEF Attributed, Stops
  <2>3. GeneratedBy(e) \subseteq DOMAIN storage
    BY DEF GeneratedBy
  <2>4. First(e) /\ Distinct(e) =>
          \A n, m \in GeneratedBy(e)' : storage'[n].formula = storage'[m].formula => n = m
    BY <1>3, <1>9, <2>2, <2>3 DEF Unrepeated
  <2>. QED  BY <2>1, <2>4 DEF Unrepeated
<1>19. Written(e)'
  <2>1. GeneratedBy(e) \subseteq eval[e].output
    BY <1>7 DEF Written
  <2>2. /\ eval'[e].pc # "thrown" => GeneratedBy(e)' \subseteq eval'[e].output
        /\ \A n, m \in GeneratedBy(e)' \ eval'[e].output : n = m
        /\ eval'[e].output \subseteq eval[e].output \cup {new}
    BY <1>6, <1>9, <2>1
  <2>3. Params(e) \in Range(eval[e].input.replacements)
    BY <1>1 DEF Narrowed
  <2>4. eval'[e].output \subseteq
          IF eval[e].input.fillingType = "GENERATED_ONLY" THEN GeneratedBy(e)'
          ELSE {n \in DOMAIN storage' : storage'[n].column \in Range(eval[e].input.replacements)}
    <3>1. CASE eval[e].input.fillingType = "GENERATED_ONLY"
      BY <1>9, <2>2, <3>1 DEF Written
    <3>2. CASE eval[e].input.fillingType # "GENERATED_ONLY"
      BY <1>2, <1>3, <2>2, <2>3, <3>2 DEF Written
    <3>. QED  BY <3>1, <3>2
  <2>. QED  BY <2>2, <2>4 DEF Written
<1>20. Filled(e)'
  <2>. SUFFICES ASSUME Unique(e), ~First(e), NEW n \in DOMAIN storage, Given(e, n)
                PROVE  /\ eval[e].input.fillingType = "SEARCHED_AND_GENERATED" =>
                            \A k \in 1 .. eval[e].formula :
                              storage[n].formula = eval[e].input.conclusion[k] =>
                                \/ n \in eval'[e].output
                                \/ k = eval[e].formula /\ eval'[e].pc # "done"
                       /\ eval'[e].pc = "params" /\ storage[n].formula = Formula(e) =>
                            \/ n \in eval[e].existing \cup eval[e].searchResult
                            \/ Ahead(e, storage[n].column)'
    BY <1>3, <1>7, <1>12 DEF Filled
  <2>1. eval[e].output \subseteq eval'[e].output /\ eval'[e].pc # "done"
    BY <1>6
  <2>2. storage[n].formula = Formula(e) => storage[n].column # Params(e)
    BY <1>1 DEF Searched, Given
  <2>3. eval[e].input.fillingType = "SEARCHED_AND_GENERATED" =>
          \A k \in 1 .. eval[e].formula :
            storage[n].formula = eval[e].input.conclusion[k] =>
              n \in eval[e].output \/ k = eval[e].formula
    BY DEF Filled
  <2>4. storage[n].formula = Formula(e) =>
          n \in eval[e].existing \cup eval[e].searchResult \/ Ahead(e, storage[n].column)
    BY <1>1 DEF Filled
  <2>5. Ahead(e, storage[n].column) /\ eval'[e].pc = "params"
          /\ storage[n].column # Params(e) => Ahead(e, storage[n].column)'
    BY <1>3, <1>13 DEF Ahead
  <2>. QED  BY <2>1, <2>2, <2>3, <2>4, <2>5
<1>21. Reported(e)'
  BY <1>6, <1>7 DEF Reported
<1>. QED  BY <1>14, <1>15, <1>16, <1>17, <1>18, <1>19, <1>20, <1>21

(* The loop is over: unless it stopped at the first instance, each         *)
(* replacement that is possible has an instance in the result, and what    *)
(* the storage had at first is in the output structure.                    *)
LEMMA ProcessedFacts ==
  ASSUME TypeOK, NEW e \in Evaluations, EvaluationInv(e), eval[e].pc = "params",
         eval[e].next > Len(eval[e].params) \/ Stops(e)
  PROVE  /\ \A column \in ColumnsOf(Result(e)) : Holds(Formula(e), column)
         /\ ~Stops(e) => \A column \in Range(eval[e].replacements) :
                           Possible(e, column) => column \in ColumnsOf(Result(e))
         /\ GeneratedBy(e) \subseteq FillOutputStructure(e)
         /\ FillOutputStructure(e) \subseteq
              IF eval[e].input.fillingType = "GENERATED_ONLY" THEN GeneratedBy(e)
              ELSE {n \in DOMAIN storage :
                      storage[n].column \in Range(eval[e].input.replacements)}
         /\ Unique(e) /\ ~First(e) /\ eval[e].input.fillingType = "SEARCHED_AND_GENERATED" =>
              \A n \in DOMAIN storage : Given(e, n) =>
                \A k \in 1 .. eval[e].formula :
                  storage[n].formula = eval[e].input.conclusion[k] =>
                    n \in FillOutputStructure(e)
<1>1. eval[e] \in Locals
  BY DEF TypeOK
<1>2. /\ eval[e].params \in Seq(Columns) /\ eval[e].next \in Nat \ {0}
      /\ DOMAIN eval[e].params = 1 .. Len(eval[e].params) /\ Len(eval[e].params) \in Nat
  BY <1>1, LenProperties DEF Locals
<1>3. ~Stops(e) => \A column : ~Ahead(e, column)
  BY <1>2 DEF Ahead
<1>4. AtWork(e) /\ Result(e) \subseteq DOMAIN storage
  BY <1>1 DEF AtWork, Locals, Result
<1>5. \A column \in ColumnsOf(Result(e)) : Holds(Formula(e), column)
  BY <1>4 DEF EvaluationInv, Collected, ColumnsOf, Holds
<1>6. ~Stops(e) => \A column \in Range(eval[e].replacements) :
                     Possible(e, column) => column \in ColumnsOf(Result(e))
  BY <1>3, <1>4 DEF EvaluationInv, Collected
<1>7. eval[e].output \subseteq FillOutputStructure(e)
  BY DEF FillOutputStructure
<1>8. GeneratedBy(e) \subseteq FillOutputStructure(e)
  BY <1>7 DEF EvaluationInv, Written
<1>9. FillOutputStructure(e) \subseteq
        IF eval[e].input.fillingType = "GENERATED_ONLY" THEN GeneratedBy(e)
        ELSE {n \in DOMAIN storage : storage[n].column \in Range(eval[e].input.replacements)}
  <2>1. CASE eval[e].input.fillingType = "GENERATED_ONLY"
    BY <2>1 DEF FillOutputStructure, EvaluationInv, Written
  <2>2. CASE eval[e].input.fillingType # "GENERATED_ONLY"
    <3>1. eval[e].output \subseteq
            {n \in DOMAIN storage : storage[n].column \in Range(eval[e].input.replacements)}
      BY <2>2 DEF EvaluationInv, Written
    <3>2. Range(eval[e].replacements) \subseteq Range(eval[e].input.replacements)
      BY DEF EvaluationInv, Narrowed
    <3>3. \A n \in eval[e].searchResult : storage[n].column \in Range(eval[e].replacements)
      BY <1>4 DEF EvaluationInv, Collected, ColumnsOf
    <3>4. eval[e].searchResult \subseteq DOMAIN storage /\ eval[e].existing \subseteq DOMAIN storage
      BY <1>1 DEF Locals
    <3>. QED  BY <2>2, <3>1, <3>2, <3>3, <3>4 DEF FillOutputStructure
  <2>. QED  BY <2>1, <2>2
<1>10. ASSUME Unique(e), ~First(e), eval[e].input.fillingType = "SEARCHED_AND_GENERATED",
              NEW n \in DOMAIN storage, Given(e, n),
              NEW k \in 1 .. eval[e].formula, storage[n].formula = eval[e].input.conclusion[k]
       PROVE  n \in FillOutputStructure(e)
  <2>1. CASE n \in eval[e].output
    BY <1>7, <2>1
  <2>2. CASE n \notin eval[e].output
    <3>1. k = eval[e].formula
      BY <1>10, <2>2 DEF EvaluationInv, Filled
    <3>2. storage[n].formula = Formula(e)
      BY <1>10, <3>1 DEF Formula
    <3>3. n \in eval[e].existing \cup eval[e].searchResult
      <4>1. ~Ahead(e, storage[n].column)
        BY <1>3, <1>10 DEF Stops
      <4>. QED  BY <1>4, <1>10, <3>2, <4>1 DEF EvaluationInv, Filled
    <3>4. storage[n].column \in Range(eval[e].replacements)
      BY <1>10 DEF Given, Possible, EvaluationInv, Narrowed
    <3>. QED  BY <1>10, <3>3, <3>4 DEF FillOutputStructure
  <2>. QED  BY <2>1, <2>2
<1>. QED  BY <1>5, <1>6, <1>8, <1>9, <1>10

LEMMA ParamsProcessedKeeps ==
  ASSUME TypeOK, NEW e \in Evaluations, EvaluationInv(e), ParamsProcessed(e), Grows(e)
  PROVE  EvaluationInv(e)'
<1>. DEFINE fill == FillOutputStructure(e)
            generated == eval[e].generated # {}
            last == eval[e].formula = Len(eval[e].input.conclusion)
<1>1. /\ eval[e].pc = "params" /\ storage' = storage
      /\ eval[e].next > Len(eval[e].params) \/ Stops(e)
      /\ Return(e, fill, generated)
  BY DEF ParamsProcessed
<1>2. /\ \A column \in ColumnsOf(Result(e)) : Holds(Formula(e), column)
      /\ ~Stops(e) => \A column \in Range(eval[e].replacements) :
                        Possible(e, column) => column \in ColumnsOf(Result(e))
      /\ GeneratedBy(e) \subseteq fill
      /\ fill \subseteq
           IF eval[e].input.fillingType = "GENERATED_ONLY" THEN GeneratedBy(e)
           ELSE {n \in DOMAIN storage : storage[n].column \in Range(eval[e].input.replacements)}
      /\ Unique(e) /\ ~First(e) /\ eval[e].input.fillingType = "SEARCHED_AND_GENERATED" =>
           \A n \in DOMAIN storage : Given(e, n) =>
             \A k \in 1 .. eval[e].formula :
               storage[n].formula = eval[e].input.conclusion[k] => n \in fill
  BY <1>1, ProcessedFacts
<1>. HIDE DEF fill
<1>3. AtWork(e) /\ eval[e] \in Locals
  BY <1>1 DEF AtWork, TypeOK
<1>4. /\ eval[e].formula \in Nat \ {0} /\ eval[e].formula \in DOMAIN eval[e].input.conclusion
      /\ eval[e].isGenerated = FALSE
  BY <1>1, <1>3, FormulaType DEF Locals, EvaluationInv, Reported
<1>5. generated => \E n \in GeneratedBy(e) :
                     /\ n \in eval[e].generated
                     /\ storage[n].formula = Formula(e)
                     /\ storage[n].column \in Fit(e, eval[e].replacements)
                     /\ storage[n].column \in ColumnsOf(Result(e))
  BY <1>3 DEF EvaluationInv, Collected, Fit, ColumnsOf, Result
<1>6. \A k \in 1 .. eval[e].formula - 1 : \A column \in Range(eval[e].replacements) :
        Holds(eval[e].input.conclusion[k], column)
  BY DEF EvaluationInv, Narrowed
<1>. USE SameCall, SameStorage, <1>1 DEF EvaluationInv
<1>7. CASE generated /\ ~last
  <2>1. PICK replacements \in Intersected(e) :
          eval' = [eval EXCEPT ![e].pc = "search", ![e].formula = @ + 1,
                     ![e].replacements = replacements, ![e].output = fill]
    BY <1>7 DEF Return
  <2>2. Range(replacements) = Range(eval[e].replacements) \cap ColumnsOf(Result(e))
    BY IntersectedRange
  <2>3. eval'[e] = [eval[e] EXCEPT !.pc = "search", !.formula = @ + 1,
                      !.replacements = replacements, !.output = fill]
    BY <1>3, <2>1 DEF TypeOK, Locals
  <2>4. /\ eval'[e].pc = "search" /\ eval'[e].formula = eval[e].formula + 1
        /\ eval'[e].replacements = replacements /\ eval'[e].output = fill
        /\ eval'[e].value = eval[e].value /\ eval'[e].isGenerated = eval[e].isGenerated
        /\ eval'[e].input = eval[e].input
    BY <1>3, <2>3 DEF Locals
  <2>5. ~AtWork(e)' /\ 1 .. (eval[e].formula + 1) - 1 = (1 .. eval[e].formula - 1) \cup {eval[e].formula}
    BY <1>4, <2>4 DEF AtWork
  <2>6. Formula(e) = eval[e].input.conclusion[eval[e].formula]
    BY DEF Formula
  <2>7. Narrowed(e)'
    <3>1. Range(replacements) # {}
      BY <1>5, <1>7, <2>2 DEF Fit
    <3>2. replacements # <<>>
      BY <3>1 DEF Range
    <3>3. ASSUME ~First(e), NEW column \in Range(eval[e].input.replacements), Possible(e, column)
          PROVE  column \in Range(replacements)
      BY <1>2, <2>2, <3>3 DEF Stops, Narrowed
    <3>4. \A k \in 1 .. (eval[e].formula + 1) - 1 : \A column \in Range(replacements) :
            Holds(eval[e].input.conclusion[k], column)
      BY <1>2, <1>6, <2>2, <2>5, <2>6
    <3>5. Range(replacements) \subseteq Range(eval[e].input.replacements)
      BY <2>2 DEF Narrowed
    <3>. QED  BY <1>4, <2>4, <3>2, <3>3, <3>4, <3>5 DEF Narrowed
  <2>8. Collected(e)' /\ Searched(e)'
    BY <2>4, <2>5 DEF Collected, Searched
  <2>9. Attributed(e)'
    <3>1. \A k \in 1 .. (eval[e].formula + 1) - 1 :
            \E n \in GeneratedBy(e) : storage[n].formula = eval[e].input.conclusion[k]
      BY <1>5, <1>7, <2>5, <2>6 DEF Attributed
    <3>2. eval[e].formula + 1 \in DOMAIN eval[e].input.conclusion
      BY <1>4, <1>7, FormulaType
    <3>3. Formula(e)' = eval[e].input.conclusion[eval[e].formula + 1]
      BY <2>4 DEF Formula
    <3>4. ASSUME Distinct(e), NEW n \in GeneratedBy(e)
          PROVE  /\ \A k \in DOMAIN eval[e].input.conclusion :
                      storage[n].formula = eval[e].input.conclusion[k] => k <= eval[e].formula + 1
                 /\ storage[n].formula # Formula(e)'
      <4>1. \A k \in DOMAIN eval[e].input.conclusion :
              storage[n].formula = eval[e].input.conclusion[k] => k <= eval[e].formula
        BY <3>4 DEF Attributed
      <4>2. \A k \in DOMAIN eval[e].input.conclusion : k \in Nat
        BY FormulaType
      <4>. QED  BY <1>4, <3>2, <3>3, <4>1, <4>2
    <3>. QED  BY <2>4, <3>1, <3>4 DEF Attributed
  <2>10. Unrepeated(e)' /\ Written(e)'
    BY <1>2, <2>4 DEF Unrepeated, Written
  <2>11. Filled(e)'
    <3>1. 1 .. eval[e].formula + 1 = (1 .. eval[e].formula) \cup {eval[e].formula + 1}
      BY <1>4
    <3>. QED  BY <1>2, <2>4, <2>5, <3>1 DEF Filled
  <2>12. Reported(e)'
    BY <1>4, <2>4 DEF Reported
  <2>. QED  BY <2>7, <2>8, <2>9, <2>10, <2>11, <2>12
<1>8. CASE ~(generated /\ ~last)
  <2>1. eval' = [eval EXCEPT ![e].pc = "done", ![e].output = fill,
                   ![e].value = generated, ![e].isGenerated = generated]
    BY <1>8 DEF Return
  <2>2. eval'[e] = [eval[e] EXCEPT !.pc = "done", !.output = fill,
                      !.value = generated, !.isGenerated = generated]
    BY <1>3, <2>1 DEF TypeOK, Locals
  <2>3. /\ eval'[e].pc = "done" /\ eval'[e].formula = eval[e].formula
        /\ eval'[e].replacements = eval[e].replacements /\ eval'[e].output = fill
        /\ eval'[e].value = generated /\ eval'[e].isGenerated = generated
        /\ eval'[e].input = eval[e].input
    BY <1>3, <2>2 DEF Locals
  <2>4. ~AtWork(e)' /\ Formula(e)' = Formula(e)
    BY <2>3 DEF AtWork, Formula
  <2>5. Narrowed(e)' /\ Collected(e)' /\ Searched(e)'
    BY <2>3, <2>4 DEF Narrowed, Collected, Searched
  <2>6. Attributed(e)' /\ Unrepeated(e)' /\ Written(e)'
    BY <1>2, <2>3, <2>4 DEF Attributed, Unrepeated, Written
  <2>7. Filled(e)'
    BY <1>2, <2>3, <2>4 DEF Filled
  <2>8. Reported(e)'
    <3>1. generated => \E n \in GeneratedBy(e) :
                         /\ storage[n].formula = Formula(e)
                         /\ storage[n].column \in Fit(e, eval[e].replacements)
      BY <1>5
    <3>2. ~generated /\ Distinct(e) => \A n \in GeneratedBy(e) : storage[n].formula # Formula(e)
      BY <1>3 DEF Attributed
    <3>3. (First(e) => ~generated) =>
            \A column \in Range(eval[e].replacements) :
              Possible(e, column) => Holds(Formula(e), column)
      BY <1>2 DEF Stops
    <3>. HIDE DEF generated
    <3>. QED  BY <1>8, <2>3, <2>4, <3>1, <3>2, <3>3 DEF Reported
  <2>. QED  BY <2>5, <2>6, <2>7, <2>8
<1>. QED  BY <1>7, <1>8

-----------------------------------------------------------------------------
(* The theorems.                                                           *)

LEMMA GenerationInit == Init => GenerationInv
<1>. SUFFICES ASSUME Init, NEW e \in Evaluations PROVE EvaluationInv(e)
  BY TypeInit DEF GenerationInv
<1>1. TypeOK
  BY TypeInit
<1>2. storage \in Storages /\ \A n \in DOMAIN storage : storage[n].by = Nobody
  BY StoragesAssumption DEF Init
<1>3. /\ eval[e].pc = "search" /\ eval[e].formula = 1 /\ eval[e].output = {}
      /\ eval[e].replacements = eval[e].input.replacements
      /\ eval[e].value = FALSE /\ eval[e].isGenerated = FALSE
  BY DEF Init
<1>4. GeneratedBy(e) = {} /\ ~AtWork(e)
  BY <1>2, <1>3, NobodyAssumption DEF GeneratedBy, AtWork
<1>5. Narrowed(e) /\ Collected(e) /\ Searched(e)
  BY <1>3, <1>4 DEF Narrowed, Collected, Searched
<1>6. Attributed(e) /\ Unrepeated(e) /\ Written(e)
  BY <1>3, <1>4 DEF Attributed, Unrepeated, Written
<1>7. Filled(e)
  <2>1. \A k \in 1 .. eval[e].formula : k = eval[e].formula
    BY <1>3
  <2>. QED  BY <1>3, <1>4, <2>1 DEF Filled
<1>8. Reported(e)
  BY <1>3, <1>4 DEF Reported
<1>. QED  BY <1>5, <1>6, <1>7, <1>8 DEF EvaluationInv

LEMMA GenerationNext == GenerationInv /\ [Next]_vars => GenerationInv'
<1>. SUFFICES ASSUME GenerationInv, [Next]_vars PROVE GenerationInv'
  OBVIOUS
<1>1. TypeOK /\ \A e \in Evaluations : EvaluationInv(e)
  BY DEF GenerationInv
<1>2. CASE UNCHANGED vars
  <2>1. storage' = storage /\ eval' = eval
    BY <1>2 DEF vars
  <2>2. TypeOK'
    BY <1>1, <2>1 DEF TypeOK, Locals
  <2>3. ASSUME NEW e \in Evaluations PROVE EvaluationInv(e)'
    <3>1. /\ Formula(e)' = Formula(e) /\ Params(e)' = Params(e) /\ Result(e)' = Result(e)
          /\ Unique(e)' = Unique(e) /\ First(e)' = First(e) /\ AtWork(e)' = AtWork(e)
          /\ Stops(e)' = Stops(e) /\ Distinct(e)' = Distinct(e)
          /\ GeneratedBy(e)' = GeneratedBy(e)
          /\ \A c : Ahead(e, c)' = Ahead(e, c) /\ Possible(e, c)' = Possible(e, c)
          /\ \A r : Fit(e, r)' = Fit(e, r)
          /\ \A f, c : Holds(f, c)' = Holds(f, c)
          /\ \A n : Given(e, n)' = Given(e, n)
      BY <2>1 DEF Formula, Params, Result, Unique, First, AtWork, Stops, Distinct, GeneratedBy,
         Ahead, Possible, Fit, Holds, Given
    <3>2. EvaluationInv(e)
      BY <1>1
    <3>3. Narrowed(e)' /\ Collected(e)' /\ Searched(e)'
      BY <2>1, <3>1, <3>2 DEF EvaluationInv, Narrowed, Collected, Searched, ColumnsOf
    <3>4. Attributed(e)' /\ Unrepeated(e)' /\ Written(e)'
      BY <2>1, <3>1, <3>2 DEF EvaluationInv, Attributed, Unrepeated, Written
    <3>5. Filled(e)' /\ Reported(e)'
      BY <2>1, <3>1, <3>2 DEF EvaluationInv, Filled, Reported
    <3>. QED  BY <3>3, <3>4, <3>5 DEF EvaluationInv
  <2>. QED  BY <2>2, <2>3 DEF GenerationInv
<1>3. ASSUME NEW e \in Evaluations, GenerateConclusion(e)
      PROVE  GenerationInv'
  <2>1. TypeOK' /\ Grows(e)
    BY <1>1, <1>3, StepType DEF EvaluationInv
  <2>2. EvaluationInv(e)'
    BY <1>1, <1>3, <2>1, NotGeneratedKeeps, SearchBeforeGenerationKeeps, SearchThrowsKeeps,
       SearchParamsKeeps, GenerateKeeps, GenerateFailsKeeps, ParamsProcessedKeeps
       DEF GenerateConclusion
  <2>3. ASSUME NEW x \in Evaluations, x # e PROVE EvaluationInv(x)'
    BY <1>1, <2>1, <2>3, OthersKeep
  <2>. QED  BY <2>1, <2>2, <2>3 DEF GenerationInv
<1>. QED  BY <1>2, <1>3 DEF Next, Evaluated

(* Whatever the evaluations, the formulas, the replacements and what the   *)
(* storage holds at first, the invariant holds of every evaluation in      *)
(* every interleaving of TemplateExpressionNode::generate.                 *)
THEOREM GenerationCorrect == Spec => []GenerationInv
BY GenerationInit, GenerationNext, PTL DEF Spec

(* The storage and the locals of the evaluations keep their types.         *)
THEOREM TypeCorrect == Spec => []TypeOK
<1>1. GenerationInv => TypeOK
  BY DEF GenerationInv
<1>. QED  BY <1>1, GenerationCorrect, PTL

(* With GENERATE_UNIQUE_FORMULAS no evaluation generates what it generated *)
(* itself or what the storage had at first: the search of                  *)
(* processTemplateParams sees both, and the others alone get in between.   *)
THEOREM DuplicatesOnlyByRaces == Spec => []DuplicatesAreRaces
<1>1. GenerationInv => DuplicatesAreRaces
  BY DEF GenerationInv, EvaluationInv, Unrepeated, DuplicatesAreRaces
<1>. QED  BY <1>1, GenerationCorrect, PTL

(* With REPLACEMENTS_FIRST the loop over the params ends with the first    *)
(* instance of each formula.                                               *)
THEOREM FirstGeneratesAtMostOnce == Spec => []FirstGeneratesOnce
<1>1. GenerationInv => FirstGeneratesOnce
  <2>. SUFFICES ASSUME GenerationInv, NEW e \in Evaluations, First(e), Distinct(e),
                       NEW formula \in Conclusion(e)
                PROVE  Cardinality({n \in GeneratedBy(e) : storage[n].formula = formula}) <= 1
    BY DEF FirstGeneratesOnce
  <2>. DEFINE S == {n \in GeneratedBy(e) : storage[n].formula = formula}
  <2>1. \A n, m \in S : n = m
    BY DEF GenerationInv, EvaluationInv, Unrepeated
  <2>2. CASE S = {}
    BY <2>2, FS_EmptySet
  <2>3. CASE S # {}
    <3>1. PICK n \in S : S = {n}
      BY <2>1, <2>3
    <3>2. Cardinality(S) = 1
      BY <3>1, FS_Singleton
    <3>. QED  BY <3>2
  <2>. QED  BY <2>2, <2>3
<1>. QED  BY <1>1, GenerationCorrect, PTL

(* A conclusion that is true holds as a whole, all its formulas for the    *)
(* same replacement: for every fit one, or for one if the first is enough. *)
THEOREM TrueConclusionIsWhole == Spec => []TrueConclusionHolds
<1>1. GenerationInv => TrueConclusionHolds
  <2>. SUFFICES ASSUME GenerationInv, NEW e \in Evaluations,
                       eval[e].pc = "done", eval[e].value
                PROVE  LET whole(column) == \A formula \in Conclusion(e) : Holds(formula, column)
                           columns == Fit(e, eval[e].input.replacements)
                       IN  IF First(e) THEN \E column \in columns : whole(column)
                           ELSE \A column \in columns : whole(column)
    BY DEF TrueConclusionHolds
  <2>. DEFINE conclusion == eval[e].input.conclusion
              whole(column) == \A formula \in Conclusion(e) : Holds(formula, column)
  <2>1. TypeOK /\ Narrowed(e) /\ Reported(e)
    BY DEF GenerationInv, EvaluationInv
  <2>2. /\ eval[e].isGenerated /\ eval[e].formula = Len(conclusion)
        /\ DOMAIN conclusion = 1 .. Len(conclusion) /\ eval[e].formula \in DOMAIN conclusion
    BY <2>1, FormulaType DEF Reported
  <2>3. ASSUME NEW column \in Range(eval[e].replacements), Holds(Formula(e), column)
        PROVE  whole(column)
    <3>1. \A k \in DOMAIN conclusion : k \in 1 .. eval[e].formula - 1 \/ k = eval[e].formula
      <4>1. eval[e].formula \in Nat /\ DOMAIN conclusion = 1 .. eval[e].formula
        BY <2>1, <2>2 DEF TypeOK, Locals
      <4>. QED  BY <4>1
    <3>2. \A k \in DOMAIN conclusion : Holds(conclusion[k], column)
      BY <2>1, <2>3, <3>1 DEF Narrowed, Formula
    <3>. QED  BY <3>2 DEF Conclusion, Range
  <2>4. CASE First(e)
    <3>1. PICK n \in GeneratedBy(e) : /\ storage[n].formula = Formula(e)
                                      /\ storage[n].column \in Fit(e, eval[e].replacements)
      BY <2>1, <2>2 DEF Reported
    <3>2. Holds(Formula(e), storage[n].column)
      BY <3>1 DEF Holds, GeneratedBy
    <3>3. /\ storage[n].column \in Range(eval[e].replacements)
          /\ storage[n].column \in Fit(e, eval[e].input.replacements)
      BY <2>1, <3>1 DEF Fit, Narrowed
    <3>. QED  BY <2>3, <2>4, <3>2, <3>3
  <2>5. CASE ~First(e)
    <3>1. ASSUME NEW column \in Fit(e, eval[e].input.replacements)
          PROVE  whole(column)
      <4>1. Possible(e, column) /\ column \in Range(eval[e].replacements)
        BY <2>1, <2>5 DEF Fit, Possible, Narrowed
      <4>2. Holds(Formula(e), column)
        BY <2>1, <2>5, <4>1 DEF Reported
      <4>. QED  BY <2>3, <4>1, <4>2
    <3>. QED  BY <2>5, <3>1
  <2>. QED  BY <2>4, <2>5
<1>. QED  BY <1>1, GenerationCorrect, PTL

(* A conclusion is false only if the formula at work, the last one that    *)
(* was generated, already held for all fit replacements that were left;    *)
(* nothing is said of the formulas of a conjunction after it.              *)
THEOREM FalseConclusionIsNotMissing == Spec => []FalseConclusionIsKnown
<1>1. GenerationInv => FalseConclusionIsKnown
  BY DEF GenerationInv, EvaluationInv, Reported, FalseConclusionIsKnown, Fit, Possible
<1>. QED  BY <1>1, GenerationCorrect, PTL

(* The result says that something was generated just when every formula of *)
(* the conclusion was.                                                     *)
THEOREM WholeConclusionIsReported == Spec => []ReportsWholeConclusion
<1>1. GenerationInv => ReportsWholeConclusion
  <2>. SUFFICES ASSUME GenerationInv, NEW e \in Evaluations, eval[e].pc = "done", Distinct(e)
                PROVE  eval[e].isGenerated <=>
                         \A formula \in Conclusion(e) :
                           \E n \in GeneratedBy(e) : storage[n].formula = formula
    BY DEF ReportsWholeConclusion
  <2>. DEFINE conclusion == eval[e].input.conclusion
  <2>1. TypeOK /\ Attributed(e) /\ Reported(e)
    BY DEF GenerationInv, EvaluationInv
  <2>2. /\ DOMAIN conclusion = 1 .. Len(conclusion) /\ eval[e].formula \in DOMAIN conclusion
        /\ Formula(e) \in Conclusion(e)
    BY <2>1, FormulaType DEF Conclusion, Range, Formula
  <2>3. ASSUME eval[e].isGenerated, NEW k \in DOMAIN conclusion
        PROVE  \E n \in GeneratedBy(e) : storage[n].formula = conclusion[k]
    <3>1. eval[e].formula = Len(conclusion) /\ eval[e].formula \in Nat
      BY <2>1, <2>3 DEF Reported, TypeOK, Locals
    <3>2. CASE k = eval[e].formula
      BY <2>1, <2>3, <3>2 DEF Reported, Formula
    <3>3. CASE k # eval[e].formula
      <4>1. k \in 1 .. eval[e].formula - 1
        BY <2>2, <3>1, <3>3
      <4>. QED  BY <2>1, <4>1 DEF Attributed
    <3>. QED  BY <3>2, <3>3
  <2>4. ASSUME ~eval[e].isGenerated
        PROVE  \A n \in GeneratedBy(e) : storage[n].formula # Formula(e)
    BY <2>1, <2>4 DEF Reported
  <2>5. CASE eval[e].isGenerated
    BY <2>3, <2>5 DEF Conclusion, Range
  <2>6. CASE ~eval[e].isGenerated
    BY <2>2, <2>4, <2>6
  <2>. QED  BY <2>5, <2>6
<1>. QED  BY <1>1, GenerationCorrect, PTL

(* The output structure has what was generated, but for an instance whose  *)
(* generation threw; nothing of other replacements; and all there was at   *)
(* first for the replacements, if it is to have what was found.            *)
THEOREM StructureHasWhatWasFound == Spec => []StructureIsExact
<1>1. GenerationInv => StructureIsExact
  <2>. SUFFICES ASSUME GenerationInv, NEW e \in Evaluations
                PROVE  LET v == eval[e]
                           own == {n \in DOMAIN storage :
                                     storage[n].column \in Range(v.input.replacements)}
                           processed == {v.input.conclusion[k] : k \in 1 .. v.formula}
                       IN  /\ Cardinality(GeneratedBy(e) \ v.output) <=
                                IF v.pc = "thrown" THEN 1 ELSE 0
                           /\ v.output \subseteq
                                IF v.input.fillingType = "GENERATED_ONLY" THEN GeneratedBy(e)
                                ELSE own
                           /\ /\ v.pc = "done" /\ Unique(e) /\ ~First(e)
                              /\ v.input.fillingType = "SEARCHED_AND_GENERATED"
                              => \A n \in own :
                                   storage[n].by = Nobody /\ storage[n].formula \in processed
                                     => n \in v.output
    BY DEF StructureIsExact
  <2>1. Written(e) /\ Filled(e)
    BY DEF GenerationInv, EvaluationInv
  <2>. DEFINE missing == GeneratedBy(e) \ eval[e].output
  <2>2. Cardinality(missing) <= IF eval[e].pc = "thrown" THEN 1 ELSE 0
    <3>1. CASE missing = {}
      BY <3>1, FS_EmptySet
    <3>2. CASE missing # {}
      <4>1. PICK n \in missing : missing = {n}
        BY <2>1, <3>2 DEF Written
      <4>2. Cardinality(missing) = 1
        BY <4>1, FS_Singleton
      <4>3. eval[e].pc = "thrown"
        BY <2>1, <3>2 DEF Written
      <4>. QED  BY <4>2, <4>3
    <3>. QED  BY <3>1, <3>2
  <2>3. eval[e].output \subseteq
          IF eval[e].input.fillingType = "GENERATED_ONLY" THEN GeneratedBy(e)
          ELSE {n \in DOMAIN storage : storage[n].column \in Range(eval[e].input.replacements)}
    BY <2>1 DEF Written
  <2>4. ASSUME eval[e].pc = "done", Unique(e), ~First(e),
               eval[e].input.fillingType = "SEARCHED_AND_GENERATED",
               NEW n \in DOMAIN storage, Given(e, n),
               NEW k \in 1 .. eval[e].formula, storage[n].formula = eval[e].input.conclusion[k]
        PROVE  n \in eval[e].output
    BY <2>1, <2>4 DEF Filled
  <2>. QED  BY <2>2, <2>3, <2>4 DEF Given
<1>. QED  BY <1>1, GenerationCorrect, PTL
=============================================================================
