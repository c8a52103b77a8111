----------------------- MODULE TemplateExpressionNode -----------------------
(***************************************************************************)
(* The generation of the conclusion of an implication                      *)
(* (TemplateExpressionNode::generate, and ConjunctionExpressionNode::      *)
(* generate for a conclusion of several atomic formulas) by evaluations    *)
(* that run at the same time, in the threads of their agents, over one     *)
(* storage: a formula is searched, and generated if it was not found, with *)
(* nothing that keeps the others from generating it in between.            *)
(*                                                                         *)
(* A column is a way to replace the node variables, all of which occur in  *)
(* the premise; an instance is one occurrence of an atomic formula in the  *)
(* storage.  Generating one formula makes no instance of another.  The     *)
(* formulas share no edge variable and have no links.  One search, and one *)
(* generation, is one step.                                                *)
(***************************************************************************)
EXTENDS Integers, Sequences, FiniteSets, Functions

CONSTANTS
  Evaluations,
  Columns,
  Formulas, (* atomic                                                      *)
  Inputs,   (* Inputs[e]: what evaluation e may be called with             *)
  Storages  (* what the storage may hold at first                          *)

(*   conclusion: its atomic formulas; a conjunction if there are several   *)
(*   replacements: the columns of the premise, without its edge variables, *)
(*     so a column may occur twice                                         *)
(*   unfit: the columns no template can be built with                      *)
(*   stray: the formulas with a variable that is in no triple              *)
InputType ==
  [generationType : {"GENERATE_UNIQUE_FORMULAS", "GENERATE_ALL_FORMULAS"},
   usingType : {"REPLACEMENTS_FIRST", "REPLACEMENTS_ALL"},
   fillingType : {"GENERATED_ONLY", "SEARCHED_AND_GENERATED"},
   searchType : {"SEARCH_WITH_REPLACEMENTS", "SEARCH_WITHOUT_REPLACEMENTS"},
   conclusion : Seq(Formulas) \ {<<>>},
   replacements : Seq(Columns),
   unfit : SUBSET Columns,
   stray : SUBSET Formulas]

Nobody == "nobody"
Instances == [formula : Formulas, column : Columns, by : Evaluations \cup {Nobody}]

ASSUME NobodyAssumption == Nobody \notin Evaluations
ASSUME InputsAssumption == \A e \in Evaluations : Inputs[e] \subseteq InputType
ASSUME StoragesAssumption ==
  \A s \in Storages : s \in Seq(Instances) /\ \A n \in DOMAIN s : s[n].by = Nobody

VARIABLES
  storage, (* the instances, in the order in which they were generated     *)
  eval     (* the state of each evaluation                                 *)

vars == <<storage, eval>>

(*   formula: the number of the formula of the conclusion that is at work  *)
(*   replacements: those the formula is generated with                     *)
(*   params: paramsVector; next: the params the loop is at                 *)
(*   existing, searchResult, generated: existingFormulaReplacements,       *)
(*     searchResult, generatedReplacements                                 *)
(*   output: the instances added to the output structure                   *)
(*   value, isGenerated: of the result                                     *)
Locals ==
  [pc : {"search", "params", "generate", "done", "thrown"},
   input : InputType,
   formula : Nat \ {0},
   replacements : Seq(Columns),
   params : Seq(Columns),
   next : Nat \ {0},
   existing : SUBSET DOMAIN storage,
   searchResult : SUBSET DOMAIN storage,
   generated : SUBSET DOMAIN storage,
   output : SUBSET DOMAIN storage,
   value : BOOLEAN,
   isGenerated : BOOLEAN]

TypeOK ==
  /\ storage \in Seq(Instances)
  /\ eval \in [Evaluations -> Locals]
  /\ \A e \in Evaluations :
       /\ eval[e].formula <= Len(eval[e].input.conclusion)
       /\ eval[e].next <= Len(eval[e].params) + 1

Init ==
  /\ storage \in Storages
  /\ \E input \in [Evaluations -> UNION {Inputs[e] : e \in Evaluations}] :
       /\ \A e \in Evaluations : input[e] \in Inputs[e]
       /\ eval = [e \in Evaluations |->
            [pc |-> "search", input |-> input[e], formula |-> 1,
             replacements |-> input[e].replacements, params |-> <<>>, next |-> 1,
             existing |-> {}, searchResult |-> {}, generated |-> {}, output |-> {},
             value |-> FALSE, isGenerated |-> FALSE]]

-----------------------------------------------------------------------------
Unique(e) == eval[e].input.generationType = "GENERATE_UNIQUE_FORMULAS"
First(e) == eval[e].input.usingType = "REPLACEMENTS_FIRST"
Formula(e) == eval[e].input.conclusion[eval[e].formula]
Params(e) == eval[e].params[eval[e].next]
ColumnsOf(instances) == {storage[n].column : n \in instances}

(* The instances of the formula of e whose columns are in `columns`.       *)
InstancesFor(e, columns) ==
  {n \in DOMAIN storage : storage[n].formula = Formula(e) /\ storage[n].column \in columns}

(* What a search that could find `instances` returns.                      *)
SearchResults(e, instances) ==
  IF First(e) /\ instances # {} THEN {{n} : n \in instances} ELSE {instances}

Occurrences(f, column) == Cardinality({n \in DOMAIN f : f[n] = column})

(* The sequences with the values of f, each as often as f has it.          *)
Reorderings(f) ==
  {s \in [1 .. Cardinality(DOMAIN f) -> Range(f)] :
     \A column \in Range(f) : Occurrences(s, column) = Occurrences(f, column)}

(* The columns that existing does not have, in the order of their hashes.  *)
Subtracted(replacements, existing) ==
  LET new == {k \in DOMAIN replacements : replacements[k] \notin ColumnsOf(existing)}
  IN  IF existing = {} THEN {replacements} ELSE Reorderings([k \in new |-> replacements[k]])

-----------------------------------------------------------------------------
(* The result of the formula at work is its replacements, and true if      *)
(* something was generated; the conjunction goes on with the replacements  *)
(* intersected with those of the result: a column once for each instance.  *)

Result(e) == eval[e].existing \cup eval[e].searchResult \cup eval[e].generated

(* Mutant of Intersected: keeps the first column alone.                    *)
IntersectedFirst(e) == {<<Head(eval[e].replacements)>>}

Intersected(e) ==
  LET rs == eval[e].replacements
      pairs == {p \in (DOMAIN rs) \X Result(e) : rs[p[1]] = storage[p[2]].column}
  IN  Reorderings([p \in pairs |-> rs[p[1]]])

(* Mutant of Return: a formula found and not generated does not end the    *)
(* conjunction.                                                            *)
ReturnIfFound(e, output, isGenerated) ==
  LET last == eval[e].formula = Len(eval[e].input.conclusion)
      value == Result(e) # {}
  IN  IF value /\ ~last
        THEN \E replacements \in Intersected(e) :
               eval' = [eval EXCEPT ![e].pc = "search", ![e].formula = @ + 1,
                          ![e].replacements = replacements, ![e].output = output]
        ELSE eval' = [eval EXCEPT ![e].pc = "done", ![e].output = output,
                        ![e].value = isGenerated, ![e].isGenerated = isGenerated]

(* A formula that generated nothing ends the conjunction, which then says  *)
(* that nothing was generated.  (The intersection is not empty: what was   *)
(* generated has columns of the replacements.)                             *)
Return(e, output, isGenerated) ==
  LET last == eval[e].formula = Len(eval[e].input.conclusion)
  IN  IF isGenerated /\ ~last
        THEN \E replacements \in Intersected(e) :
               eval' = [eval EXCEPT ![e].pc = "search", ![e].formula = @ + 1,
                          ![e].replacements = replacements, ![e].output = output]
        ELSE eval' = [eval EXCEPT ![e].pc = "done", ![e].output = output,
                        ![e].value = isGenerated, ![e].isGenerated = isGenerated]

NotGenerated(e) ==
  /\ eval[e].pc = "search"
  /\ eval[e].replacements = <<>>
  /\ eval' = [eval EXCEPT ![e].pc = "done"]
  /\ UNCHANGED storage

SearchBeforeGeneration(e) ==
  /\ eval[e].pc = "search"
  /\ eval[e].replacements # <<>>
  /\ \E existing \in
          IF eval[e].input.searchType = "SEARCH_WITHOUT_REPLACEMENTS"
            THEN SearchResults(e, InstancesFor(e, Columns)) ELSE {{}} :
       \E params \in
            IF Unique(e) THEN Subtracted(eval[e].replacements, existing)
            ELSE {eval[e].replacements} :
         eval' = [eval EXCEPT ![e].pc = "params", ![e].params = params, ![e].next = 1,
                    ![e].existing = existing, ![e].searchResult = {}, ![e].generated = {}]
  /\ UNCHANGED storage

-----------------------------------------------------------------------------
(* processTemplateParams.                                                  *)

(* Mutant of Stops: asks for the result of the conjunction.                *)
StopsLate(e) == First(e) /\ eval[e].isGenerated

(* Mutant of Stops: stops at what was found, too.                          *)
StopsAtSearch(e) == First(e) /\ eval[e].generated \cup eval[e].searchResult # {}

Stops(e) == First(e) /\ eval[e].generated # {}

AtParams(e) ==
  /\ eval[e].pc = "params"
  /\ eval[e].next <= Len(eval[e].params)
  /\ ~Stops(e)

(* "Template is not built."                                                *)
SearchThrows(e) ==
  /\ AtParams(e)
  /\ Unique(e)
  /\ Params(e) \in eval[e].input.unfit
  /\ eval' = [eval EXCEPT ![e].pc = "thrown"]
  /\ UNCHANGED storage

(* Mutant of SearchParams: what the evaluation generated is not found.     *)
SearchParamsOfOthers(e) ==
  /\ AtParams(e)
  /\ Unique(e)
  /\ Params(e) \notin eval[e].input.unfit
  /\ \E hits \in SearchResults(e, InstancesFor(e, {Params(e)}) \ eval[e].generated) :
       eval' = [eval EXCEPT ![e].searchResult = @ \cup hits,
                  ![e].pc = IF hits = {} THEN "generate" ELSE @,
                  ![e].next = IF hits = {} THEN @ ELSE @ + 1]
  /\ UNCHANGED storage

SearchParams(e) ==
  /\ AtParams(e)
  /\ Unique(e)
  /\ Params(e) \notin eval[e].input.unfit
  /\ \E hits \in SearchResults(e, InstancesFor(e, {Params(e)})) :
       eval' = [eval EXCEPT ![e].searchResult = @ \cup hits,
                  ![e].pc = IF hits = {} THEN "generate" ELSE @,
                  ![e].next = IF hits = {} THEN @ ELSE @ + 1]
  /\ UNCHANGED storage

(* generateByParams; the storage has the instance before the replacements  *)
(* of its variables are looked up.  Whether the template could be built is *)
(* not tested: the generation is tried with what was built, and is taken   *)
(* to generate nothing just for the columns that are unfit.                *)
Generate(e) ==
  /\ eval[e].pc = "generate" \/ (AtParams(e) /\ ~Unique(e))
  /\ Params(e) \notin eval[e].input.unfit
  /\ storage' = Append(storage, [formula |-> Formula(e), column |-> Params(e), by |-> e])
  /\ IF Formula(e) \in eval[e].input.stray
       THEN eval' = [eval EXCEPT ![e].pc = "thrown"]
       ELSE eval' = [eval EXCEPT ![e].pc = "params", ![e].next = @ + 1,
                       ![e].generated = @ \cup {Len(storage')},
                       ![e].output = @ \cup {Len(storage')}]

GenerateFails(e) ==
  /\ AtParams(e)
  /\ ~Unique(e)
  /\ Params(e) \in eval[e].input.unfit
  /\ eval' = [eval EXCEPT ![e].next = @ + 1]
  /\ UNCHANGED storage

(* Mutant of FillOutputStructure: existing is not intersected with the     *)
(* replacements.                                                           *)
FillWithExisting(e) ==
  IF eval[e].input.fillingType = "GENERATED_ONLY" THEN eval[e].output
  ELSE eval[e].output \cup eval[e].searchResult \cup eval[e].existing

(* What was found for the replacements joins what was generated.           *)
FillOutputStructure(e) ==
  IF eval[e].input.fillingType = "GENERATED_ONLY" THEN eval[e].output
  ELSE eval[e].output \cup eval[e].searchResult \cup
         {n \in eval[e].existing : storage[n].column \in Range(eval[e].replacements)}

ParamsProcessed(e) ==
  /\ eval[e].pc = "params"
  /\ eval[e].next > Len(eval[e].params) \/ Stops(e)
  /\ Return(e, FillOutputStructure(e), eval[e].generated # {})
  /\ UNCHANGED storage

Evaluated ==
  /\ \A e \in Evaluations : eval[e].pc \in {"done", "thrown"}
  /\ UNCHANGED vars

GenerateConclusion(e) ==
  \/ NotGenerated(e)
  \/ SearchBeforeGeneration(e)
  \/ SearchThrows(e)
  \/ SearchParams(e)
  \/ Generate(e)
  \/ GenerateFails(e)
  \/ ParamsProcessed(e)

Next ==
  \/ \E e \in Evaluations : GenerateConclusion(e)
  \/ Evaluated

Spec == Init /\ [][Next]_vars

-----------------------------------------------------------------------------
(* Properties.                                                             *)

GeneratedBy(e) == {n \in DOMAIN storage : storage[n].by = e}

Conclusion(e) == Range(eval[e].input.conclusion)

Holds(formula, column) ==
  \E n \in DOMAIN storage : storage[n].formula = formula /\ storage[n].column = column

(* The replacements r of e that a template can be built with.              *)
Fit(e, r) == Range(r) \ eval[e].input.unfit

(* With GENERATE_UNIQUE_FORMULAS an evaluation generates nothing that was  *)
(* in the storage before it or that it generated itself, however often a   *)
(* column occurs: a duplicate is made only by a race of two evaluations    *)
(* between the search and the generation.                                  *)
DuplicatesAreRaces ==
  \A e \in Evaluations : Unique(e) =>
    \A n \in GeneratedBy(e) : \A m \in 1 .. n - 1 :
      /\ storage[m].formula = storage[n].formula
      /\ storage[m].column = storage[n].column
      => storage[m].by \notin {e, Nobody}

(* No formula is twice an operand of the conclusion.                       *)
Distinct(e) == IsInjective(eval[e].input.conclusion)

(* With REPLACEMENTS_FIRST the generation of a formula ends with the first *)
(* instance, of every formula of the conclusion.                           *)
FirstGeneratesOnce ==
  \A e \in Evaluations : First(e) /\ Distinct(e) =>
    \A formula \in Conclusion(e) :
      Cardinality({n \in GeneratedBy(e) : storage[n].formula = formula}) <= 1

(* A conclusion that is true holds as a whole for every replacement of the *)
(* premise, with REPLACEMENTS_FIRST for one of them: its formulas are not  *)
(* generated for different replacements.                                   *)
TrueConclusionHolds ==
  \A e \in Evaluations : eval[e].pc = "done" /\ eval[e].value =>
    LET whole(column) == \A formula \in Conclusion(e) : Holds(formula, column)
        columns == Fit(e, eval[e].input.replacements)
    IN  IF First(e) THEN \E column \in columns : whole(column)
        ELSE \A column \in columns : whole(column)

(* A conclusion is false only when the formula at work was not missing for *)
(* any of the replacements: no instance of it is left out because of the   *)
(* order of the replacements or of what else was found.  (The formulas     *)
(* after it are not generated and may be missing.)                         *)
FalseConclusionIsKnown ==
  \A e \in Evaluations : eval[e].pc = "done" /\ ~eval[e].value =>
    \A column \in Fit(e, eval[e].replacements) : Holds(Formula(e), column)

(* The result says that something was generated just when the evaluation   *)
(* generated every formula of the conclusion.  (A conjunction that fails   *)
(* on the way does not report what it generated until then.)               *)
ReportsWholeConclusion ==
  \A e \in Evaluations : eval[e].pc = "done" /\ Distinct(e) =>
    (eval[e].isGenerated <=>
       \A formula \in Conclusion(e) :
         \E n \in GeneratedBy(e) : storage[n].formula = formula)

(* The output structure has everything the evaluation generated, but for   *)
(* the last generation if that threw; nothing of foreign replacements;     *)
(* and, when it is to have what was found, all that the storage had at     *)
(* first for the replacements.                                             *)
StructureIsExact ==
  \A e \in Evaluations :
    LET v == eval[e]
        own == {n \in DOMAIN storage : storage[n].column \in Range(v.input.replacements)}
        processed == {v.input.conclusion[k] : k \in 1 .. v.formula}
    IN  /\ Cardinality(GeneratedBy(e) \ v.output) <= IF v.pc = "thrown" THEN 1 ELSE 0
        /\ v.output \subseteq
             IF v.input.fillingType = "GENERATED_ONLY" THEN GeneratedBy(e) ELSE own
        /\ /\ v.pc = "done" /\ Unique(e) /\ ~First(e)
           /\ v.input.fillingType = "SEARCHED_AND_GENERATED"
           => \A n \in own : storage[n].by = Nobody /\ storage[n].formula \in processed
                              => n \in v.output
=============================================================================
