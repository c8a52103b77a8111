# A TLA+ model of scl-machine

scl-machine is the logical inference machine of an OSTIS system: two sc-agents
that work on a shared semantic memory (the knowledge base, a graph of nodes and
arcs). One infers: it applies logical formulas from ordered sets until a target
template is found in the base. The other deletes the solution tree such an
inference leaves behind. This directory models the C++ under
`src/problem-solver/cxx/`, checks the models with TLC and proves with TLAPS that
the loops of the inference and the agent around them are correct, that the main
loop implements forward chaining by priorities, and what the search of an atomic
formula, the algebra of replacements, the evaluation of a premise, the generation
of a conclusion and the deletion of a solution tree promise.

File names below are relative to `src/problem-solver/cxx/inferenceModule/`
unless they start with `solutionModule/`.

## 1. Inventory

**DirectInferenceAgent** (`agent/`). Handles an initiated action of class
`action_direct_inference`. State: none of its own; it writes to the knowledge base
an output structure, a solution node, a verdict, and the end of the action. Calls
the factory, the target manager, the solution tree manager. Hard part: what is
left when something throws; only `utils::ScException` is caught. Correct when
every action is finished, an answer is complete, and the verdict is positive when
applying formulas reached the target. A negative verdict says only that the loop
gave up: a formula of the first set that generated for one replacement
(`REPLACEMENTS_FIRST`) is not used again.

**DirectInferenceManagerTarget, DirectInferenceManagerAll,
InferenceManagerAbstract** (`manager/inferenceManager/`). `applyInference` of
the first is a fixpoint loop: a queue of formulas per set, in the order of the
sets; a formula that generates nothing is kept in `checkedFormulas` and queued
again when another one generates; the loop ends when the target is found. The
second applies every formula once. State: the index of the queue, the queue
being drained, the checked formulas, the template manager of the formula in use.
Hard part: the loop's bookkeeping (index reset, queues not reloaded, duplicates)
and its termination. Correct when priorities are respected, no formula is
dropped before it is exhausted, and the call ends.

**LogicExpression and its nodes** (`logic/`). A formula is a tree of
conjunctions, disjunctions, negations, implications, equivalences over templates.
`build` makes the tree, or throws for an ill-formed one; `compute` searches,
`find` searches for what other operands found, `generate` creates what is missing.
Data exchanged: `LogicFormulaResult`, whose `replacements` map each variable to a
column-indexed vector. Hard part: joins and unions on these maps, operands
evaluated in another order than they are written, the reporting of `isGenerated`.
Correct when a true formula comes with exactly the replacements that make it true,
and a false or ill-formed one leaves nothing behind.

**ReplacementsUtils** (`utils/`). Intersection (a join), union and subtraction of
replacements, through hashes of columns in hash-map iteration order.

**TemplateManager, TemplateSearcher** (`manager/templateManager/`,
`searcher/templateSearcher/`). The first turns arguments into template params (a
product of typed arguments, or one params per fixed argument of the formula, read
from its roles `rrel_1`, `rrel_2`, ... for every use of it), the second searches
the base, or some structures of it, once per params and merges the results.

**SolutionTreeGenerator, SolutionTreeManager** (`generator/`,
`manager/solutionTreeManager/`). State: the solution node and `lastSolutionNode`.
Appends to the solution one node per applied formula and column of replacements,
chained by `nrel_basic_sequence`, with temporary arcs from variables to values.

**DeleteSolutionAgent, DeleteSolutionManager** (`solutionModule/`). Walks the
tree of a solution and erases it, element by element, each if it still exists.
Several run at once, also against an inference that still writes. Correct when
everything of the tree goes, nothing else does, and it ends.

**FormulaClassifier** (`classifier/`). The class of a formula, by its keynodes and the
type of its element; no state. Correct when the nodes built for a formula are those
its classes say, as everything above relies on it.

**InferenceManagerFactory** (`factory/`), **keynodes** and **module registration**:
wiring and names.
**SolutionTreeSearcher**: reads only, and has no caller.

How they interact: agent -> factory -> manager; the manager calls `useFormula`,
which builds the expression tree, whose leaves call the template manager and the
searcher and, to generate, the memory; each generation is handed to the solution
tree manager. All agents share the knowledge base without a lock between two
operations on it.

What is hard to test in all of this is listed, line by line, in `PROJECT.json`
under `hazards`.

## 2. Modules

| module | models | abstracts |
|---|---|---|
| `ForwardChaining` | what a call with a target promises: sets of decreasing priority, no queues | |
| `InferenceManagerAbstract` | queues by priority, the outcomes of `useFormula` | the base, to a counter of its changes |
| `DirectInferenceManagerTarget` | its `applyInference`, and the mapping to `ForwardChaining` | whether the target is found: either |
| `DirectInferenceManagerAll` | its `applyInference` | as above |
| `DirectInferenceAgent` | the agent around the target manager (EXTENDS it) | the base, to what the agent wrote |
| `ReplacementsUtils` | the algebra of replacements, as operators | elements, to values with an offset |
| `LogicExpression` | `FormulaClassifier` and `LogicExpression::build`, as operators over formulas | the base, to what it has of each atom |
| `AtomInPremise` | `find` and `generate` of an atom inside a premise, as operators | the base, to the instances of the atom |
| `ImplicationExpressionNode` | an implication: the tree, the premise (any connective), up to the replacements its conclusion is generated for | a connective below the premise, to any result it may have |
| `ImplicationCompute` | `ImplicationExpressionNode::compute` to its result or exception: the generation of an atomic conclusion and what is made of both results (EXTENDS the module above) | as above |
| `TemplateSearcher` | `TemplateExpressionNode::compute` with the choice of the manager, both managers and the three searchers | the base, to the matches of the template |
| `TemplateExpressionNode` | `generate` of an atomic or conjunctive conclusion, by several evaluations over one storage | variables, to columns; the search and one generation, to a step each |
| `SolutionTree` | generator and delete agents on one tree per solution | formulas; one column per node |
| `DirectInferenceManagerTarget_proofs`, `DirectInferenceManagerAll_proofs`, `DirectInferenceAgent_proofs` | the proofs about the managers and the agent, section 4 | |
| `ReplacementsUtils_proofs`, `ImplicationExpressionNode_proofs` | the proofs about the algebra of replacements and the premise, section 4 | |
| `TemplateSearcher_proofs`, `TemplateExpressionNode_proofs`, `SolutionTree_proofs` | the proofs about the search, the generation and the solution tree, section 4 | |

`MC*.tla` extend a module with the instances for TLC; `MCFormulasSets` holds the
formula sets all managers' instances share.

### Correspondence

*State.* Variables have the names of the code's (`formulasQueueIndex`,
`checkedFormulas`, `lastSolutionNode` as `last`, ...); `pc`, `agentPc`,
`generator` and `deleter` say where a call stands. `lastAttempt`, `lastOutcome`,
`progress` and `knowledge` are history: when a formula was last used, with what
outcome, and how often the base changed.

*Actions.* One per branch between two operations on the shared memory. Each
module's actions and the source lines they stand for are listed under `map` in
`PROJECT.json`.

*The index trick.* `TargetMissed` sets `formulasQueueIndex` to 0 inside the `for`
loop of lines 52-88, so that the next queue loaded is number 1: queue 0 is loaded
once, ever. What keeps its formulas alive is that the same action puts
`checkedFormulas` back into the queue being drained.

*Refinement.* `DirectInferenceManagerTarget` instantiates `ForwardChaining` with
`FC`: `passed` is `formulasQueueIndex` while the call works on formulas, `vain` the
formulas that failed since the last reported generation, `applied` those whose
last use generated, `admitted` what is in the queue or was tried. `LoadQueue` maps
to `Admit`, `QueueDrained` to `Pass`, `Apply` to `Generate`, `Fail` (and the silent
generation) to `TryInVain`, `TargetFound` and `AlreadyAchieved` to `Find` and
`FindAtStart`, `TargetMissed` to `Miss` with `passed` back at 0, the end of the
loop to `GiveUp`; the rest stutters. The abstract specification keeps one trait of
the code: of a formula of the first set one use that generates is expected, as its
queue is loaded once.

*The expression tree.* A formula is a record (its classes, the type of its element,
whether it has variables and constants, its operands in the order storage
iterates them, its roles; for a nested connective the result its `compute` would
have, any value with any matrix). `build` calls itself for the parts of a formula:
`toBuild` are the calls still to come, the parts of a formula before what waits, and
the first ill-formed one throws (`Build`, `BuildThrows`); only then is anything
computed (`ComputeTree`). A premise's operands are
evaluated in the order the code uses (`EvaluationOrder`): those that compute, then
atoms without constants (searched for the columns found so far), then atoms for
generation. Each evaluation is one step and folding its result another one;
`Known` is what the operands before it found. `generated` is history: the instances
the premise has put into the base so far.

*The end of an implication.* `ImplicationCompute` adds to the evaluation of the
premise the generation for `notInKb` (`GenerateConclusion`) and the result of the
implication (`ComputeImplication`), with each place where a vector may be read
beyond its end: in the premise or the subtraction (`PremiseThrows`), before the
generation (`ParamsThrow`), after it, in `fillOutputStructure` (`FillThrows`), and in
the last intersection (`ImplicationThrows`). There the search of the conclusion
finds what the knowledge base has of it; in the module it extends it may find
anything (`Existing`).

*Silent generation.* An equivalence generates its generatable operand and a conjunction
its formulas for generation without setting `isGenerated`; a conjunctive conclusion that
fails half way has generated too. `UseGeneratesSilently` is this outcome, for the
formulas in `SilentFormulas`.

*Exceptions.* Either `utils::ScException` (caught by the agent) or anything else
(escapes it). A formula in `Throwers` may throw either, before or after it changed
the base.

*Hash maps.* Iteration order of an `unordered_map` is a parameter of every
operator that depends on it (`walk`): an order of the variables, as a set of pairs,
and whether the bucket that was made first is visited first or last. Hashes are
computed as the code does.

*The search of an atom.* In `TemplateSearcher` the storage is the set of the matches
of the template, which a search meets in any order. The loops of
`createTemplateParams` are copied step by step: a node variable, an address of it,
a copy of the params for the address (`TakeVariable`, `CopyParams`,
`UpdateParams`); variables and addresses come in any order, as their containers
are ordered by addresses. The fixed arguments of a formula are read one per step.

*Two evaluations, one storage.* In `TemplateExpressionNode` each evaluation is a
record of the locals of `generate` (`existing`, `searchResult`, `generated`, `next`,
...); `storage` is the sequence of the instances of all formulas, each with who
generated it. `SearchParams` and `Generate` are two steps, as nothing locks the
memory between lines 185 and 188. Where the order of columns follows their hashes
(after a subtraction or an intersection), any order may come. An output structure
is the set of the instances whose elements were added to it; that two nodes may add
an arc to the same element twice (each starts with an empty
`outputStructureElements`) is not seen.

*Elements of a tree.* In `SolutionTree` an element is a tuple that names its solution and
its place; temporary arcs remember the node they were made for, which the code
cannot tell.

## 3. Runs

| run | shows | bounds |
|---|---|---|
| `TargetManager` | `LoopInvariant` and its parts, `QueueGrowthBounded`, `FailedIsRetried`, `Terminates`, `ImplementsForwardChaining` | 3 formulas, chains of 0 to 3 sets, shared members, 2 generations |
| `AllManager` | every formula used once, in order; it ends | as above, 3 generations |
| `Agent` | answers complete and positive when formulas reached the target, orphans and unfinished actions only by exceptions | 2 formulas, one that generates silently, all combinations of parameters |
| `Implication` | folded replacements are the join, the union, the agreement of the sides, the difference; a failed or ill-formed premise leaves nothing; what it generates satisfies all its operands; every replacement of the premise gets its instance of the conclusion; the result has only replacements that hold, and all that was generated; only replacements that are no matrix throw | 3 variables, one of them an edge, 3 values of one segment, one element generated before and up to 4 new ones, premises of up to 3 operands of up to 2 columns, 4 iteration orders, 10 conclusions of 1 to 3 variables, 11 ill-formed or unusual formulas, FIRST and ALL |
| `TemplateSearch` | params are the assignments the classes or the roles intend; a formula is true iff matched; no hit is lost | one triple, up to 3 arguments, also repeated ones, 9 sets of roles with gaps, foreign variables and more than are read, up to 4 matches, 3 searchers, FIRST and ALL, a link to compare or none |
| `Generation` | what unique generation promises to one evaluation and how far it holds with two; results say what was generated; the output structure is exact | 2 evaluations, all 16 configurations of one of them, 2 formulas, 2 columns, repeated and unfit columns, 5 storages |
| `SolutionTree` | undisturbed trees stay whole; deletion is complete, or leaves whole nodes that were added meanwhile, takes no arc that only others have, and ends | 2 solutions or one of 2 or 3 nodes, 2 delete actions |

Why the bounds are enough. The loop of the target manager compares a formula only
with itself and a set only with the first one and the next one; three sets tell
apart the first (never reloaded), the second (where the reload starts) and a later
one, and two generations give a reset after a reset. Two columns with the same
hash need two variables and the primes 7 and 13: offsets (0,2) and (2,1) are
0\*7+2\*13 = 26 and 2\*7+1\*13 = 27, divided by 2 the same. Three operands are
needed for an empty intersection to be followed by another one. The generation
compares a column with one that is in the storage, one the same evaluation
generated and one that another did; two columns and a repetition give all three, a
conclusion of two formulas one that follows a generation. Two delete actions
are enough for each of their steps to find its element erased. `MaxKnowledge`
bounds the generations: the knowledge base saturates, see fairness. `MaxDepth` is
the depth of the formulas of an instance, `WalkSet` the iteration orders it
considers, and the length of `Fresh` how many instances one operand may
generate: a generation of more is left out.

What two evaluations can do to each other is part of `DuplicatesAreRaces`: with
`GENERATE_UNIQUE_FORMULAS` each still generates nothing that the storage had before
it started and nothing twice, but both may generate the same instance. A conjunctive
conclusion whose first formula exists for all replacements is false and its other
formulas are not generated; one that fails later reports nothing.
`ReportsWholeConclusion` and `FalseConclusionIsKnown` say exactly that.

Runs that refute what the repository says of itself (the documentation is
`src/docs/scl-machine.tex`):

- `TargetSilent`: failed rules are to be tried again after another rule succeeded
  (lines 290-292). After a silent generation they are not. (For the same
  reason both managers may return false although something was generated, against
  `manager/inferenceManager/InferenceManagerAbstract.hpp:40`.)
- `AgentVerdict`: a target found before the first rule is to give a solution in
  `concept_success_solution` (line 300). `applyInference` returns `false` there and
  the solution gets the negative arc.
- `PremiseConjunction`: replacements make their formula true (line 210). A
  conjunction over an empty intersection goes on with the next operand as if
  nothing had been asked before: `{x}`, `{x}` with different values, then a third
  operand, is true with the third one's replacements. The test
  `result.replacements.empty()` looks at keys, not at columns.
- `PremiseMatrix`: all rows have the same size (`utils/ReplacementsUtils.cpp:271`). The
  union of nested sets of variables breaks that, and a later `at(i)` throws.
- `TemplateSearchColumns`: line 210 again. With several params, an argument that
  matched nothing gets a column as soon as an earlier one matched.

The passing properties of `Implication` and `TemplateSearch` are stated for the inputs
these three do not affect:

- `ConjunctionIsJoin`, `EquivalenceIsAgreement` and `GeneratedForJoin` where
  `IsPlain`: the partial joins of the computed operands are not empty, and an atom
  that is searched for has one instance for each column found or none for any;
- `DisjunctionIsUnion` where the computed operands found matrices and no operand's
  variables strictly contain those of the operands before it or are contained in
  them (`Nested`); that no column is lost, where the hash and the value of the first
  common variable tell columns apart (`AreToldApart`, in the instance any two common
  variables);
- `ColumnsAreHits` where each params finds at most one match and those that find
  none come first; with `REPLACEMENTS_FIRST` a search that stops finds one match.

`ColumnsAreHits` and `TrueIffMatched` are about templates with a variable: without
one there are no replacements to speak of.

`FalsePremiseIsInert`, `IllFormedIsInert`, `TrueIffMatched`, `NoHitLost` and
`NotInKbIsExact` have no such restriction, the last one but a rectangular premise.

`ImplicationHolds`, `ImplicationColumnsHold` and `GeneratedIsRecorded` are about an
atomic conclusion and replacements of the premise that are a matrix;
`ThrowsOnlyRagged` says when there may be others.
`ImplicationHolds` leaves out a premise that found edges only, for which there are no
params and nothing is generated. `GeneratedIsRecorded` leaves out an edge variable
that premise and conclusion share (a new edge is generated, the intersection with
the premise drops it) and a column whose hash and first value are those of another
one (`uniteReplacements` skips it); the instance has both cases, and the property
fails if either is not left out.

One thing `ConjunctionIsJoin` says is easily overlooked in the code: a conjunction
that begins with two negations of formulas that are not found is false whatever
follows, as the intersection of two empty maps has no keys; with the same
operands in another order it is true. The order is that in which storage iterates
the operands.

Every property is backed by a mutant: a definition of its module or of one it uses,
with a plausible bug, under which TLC finds it violated. Mutants stand next to the
definition they replace.

`CHECK_DEADLOCK FALSE` in `SolutionTree.cfg`: the system stops when the solutions are
written and both deletions are over. Everywhere else the end of a call is an
explicit stuttering action and deadlock is checked.

### Fairness

A call of an agent runs in its own thread and never waits for another one, so weak
fairness of the module's next-state relation is what the scheduler gives
(`Spec` of both managers, `AgentSpec`). In `SolutionTree` only a deletion that has
begun is fair: nobody has to initiate one, and an inference may take any time
between two nodes. Termination of the target manager needs more than scheduling:
the base must stop changing. That is the case with `GENERATE_UNIQUE_FORMULAS` when
conclusions have no new nodes of their own, and it is the meaning of the bound
`MaxKnowledge`; with `GENERATE_ALL_FORMULAS` the code need not end and nothing is
claimed.

## 4. Proofs

Every invariant the passing runs check is proved for all values of the constants,
except the four of `ImplicationCompute`. The constants satisfy the named assumptions of their
modules and nothing else; TLC evaluates these on every run.

Each proof has the same shape: an inductive invariant, checked by TLC on the
instance of the run before it was proved; lemmas about the operators; one lemma
per action or per conjunct; the theorem. The properties follow from the invariant.

### The managers and the agent

For any `Formulas`, `Sets`, `FormulasSets`, `SilentFormulas`, `Throwers` and
`MaxKnowledge`; `InferenceManagerAbstract` assumes that these are of their types
and that `None` is no set.

`DirectInferenceManagerTarget_proofs`: `TypeCorrect`, `LoopCorrect`,
`PriorityCorrect` (`PriorityRespected`), `GiveUpCorrect` (`GivesUpExhausted`),
`GrowthCorrect` (`QueueGrowthBounded`).

Priority and giving up are not inductive: that a queue was drained says nothing
about its formulas unless one knows what the loop did with those that failed.
`LoopInvariant` adds it. `CheckedAreFailed`: between two formulas
`checkedFormulas` is exactly the set of those that failed since the last reported
generation. `Accounted`: while a queue is drained, each formula of the queues up
to it is exhausted or still in the queue. `AppliedAtFront`: between a generation
and the test of the target no formula counts as failed any more, and each formula
of queue 0, the one that is never reloaded, was applied or is in one of the two
lists, which `TargetMissed` is about to join. With it the index reset is harmless:
after `formulasQueueIndex' = 0` only queue 0 has to be accounted for. One lemma
per action (`LoopLoadQueue`, `LoopApply`, `LoopFail`, `LoopTargetMissed`, ...) shows
that it preserves the invariant, `LoopQuiet` handles those that do not touch the
loop. The first lemmas say what the queue operations do to the set of queued
formulas.

The bound of `QueueGrowthBounded` is a sum over the queues, a recursive function.
That such a function exists needs induction on the number of queues. The steps of
the program give it: `Countable` says that the sum exists for the queues made so
far, each step that creates queues adds one, and the temporal rule is the induction.

`RefinementCorrect`, in the same module, is `Spec => ImplementsForwardChaining`.
Step by step, each action is mapped to the abstract one named above. The guards of
`Admit`, `Pass` and `GiveUp` are what `PriorityRespected`, `Accounted` and
`GivesUpExhausted` say, so the proof uses `LoopInvariant` and little more (`MappingInv`):
`checkedFormulas` holds only formulas that were tried, the queue is empty when the
next one is loaded, and there are no queues before the target was looked for.

`DirectInferenceManagerAll_proofs`: `AllTypeCorrect`, `TriedInOrderCorrect`,
`ResultCorrect` (`ReturnsWhetherGenerated`, under the assumption that no formula
generates silently; one that does leaves the result false). The invariant `OrderInv` says that every formula of the sets
before the current one was used, and every one of the current set was or is still
in the queue.

`DirectInferenceAgent_proofs`: `AgentTypeCorrect`, `AnswerCorrect`
(`AnswerIsComplete`), `OrphansCorrect`. Every step of the agent is a step of the call or
leaves the call alone, so the call's invariant holds inside the agent; `ReturnInv`
adds how a call ends (an exception exactly in `thrown`; a positive result only with
the formula that achieved the target at the front of the queue; a target found
with a negative result only before any formula was used), and `Written` and
`Concluded` say what the storage holds where the agent stands.

### The algebra of replacements

For any finite set of variables, any values, offsets and iteration orders
(`VariablesAssumption`, `OffsetAssumption`, `IsWalk`).

`ReplacementsUtils_proofs`: `RemoveDuplicateColumnsKeeps`,
`SubtractReplacementsIsDifference`, `IntersectReplacementsIsJoin`,
`UniteReplacementsIsUnion`, and types.

The operators go through hash containers, and what they compute must not depend on
it. `InOrderProperties` is the key: a finite set with a strict order, whichever it is,
becomes a sequence of all its elements, each once, in that order; `BucketOrderIsOrder`
and `LexicographicIsOrder` show that the iterations of the code are such orders.
Its proof counts predecessors and needs no induction; where one is needed, for the
recursive function in `ColumnsToRemove`, `Induction` and `Recursion` derive it from
the least element of a set of numbers (`Least`). Removing duplicates then loses no
column because of what `ColumnsToRemoveRepeat` says: a column is marked only if an
earlier one with the same values is not. Which duplicates survive, as positions are
confused with numbers, does not matter to the set of the columns.

The union fills each row by itself, and a value of one matrix is repeated as often
as the other one has columns. `CombineColumns` says which columns come out: each
of the first with each of the second, then what is added of the second. It needs
that all rows get the same length (`AreUnnested`), and the arithmetic of blocks
(`PairIndex`): each position of each block is reached. A column of the second matrix
is skipped because of its hash and one value; nothing is lost if these decide
(`HashTells`). What the hash adds up is never looked at, only that it depends on the
values of the column (`HashOfColumn`).

### The premise

For any implications of finite depth (`MaxDepth`), knowledge base, set of iteration
orders and amount of fresh elements (`InputsAssumption`, `ExistingAssumption`,
`WalkSetAssumption`, `FreshAssumption`, `EdgeVariablesAssumption`).

`ImplicationExpressionNode_proofs`: `IllFormedIsInertHolds`, `TypeOKHolds`,
`NotInKbIsExactHolds`, `FalsePremiseIsInertHolds`, `ConjunctionIsJoinHolds`,
`GeneratedForJoinHolds`, `EquivalenceIsAgreementHolds`, `DisjunctionIsUnionHolds`,
each the theorem of the property it is named after.

- *The tree* (`TreeInv`). While the tree is built, every formula of the input that
  may be ill-formed is a part of one `build` is still called for (`BuildInv`); when
  nothing waits, none is. Depth is finite, so a part of a part is at most one
  deeper (`AtDepthOfParts`).
- *Types* (`TypeInv`). Most of the work is in the operands: that operands are in
  order of their kinds, the computed ones first (`EvaluationOrderType`,
  `ComputedFirst`), that a search and a generation return rows of values
  (`SearchForType`, `GenerateType`), and that no operation that does not throw
  makes up a value.
- *A false premise* (`InertInv`). Until something is true there are no
  replacements, and what has no replacements cannot give any to the fold, unless
  a negation or a disjunction with one is involved.
- *Conjunctions* (`JoinInv`). After `n` operands the replacements are the join of
  the first `n` (`HasJoin`), and a false result has a reason: an operand that is
  false, or operands that have nothing in common (`HasReason`). One operand is
  added in two steps. `SearchIsExact` makes a search find exactly the instances
  that agree with the columns known (`FindExact`, `SearchStep`), and joining those
  is joining all the atom has (`JoinOfFound`); `IntersectReplacementsIsJoin` does the
  rest (`HasJoinOfMore`, `JoinStep`). Operands without variables restrict nothing
  (`JoinSkips`), with the exception the property names: two of them at the start.
  Generated atoms come last in the order, so the join is complete before the first of
  them is generated; that is `GeneratedForJoin`. None of it is inductive without the
  order of the operands and their types.
- *Equivalences* (`EquivalenceInv`). The same lemmas, for two operands of which the
  second one is evaluated for what the first one found, and what the result of that
  search says about its truth (`HoldsIsJoin`).
- *Disjunctions* (`UnionInv`). After `n` computed operands the replacements are a
  matrix of all variables of the operands, with columns if it has variables
  (`UnionAt`); `UniteReplacementsIsUnion` adds an operand (`UnionStep`). The invariant
  needs that no computed operand has an empty row, so that a union has the variables
  of both of its parts, and that the operand folded is the one evaluated.

The hypotheses `IsPlain` and `Nested` of the properties are those of section 3. The
runs that violate `ConjunctionHolds` and `ReplacementsAreMatrix` show that the
statements are false without them.

### The search of an atomic formula

For any template, storage, arguments, classes and roles (`InputsAssumption`: they
are of their types, the storage is finite; `VariablesAssumption`: a node variable
is no edge variable and no variable of another template).

`TemplateSearcher_proofs`: `SearchCorrect` (the invariant), `TypeCorrect`,
`ParamsCorrect` (`ParamsAreAssignments`), `TruthCorrect` (`TrueIffMatched`),
`ColumnsCorrect` (`ColumnsAreHits`), `NoHitLostCorrect`.

The invariant `SearchInv` follows the two phases. While params are made, they are
the assignments of the variables passed so far, each once (`Made`), and the copies
the inner loop has made are those of the addresses it has come to (`Copied`): the
copies for one address tell the address, so that copies for two of them never
coincide. A variable that no argument belongs to changes nothing
(`AssignmentsSkip`), any other one extends each assignment by each address
(`AssignmentsExtend`). While the params are searched, `RowsInv` says that the
replacements of the searches are the rows of some sequence of matches, which holds
what each search so far was to find and nothing else; the replacements returned,
where the row of a variable with a param is rebuilt each time, have the same
variables and at least these values, and are the same ones as long as each params
found one match (`OneHitUpTo`). That such an exact statement needs the hypothesis is
the finding of `TemplateSearchColumns`.

### The generation of a conclusion

For any number of evaluations, formulas, columns, configurations and storages
(`InputsAssumption`, `StoragesAssumption`: of their types; `Nobody`, who made what
the storage has at first, is no evaluation).

`TemplateExpressionNode_proofs`: `GenerationCorrect` (the invariant), `TypeCorrect`,
and one theorem for each property of the run: `DuplicatesOnlyByRaces`,
`FirstGeneratesAtMostOnce`, `TrueConclusionIsWhole`, `FalseConclusionIsNotMissing`,
`WholeConclusionIsReported`, `StructureHasWhatWasFound`.

`GenerationInv` is a conjunction for each evaluation `e` and what the storage has for
it: `Narrowed` (the replacements the conjunction has left, for which all formulas
passed hold), `Collected` (each of them was found or generated, or the loop over the
params still comes to it), `Searched` (between the search and the generation only
others generated what was not found), `Attributed` (which formula an instance of
`e` belongs to), `Unrepeated`, `Written` and `Filled` (what is in the output
structure), `Reported`. `OthersKeep` shows that a step of another evaluation keeps
them all: storage only grows, and nothing in the conjunction depends on an instance
of another evaluation being absent. What is said of the instances of one formula
needs that the conclusion names no formula twice (`Distinct`); the properties that
need it say so.

### The solution tree

For any number of solutions, nodes, variables and agents (`None` is neither a node
nor a column).

`SolutionTree_proofs`: `TreeCorrect` (the invariant), `TypeCorrect`,
`ExistingTreeIsWhole` (`TreeIsWhole`), `DeletedSolutionIsGone` (`NothingLeft`),
`DeletionLeavesNoPart` (`BeginningIsErased`), `LinkedNodesKeepTheirArcs` (`ArcsKept`: an
arc disappears only if another node with the same variable and replacement was
erased, which is what `DeleteSolutionManager.cpp:83-88` does).

`Counted` and `Ordered` say of a solution that exists that its nodes are numbered by
their creation, linked and in order; `Untouched` and `Known` that no part of it is
erased before the solution is, and that only parts of nodes that were created
exist. The rest is a chain of responsibility. Nothing of an erased solution is
left alone: a node is in the hands of a deletion (`NodeHeld`), when the node is
gone its substitutions are (`SubstitutionsHeld`), then its pairs (`PairHeld`), then its
arcs (`ArcHeld`), and whoever holds a part will still come to it. Several
deletions hold the same part and one of them erases it; `HeldIfKept` and
`StepKeepsHold` show that a step leaves a part in some hands, or the next part in
the same ones. At the end of all deletions nobody holds anything, so nothing is left.

If an inference goes on writing, nodes may be added that no deletion has listed.
`BeginningInv`, proved beside `TreeInv`, says that what deletions hold of a solution
comes before what they have not listed and that each step erases in this order
(`StepKeepsListed`, `StepErasesInOrder`); so what is left at the end are whole nodes.

### Only model-checked

- Liveness (`FailedIsRetried`, `Terminates`, `ActionIsFinished`, `DeletionEnds`), which
  is out of the prover's reach together with `ENABLED`.
- The four properties of `ImplicationCompute`. They rest on the operators of
  `ReplacementsUtils` that this section has theorems about, but the instances a
  generation makes are a recursive function of the params.
- Which variables are `ToldApart`. `OneIsToldApart` proves it of a single common
  variable; of two it is a fact about the values of the instance and the primes the
  sum in `Hash` is made of, and folds are induction over data. Three variables with
  the same first value may have the same hash.

The type invariants of all modules but `ImplicationCompute` are proved. Only those of
the target manager and of the solution tree are also part of a run.

## 5. Not modelled

- A generation that makes instances of another formula, or of another column, on
  the way; in the module of several evaluations, conclusions that share an edge
  variable with the premise; structures the storage is divided into. The premise module generates with
  `GENERATE_UNIQUE_FORMULAS` and `SEARCH_WITHOUT_REPLACEMENTS`, the other
  configurations are in the generation module.
- What a nested connective does while it is evaluated, except a negation: it is an
  operand with any result it may have. Roots that are no implications appear in the
  managers, as formulas that may generate silently.
- The exception of `SolutionTreeGenerator::createSolutionNode` (lines 82-88): the
  only caller, `SolutionTreeManager::addNode`, gives it columns that have a value for
  each variable.
- That the result of `HelperBuildTemplate` in `generateByParams` (line 200) is not
  looked at: params a template cannot be built with (`unfit`) generate nothing.
- Which arguments an operand below an equivalence or a negation is searched with:
  both nodes hand none down.
- Cyclic oriented sets of formulas, on which `createFormulasQueuesListByPriority`
  never ends.
- Objects that only carry configuration (`InferenceManagerFactory`), names and
  registration, `SolutionTreeSearcher`, `getVariables` and `getConstants` of the
  searchers, which only read.

## 6. Plan

Done, in this order: the target manager with its proofs; the agent; the manager
without a target; replacements and premises; the search of an atomic formula; the
solution tree; the generation; forward chaining, the refinement and its proof;
the proofs of the other manager and of the agent; the expression tree with every
connective in a premise; an implication to its result; fixed arguments; the proofs of the growth of the queues,
of the generation, of the solution tree and of the search; the proofs about
replacements and the premise.

Next:

1. Nested connectives evaluated step by step, and roots that are conjunctions or
   equivalences: what a formula reports against what it changed, instead of
   `SilentFormulas`.
2. Structures: a storage divided into input, output and other structures, under
   the search, the generation and the test of the target together.
