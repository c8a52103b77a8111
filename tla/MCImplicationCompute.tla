------------------------ MODULE MCImplicationCompute ------------------------
(***************************************************************************)
(* Instance of ImplicationCompute for TLC, with the values of              *)
(* MCImplicationExpressionNode.                                            *)
(***************************************************************************)
EXTENDS MCImplicationExpressionNode, ImplicationCompute

(* 4 was generated before.                                                 *)
ManyFresh == <<3, 5, 6, 7>>

(* The columns of x and y that have the same hash.                         *)
Colliding == {[v \in {x, y} |-> IF v = x THEN 0 ELSE 2], [v \in {x, y} |-> IF v = x THEN 2 ELSE 1]}

Operands ==
  Atoms({x}, {0, 1}) \cup Atoms({y}, {0, 2}) \cup Atoms({y, z}, {0}) \cup
  {Atom(Matrix({x, y}, <<c, d>>)) : c, d \in Colliding} \cup
  {Atom(Matrix({x, y}, <<c>>)) : c \in [{x, y} -> {0, 1}]} \cup
  {Atom(NoReplacements), Negation(Atom(NoReplacements)),
   Negation(Atom(Matrix({x}, <<x :> 0, x :> 1>>)))}

ComputedPremises ==
  Operands \cup {Atom(Matrix({z}, <<z :> 0>>))} \cup
  {Conjunction(<<a, b>>) : a, b \in Operands} \cup
  {Disjunction(<<a, b>>) : a, b \in Operands} \cup
  {Conjunction(<<b, a>>) : a \in Few, b \in Sought} \cup
  {EquivalenceEdge(a, b) : a \in Few, b \in Operands} \cup
  {EquivalenceEdge(a, b) : a, b \in {AtomWithoutConstants(None({x, y}))}}

(* Generating it for (0, 0) gives (0, 0, 3), of the same hash.             *)
Confusing == [v \in {x, y, z} |-> IF v = y THEN 4 ELSE 0]

Conclusions ==
  {Atom(None(keys)) : keys \in {{x, y}, {y}, {x, z}, {y, z}}} \cup
  {Atom(Matrix({x, y}, <<c>>)) : c \in Colliding} \cup
  {Atom(Matrix({x, y, z}, <<Confusing>>)), Atom(Matrix({y, z}, <<[v \in {y, z} |-> 0]>>)),
   Atom(Matrix({x, z}, <<[v \in {x, z} |-> 0], [v \in {x, z} |-> 1]>>)),
   Negation(Simple)}

ComputeInputs ==
  MCInputs \cup
  [formula: {ImplicationEdge(f, g) : f \in ComputedPremises, g \in Conclusions} \cup
            {ImplicationEdge(Simple, Disjunction(<<>>)),
             ImplicationEdge(Negation(Negation(Conjunction(<<>>))), Simple)},
   usingType: {"REPLACEMENTS_ALL"}] \cup
  [formula: {ImplicationTuple(Conjunction(<<a, b>>), g) : a \in Few, b \in Operands, g \in Conclusions},
   usingType: {"REPLACEMENTS_FIRST"}]

FoundOfConclusions ==
  {ExistingRows(g.found, usingType) : g \in Conclusions \cup {Simple},
                                      usingType \in {"REPLACEMENTS_ALL", "REPLACEMENTS_FIRST"}}
=============================================================================
