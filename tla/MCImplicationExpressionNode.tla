--------------------- MODULE MCImplicationExpressionNode ---------------------
(***************************************************************************)
(* Instance of ImplicationExpressionNode for TLC: the values are the       *)
(* elements with these offsets of one segment, the columns (0, 2) and      *)
(* (2, 1) of two variables have the same hash; 0, 1, 2 are in the          *)
(* knowledge base, the others are generated; z is an edge.                 *)
(***************************************************************************)
EXTENDS ImplicationExpressionNode, TLC

CONSTANTS x, y, z

OffsetOf == [v \in Values |-> v]
FreshValues == <<3, 4>>
Data == {0, 1, 2}

(* Matrices of no column, of one column or of two distinct ones.           *)
Rank(c) ==
  LET weight(key) == CASE key = x -> 1 [] key = y -> 3 [] key = z -> 9
  IN  FoldFunction(+, 0, [key \in DOMAIN c |-> weight(key) * c[key]])

Matrix(keys, s) == [key \in keys |-> [i \in DOMAIN s |-> s[i][key]]]

Matrices(keys, values) ==
  LET columns == [keys -> values]
  IN  {Matrix(keys, <<c>>) : c \in columns} \cup
      {Matrix(keys, s) : s \in {t \in columns \X columns : Rank(t[1]) < Rank(t[2])}}

None(keys) == Matrix(keys, <<>>)

-----------------------------------------------------------------------------
(* Formulas.                                                               *)

Atom(found) ==
  [classes |-> {"atomic_logical_formula"}, type |-> "NodeConstStruct",
   elements |-> {"var", "const"}, operands |-> <<>>, roles |-> <<>>,
   value |-> FALSE, found |-> found]

(* Atomic by its type and its variables.                                   *)
AtomWithoutConstants(found) == [Atom(found) EXCEPT !.classes = {}, !.elements = {"var"}]

AtomToGenerate(found) ==
  [Atom(found) EXCEPT !.classes = @ \cup {"concept_template_for_generation"}]

Tuple(class, operandSeq) ==
  [classes |-> {class}, type |-> "NodeConstTuple", elements |-> {"const"},
   operands |-> operandSeq, roles |-> <<>>, value |-> FALSE, found |-> NoReplacements]

Conjunction(fs) == Tuple("nrel_conjunction", fs)
Disjunction(fs) == Tuple("nrel_disjunction", fs)
Negation(f) == Tuple("nrel_negation", <<f>>)
EquivalenceEdge(f, g) ==
  [Tuple("nrel_equivalence", <<f, g>>) EXCEPT !.type = "EdgeUCommonConst"]

ImplicationEdge(f, g) ==
  [Tuple("nrel_implication", <<f, g>>) EXCEPT !.type = "EdgeDCommonConst"]

(* Its conclusion comes first in the storage.                              *)
ImplicationTuple(f, g) ==
  [Tuple("nrel_implication", <<g, f>>) EXCEPT !.roles = [rrel_if |-> 2, rrel_then |-> 1]]

-----------------------------------------------------------------------------
(* Premises.                                                               *)

Atoms(keys, values) == {Atom(found) : found \in Matrices(keys, values)}

(* A formula that is not found; its negation; the negation of one that is; *)
(* a nested formula that is true without replacements.                     *)
Missing == {Atom(NoReplacements), Negation(Atom(NoReplacements)),
            Negation(Atom(Matrix({x}, <<x :> 0, x :> 1>>))),
            [Conjunction(<<Negation(Atom(NoReplacements))>>) EXCEPT !.value = TRUE]}

Wide  == Atoms({x}, Data) \cup Atoms({x, y}, Data) \cup Atoms({y, z}, {0, 1})
Small == Atoms({x}, {0, 1}) \cup Atoms({y}, {0, 1}) \cup Atoms({y, z}, {0}) \cup Missing

Narrow == {a \in Wide : \A v \in DOMAIN a.found : Len(a.found[v]) = 1} \cup Atoms({x}, Data)

Lists ==
  {<<a>> : a \in Small} \cup
  {<<a, b>> : a \in Narrow, b \in Wide} \cup {<<b, a>> : a \in Narrow, b \in Wide} \cup
  {<<a, b, c>> : a, b, c \in Small}

(* Lists with an atom that is searched for and one that is generated.      *)
Found == Atoms({x}, {0, 1}) \cup Atoms({x, y}, {0, 1}) \cup Missing
Sought == {AtomWithoutConstants(found) : found \in
             Matrices({x, y}, {0, 1}) \cup Matrices({x, z}, {0, 1}) \cup {None({x, y})}}
ToGenerate == {AtomToGenerate(found) : found \in
                 {None({x, y}), None({x, z}), None({y}), Matrix({y}, <<y :> 0>>),
                  Matrix({x, y}, <<[v \in {x, y} |-> 0]>>),
                  Matrix({x, y}, <<[v \in {x, y} |-> 1], [v \in {x, y} |-> 0]>>)}}

Few == Atoms({x}, {0, 1}) \cup {Atom(NoReplacements), Negation(Atom(NoReplacements))}

MixedLists ==
  {<<b, a>> : a \in Found, b \in Sought \cup ToGenerate} \cup
  {<<c, b, a>> : a \in Few, b \in Sought, c \in ToGenerate} \cup
  {<<c, d, a>> : a \in Few, c, d \in ToGenerate} \cup
  {<<b>> : b \in Sought}

Premises ==
  {Conjunction(list) : list \in Lists \cup MixedLists} \cup
  {Disjunction(list) : list \in Lists \cup MixedLists} \cup
  {EquivalenceEdge(a, b) : a \in Found, b \in Found \cup Sought \cup ToGenerate} \cup
  {Tuple("nrel_equivalence", <<b, a>>) : a \in Few, b \in Sought} \cup
  {Tuple("nrel_equivalence", <<a, b>>) : a, b \in Sought} \cup
  {Negation(a) : a \in Found} \cup Found

Simple == Atom(Matrix({x}, <<x :> 0>>))

Oddities ==
  LET untyped == [Simple EXCEPT !.classes = {}, !.type = "NodeConst"]
      premise == Conjunction(<<AtomToGenerate(None({x, y})), Simple>>)
  IN  {ImplicationTuple(premise, f) :
         f \in {untyped, Conjunction(<<>>), Disjunction(<<Simple, untyped>>),
                Tuple("nrel_negation", <<Simple, Simple>>), Negation(Conjunction(<<>>)),
                Tuple("nrel_equivalence", <<Simple>>),
                [Tuple("nrel_implication", <<Simple, Simple>>) EXCEPT !.type = "NodeConst"]}} \cup
      {[ImplicationTuple(premise, Simple) EXCEPT !.roles = [rrel_if |-> 2]],
       [ImplicationTuple(premise, Simple) EXCEPT !.type = "NodeConst"],
       ImplicationEdge(premise, Negation(Simple)), ImplicationEdge(premise, Disjunction(<<Simple>>))}

MCInputs ==
  [formula: {ImplicationTuple(f, Simple) : f \in Premises} \cup Oddities,
   usingType: {"REPLACEMENTS_ALL"}] \cup
  [formula: {ImplicationEdge(Conjunction(list), Simple) : list \in MixedLists},
   usingType: {"REPLACEMENTS_FIRST"}]

ExistingMatrices ==
  {NoReplacements, [key \in {x} |-> <<0>>], [key \in {x, y} |-> <<0, 2>>],
   [key \in {x, y} |-> IF key = x THEN <<2, 0>> ELSE <<1, 0>>], [key \in {z} |-> <<1>>]}

SomeWalks == [keys: {{<<x, y>>, <<x, z>>, <<y, z>>}, {<<z, y>>, <<z, x>>, <<y, x>>}},
              oldestFirst: BOOLEAN]
=============================================================================
