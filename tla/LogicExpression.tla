--------------------------- MODULE LogicExpression ---------------------------
(***************************************************************************)
(* Logical formulas as they are in the knowledge base, their classes       *)
(* (FormulaClassifier) and the expression tree that is built for one       *)
(* (LogicExpression::build).  build throws ExceptionItemNotFound for a     *)
(* node of no known class or with a wrong number of operands.              *)
(*                                                                         *)
(* A formula is a record:                                                  *)
(*   classes:  the keynodes it belongs to                                  *)
(*   type:     the type of the sc-element                                  *)
(*   elements: "var" and "const", if it has variables and constants that   *)
(*             are nodes or links                                          *)
(*   operands: the formulas it points at, as storage iterates them; the    *)
(*             begin and the end of an edge                                *)
(*   roles:    the indexes of the operands under rrel_if and rrel_then     *)
(*   found:    what the knowledge base has of an atom, a row for each of   *)
(*             its variables; the replacements of another formula          *)
(*   value:    whether a formula that is neither an atom nor a negation is *)
(*             true, and a negation that is itself negated                 *)
(***************************************************************************)
EXTENDS ReplacementsUtils

IsAtomic(f) ==
  \/ "atomic_logical_formula" \in f.classes
  \/ f.type = "NodeConstStruct" /\ "var" \in f.elements

(* The class that a keynode and the type of the element decide on.         *)
OfType(f, edge, edgeClass, tupleClass) ==
  IF f.type = edge THEN edgeClass
  ELSE IF f.type = "NodeConstTuple" THEN tupleClass
  ELSE "NONE"

TypeOfFormula(f) ==
  IF IsAtomic(f) THEN "ATOMIC"
  ELSE IF "nrel_implication" \in f.classes
    THEN OfType(f, "EdgeDCommonConst", "IMPLICATION_EDGE", "IMPLICATION_TUPLE")
  ELSE IF "nrel_negation" \in f.classes THEN "NEGATION"
  ELSE IF "nrel_conjunction" \in f.classes THEN "CONJUNCTION"
  ELSE IF "nrel_disjunction" \in f.classes THEN "DISJUNCTION"
  ELSE IF "nrel_equivalence" \in f.classes
    THEN OfType(f, "EdgeUCommonConst", "EQUIVALENCE_EDGE", "EQUIVALENCE_TUPLE")
  ELSE "NONE"

(* The operands of the node; of an implication tuple those with a role,    *)
(* the premise first.                                                      *)
OperandsOf(f) ==
  IF TypeOfFormula(f) = "IMPLICATION_TUPLE"
    THEN LET present == {"rrel_if", "rrel_then"} \cap DOMAIN f.roles
             roles == InOrder(present, {<<"rrel_if", "rrel_then">>})
         IN  [n \in DOMAIN roles |-> f.operands[f.roles[roles[n]]]]
    ELSE f.operands

AmountFits(f) ==
  LET amount == Len(OperandsOf(f))
      type == TypeOfFormula(f)
  IN  IF type \in {"CONJUNCTION", "DISJUNCTION"} THEN amount > 0
      ELSE IF type = "NEGATION" THEN amount = 1
      ELSE amount = 2

(* What build does not throw for, when all its operands are built.         *)
IsWellFormed(f) ==
  \/ TypeOfFormula(f) = "ATOMIC"
  \/ TypeOfFormula(f) # "NONE" /\ AmountFits(f)

(* The formulas that build is called for by that of f.                     *)
PartsOf(f) ==
  IF TypeOfFormula(f) = "ATOMIC" THEN <<>> ELSE OperandsOf(f)

PartsOfAll(formulas) == UNION {Range(PartsOf(f)) : f \in formulas}

(* What a connective does with the operand f: an atom without constants is *)
(* searched for what the others found, an atom for generation is generated *)
(* for it, everything else is computed by itself.                          *)
Kind(f) ==
  IF TypeOfFormula(f) # "ATOMIC" THEN "compute"
  ELSE IF "const" \notin f.elements THEN "find"
  ELSE IF "concept_template_for_generation" \in f.classes THEN "generate"
  ELSE "compute"

(* The result of an atom; of any other formula it is any result.           *)
Result(f) ==
  LET replacements == CopyReplacements(f.found)
  IN  [value |-> IF TypeOfFormula(f) = "ATOMIC" THEN DOMAIN replacements # {} ELSE f.value,
       replacements |-> replacements]

(* The result of computing f by itself.                                    *)
Computed(f) ==
  IF TypeOfFormula(f) = "NEGATION"
    THEN LET result == Result(OperandsOf(f)[1])
         IN  [result EXCEPT !.value = ~@]
    ELSE Result(f)
=============================================================================
