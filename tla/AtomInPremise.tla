---------------------------- MODULE AtomInPremise ----------------------------
(***************************************************************************)
(* An atom whose evaluation depends on what the operands before it found:  *)
(* an atom without constants (TemplateExpressionNode::find) and an atom    *)
(* for generation (TemplateExpressionNode::generate, with                  *)
(* GENERATE_UNIQUE_FORMULAS and SEARCH_WITHOUT_REPLACEMENTS).              *)
(*                                                                         *)
(* `found` has the instances of the atom in the knowledge base: a row for  *)
(* each of its variables, the columns in the order a search finds them.    *)
(***************************************************************************)
EXTENDS ReplacementsUtils

CONSTANTS
  EdgeVariables, (* the variables that are edges                           *)
  Fresh          (* Fresh[n]: the new element of the n-th generation; its  *)
                 (* length is the bound of the amount of new instances      *)

NoReplacements == [key \in {} |-> {}]
NotFound == [value |-> FALSE, replacements |-> NoReplacements]

(* getReplacementsWithoutEdges, getReplacementsToScTemplateParams.         *)
WithoutEdges(r) == Restrict(r, DOMAIN r \ EdgeVariables)

Params(r, walk) == [i \in 1 .. ColumnsAmount(r, walk) |-> Column(r, i)]

Instances(found) ==
  IF DOMAIN found = {} THEN <<>>
  ELSE [i \in DOMAIN found[CHOOSE key \in DOMAIN found : TRUE] |-> Column(found, i)]

(* Columns as replacements of variables.                                   *)
Rows(columns, variables) ==
  IF columns = <<>> THEN NoReplacements
  ELSE [v \in variables |-> [n \in DOMAIN columns |-> columns[n][v]]]

Compatible(c, d) == \A key \in DOMAIN c \cap DOMAIN d : c[key] = d[key]

(* The instances one search finds: with REPLACEMENTS_FIRST it stops at     *)
(* the first one.                                                          *)
Hits(instances, params, usingType) ==
  {n \in DOMAIN instances :
     /\ Compatible(instances[n], params)
     /\ usingType = "REPLACEMENTS_FIRST" =>
          \A m \in 1 .. n - 1 : ~Compatible(instances[m], params)}

(* The search for a vector of params: a variable with a param gets a value *)
(* for each params from the first that matched, the others those of the    *)
(* instances that were found.                                              *)
SearchFor(paramsVector, found, usingType) ==
  LET instances == Instances(found)
      hits == {p \in (DOMAIN paramsVector) \X (DOMAIN instances) :
                 p[2] \in Hits(instances, paramsVector[p[1]], usingType)}
      all == InOrder(hits, Lexicographic(hits, Less(DOMAIN paramsVector)))
      used == SubSeq(paramsVector, all[1][1], Len(paramsVector))
      row(v) == IF v \in DOMAIN paramsVector[1]
                  THEN [n \in DOMAIN used |-> used[n][v]]
                  ELSE [n \in DOMAIN all |-> instances[all[n][2]][v]]
  IN  IF hits = {} THEN NoReplacements ELSE [v \in DOMAIN found |-> row(v)]

Find(found, r, usingType, walk) ==
  LET replacements == SearchFor(Params(WithoutEdges(r), walk), found, usingType)
  IN  [value |-> DOMAIN replacements # {}, replacements |-> replacements, generated |-> <<>>]

FindThrows(r, walk) == OutOfRange(WithoutEdges(r), walk)

(* One params of processTemplateParams: its instances, old ones and those  *)
(* just generated, or a new one, with a fresh element for each variable    *)
(* that has no param.                                                      *)
Generated(params, done, found, usingType) ==
  LET instances == Instances(found) \o done.generated
      hits == Hits(instances, params, usingType)
      new == [v \in DOMAIN found |-> IF v \in DOMAIN params THEN params[v]
                                     ELSE Fresh[Len(done.generated) + 1]]
  IN  IF usingType = "REPLACEMENTS_FIRST" /\ done.generated # <<>> THEN done
      ELSE IF hits # {}
        THEN [done EXCEPT !.searched = @ \o Selected(instances, Ascending(hits))]
      ELSE [done EXCEPT !.generated = Append(@, new)]

(* The instances of the atom, whatever is known.                           *)
ExistingRows(found, usingType) ==
  LET instances == Instances(found)
  IN  Rows(Selected(instances, Ascending(Hits(instances, <<>>, usingType))), DOMAIN found)

GeneratedFor(paramsVector, found, usingType) ==
  LET done[n \in 0 .. Len(paramsVector)] ==
        IF n = 0 THEN [searched |-> <<>>, generated |-> <<>>]
        ELSE Generated(paramsVector[n], done[n - 1], found, usingType)
  IN  done[Len(paramsVector)]

Generate(found, r, usingType, walk) ==
  LET rows(columns) == Rows(columns, DOMAIN found)
      existing == ExistingRows(found, usingType)
      notInKb == WithoutEdges(SubtractReplacements(r, existing, walk))
      done == GeneratedFor(Params(notInKb, walk), found, usingType)
      unite(first, second) == UniteReplacements(first, second, walk)
  IN  IF ColumnsAmount(r, walk) = 0
        THEN [value |-> FALSE, replacements |-> NoReplacements, generated |-> <<>>]
        ELSE [value |-> done.generated # <<>>,
              replacements |-> unite(unite(rows(done.searched), existing), rows(done.generated)),
              generated |-> done.generated]

GenerateThrows(found, r, usingType, walk) ==
  LET existing == ExistingRows(found, usingType)
  IN  /\ ColumnsAmount(r, walk) > 0
      /\ ~SubtractThrows(r, existing, walk) =>
           FindThrows(SubtractReplacements(r, existing, walk), walk)
=============================================================================
