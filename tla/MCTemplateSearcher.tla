-------------------------- MODULE MCTemplateSearcher --------------------------
(***************************************************************************)
(* Instance of TemplateSearcher for TLC: the template is one triple with   *)
(* variables x, y and the edge e between them; the storage has the nodes   *)
(* a, b, an edge for each pair of them, and the link l of the template; w  *)
(* is a variable of another template.                                      *)
(***************************************************************************)
EXTENDS TemplateSearcher

CONSTANTS x, y, w, e, a, b, aa, ab, ba, bb, l

Triple(source, target) ==
  [v \in Variables |->
    IF v = x THEN source ELSE IF v = y THEN target
    ELSE CASE <<source, target>> = <<a, a>> -> aa
           [] <<source, target>> = <<a, b>> -> ab
           [] <<source, target>> = <<b, a>> -> ba
           [] OTHER -> bb]

Triples == {Triple(s, t) : s, t \in {a, b}}

Knowledge == SUBSET Triples

Places ==
  ({"General"} \X {{}}) \cup
  ({"InStructures", "OnlyAccessEdgesInStructures"} \X
     {{a, b, aa, ab, ba, bb}, {a, b, aa, ba}, {a, aa, ab, ba, bb}})

NoClasses == [v \in NodeVariables |-> {}]

(* Arguments (one may be given twice), roles, classes.  Roles: without the *)
(* first, one, two, with a gap, more than are read; of this template and   *)
(* of the other.                                                           *)
Calls ==
  {<<<<>>, r, NoClasses>> : r \in {<<>>, <<x>>}} \cup
  ({<<a>>, <<a, b>>, <<a, a>>} \X {<<>>, 2 :> x} \X [NodeVariables -> SUBSET {a, b}]) \cup
  ({<<a>>, <<a, b>>, <<b, b>>, <<a, b, l>>} \X
     {<<x>>, <<x, y>>, <<y, x>>, <<w, y>>, <<y, w>>, (1 :> x) @@ (3 :> y), <<x, x, y>>} \X {NoClasses})

Plain ==
  {[usingType |-> u, searcher |-> p[1], content |-> p[2], knowledge |-> k,
    arguments |-> c[1], roles |-> c[2], classes |-> c[3],
    withLinks |-> FALSE, link |-> l, identical |-> {}] :
     u \in {"REPLACEMENTS_FIRST", "REPLACEMENTS_ALL"}, p \in Places, k \in Knowledge, c \in Calls}

(* Templates with links: no arguments, or a in the class of all variables; *)
(* the link in the structures or not.                                      *)
WithLinks ==
  {[i EXCEPT !.withLinks = TRUE, !.content = @ \cup extra, !.identical = same] :
     i \in {j \in Plain : j.arguments = <<>> \/ \A v \in NodeVariables : j.classes[v] = {a}},
     extra \in {{}, {l}}, same \in {{}, {Triple(a, b), Triple(b, b)}, {Triple(a, a)}}}

AllInputs == Plain \cup WithLinks
=============================================================================
