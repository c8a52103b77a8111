----------------------- MODULE MCTemplateExpressionNode -----------------------
(***************************************************************************)
(* Instance of TemplateExpressionNode for TLC: main is called with every   *)
(* configuration and with repeated, unfit and no replacements; other, with *)
(* either generation type, for what main may generate.                     *)
(***************************************************************************)
EXTENDS TemplateExpressionNode, TLC

CONSTANTS main, other, p, q, a, b

Configurations ==
  [generationType: {"GENERATE_UNIQUE_FORMULAS", "GENERATE_ALL_FORMULAS"},
   usingType: {"REPLACEMENTS_FIRST", "REPLACEMENTS_ALL"},
   fillingType: {"GENERATED_ONLY", "SEARCHED_AND_GENERATED"},
   searchType: {"SEARCH_WITH_REPLACEMENTS", "SEARCH_WITHOUT_REPLACEMENTS"}]

(* Conclusion, replacements, unfit, stray.                                 *)
MainCalls ==
  ({<<p>>, <<p, q>>} \X {<<>>, <<a, b>>} \X {{}} \X {{}}) \cup
  {<<<<p>>, <<a, b, a>>, {}, {}>>, <<<<p, q>>, <<b, b>>, {}, {}>>} \cup
  ({<<p>>, <<p, q>>} \X {<<b, a>>} \X {{b}} \X {{}}) \cup
  ({<<p, q>>} \X {<<a, b>>} \X {{}} \X {{q}})

Call(c) == [conclusion |-> c[1], replacements |-> c[2], unfit |-> c[3], stray |-> c[4]]

MainInputs == {configuration @@ Call(c) : configuration \in Configurations, c \in MainCalls}

OtherInputs ==
  {[usingType |-> "REPLACEMENTS_ALL", fillingType |-> "SEARCHED_AND_GENERATED",
    generationType |-> g, searchType |-> "SEARCH_WITHOUT_REPLACEMENTS"] @@
     Call(<<conclusion, <<b>>, {}, {}>>) :
     g \in {"GENERATE_UNIQUE_FORMULAS", "GENERATE_ALL_FORMULAS"}, conclusion \in {<<p>>, <<q, p>>}}

InputsOf == main :> MainInputs @@ other :> OtherInputs

Held(formula, column) == [formula |-> formula, column |-> column, by |-> Nobody]

InitialStorages ==
  {<<>>, <<Held(p, b)>>, <<Held(q, a)>>, <<Held(p, b), Held(p, a)>>, <<Held(p, a), Held(q, b)>>}
=============================================================================
