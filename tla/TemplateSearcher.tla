--------------------------- MODULE TemplateSearcher ---------------------------
(***************************************************************************)
(* The evaluation of an atomic logical formula, a template                 *)
(* (TemplateExpressionNode::compute): the formula it is part of decides on *)
(* the template manager (InferenceManagerAbstract::useFormula), which      *)
(* turns the arguments into template params; the searcher looks for the    *)
(* template once for each of them and collects replacements.               *)
(*                                                                         *)
(* The storage is modelled by the matches of the template that a search    *)
(* can find in it, in any order.  A variable that has a param is no        *)
(* variable of the match that is found.                                    *)
(***************************************************************************)
EXTENDS Integers, SequencesExt

CONSTANTS
  NodeVariables, (* the variables of the template that are nodes           *)
  EdgeVariables, (* the other ones                                         *)
  OtherVariables, (* the variables of other templates of the formula       *)
  MaxFixedArguments, (* as many fixed arguments are read; 10 in the code   *)
  Elements,      (* the elements of the storage                            *)
  Inputs         (* the evaluations considered                             *)

Variables == NodeVariables \cup EdgeVariables
Matches == [Variables -> Elements]

(* An evaluation: the configuration, the storage and the arguments.        *)
(*   usingType, searcher: the configuration                                *)
(*   knowledge: the matches of the template                                *)
(*   content: the elements of all the input structures                     *)
(*   arguments: of the call                                                *)
(*   roles: the elements of the formula under rrel_1, rrel_2, ...          *)
(*   classes: the arguments that are in a class of a node variable         *)
(*   withLinks: the template is in concept_template_with_links             *)
(*   link: its link; identical: the matches with a link of that content    *)
InputTypeOK(i) ==
  /\ i.usingType \in {"REPLACEMENTS_FIRST", "REPLACEMENTS_ALL"}
  /\ i.searcher \in {"General", "InStructures", "OnlyAccessEdgesInStructures"}
  /\ i.knowledge \subseteq Matches
  /\ IsFiniteSet(i.knowledge)
  /\ i.content \subseteq Elements
  /\ i.arguments \in Seq(Elements)
  /\ DOMAIN i.roles \subseteq Nat
  /\ i.roles \in [DOMAIN i.roles -> NodeVariables \cup OtherVariables]
  /\ i.classes \in [NodeVariables -> SUBSET Elements]
  /\ i.withLinks \in BOOLEAN
  /\ i.link \in Elements
  /\ i.identical \subseteq Matches

ASSUME InputsAssumption == \A i \in Inputs : InputTypeOK(i)
ASSUME VariablesAssumption ==
  /\ NodeVariables \cap EdgeVariables = {}
  /\ OtherVariables \cap Variables = {}
ASSUME MaxFixedArgumentsAssumption == MaxFixedArguments \in Nat \ {0}

VARIABLES
  pc,
  input,
  manager,       (* templateManager                                        *)
  fixedArguments,
  variablesLeft, (* node variables createTemplateParams has not come to    *)
  variable,      (* variableNode                                           *)
  addresses,     (* of the variable, those the inner loop has not come to  *)
  updatedParams,
  params,        (* templateParamsVector                                   *)
  next,          (* the params the search is at                            *)
  searchResults, (* the replacements of all params so far, unadjusted      *)
  result

managerVars == <<manager, fixedArguments>>
loopVars == <<variablesLeft, variable, addresses, updatedParams>>
searchVars == <<next, searchResults, result>>
vars == <<pc, input, managerVars, loopVars, params, searchVars>>

NoVariable == "none"

IsReplacements(r) == DOMAIN r \subseteq Variables /\ r \in [DOMAIN r -> Seq(Elements)]
NoReplacements == [v \in {} |-> {}]

Params == UNION {[variables -> Elements] : variables \in SUBSET (NodeVariables \cup OtherVariables)}

TypeOK ==
  /\ pc \in {"formula", "roles", "params", "addresses", "search", "done"}
  /\ InputTypeOK(input)
  /\ manager \in {"TemplateManager", "TemplateManagerFixedArguments"}
  /\ fixedArguments \in Seq(NodeVariables \cup OtherVariables)
  /\ variablesLeft \subseteq NodeVariables
  /\ variable \in NodeVariables \cup {NoVariable}
  /\ addresses \subseteq Elements
  /\ updatedParams \in Seq(Params)
  /\ params \in Seq(Params)
  /\ next \in 1 .. Len(params) + 1
  /\ IsReplacements(searchResults)
  /\ IsReplacements(result)

Init ==
  /\ pc = "formula"
  /\ input \in Inputs
  /\ manager = "TemplateManager"
  /\ fixedArguments = <<>>
  /\ variablesLeft = NodeVariables
  /\ variable = NoVariable
  /\ addresses = {}
  /\ updatedParams = <<>>
  /\ params = <<>>
  /\ next = 1
  /\ searchResults = NoReplacements
  /\ result = NoReplacements

-----------------------------------------------------------------------------
(* The template manager: every use of a formula makes a new one, with the  *)
(* arguments of the one before and none of its fixed arguments.            *)

UseTemplateManager ==
  /\ pc = "formula"
  /\ 1 \notin DOMAIN input.roles
  /\ manager' = "TemplateManager"
  /\ pc' = "params"
  /\ UNCHANGED <<input, fixedArguments, loopVars, params, searchVars>>

UseTemplateManagerFixedArguments ==
  /\ pc = "formula"
  /\ 1 \in DOMAIN input.roles
  /\ manager' = "TemplateManagerFixedArguments"
  /\ fixedArguments' = <<input.roles[1]>>
  /\ pc' = "roles"
  /\ UNCHANGED <<input, loopVars, params, searchVars>>

(* The fixed arguments, until the first role without one.                  *)
HasFixedArgument(n) == n <= MaxFixedArguments /\ n \in DOMAIN input.roles

AddFixedArgument ==
  LET n == Len(fixedArguments) + 1
  IN  /\ pc = "roles"
      /\ HasFixedArgument(n)
      /\ fixedArguments' = Append(fixedArguments, input.roles[n])
      /\ UNCHANGED <<pc, input, manager, loopVars, params, searchVars>>

FixedArgumentsFilled ==
  /\ pc = "roles"
  /\ ~HasFixedArgument(Len(fixedArguments) + 1)
  /\ pc' = "params"
  /\ UNCHANGED <<input, managerVars, loopVars, params, searchVars>>

-----------------------------------------------------------------------------
(* Template params.                                                        *)

Uses(name) == pc = "params" /\ input.arguments # <<>> /\ manager = name

(* ScTemplateParams::Add.                                                  *)
Add(param, v, address) ==
  [w \in DOMAIN param \cup {v} |-> IF w = v THEN address ELSE param[w]]

(* The arguments that are in a class of v.                                 *)
Addresses(v) == Range(input.arguments) \cap input.classes[v]

(* The params so far, with the address for the variable; the first typed   *)
(* variable begins the params.                                             *)
With(address) ==
  IF params = <<>> THEN <<Add(<<>>, variable, address)>>
  ELSE [n \in DOMAIN params |-> Add(params[n], variable, address)]

SkipVariable ==
  /\ Uses("TemplateManager")
  /\ \E v \in variablesLeft :
       /\ Addresses(v) = {}
       /\ variablesLeft' = variablesLeft \ {v}
  /\ UNCHANGED <<pc, input, managerVars, variable, addresses, updatedParams, params, searchVars>>

(* Mutant of TakeVariable: no test for a variable without arguments.       *)
TakeAnyVariable ==
  /\ Uses("TemplateManager")
  /\ \E v \in variablesLeft :
       /\ variablesLeft' = variablesLeft \ {v}
       /\ variable' = v
       /\ addresses' = Addresses(v)
  /\ pc' = "addresses"
  /\ UNCHANGED <<input, managerVars, updatedParams, params, searchVars>>

TakeVariable ==
  /\ Uses("TemplateManager")
  /\ \E v \in variablesLeft :
       /\ Addresses(v) # {}
       /\ variablesLeft' = variablesLeft \ {v}
       /\ variable' = v
       /\ addresses' = Addresses(v)
  /\ pc' = "addresses"
  /\ UNCHANGED <<input, managerVars, updatedParams, params, searchVars>>

(* One turn of the inner loop: a copy of the params for the address.       *)
CopyParams ==
  /\ pc = "addresses"
  /\ \E address \in addresses :
       /\ addresses' = addresses \ {address}
       /\ updatedParams' = updatedParams \o With(address)
  /\ UNCHANGED <<pc, input, managerVars, variablesLeft, variable, params, searchVars>>

UpdateParams ==
  /\ pc = "addresses"
  /\ addresses = {}
  /\ params' = updatedParams
  /\ updatedParams' = <<>>
  /\ variable' = NoVariable
  /\ pc' = "params"
  /\ UNCHANGED <<input, managerVars, variablesLeft, addresses, searchVars>>

TemplateParamsCreated ==
  /\ Uses("TemplateManager")
  /\ variablesLeft = {}
  /\ pc' = "search"
  /\ UNCHANGED <<input, managerVars, loopVars, params, searchVars>>

(* One params for each argument: they are not combined.                    *)
CreateFixedTemplateParams ==
  /\ Uses("TemplateManagerFixedArguments")
  /\ params' = [n \in DOMAIN fixedArguments \cap DOMAIN input.arguments |->
                 Add(<<>>, fixedArguments[n], input.arguments[n])]
  /\ pc' = "search"
  /\ UNCHANGED <<input, managerVars, loopVars, searchVars>>

-----------------------------------------------------------------------------
(* The search.                                                             *)

(* getTemplateLinksContent: each searcher has links of its own to compare. *)
ComparesLink ==
  /\ input.withLinks
  /\ \/ input.searcher = "General"
     \/ input.searcher = "InStructures" /\ input.link \in input.content

IsContentIdentical(match) == ComparesLink => match \in input.identical

(* isValidElement for all elements of the match.                           *)
ElementsAreValid(match) == Range(match) \subseteq input.content
AccessEdgesAreValid(match) == \A v \in EdgeVariables : match[v] \in input.content

IsValid(match) ==
  /\ IsContentIdentical(match)
  /\ input.searcher = "InStructures" => ElementsAreValid(match)
  /\ input.searcher = "OnlyAccessEdgesInStructures" => AccessEdgesAreValid(match)

(* The general searcher stops at the first match with links.               *)
StopsAtFirst ==
  \/ input.usingType = "REPLACEMENTS_FIRST"
  \/ input.searcher = "General" /\ input.withLinks

(* A param of a variable that the template does not have is ignored.       *)
Fits(match, param) == \A v \in DOMAIN param \cap Variables : match[v] = param[v]

MatchesOf(param) == {match \in input.knowledge : IsValid(match) /\ Fits(match, param)}

(* Mutant of Hits: the first match is taken before it is tested.           *)
HitsUntested(param) ==
  LET fitting == {match \in input.knowledge : Fits(match, param)}
  IN  IF StopsAtFirst /\ fitting # {}
        THEN {IF IsValid(match) THEN <<match>> ELSE <<>> : match \in fitting}
        ELSE SetToSeqs(MatchesOf(param))

(* The matches that a search for one params may find.                      *)
Hits(param) ==
  IF StopsAtFirst /\ MatchesOf(param) # {} THEN {<<match>> : match \in MatchesOf(param)}
  ELSE SetToSeqs(MatchesOf(param))

Row(r, v) == IF v \in DOMAIN r THEN r[v] ELSE <<>>

(* Mutant of AddHits: the search starts with empty rows each time.         *)
AddHitsAfresh(r, hits) ==
  IF hits = <<>> THEN r
  ELSE [v \in Variables |-> [n \in DOMAIN hits |-> hits[n][v]]]

AddHits(r, hits) ==
  IF hits = <<>> THEN r
  ELSE [v \in Variables |-> Row(r, v) \o [n \in DOMAIN hits |-> hits[n][v]]]

(* Without arguments: one search, without params.                          *)
SearchWithoutArguments ==
  /\ pc = "params"
  /\ input.arguments = <<>>
  /\ \E hits \in Hits(<<>>) : result' = AddHits(result, hits)
  /\ pc' = "done"
  /\ UNCHANGED <<input, managerVars, loopVars, params, next, searchResults>>

(* Mutant of Adjusted: the param replaces those of the params before it.   *)
AdjustedOverwrites(found, param) ==
  [v \in DOMAIN found |-> IF v \in DOMAIN param THEN <<param[v]>> ELSE found[v]]

(* The row of a variable that has a param gets the param, whatever this    *)
(* params found; any other row is what all params so far found.            *)
Adjusted(found, param) ==
  [v \in DOMAIN found |-> IF v \in DOMAIN param THEN Append(Row(result, v), param[v])
                          ELSE found[v]]

SearchParams ==
  /\ pc = "search"
  /\ next <= Len(params)
  /\ \E hits \in Hits(params[next]) : searchResults' = AddHits(searchResults, hits)
  /\ result' = Adjusted(searchResults', params[next])
  /\ next' = next + 1
  /\ UNCHANGED <<pc, input, managerVars, loopVars, params>>

Searched ==
  /\ pc = "search"
  /\ next > Len(params)
  /\ pc' = "done"
  /\ UNCHANGED <<input, managerVars, loopVars, params, searchVars>>

(* result.value.                                                           *)
ResultValue == DOMAIN result # {}

Computed ==
  /\ pc = "done"
  /\ UNCHANGED vars

Next ==
  \/ UseTemplateManager
  \/ UseTemplateManagerFixedArguments
  \/ AddFixedArgument
  \/ FixedArgumentsFilled
  \/ SkipVariable
  \/ TakeVariable
  \/ CopyParams
  \/ UpdateParams
  \/ TemplateParamsCreated
  \/ CreateFixedTemplateParams
  \/ SearchWithoutArguments
  \/ SearchParams
  \/ Searched
  \/ Computed

Spec == Init /\ [][Next]_vars

-----------------------------------------------------------------------------
(* Properties.                                                             *)

(* The ways to give arguments to those of the variables that some argument *)
(* is in a class of, each variable an argument of one of its classes.      *)
AssignmentsOf(variables) ==
  LET typed == {v \in variables : Addresses(v) # {}}
  IN  IF typed = {} THEN {}
      ELSE {p \in [typed -> Range(input.arguments)] : \A v \in typed : p[v] \in Addresses(v)}

(* With fixed arguments: the n-th argument for the variable under rrel_n,  *)
(* as long as no role up to n is missing.                                  *)
FixedAssignments ==
  LET reached == {n \in DOMAIN input.arguments :
                    n <= MaxFixedArguments /\ 1 .. n \subseteq DOMAIN input.roles}
  IN  {Add(<<>>, input.roles[n], input.arguments[n]) : n \in reached}

Intended == IF 1 \in DOMAIN input.roles THEN FixedAssignments ELSE AssignmentsOf(NodeVariables)

(* createTemplateParams makes every such assignment, in whatever order the *)
(* variables come, and each of them once, unless a fixed argument is given *)
(* an argument twice.                                                      *)
ParamsAreAssignments ==
  pc \in {"search", "done"} /\ input.arguments # <<>> =>
    /\ Range(params) = Intended
    /\ 1 \notin DOMAIN input.roles \/ IsInjective(input.arguments) => IsInjective(params)

(* What the formula is searched with.                                      *)
Searches == IF input.arguments = <<>> THEN {<<>>} ELSE Intended

(* The formula is true (its replacements are not empty) just when the      *)
(* searched structures hold a match of it for some assignment.  (Without   *)
(* variables there are no replacements.)                                   *)
TrueIffMatched ==
  pc = "done" /\ Variables # {} =>
    (ResultValue <=> \E param \in Searches : MatchesOf(param) # {})

IsMatrix(r) == \A v, w \in DOMAIN r : Len(r[v]) = Len(r[w])

Columns(r) ==
  {[v \in DOMAIN r |-> r[v][n]] : n \in UNION {DOMAIN r[v] : v \in DOMAIN r}}

(* Every params finds one match, after any that found none.                *)
OneHitEach ==
  \A n \in DOMAIN params :
    /\ StopsAtFirst \/ \A match, other \in MatchesOf(params[n]) : match = other
    /\ MatchesOf(params[n]) = {} => \A m \in 1 .. n : MatchesOf(params[m]) = {}

(* What a search was to find is among the matches `found`: one match if it *)
(* stops at the first, all of them otherwise.                              *)
Finds(found, param) ==
  /\ ~StopsAtFirst => MatchesOf(param) \subseteq found
  /\ MatchesOf(param) # {} => MatchesOf(param) \cap found # {}

(* Then the columns are the matches found, and no others; so they are      *)
(* without arguments, however many there are.                              *)
ColumnsAreHits ==
  pc = "done" /\ Variables # {} /\ (input.arguments = <<>> \/ OneHitEach) =>
    /\ IsMatrix(result)
    /\ Columns(result) \subseteq UNION {MatchesOf(param) : param \in Searches}
    /\ \A param \in Searches : Finds(Columns(result), param)

(* A match that was found is not lost, whatever the params before and      *)
(* after it found: its values are in the rows.                             *)
NoHitLost ==
  LET present == {match \in input.knowledge :
                    \A v \in Variables : match[v] \in Range(Row(result, v))}
  IN  pc = "done" => \A param \in Searches : Finds(present, param)

(* scl-machine.tex:210: a tuple of replacements makes the formula true, so *)
(* a column of nodes (edges are not given to the generation) is part of a  *)
(* match.                                                                  *)
ColumnsAreMatches ==
  LET nodes == Restrict(result, NodeVariables \cap DOMAIN result)
  IN  pc = "done" /\ IsMatrix(nodes) =>
        \A column \in Columns(nodes) :
          \E match \in MatchesOf(<<>>) : column = Restrict(match, DOMAIN column)
=============================================================================
