----------------------------- MODULE SolutionTree -----------------------------
(***************************************************************************)
(* Solution trees in the sc-memory: inference agents that write them       *)
(* (SolutionTreeGenerator) and agents that delete them                     *)
(* (DeleteSolutionAgent, DeleteSolutionManager), at the same time.         *)
(*                                                                         *)
(* Solution g is the node <<"solution", g>>.  Its k-th tree node refers to *)
(* a formula and to the substitutions node, a set of pairs of a            *)
(* replacement and a variable; besides, each pair has a temporary arc from *)
(* the variable to the replacement.  Arcs whose ends exist exactly when    *)
(* both were created and neither is erased are not represented.  An arc to *)
(* an element that is erased is not created.                               *)
(***************************************************************************)
EXTENDS Integers, FiniteSets

CONSTANTS
  Solutions,     (* the solutions, each written by one inference           *)
  Deleters,      (* actions of the delete agent, initiated at any moment   *)
  Scenarios,     (* which solutions are deleted, and how large they grow   *)
  Variables,
  Values,
  None,          (* the invalid ScAddr                                     *)
  MaxNodes       (* bound: nodes in a tree                                 *)

ASSUME MaxNodesAssumption == MaxNodes \in Nat
ASSUME ScenariosAssumption ==
  Scenarios \subseteq [solution: [Deleters -> Solutions], size: [Solutions -> 0 .. MaxNodes]]

Columns == [Variables -> Values]

Nodes == {"node"} \X Solutions \X (1 .. MaxNodes)

ASSUME NoneAssumption == None \notin Nodes \cup Columns

RootOf(g) == <<"solution", g>>
SubstitutionsOf(n) == <<"substitutions", n[2], n[3]>>
PairOf(n, v) == <<"pair", n[2], n[3], v>>
Pairs == {PairOf(n, v) : n \in Nodes, v \in Variables}
Elements ==
  {RootOf(g) : g \in Solutions} \cup Nodes \cup {SubstitutionsOf(n) : n \in Nodes} \cup Pairs

VARIABLES
  elements,   (* the elements that exist                                   *)
  column,     (* column[node]: the replacements the node was created with  *)
  linked,     (* the nodes that have an arc from their solution            *)
  first,      (* the nodes under rrel_1 of their solution                  *)
  follows,    (* nrel_basic_sequence: pairs of linked nodes                *)
  arcs,       (* temporary arcs: variable, replacement, the creating node  *)
  generator,  (* generator[g]: where the inference stands                  *)
  last,       (* last[g]: lastSolutionNode                                 *)
  size,       (* size[g]: how many nodes the inference adds at most        *)
  deleter,    (* deleter[d]: where the action stands                       *)
  solution,   (* solution[d]: its argument                                 *)
  nodesLeft,  (* ruleAndSubstitutionPairs the loop has not come to         *)
  node,       (* ruleAndSubstitutionPair                                   *)
  pairsLeft,  (* substitutionPairs the loop has not come to                *)
  pair,       (* substitutionPair                                          *)
  disturbed   (* solutions somebody began to delete while they grew        *)

treeVars == <<elements, linked, first, follows>>
generatorVars == <<generator, last, column, size>>
deleterVars == <<deleter, solution, nodesLeft, node, pairsLeft, pair>>
vars == <<treeVars, arcs, generatorVars, deleterVars, disturbed>>

TypeOK ==
  /\ elements \subseteq Elements
  /\ column \in [Nodes -> Columns \cup {None}]
  /\ linked \subseteq Nodes
  /\ first \subseteq linked
  /\ follows \subseteq linked \X linked
  /\ arcs \subseteq Variables \X Values \X Nodes
  /\ generator \in [Solutions -> {"idle", "link", "append", "done"}]
  /\ last \in [Solutions -> Nodes \cup {None}]
  /\ deleter \in [Deleters -> {"idle", "check", "list", "eraseSolution", "nodes",
                               "findSubstitutions", "eraseNode", "listPairs",
                               "eraseSubstitutions", "pairs", "findReplacement", "erasePair",
                               "deleteArcs", "finished", "failed"}]
  /\ solution \in [Deleters -> Solutions]
  /\ size \in [Solutions -> 0 .. MaxNodes]
  /\ nodesLeft \in [Deleters -> SUBSET Nodes]
  /\ node \in [Deleters -> Nodes \cup {None}]
  /\ pairsLeft \in [Deleters -> SUBSET Pairs]
  /\ pair \in [Deleters -> Pairs \cup {None}]
  /\ disturbed \subseteq Solutions

Init ==
  /\ elements = {RootOf(g) : g \in Solutions}
  /\ column = [n \in Nodes |-> None]
  /\ linked = {}
  /\ first = {}
  /\ follows = {}
  /\ arcs = {}
  /\ generator = [g \in Solutions |-> "idle"]
  /\ last = [g \in Solutions |-> None]
  /\ deleter = [d \in Deleters |-> "idle"]
  /\ \E scenario \in Scenarios :
       solution = scenario.solution /\ size = scenario.size
  /\ nodesLeft = [d \in Deleters |-> {}]
  /\ node = [d \in Deleters |-> None]
  /\ pairsLeft = [d \in Deleters |-> {}]
  /\ pair = [d \in Deleters |-> None]
  /\ disturbed = {}

Exists(element) == element \in elements

(* Mutant of Erase: the arcs between arcs are left.                        *)
EraseDangling(gone) ==
  /\ elements' = elements \ gone
  /\ linked' = {n \in linked : n \notin gone /\ RootOf(n[2]) \notin gone}
  /\ first' = first \cap linked'
  /\ follows' = follows

(* EraseElement: the element and the arcs at it.                           *)
Erase(gone) ==
  /\ elements' = elements \ gone
  /\ linked' = {n \in linked : n \notin gone /\ RootOf(n[2]) \notin gone}
  /\ first' = first \cap linked'
  /\ follows' = follows \cap (linked' \X linked')

-----------------------------------------------------------------------------
(* SolutionTreeGenerator.                                                  *)

Created(g) == {n \in Nodes : n[2] = g /\ column[n] # None}
NewNode(g) == <<"node", g, Cardinality(Created(g)) + 1>>
LatestNode(g) == <<"node", g, Cardinality(Created(g))>>

GeneratorAt(g, from, to) ==
  /\ generator[g] = from
  /\ generator' = [generator EXCEPT ![g] = to]

(* createSolutionNode: nothing refers to the node yet.  The replacements   *)
(* given to addNode have all variables, so that it does not throw.         *)
CreateSolutionNode(g) ==
  /\ GeneratorAt(g, "idle", "link")
  /\ Cardinality(Created(g)) < size[g]
  /\ \E c \in Columns :
       LET new == NewNode(g)
       IN  /\ column' = [column EXCEPT ![new] = c]
           /\ elements' = elements \cup {new, SubstitutionsOf(new)} \cup
                            {PairOf(new, v) : v \in Variables}
           /\ arcs' = arcs \cup {<<v, c[v], new>> : v \in Variables}
  /\ UNCHANGED <<linked, first, follows, last, size, deleterVars, disturbed>>

(* The first node goes under rrel_1.                                       *)
AddFirstNode(g) ==
  /\ GeneratorAt(g, "link", "idle")
  /\ last[g] = None
  /\ LET new == {n \in {LatestNode(g)} : Exists(RootOf(g))}
     IN  linked' = linked \cup new /\ first' = first \cup new
  /\ last' = [last EXCEPT ![g] = LatestNode(g)]
  /\ UNCHANGED <<elements, column, size, follows, arcs, deleterVars, disturbed>>

(* lastSolutionNodeArcIterator->Next().                                    *)
LastNodeFound(g) ==
  /\ GeneratorAt(g, "link", "append")
  /\ last[g] \in linked
  /\ UNCHANGED <<treeVars, arcs, last, column, size, deleterVars, disturbed>>

(* addNode returns false, yet the node becomes the last one.               *)
LastNodeNotFound(g) ==
  /\ GeneratorAt(g, "link", "idle")
  /\ last[g] # None
  /\ last[g] \notin linked
  /\ last' = [last EXCEPT ![g] = LatestNode(g)]
  /\ UNCHANGED <<treeVars, arcs, column, size, deleterVars, disturbed>>

(* Mutant of AddNode: the new node does not become the last one.           *)
AddNodeKeepsLast(g) ==
  /\ GeneratorAt(g, "append", "idle")
  /\ LET new == {n \in {LatestNode(g)} : Exists(RootOf(g))}
     IN  /\ linked' = linked \cup new
         /\ follows' = follows \cup (({last[g]} \cap linked) \X new)
  /\ UNCHANGED <<elements, last, first, column, size, arcs, deleterVars, disturbed>>

(* The arcs of the last node and of the new one become neighbours.         *)
AddNode(g) ==
  /\ GeneratorAt(g, "append", "idle")
  /\ LET new == {n \in {LatestNode(g)} : Exists(RootOf(g))}
     IN  /\ linked' = linked \cup new
         /\ follows' = follows \cup (({last[g]} \cap linked) \X new)
  /\ last' = [last EXCEPT ![g] = LatestNode(g)]
  /\ UNCHANGED <<elements, first, column, size, arcs, deleterVars, disturbed>>

(* createSolution: the verdict and the output structure.                   *)
CreateSolution(g) ==
  /\ GeneratorAt(g, "idle", "done")
  /\ UNCHANGED <<treeVars, arcs, last, column, size, deleterVars, disturbed>>

-----------------------------------------------------------------------------
(* DeleteSolutionAgent and DeleteSolutionManager.                          *)

DeleterAt(d, from, to) ==
  /\ deleter[d] = from
  /\ deleter' = [deleter EXCEPT ![d] = to]

Root(d) == RootOf(solution[d])

unlistedVars == <<solution, nodesLeft, node, pairsLeft, pair>>
writerVars == <<arcs, generatorVars>>

StartDeletion(d) ==
  /\ DeleterAt(d, "idle", IF Exists(Root(d)) THEN "check" ELSE "failed")
  /\ disturbed' = disturbed \cup {g \in {solution[d]} : generator[g] # "done"}
  /\ UNCHANGED <<treeVars, writerVars, unlistedVars>>

CheckSolution(d) ==
  /\ DeleterAt(d, "check", IF Exists(Root(d)) THEN "list" ELSE "failed")
  /\ UNCHANGED <<treeVars, writerVars, unlistedVars, disturbed>>

(* getListFromSet(solution).                                               *)
ListNodes(d) ==
  /\ DeleterAt(d, "list", "eraseSolution")
  /\ nodesLeft' = [nodesLeft EXCEPT ![d] = {n \in linked : n[2] = solution[d]}]
  /\ UNCHANGED <<treeVars, writerVars, solution, node, pairsLeft, pair, disturbed>>

(* Mutant of EraseSolution: the solution is left to be erased at the end.  *)
EraseSolutionLater(d) ==
  /\ DeleterAt(d, "eraseSolution", "nodes")
  /\ UNCHANGED <<treeVars, writerVars, unlistedVars, disturbed>>

EraseSolution(d) ==
  /\ DeleterAt(d, "eraseSolution", "nodes")
  /\ Erase({Root(d)})
  /\ UNCHANGED <<writerVars, unlistedVars, disturbed>>

(* Mutant of SkipNode: the loop tests the same node again.                 *)
SkipNodeStays(d) ==
  /\ DeleterAt(d, "nodes", "nodes")
  /\ \E n \in nodesLeft[d] : ~Exists(n)
  /\ UNCHANGED <<treeVars, writerVars, unlistedVars, disturbed>>

(* A node somebody else erased is passed over.                             *)
SkipNode(d) ==
  /\ DeleterAt(d, "nodes", "nodes")
  /\ \E n \in nodesLeft[d] :
       /\ ~Exists(n)
       /\ nodesLeft' = [nodesLeft EXCEPT ![d] = @ \ {n}]
  /\ UNCHANGED <<treeVars, writerVars, solution, node, pairsLeft, pair, disturbed>>

TakeNode(d) ==
  /\ DeleterAt(d, "nodes", "findSubstitutions")
  /\ \E n \in nodesLeft[d] :
       /\ Exists(n)
       /\ nodesLeft' = [nodesLeft EXCEPT ![d] = @ \ {n}]
       /\ node' = [node EXCEPT ![d] = n]
  /\ UNCHANGED <<treeVars, writerVars, solution, pairsLeft, pair, disturbed>>

(* The substitutions of a node that somebody erased meanwhile are not      *)
(* found: there is nothing left to do for it.                              *)
FindSubstitutions(d) ==
  /\ DeleterAt(d, "findSubstitutions", IF Exists(node[d]) THEN "eraseNode" ELSE "nodes")
  /\ UNCHANGED <<treeVars, writerVars, unlistedVars, disturbed>>

EraseNode(d) ==
  /\ DeleterAt(d, "eraseNode", "listPairs")
  /\ Erase({node[d]})
  /\ UNCHANGED <<writerVars, unlistedVars, disturbed>>

PairsOf(n) == {PairOf(n, v) : v \in Variables} \cap elements

(* Mutant of ListPairs: the node, which is erased, is tested in place of   *)
(* its substitutions.                                                      *)
ListPairsOfNode(d) ==
  /\ DeleterAt(d, "listPairs", IF Exists(node[d]) THEN "eraseSubstitutions" ELSE "nodes")
  /\ pairsLeft' = [pairsLeft EXCEPT ![d] = IF Exists(node[d]) THEN PairsOf(node[d]) ELSE {}]
  /\ UNCHANGED <<treeVars, writerVars, solution, nodesLeft, node, pair, disturbed>>

ListPairs(d) ==
  /\ DeleterAt(d, "listPairs", IF Exists(SubstitutionsOf(node[d])) THEN "eraseSubstitutions" ELSE "nodes")
  /\ pairsLeft' = [pairsLeft EXCEPT ![d] =
                    IF Exists(SubstitutionsOf(node[d])) THEN PairsOf(node[d]) ELSE {}]
  /\ UNCHANGED <<treeVars, writerVars, solution, nodesLeft, node, pair, disturbed>>

EraseSubstitutions(d) ==
  /\ DeleterAt(d, "eraseSubstitutions", "pairs")
  /\ Erase({SubstitutionsOf(node[d])})
  /\ UNCHANGED <<writerVars, unlistedVars, disturbed>>

SkipPair(d) ==
  /\ DeleterAt(d, "pairs", "pairs")
  /\ \E p \in pairsLeft[d] :
       /\ ~Exists(p)
       /\ pairsLeft' = [pairsLeft EXCEPT ![d] = @ \ {p}]
  /\ UNCHANGED <<treeVars, writerVars, solution, nodesLeft, node, pair, disturbed>>

TakePair(d) ==
  /\ DeleterAt(d, "pairs", "findReplacement")
  /\ \E p \in pairsLeft[d] :
       /\ Exists(p)
       /\ pairsLeft' = [pairsLeft EXCEPT ![d] = @ \ {p}]
       /\ pair' = [pair EXCEPT ![d] = p]
  /\ UNCHANGED <<treeVars, writerVars, solution, nodesLeft, node, disturbed>>

FindReplacement(d) ==
  /\ DeleterAt(d, "findReplacement", IF Exists(pair[d]) THEN "erasePair" ELSE "pairs")
  /\ UNCHANGED <<treeVars, writerVars, unlistedVars, disturbed>>

ErasePair(d) ==
  /\ DeleterAt(d, "erasePair", "deleteArcs")
  /\ Erase({pair[d]})
  /\ UNCHANGED <<writerVars, unlistedVars, disturbed>>

(* Mutant of DeleteEdges: all temporary arcs of the variable are erased.   *)
DeleteEdgesOfVariable(d) ==
  /\ DeleterAt(d, "deleteArcs", "pairs")
  /\ arcs' = {arc \in arcs : arc[1] # pair[d][4]}
  /\ pair' = [pair EXCEPT ![d] = None]
  /\ UNCHANGED <<treeVars, generatorVars, solution, nodesLeft, node, pairsLeft, disturbed>>

(* All temporary arcs between the variable and the replacement, whichever  *)
(* solution they were made for.                                            *)
DeleteEdges(d) ==
  /\ DeleterAt(d, "deleteArcs", "pairs")
  /\ LET v == pair[d][4]
     IN  arcs' = {arc \in arcs : arc[1] # v \/ arc[2] # column[node[d]][v]}
  /\ pair' = [pair EXCEPT ![d] = None]
  /\ UNCHANGED <<treeVars, generatorVars, solution, nodesLeft, node, pairsLeft, disturbed>>

PairsDeleted(d) ==
  /\ pairsLeft[d] = {}
  /\ DeleterAt(d, "pairs", "nodes")
  /\ node' = [node EXCEPT ![d] = None]
  /\ UNCHANGED <<treeVars, writerVars, solution, nodesLeft, pairsLeft, pair, disturbed>>

NodesDeleted(d) ==
  /\ nodesLeft[d] = {}
  /\ DeleterAt(d, "nodes", "finished")
  /\ UNCHANGED <<treeVars, writerVars, unlistedVars, disturbed>>

-----------------------------------------------------------------------------
Generate(g) ==
  \/ CreateSolutionNode(g)
  \/ AddFirstNode(g)
  \/ LastNodeFound(g)
  \/ LastNodeNotFound(g)
  \/ AddNode(g)
  \/ CreateSolution(g)

Delete(d) ==
  \/ CheckSolution(d)
  \/ ListNodes(d)
  \/ EraseSolution(d)
  \/ SkipNode(d)
  \/ TakeNode(d)
  \/ FindSubstitutions(d)
  \/ EraseNode(d)
  \/ ListPairs(d)
  \/ EraseSubstitutions(d)
  \/ SkipPair(d)
  \/ TakePair(d)
  \/ FindReplacement(d)
  \/ ErasePair(d)
  \/ DeleteEdges(d)
  \/ PairsDeleted(d)
  \/ NodesDeleted(d)

Next ==
  \/ \E g \in Solutions : Generate(g)
  \/ \E d \in Deleters : StartDeletion(d) \/ Delete(d)

(* An agent that began to delete goes on.                                  *)
Spec == Init /\ [][Next]_vars /\ \A d \in Deleters : WF_vars(Delete(d))

-----------------------------------------------------------------------------
(* Properties.                                                             *)

Deleting(g) ==
  {d \in Deleters : solution[d] = g /\ deleter[d] \notin {"idle", "finished", "failed"}}

ElementsOf(g) == {element \in elements : element[2] = g}

(* While a solution exists its tree is whole, even if somebody is about to *)
(* delete it: its nodes are those of the formulas applied, in the order in *)
(* which they were applied, each with its substitutions.                   *)
TreeIsWhole ==
  \A g \in Solutions :
    Exists(RootOf(g)) /\ generator[g] \in {"idle", "done"} =>
      /\ {n \in linked : n[2] = g} = Created(g)
      /\ {n \in first : n[2] = g} = {n \in Created(g) : n[3] = 1}
      /\ {f \in follows : f[1][2] = g} =
           {f \in Created(g) \X Created(g) : f[2][3] = f[1][3] + 1}
      /\ \A n \in Created(g) :
           /\ Exists(n) /\ Exists(SubstitutionsOf(n))
           /\ \A v \in Variables : Exists(PairOf(n, v))

(* scl-machine.tex, the answer of the delete agent: when a complete        *)
(* solution was deleted, by one agent or by several, nothing is left of    *)
(* its tree and none of its temporary arcs.                                *)
NothingLeft ==
  \A d \in Deleters :
    LET g == solution[d]
    IN  deleter[d] = "finished" /\ Deleting(g) = {} /\ g \notin disturbed =>
          /\ ElementsOf(g) = {}
          /\ \A arc \in arcs : arc[3][2] # g

Whole(n) ==
  Exists(n) /\ Exists(SubstitutionsOf(n)) /\ \A v \in Variables : Exists(PairOf(n, v))

Gone(n) ==
  /\ ~Exists(n) /\ ~Exists(SubstitutionsOf(n))
  /\ \A v \in Variables : ~Exists(PairOf(n, v))
  /\ \A arc \in arcs : arc[3] # n

(* A deletion that meets an inference still writing the solution may leave *)
(* nodes it has not listed, but when nobody deletes any more each node is  *)
(* whole or gone with its arcs, and those gone are a beginning of the      *)
(* tree: what is left is what the inference added last.                    *)
BeginningIsErased ==
  \A g \in Solutions : Deleting(g) = {} =>
    \A n \in Created(g) :
      \/ Whole(n)
      \/ Gone(n) /\ \A m \in Created(g) : m[3] < n[3] => Gone(m)

(* A temporary arc of an existing solution disappears only because a node  *)
(* of some solution being deleted has the same variable and replacement.   *)
ArcsKept ==
  \A n \in linked : \A v \in Variables :
    \/ <<v, column[n][v], n>> \in arcs
    \/ \E m \in Nodes \ {n} :
         ~Exists(m) /\ column[m] # None /\ column[m][v] = column[n][v]

(* Each deletion ends, whatever the other agents do.                       *)
DeletionEnds ==
  \A d \in Deleters :
    (deleter[d] = "check") ~> (deleter[d] \in {"finished", "failed"})
=============================================================================
