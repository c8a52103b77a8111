-------------------------- MODULE SolutionTree_proofs --------------------------
(***************************************************************************)
(* Proofs about SolutionTree: what the inferences that write solution      *)
(* trees and the agents that delete them promise each other, for any       *)
(* number of solutions, of agents and of nodes.                            *)
(***************************************************************************)
EXTENDS SolutionTree, FiniteSetTheorems, TLAPS

-----------------------------------------------------------------------------
(* The invariant.                                                          *)

NodeOf(g, k) == <<"node", g, k>>

Amount(g) == Cardinality(Created(g))

(* The node that addNode has created but not linked yet.                   *)
Pending(g) == IF generator[g] \in {"link", "append"} THEN 1 ELSE 0

(* The nodes of a solution are numbered in the order of their creation,    *)
(* and lastSolutionNode is the last one that addNode has come to.          *)
Counted(g) ==
  /\ IsFiniteSet(Created(g))
  /\ Created(g) = {NodeOf(g, k) : k \in 1 .. Amount(g)}
  /\ Amount(g) <= size[g]
  /\ generator[g] = "link" => Amount(g) >= 1
  /\ generator[g] = "append" => Amount(g) >= 2
  /\ last[g] = IF Amount(g) = Pending(g) THEN None ELSE NodeOf(g, Amount(g) - Pending(g))

Attached(n) == column[n] # None /\ n[3] <= Amount(n[2]) - Pending(n[2])

(* A solution that exists has all nodes that were linked, in their order;  *)
(* one that was erased has none, and gets none.                            *)
Ordered ==
  /\ linked = {n \in Nodes : Exists(RootOf(n[2])) /\ Attached(n)}
  /\ first = {n \in linked : n[3] = 1}
  /\ follows = {f \in linked \X linked : f[1][2] = f[2][2] /\ f[2][3] = f[1][3] + 1}

(* No part of a tree is erased before the solution is.                     *)
Untouched(n) ==
  column[n] # None /\ Exists(RootOf(n[2])) =>
    /\ Exists(n) /\ Exists(SubstitutionsOf(n))
    /\ \A v \in Variables : Exists(PairOf(n, v))

(* Only parts of nodes that were created exist.                            *)
Known(n) ==
  \/ Exists(n) \/ Exists(SubstitutionsOf(n)) \/ \E v \in Variables : Exists(PairOf(n, v))
  => column[n] # None

KnownArc(arc) == column[arc[3]] # None /\ arc = <<arc[1], column[arc[3]][arc[1]], arc[3]>>

AtPair(d) == deleter[d] \in {"findReplacement", "erasePair", "deleteArcs"}
AtPairs(d) == deleter[d] = "pairs" \/ AtPair(d)
AtNode(d) ==
  \/ deleter[d] \in {"findSubstitutions", "eraseNode", "listPairs", "eraseSubstitutions"}
  \/ AtPairs(d)
AtNodes(d) == deleter[d] = "nodes" \/ AtNode(d)

(* What a deletion has done by now, and what it is about to do.            *)
Advanced(d) ==
  /\ AtNodes(d) \/ deleter[d] = "finished" => ~Exists(Root(d))
  /\ \A n \in nodesLeft[d] : n[2] = solution[d] /\ column[n] # None
  /\ AtNode(d) =>
       node[d] \in Nodes /\ node[d][2] = solution[d] /\ column[node[d]] # None
  /\ deleter[d] \in {"listPairs", "eraseSubstitutions"} \/ AtPairs(d) => ~Exists(node[d])
  /\ AtPairs(d) => ~Exists(SubstitutionsOf(node[d]))
  /\ AtPair(d) => \E v \in Variables : pair[d] = PairOf(node[d], v)
  /\ deleter[d] = "deleteArcs" => ~Exists(pair[d])
  /\ deleter[d] = "eraseSubstitutions" => PairsOf(node[d]) \subseteq pairsLeft[d]
  /\ deleter[d] = "eraseSubstitutions" \/ AtPairs(d) =>
       pairsLeft[d] \subseteq {PairOf(node[d], v) : v \in Variables}
  /\ deleter[d] = "finished" => nodesLeft[d] = {}

(* An undisturbed solution was complete before anybody began to delete it, *)
(* and who is about to erase it knows all its nodes.                       *)
Undisturbed(g) ==
  g \notin disturbed =>
    /\ ~Exists(RootOf(g)) => generator[g] = "done"
    /\ \A d \in Deleters : solution[d] = g =>
         /\ deleter[d] # "idle" => generator[g] = "done"
         /\ deleter[d] = "eraseSolution" /\ Exists(RootOf(g)) => Created(g) \subseteq nodesLeft[d]

(* Whatever is left of an erased solution is in the hands of a deletion    *)
(* that will still come to it.                                             *)
HoldsNode(d, n) ==
  \/ AtNodes(d) /\ n \in nodesLeft[d]
  \/ deleter[d] \in {"findSubstitutions", "eraseNode"} /\ node[d] = n

HoldsSubstitutions(d, n) ==
  deleter[d] \in {"eraseNode", "listPairs", "eraseSubstitutions"} /\ node[d] = n

HoldsPair(d, n, v) ==
  /\ node[d] = n
  /\ \/ AtPairs(d) /\ PairOf(n, v) \in pairsLeft[d]
     \/ deleter[d] \in {"findReplacement", "erasePair"} /\ pair[d] = PairOf(n, v)

HoldsArc(d, n, v) ==
  deleter[d] \in {"erasePair", "deleteArcs"} /\ node[d] = n /\ pair[d] = PairOf(n, v)

NodeHeld(n) ==
  n[2] \notin disturbed /\ Exists(n) /\ ~Exists(RootOf(n[2])) => \E d \in Deleters : HoldsNode(d, n)

SubstitutionsHeld(n) ==
  Exists(SubstitutionsOf(n)) /\ ~Exists(n) => \E d \in Deleters : HoldsSubstitutions(d, n)

PairHeld(n, v) ==
  Exists(PairOf(n, v)) /\ ~Exists(SubstitutionsOf(n)) => \E d \in Deleters : HoldsPair(d, n, v)

ArcHeld(n, v) ==
  column[n] # None /\ <<v, column[n][v], n>> \in arcs /\ ~Exists(PairOf(n, v)) =>
    \E d \in Deleters : HoldsArc(d, n, v)

(* What erased the arc of a node that exists was another node's deletion.  *)
ArcKept(n, v) ==
  Exists(n) =>
    \/ <<v, column[n][v], n>> \in arcs
    \/ \E m \in Nodes \ {n} : ~Exists(m) /\ column[m] # None /\ column[m][v] = column[n][v]

Trees ==
  /\ \A g \in Solutions : Counted(g)
  /\ Ordered
  /\ \A n \in Nodes : Untouched(n) /\ Known(n)
  /\ \A arc \in arcs : KnownArc(arc)
  /\ \A n \in Nodes : \A v \in Variables : ArcKept(n, v)

Deletions ==
  /\ \A d \in Deleters : Advanced(d)
  /\ \A g \in Solutions : Undisturbed(g)
  /\ \A n \in Nodes : NodeHeld(n) /\ SubstitutionsHeld(n)
  /\ \A n \in Nodes : \A v \in Variables : PairHeld(n, v) /\ ArcHeld(n, v)

TreeInv == TypeOK /\ Trees /\ Deletions

-----------------------------------------------------------------------------
(* The elements.                                                           *)

LEMMA NodeShape ==
  /\ \A n \in Nodes : /\ n = NodeOf(n[2], n[3])
                      /\ n[2] \in Solutions /\ n[3] \in 1 .. MaxNodes
  /\ \A g \in Solutions, k \in 1 .. MaxNodes :
       NodeOf(g, k) \in Nodes /\ NodeOf(g, k)[2] = g /\ NodeOf(g, k)[3] = k
BY DEF Nodes, NodeOf

(* Elements of different kinds, and elements of different nodes, are       *)
(* different.                                                              *)
LEMMA RootIsNoOther ==
  ASSUME NEW g, NEW n \in Nodes, NEW v
  PROVE  RootOf(g) # n /\ RootOf(g) # SubstitutionsOf(n) /\ RootOf(g) # PairOf(n, v)
<1>1. RootOf(g)[1] = "solution"
  BY DEF RootOf
<1>2. n[1] = "node" /\ SubstitutionsOf(n)[1] = "substitutions" /\ PairOf(n, v)[1] = "pair"
  BY DEF Nodes, SubstitutionsOf, PairOf
<1>. QED  BY <1>1, <1>2

LEMMA NodeIsNoOther ==
  ASSUME NEW n \in Nodes, NEW m \in Nodes, NEW v, NEW w
  PROVE  /\ n # SubstitutionsOf(m) /\ n # PairOf(m, v) /\ SubstitutionsOf(n) # PairOf(m, v)
         /\ SubstitutionsOf(n) = SubstitutionsOf(m) => n = m
         /\ PairOf(n, v) = PairOf(m, w) => n = m /\ v = w
<1>1. n[1] = "node" /\ SubstitutionsOf(m)[1] = "substitutions" /\ SubstitutionsOf(n)[1] = "substitutions"
      /\ PairOf(m, v)[1] = "pair"
  BY DEF Nodes, SubstitutionsOf, PairOf
<1>2. /\ n = NodeOf(n[2], n[3]) /\ m = NodeOf(m[2], m[3])
  BY NodeShape
<1>3. SubstitutionsOf(n) = SubstitutionsOf(m) => n = m
  BY <1>2 DEF SubstitutionsOf
<1>4. PairOf(n, v) = PairOf(m, w) => n = m /\ v = w
  BY <1>2 DEF PairOf
<1>. QED  BY <1>1, <1>3, <1>4

LEMMA RootsDiffer == ASSUME NEW g, NEW h, RootOf(g) = RootOf(h) PROVE g = h
BY DEF RootOf

LEMMA ElementsAre ==
  ASSUME TypeOK, NEW x \in elements
  PROVE  \/ \E g \in Solutions : x = RootOf(g)
         \/ x \in Nodes
         \/ \E n \in Nodes : x = SubstitutionsOf(n)
         \/ \E n \in Nodes, v \in Variables : x = PairOf(n, v)
BY DEF TypeOK, Elements, Pairs

LEMMA PairShape ==
  ASSUME NEW n, NEW v
  PROVE  PairOf(n, v)[4] = v /\ PairOf(n, v)[2] = n[2] /\ SubstitutionsOf(n)[2] = n[2]
BY DEF PairOf, SubstitutionsOf

-----------------------------------------------------------------------------
(* Types.                                                                  *)

(* The nodes of a solution that were created are the first ones.           *)
LEMMA CreatedAre ==
  ASSUME TypeOK, NEW g \in Solutions, Counted(g)
  PROVE  /\ Amount(g) \in Nat /\ Amount(g) <= size[g] /\ size[g] \in 0 .. MaxNodes
         /\ LatestNode(g) = NodeOf(g, Amount(g)) /\ NewNode(g) = NodeOf(g, Amount(g) + 1)
         /\ \A n \in Nodes : n[2] = g => (column[n] # None <=> n[3] <= Amount(g))
<1>1. Amount(g) \in Nat
  BY FS_CardinalityType DEF Counted, Amount
<1>2. size[g] \in 0 .. MaxNodes
  BY DEF TypeOK
<1>3. LatestNode(g) = NodeOf(g, Amount(g)) /\ NewNode(g) = NodeOf(g, Amount(g) + 1)
  BY DEF LatestNode, NewNode, NodeOf, Amount
<1>4. ASSUME NEW n \in Nodes, n[2] = g
      PROVE  column[n] # None <=> n[3] <= Amount(g)
  <2>1. n = NodeOf(g, n[3]) /\ n[3] \in 1 .. MaxNodes
    BY <1>4, NodeShape
  <2>2. column[n] # None <=> n \in Created(g)
    BY <1>4 DEF Created
  <2>3. n \in Created(g) <=> \E k \in 1 .. Amount(g) : n = NodeOf(g, k)
    BY DEF Counted
  <2>4. \A k : n = NodeOf(g, k) => k = n[3]
    BY DEF NodeOf
  <2>5. MaxNodes \in Nat
    BY MaxNodesAssumption
  <2>. QED  BY <1>1, <2>1, <2>2, <2>3, <2>4, <2>5
<1>. QED  BY <1>1, <1>2, <1>3, <1>4 DEF Counted

LEMMA TypeInit == Init => TypeOK
<1>. SUFFICES ASSUME Init PROVE TypeOK
  OBVIOUS
<1>1. PICK scenario \in Scenarios : solution = scenario.solution /\ size = scenario.size
  BY DEF Init
<1>2. solution \in [Deleters -> Solutions] /\ size \in [Solutions -> 0 .. MaxNodes]
  BY <1>1, ScenariosAssumption
<1>3. elements \subseteq Elements
  BY DEF Init, Elements
<1>. QED  BY <1>2, <1>3 DEF Init, TypeOK

LEMMA TypeGenerate ==
  ASSUME TypeOK, NEW g \in Solutions, Counted(g), Generate(g)
  PROVE  TypeOK'
<1>. USE DEF treeVars, generatorVars, deleterVars, GeneratorAt
<1>1. Amount(g) \in Nat /\ Amount(g) <= size[g] /\ size[g] \in 0 .. MaxNodes /\ MaxNodes \in Nat
  BY CreatedAre, MaxNodesAssumption
<1>2. CASE CreateSolutionNode(g)
  <2>1. PICK c \in Columns :
          /\ column' = [column EXCEPT ![NewNode(g)] = c]
          /\ elements' = elements \cup {NewNode(g), SubstitutionsOf(NewNode(g))} \cup
                           {PairOf(NewNode(g), v) : v \in Variables}
          /\ arcs' = arcs \cup {<<v, c[v], NewNode(g)>> : v \in Variables}
    BY <1>2 DEF CreateSolutionNode
  <2>2. NewNode(g) \in Nodes
    <3>1. Amount(g) < size[g]
      BY <1>2 DEF CreateSolutionNode, Amount
    <3>2. Amount(g) + 1 \in 1 .. MaxNodes
      BY <1>1, <3>1
    <3>. QED  BY <3>2, CreatedAre, NodeShape
  <2>3. elements' \subseteq Elements
    BY <2>1, <2>2 DEF TypeOK, Elements, Pairs
  <2>4. column' \in [Nodes -> Columns \cup {None}]
    BY <2>1, <2>2 DEF TypeOK
  <2>5. arcs' \subseteq Variables \X Values \X Nodes
    BY <2>1, <2>2 DEF TypeOK, Columns
  <2>6. generator' \in [Solutions -> {"idle", "link", "append", "done"}]
    BY <1>2 DEF CreateSolutionNode, TypeOK
  <2>. QED  BY <1>2, <2>3, <2>4, <2>5, <2>6 DEF CreateSolutionNode, TypeOK
<1>3. ASSUME generator[g] \in {"link", "append"}
      PROVE  LatestNode(g) \in Nodes
  <2>1. Amount(g) >= 1
    BY <1>1, <1>3 DEF Counted
  <2>. QED  BY <1>1, <2>1, CreatedAre, NodeShape
<1>4. CASE AddFirstNode(g)
  <2>1. LatestNode(g) \in Nodes
    BY <1>3, <1>4 DEF AddFirstNode
  <2>. QED  BY <1>4, <2>1 DEF AddFirstNode, TypeOK
<1>5. CASE LastNodeFound(g)
  BY <1>5 DEF LastNodeFound, TypeOK
<1>6. CASE LastNodeNotFound(g)
  <2>1. LatestNode(g) \in Nodes
    BY <1>3, <1>6 DEF LastNodeNotFound
  <2>. QED  BY <1>6, <2>1 DEF LastNodeNotFound, TypeOK
<1>7. CASE AddNode(g)
  <2>1. LatestNode(g) \in Nodes
    BY <1>3, <1>7 DEF AddNode
  <2>. QED  BY <1>7, <2>1 DEF AddNode, TypeOK
<1>8. CASE CreateSolution(g)
  BY <1>8 DEF CreateSolution, TypeOK
<1>. QED  BY <1>2, <1>4, <1>5, <1>6, <1>7, <1>8 DEF Generate

(* What no step of a deletion changes.                                     *)
DeleteFrame(d) ==
  /\ UNCHANGED <<generatorVars, solution>>
  /\ elements' \subseteq elements /\ arcs' \subseteq arcs /\ disturbed \subseteq disturbed'
  /\ \A x \in Deleters \ {d} :
       /\ deleter'[x] = deleter[x] /\ node'[x] = node[x] /\ pair'[x] = pair[x]
       /\ nodesLeft'[x] = nodesLeft[x] /\ pairsLeft'[x] = pairsLeft[x]

LEMMA TypeDelete ==
  ASSUME TypeOK, NEW d \in Deleters, Advanced(d), StartDeletion(d) \/ Delete(d)
  PROVE  TypeOK' /\ DeleteFrame(d)
<1>. USE DEF treeVars, generatorVars, deleterVars, unlistedVars, writerVars, DeleterAt
<1>1. CASE StartDeletion(d)
  BY <1>1 DEF StartDeletion, TypeOK, DeleteFrame
<1>2. CASE CheckSolution(d)
  BY <1>2 DEF CheckSolution, TypeOK, DeleteFrame
<1>3. CASE ListNodes(d)
  BY <1>3 DEF ListNodes, TypeOK, DeleteFrame
<1>4. CASE EraseSolution(d)
  BY <1>4 DEF EraseSolution, Erase, TypeOK, DeleteFrame
<1>5. CASE SkipNode(d)
  BY <1>5 DEF SkipNode, TypeOK, DeleteFrame
<1>6. CASE TakeNode(d)
  BY <1>6 DEF TakeNode, TypeOK, DeleteFrame
<1>7. CASE FindSubstitutions(d)
  BY <1>7 DEF FindSubstitutions, TypeOK, DeleteFrame
<1>8. CASE EraseNode(d)
  BY <1>8 DEF EraseNode, Erase, TypeOK, DeleteFrame
<1>9. CASE ListPairs(d)
  <2>1. node[d] \in Nodes
    BY <1>9 DEF ListPairs, Advanced, AtNode
  <2>2. PairsOf(node[d]) \subseteq Pairs
    BY <2>1 DEF PairsOf, Pairs
  <2>3. pairsLeft' \in [Deleters -> SUBSET Pairs]
    BY <1>9, <2>2 DEF ListPairs, TypeOK
  <2>4. TypeOK'
    BY <1>9, <2>3 DEF ListPairs, TypeOK
  <2>5. DeleteFrame(d)
    BY <1>9 DEF ListPairs, TypeOK, DeleteFrame
  <2>. QED  BY <2>4, <2>5
<1>10. CASE EraseSubstitutions(d)
  BY <1>10 DEF EraseSubstitutions, Erase, TypeOK, DeleteFrame
<1>11. CASE SkipPair(d)
  BY <1>11 DEF SkipPair, TypeOK, DeleteFrame
<1>12. CASE TakePair(d)
  BY <1>12 DEF TakePair, TypeOK, DeleteFrame
<1>13. CASE FindReplacement(d)
  BY <1>13 DEF FindReplacement, TypeOK, DeleteFrame
<1>14. CASE ErasePair(d)
  BY <1>14 DEF ErasePair, Erase, TypeOK, DeleteFrame
<1>15. CASE DeleteEdges(d)
  BY <1>15 DEF DeleteEdges, TypeOK, DeleteFrame
<1>16. CASE PairsDeleted(d)
  BY <1>16 DEF PairsDeleted, TypeOK, DeleteFrame
<1>17. CASE NodesDeleted(d)
  BY <1>17 DEF NodesDeleted, TypeOK, DeleteFrame
<1>. QED
  BY <1>1, <1>2, <1>3, <1>4, <1>5, <1>6, <1>7, <1>8, <1>9, <1>10, <1>11, <1>12, <1>13, <1>14, <1>15, <1>16, <1>17 DEF Delete

-----------------------------------------------------------------------------
(* The trees, while somebody deletes.                                      *)

(* Erasing a part of a solution that was erased leaves the other solutions *)
(* alone.                                                                  *)
LEMMA ErasePart ==
  ASSUME TypeOK, Ordered, NEW m \in Nodes, ~Exists(RootOf(m[2])), NEW x, Erase({x}),
         x = m \/ x = SubstitutionsOf(m) \/ \E v \in Variables : x = PairOf(m, v)
  PROVE  /\ elements' = elements \ {x}
         /\ linked' = linked /\ first' = first /\ follows' = follows
         /\ \A g : Exists(RootOf(g))' <=> Exists(RootOf(g))
<1>1. \A g : RootOf(g) # x
  BY RootIsNoOther
<1>2. elements' = elements \ {x}
  BY DEF Erase
<1>3. x \notin linked
  <2>1. CASE x = m
    BY <2>1 DEF Ordered
  <2>2. CASE x # m
    <3>1. x \notin Nodes
      BY <2>2, NodeIsNoOther
    <3>. QED  BY <3>1 DEF TypeOK
  <2>. QED  BY <2>1, <2>2
<1>4. linked' = linked
  BY <1>1, <1>3 DEF Erase
<1>5. first' = first /\ follows' = follows
  BY <1>4 DEF Erase, TypeOK
<1>. QED  BY <1>1, <1>2, <1>4, <1>5 DEF Exists

(* What a step of a deletion erases: the solution, one part of the node at *)
(* work, whose solution was erased before, or nothing.                     *)
ErasesNothing == UNCHANGED treeVars
ErasesSolution(d) ==
  deleter[d] = "eraseSolution" /\ deleter'[d] = "nodes" /\ Erase({Root(d)})
ErasesPart(d) ==
  /\ UNCHANGED <<linked, first, follows>>
  /\ AtNode(d) /\ ~Exists(Root(d))
  /\ \E x : /\ elements' = elements \ {x}
            /\ \/ x = node[d] /\ deleter[d] = "eraseNode" /\ deleter'[d] = "listPairs"
               \/ x = SubstitutionsOf(node[d])
               \/ \E v \in Variables : x = PairOf(node[d], v)
  /\ \A g : Exists(RootOf(g))' <=> Exists(RootOf(g))

LEMMA DeleteErases ==
  ASSUME TypeOK, Ordered, NEW d \in Deleters, Advanced(d), StartDeletion(d) \/ Delete(d)
  PROVE  ErasesNothing \/ ErasesSolution(d) \/ ErasesPart(d)
<1>. USE DEF ErasesNothing, DeleterAt
<1>1. CASE StartDeletion(d)
  BY <1>1 DEF StartDeletion
<1>2. CASE EraseSolution(d)
  BY <1>2 DEF EraseSolution, ErasesSolution, TypeOK
<1>3. CASE EraseNode(d)
  <2>1. /\ deleter[d] = "eraseNode" /\ deleter'[d] = "listPairs" /\ Erase({node[d]})
        /\ AtNode(d) /\ node[d] \in Nodes /\ ~Exists(RootOf(node[d][2])) /\ ~Exists(Root(d))
    BY <1>3 DEF EraseNode, TypeOK, Advanced, AtNode, AtNodes, Root
  <2>. QED  BY <2>1, ErasePart DEF ErasesPart
<1>4. CASE EraseSubstitutions(d)
  <2>1. /\ Erase({SubstitutionsOf(node[d])})
        /\ AtNode(d) /\ node[d] \in Nodes /\ ~Exists(RootOf(node[d][2])) /\ ~Exists(Root(d))
    BY <1>4 DEF EraseSubstitutions, Advanced, AtNode, AtNodes, Root
  <2>. QED  BY <2>1, ErasePart DEF ErasesPart
<1>5. CASE ErasePair(d)
  <2>1. /\ Erase({pair[d]})
        /\ AtNode(d) /\ node[d] \in Nodes /\ ~Exists(RootOf(node[d][2])) /\ ~Exists(Root(d))
        /\ \E v \in Variables : pair[d] = PairOf(node[d], v)
    BY <1>5 DEF ErasePair, Advanced, AtNode, AtNodes, AtPairs, AtPair, Root
  <2>. QED  BY <2>1, ErasePart DEF ErasesPart
<1>. QED
  BY <1>1, <1>2, <1>3, <1>4, <1>5 DEF Delete, CheckSolution, ListNodes, SkipNode, TakeNode,
     FindSubstitutions, ListPairs, SkipPair, TakePair, FindReplacement, DeleteEdges,
     PairsDeleted, NodesDeleted, treeVars

LEMMA DeleteKeepsTrees ==
  ASSUME TypeOK, Trees, NEW d \in Deleters, Advanced(d), StartDeletion(d) \/ Delete(d)
  PROVE  Trees'
<1>1. /\ column' = column /\ generator' = generator /\ last' = last /\ size' = size
      /\ solution' = solution /\ elements' \subseteq elements /\ arcs' \subseteq arcs
  BY TypeDelete DEF DeleteFrame, generatorVars
<1>2. ErasesNothing \/ ErasesSolution(d) \/ ErasesPart(d)
  BY DeleteErases DEF Trees
<1>3. \A g : Created(g)' = Created(g) /\ Amount(g)' = Amount(g) /\ Pending(g)' = Pending(g)
  BY <1>1 DEF Created, Amount, Pending
<1>4. \A n : Attached(n)' = Attached(n)
  BY <1>1, <1>3 DEF Attached
<1>5. \A g \in Solutions : Counted(g)'
  BY <1>1, <1>3 DEF Trees, Counted
<1>6. Ordered'
  <2>1. CASE ErasesSolution(d)
    <3>1. /\ elements' = elements \ {Root(d)}
          /\ linked' = {n \in linked : n # Root(d) /\ RootOf(n[2]) # Root(d)}
          /\ first' = first \cap linked' /\ follows' = follows \cap (linked' \X linked')
      BY <2>1 DEF ErasesSolution, Erase
    <3>2. \A n \in Nodes : n # Root(d)
      BY RootIsNoOther DEF Root
    <3>3. \A n \in Nodes : Exists(RootOf(n[2]))' <=> Exists(RootOf(n[2])) /\ RootOf(n[2]) # Root(d)
      BY <3>1 DEF Exists
    <3>4. linked' = {n \in Nodes : Exists(RootOf(n[2])) /\ Attached(n)}'
      BY <1>4, <3>1, <3>2, <3>3 DEF Trees, Ordered
    <3>5. first' = {n \in linked : n[3] = 1}'
      BY <3>1 DEF Trees, Ordered
    <3>6. follows' = {f \in linked \X linked : f[1][2] = f[2][2] /\ f[2][3] = f[1][3] + 1}'
      BY <3>1 DEF Trees, Ordered
    <3>. QED  BY <3>4, <3>5, <3>6 DEF Ordered
  <2>2. CASE ErasesNothing \/ ErasesPart(d)
    <3>1. /\ linked' = linked /\ first' = first /\ follows' = follows
          /\ \A g : Exists(RootOf(g))' <=> Exists(RootOf(g))
      BY <2>2 DEF ErasesNothing, ErasesPart, treeVars, Exists
    <3>. QED  BY <1>4, <3>1 DEF Trees, Ordered
  <2>. QED  BY <1>2, <2>1, <2>2
<1>7. ASSUME NEW n \in Nodes
      PROVE  Untouched(n)'
  <2>. SUFFICES ASSUME column[n] # None, Exists(RootOf(n[2]))'
                PROVE  /\ Exists(n)' /\ Exists(SubstitutionsOf(n))'
                       /\ \A v \in Variables : Exists(PairOf(n, v))'
    BY <1>1 DEF Untouched
  <2>1. /\ Exists(n) /\ Exists(SubstitutionsOf(n))
        /\ \A v \in Variables : Exists(PairOf(n, v))
        /\ Exists(RootOf(n[2]))
    BY <1>1 DEF Exists, Trees, Untouched
  <2>2. CASE ErasesNothing
    BY <2>1, <2>2 DEF ErasesNothing, treeVars, Exists
  <2>3. CASE ErasesSolution(d)
    BY <2>1, <2>3, RootIsNoOther DEF ErasesSolution, Erase, Exists, Root
  <2>4. CASE ErasesPart(d)
    <3>1. node[d] \in Nodes /\ node[d] # n
      BY <2>1, <2>4 DEF ErasesPart, Advanced, Root
    <3>2. PICK x : /\ elements' = elements \ {x}
                   /\ \/ x = node[d] \/ x = SubstitutionsOf(node[d])
                      \/ \E v \in Variables : x = PairOf(node[d], v)
      BY <2>4 DEF ErasesPart
    <3>3. x # n /\ x # SubstitutionsOf(n) /\ \A v \in Variables : x # PairOf(n, v)
      BY <3>1, <3>2, NodeIsNoOther
    <3>. QED  BY <2>1, <3>2, <3>3 DEF Exists
  <2>. QED  BY <1>2, <2>2, <2>3, <2>4
<1>8. \A n \in Nodes : Known(n)'
  BY <1>1 DEF Trees, Known, Exists
<1>9. \A arc \in arcs' : KnownArc(arc)'
  BY <1>1 DEF Trees, KnownArc
<1>10. ASSUME NEW n \in Nodes, NEW v \in Variables
       PROVE  ArcKept(n, v)'
  <2>. SUFFICES ASSUME Exists(n)', <<v, column[n][v], n>> \notin arcs'
                PROVE  \E m \in Nodes \ {n} :
                         ~Exists(m)' /\ column[m] # None /\ column[m][v] = column[n][v]
    BY <1>1 DEF ArcKept
  <2>1. Exists(n)
    BY <1>1 DEF Exists
  <2>2. CASE <<v, column[n][v], n>> \in arcs
    <3>1. DeleteEdges(d)
      BY <2>2 DEF StartDeletion, Delete, CheckSolution, ListNodes, EraseSolution, SkipNode, TakeNode,
         FindSubstitutions, EraseNode, ListPairs, EraseSubstitutions, SkipPair, TakePair,
         FindReplacement, ErasePair, PairsDeleted, NodesDeleted, writerVars
    <3>2. deleter[d] = "deleteArcs" /\ AtNode(d) /\ AtPairs(d)
      BY <3>1 DEF DeleteEdges, DeleterAt, AtNode, AtPairs, AtPair
    <3>3. /\ node[d] \in Nodes /\ column[node[d]] # None /\ ~Exists(node[d])
      BY <3>2 DEF Advanced
    <3>4. v = pair[d][4] /\ column[n][v] = column[node[d]][v]
      BY <2>2, <3>1 DEF DeleteEdges
    <3>. QED  BY <1>1, <2>1, <3>3, <3>4 DEF Exists
  <2>3. CASE <<v, column[n][v], n>> \notin arcs
    BY <1>1, <2>1, <2>3 DEF Trees, ArcKept, Exists
  <2>. QED  BY <2>2, <2>3
<1>. QED  BY <1>5, <1>6, <1>7, <1>8, <1>9, <1>10 DEF Trees

-----------------------------------------------------------------------------
(* The deletions, at a step of one of them.                                *)

LEMMA OthersAdvanced ==
  ASSUME NEW d \in Deleters, DeleteFrame(d), NEW x \in Deleters \ {d}, Advanced(x)
  PROVE  Advanced(x)'
<1>1. /\ deleter'[x] = deleter[x] /\ node'[x] = node[x] /\ pair'[x] = pair[x]
      /\ nodesLeft'[x] = nodesLeft[x] /\ pairsLeft'[x] = pairsLeft[x]
      /\ column' = column /\ solution' = solution /\ elements' \subseteq elements
  BY DEF DeleteFrame, generatorVars
<1>2. \A element : Exists(element)' => Exists(element)
  BY <1>1 DEF Exists
<1>3. /\ AtNodes(x)' = AtNodes(x) /\ AtNode(x)' = AtNode(x) /\ AtPairs(x)' = AtPairs(x)
      /\ AtPair(x)' = AtPair(x) /\ Root(x)' = Root(x)
  BY <1>1 DEF AtNodes, AtNode, AtPairs, AtPair, Root
<1>4. PairsOf(node[x])' \subseteq PairsOf(node[x])
  BY <1>1 DEF PairsOf
<1>. QED  BY <1>1, <1>2, <1>3, <1>4 DEF Advanced

LEMMA SelfAdvanced ==
  ASSUME TypeOK, Ordered, \A n \in Nodes : Known(n),
         NEW d \in Deleters, Advanced(d), StartDeletion(d) \/ Delete(d)
  PROVE  Advanced(d)'
<1>. USE DEF DeleterAt, treeVars, generatorVars, unlistedVars, writerVars
<1>1. /\ column' = column /\ solution' = solution /\ elements' \subseteq elements
  BY TypeDelete DEF DeleteFrame
<1>2. /\ \A element : Exists(element)' => Exists(element)
      /\ Root(d)' = Root(d)
  BY <1>1 DEF Exists, Root
<1>. USE DEF AtNodes, AtNode, AtPairs, AtPair
<1>3. CASE StartDeletion(d)
  BY <1>1, <1>2, <1>3 DEF StartDeletion, TypeOK, Advanced
<1>4. CASE CheckSolution(d)
  BY <1>1, <1>2, <1>4 DEF CheckSolution, TypeOK, Advanced
<1>5. CASE ListNodes(d)
  <2>1. \A n \in nodesLeft'[d] : n[2] = solution[d] /\ column[n] # None
    BY <1>5 DEF ListNodes, TypeOK, Ordered, Attached
  <2>. QED  BY <1>1, <1>2, <1>5, <2>1 DEF ListNodes, TypeOK, Advanced
<1>6. CASE EraseSolution(d)
  <2>1. ~Exists(Root(d))'
    BY <1>6 DEF EraseSolution, Erase, Exists, Root
  <2>. QED  BY <1>1, <1>2, <1>6, <2>1 DEF EraseSolution, TypeOK, Advanced
<1>7. CASE SkipNode(d)
  BY <1>1, <1>2, <1>7 DEF SkipNode, TypeOK, Advanced
<1>8. CASE TakeNode(d)
  BY <1>1, <1>2, <1>8 DEF TakeNode, TypeOK, Advanced
<1>9. CASE FindSubstitutions(d)
  BY <1>1, <1>2, <1>9 DEF FindSubstitutions, TypeOK, Advanced
<1>10. CASE EraseNode(d)
  <2>1. ~Exists(node[d])' /\ UNCHANGED unlistedVars
    BY <1>10 DEF EraseNode, Erase, Exists, SubstitutionsOf
  <2>. QED  BY <1>1, <1>2, <1>10, <2>1 DEF EraseNode, TypeOK, Advanced
<1>11. CASE ListPairs(d)
  <2>1. PairsOf(node[d])' = PairsOf(node[d]) /\ node' = node /\ nodesLeft' = nodesLeft
    BY <1>11 DEF ListPairs, PairsOf
  <2>2. PairsOf(node[d]) \subseteq {PairOf(node[d], v) : v \in Variables}
    BY DEF PairsOf
  <2>3. CASE Exists(SubstitutionsOf(node[d]))
    BY <1>1, <1>2, <1>11, <2>1, <2>2, <2>3 DEF ListPairs, TypeOK, Advanced
  <2>4. CASE ~Exists(SubstitutionsOf(node[d]))
    BY <1>1, <1>2, <1>11, <2>1, <2>4 DEF ListPairs, TypeOK, Advanced
  <2>. QED  BY <2>3, <2>4
<1>12. CASE EraseSubstitutions(d)
  <2>1. ~Exists(SubstitutionsOf(node[d]))' /\ UNCHANGED unlistedVars
    BY <1>12 DEF EraseSubstitutions, Erase, Exists, SubstitutionsOf
  <2>. QED  BY <1>1, <1>2, <1>12, <2>1 DEF EraseSubstitutions, TypeOK, Advanced
<1>13. CASE SkipPair(d)
  BY <1>1, <1>2, <1>13 DEF SkipPair, TypeOK, Advanced
<1>14. CASE TakePair(d)
  BY <1>1, <1>2, <1>14 DEF TakePair, TypeOK, Advanced
<1>15. CASE FindReplacement(d)
  BY <1>1, <1>2, <1>15 DEF FindReplacement, TypeOK, Advanced
<1>16. CASE ErasePair(d)
  <2>1. ~Exists(pair[d])' /\ UNCHANGED unlistedVars
    BY <1>16 DEF ErasePair, Erase, Exists, SubstitutionsOf
  <2>. QED  BY <1>1, <1>2, <1>16, <2>1 DEF ErasePair, TypeOK, Advanced
<1>17. CASE DeleteEdges(d)
  BY <1>1, <1>2, <1>17 DEF DeleteEdges, TypeOK, Advanced
<1>18. CASE PairsDeleted(d)
  BY <1>1, <1>2, <1>18 DEF PairsDeleted, TypeOK, Advanced
<1>19. CASE NodesDeleted(d)
  BY <1>1, <1>2, <1>19 DEF NodesDeleted, TypeOK, Advanced
<1>. QED
  BY <1>3, <1>4, <1>5, <1>6, <1>7, <1>8, <1>9, <1>10, <1>11, <1>12, <1>13, <1>14, <1>15, <1>16, <1>17, <1>18, <1>19 DEF Delete

(* Nobody erases a solution before it listed its nodes, which are all it   *)
(* will ever have.                                                         *)
LEMMA DeleteKeepsUndisturbed ==
  ASSUME TypeOK, Trees, NEW d \in Deleters, Advanced(d), StartDeletion(d) \/ Delete(d),
         NEW g \in Solutions, Undisturbed(g)
  PROVE  Undisturbed(g)'
<1>. USE DEF treeVars, generatorVars, unlistedVars, writerVars
<1>1. DeleteFrame(d) /\ column' = column /\ generator' = generator /\ solution' = solution
      /\ disturbed \subseteq disturbed'
  BY TypeDelete DEF DeleteFrame
<1>2. \A h : Exists(RootOf(h))' => Exists(RootOf(h))
  BY <1>1 DEF Exists, DeleteFrame
<1>3. Created(g)' = Created(g)
  BY <1>1 DEF Created
<1>. SUFFICES ASSUME g \notin disturbed'
              PROVE  /\ ~Exists(RootOf(g))' => generator[g] = "done"
                     /\ \A x \in Deleters : solution[x] = g =>
                          /\ deleter'[x] # "idle" => generator[g] = "done"
                          /\ deleter'[x] = "eraseSolution" /\ Exists(RootOf(g))' =>
                               Created(g) \subseteq nodesLeft'[x]
  BY <1>1, <1>3 DEF Undisturbed
<1>4. /\ ~Exists(RootOf(g)) => generator[g] = "done"
      /\ \A x \in Deleters : solution[x] = g =>
           /\ deleter[x] # "idle" => generator[g] = "done"
           /\ deleter[x] = "eraseSolution" /\ Exists(RootOf(g)) => Created(g) \subseteq nodesLeft[x]
  BY <1>1 DEF Undisturbed
<1>5. solution[d] = g => generator[g] = "done"
  <2>1. CASE StartDeletion(d)
    BY <1>1, <2>1 DEF StartDeletion
  <2>2. CASE Delete(d)
    <3>1. deleter[d] # "idle"
      BY <2>2 DEF Delete, DeleterAt, CheckSolution, ListNodes, EraseSolution, SkipNode, TakeNode,
         FindSubstitutions, EraseNode, ListPairs, EraseSubstitutions, SkipPair, TakePair,
         FindReplacement, ErasePair, DeleteEdges, PairsDeleted, NodesDeleted
    <3>. QED  BY <1>4, <3>1
  <2>. QED  BY <2>1, <2>2
<1>6. ~Exists(RootOf(g))' => generator[g] = "done"
  <2>1. CASE ErasesSolution(d)
    <3>1. elements' = elements \ {RootOf(solution[d])}
      BY <2>1 DEF ErasesSolution, Erase, Root
    <3>2. RootOf(g) = RootOf(solution[d]) => g = solution[d]
      BY RootsDiffer
    <3>. QED  BY <1>4, <1>5, <3>1, <3>2 DEF Exists
  <2>2. CASE ErasesNothing \/ ErasesPart(d)
    BY <1>4, <2>2 DEF ErasesNothing, ErasesPart, Exists
  <2>. QED  BY <2>1, <2>2, DeleteErases DEF Trees
<1>7. ASSUME NEW x \in Deleters, solution[x] = g
      PROVE  /\ deleter'[x] # "idle" => generator[g] = "done"
             /\ deleter'[x] = "eraseSolution" /\ Exists(RootOf(g))' =>
                  Created(g) \subseteq nodesLeft'[x]
  <2>1. CASE x # d
    BY <1>1, <1>2, <1>4, <1>7, <2>1 DEF DeleteFrame
  <2>2. CASE x = d
    <3>1. ASSUME deleter'[d] = "eraseSolution", Exists(RootOf(g))'
          PROVE  Created(g) \subseteq nodesLeft'[d]
      <4>1. ListNodes(d)
        BY <3>1 DEF TypeOK, StartDeletion, Delete, DeleterAt, CheckSolution, EraseSolution, SkipNode,
           TakeNode, FindSubstitutions, EraseNode, ListPairs, EraseSubstitutions, SkipPair, TakePair,
           FindReplacement, ErasePair, DeleteEdges, PairsDeleted, NodesDeleted
      <4>2. nodesLeft'[d] = {n \in linked : n[2] = g}
        BY <1>7, <2>2, <4>1 DEF ListNodes, TypeOK
      <4>3. generator[g] = "done" /\ Exists(RootOf(g))
        BY <1>2, <1>5, <1>7, <2>2, <3>1
      <4>4. \A n \in Created(g) : n \in Nodes /\ n[2] = g /\ column[n] # None
        BY DEF Created
      <4>5. ASSUME NEW n \in Created(g) PROVE n[3] <= Amount(g) - Pending(g)
        <5>1. Pending(g) = 0 /\ Amount(g) \in Nat /\ n[3] <= Amount(g)
          BY <4>3, <4>4, CreatedAre DEF Pending, Trees
        <5>2. n[3] \in Nat
          BY <4>4, NodeShape, MaxNodesAssumption
        <5>. QED  BY <5>1, <5>2
      <4>. QED  BY <4>2, <4>3, <4>4, <4>5 DEF Trees, Ordered, Attached
    <3>. QED  BY <1>5, <1>7, <2>2, <3>1
  <2>. QED  BY <2>1, <2>2
<1>. QED  BY <1>6, <1>7

(* What a deletion has in its hands it keeps until it erases it, and what  *)
(* it lays bare it has in its hands.                                       *)
KeepsHold(d) ==
  /\ \A n \in Nodes :
       /\ n[2] \notin disturbed' /\ Exists(n)' /\ ~Exists(RootOf(n[2]))'
            /\ (HoldsNode(d, n) \/ Exists(RootOf(n[2]))) => HoldsNode(d, n)'
       /\ Exists(SubstitutionsOf(n))' /\ ~Exists(n)'
            /\ (HoldsSubstitutions(d, n) \/ Exists(n)) => HoldsSubstitutions(d, n)'
  /\ \A n \in Nodes : \A v \in Variables :
       /\ Exists(PairOf(n, v))' /\ ~Exists(SubstitutionsOf(n))'
            /\ (HoldsPair(d, n, v) \/ Exists(SubstitutionsOf(n))) => HoldsPair(d, n, v)'
       /\ <<v, column[n][v], n>> \in arcs' /\ ~Exists(PairOf(n, v))'
            /\ (HoldsArc(d, n, v) \/ Exists(PairOf(n, v))) => HoldsArc(d, n, v)'

LEMMA HeldIfKept ==
  ASSUME Deletions, NEW d \in Deleters, DeleteFrame(d), KeepsHold(d)
  PROVE  /\ \A n \in Nodes : NodeHeld(n)' /\ SubstitutionsHeld(n)'
         /\ \A n \in Nodes : \A v \in Variables : PairHeld(n, v)' /\ ArcHeld(n, v)'
<1>1. /\ column' = column /\ elements' \subseteq elements /\ arcs' \subseteq arcs
      /\ disturbed \subseteq disturbed'
      /\ \A x \in Deleters \ {d} :
           /\ deleter'[x] = deleter[x] /\ node'[x] = node[x] /\ pair'[x] = pair[x]
           /\ nodesLeft'[x] = nodesLeft[x] /\ pairsLeft'[x] = pairsLeft[x]
  BY DEF DeleteFrame, generatorVars
<1>2. \A element : Exists(element)' => Exists(element)
  BY <1>1 DEF Exists
<1>3. ASSUME NEW x \in Deleters \ {d}
      PROVE  /\ \A n : HoldsNode(x, n) => HoldsNode(x, n)'
             /\ \A n : HoldsSubstitutions(x, n) => HoldsSubstitutions(x, n)'
             /\ \A n, v : HoldsPair(x, n, v) => HoldsPair(x, n, v)'
             /\ \A n, v : HoldsArc(x, n, v) => HoldsArc(x, n, v)'
  BY <1>1 DEF HoldsNode, HoldsSubstitutions, HoldsPair, HoldsArc, AtNodes, AtNode, AtPairs, AtPair
<1>4. ASSUME NEW n \in Nodes PROVE NodeHeld(n)'
  BY <1>1, <1>2, <1>3 DEF NodeHeld, Deletions, KeepsHold
<1>5. ASSUME NEW n \in Nodes PROVE SubstitutionsHeld(n)'
  BY <1>2, <1>3 DEF SubstitutionsHeld, Deletions, KeepsHold
<1>6. ASSUME NEW n \in Nodes, NEW v \in Variables PROVE PairHeld(n, v)'
  BY <1>2, <1>3 DEF PairHeld, Deletions, KeepsHold
<1>7. ASSUME NEW n \in Nodes, NEW v \in Variables PROVE ArcHeld(n, v)'
  BY <1>1, <1>2, <1>3 DEF ArcHeld, Deletions, KeepsHold
<1>. QED  BY <1>4, <1>5, <1>6, <1>7

LEMMA StepKeepsHold ==
  ASSUME TypeOK, TypeOK', Trees, Deletions, NEW d \in Deleters, DeleteFrame(d),
         StartDeletion(d) \/ Delete(d)
  PROVE  KeepsHold(d)
<1>. USE DEF DeleterAt, treeVars, generatorVars, unlistedVars, writerVars
<1>1. /\ column' = column /\ elements' \subseteq elements /\ arcs' \subseteq arcs
      /\ disturbed \subseteq disturbed' /\ solution' = solution /\ Advanced(d)
  BY DEF DeleteFrame, Deletions
<1>2. \A n \in Nodes : n[2] = solution[d] => RootOf(n[2]) = Root(d)
  BY DEF Root
<1>3. \A n \in Nodes : RootOf(n[2]) = Root(d) => n[2] = solution[d]
  BY RootsDiffer DEF Root
<1>4. CASE StartDeletion(d)
  BY <1>1, <1>4 DEF StartDeletion, TypeOK, KeepsHold, Exists, HoldsNode, HoldsSubstitutions, HoldsPair,
     HoldsArc, AtNodes, AtNode, AtPairs, AtPair
<1>5. CASE CheckSolution(d)
  BY <1>1, <1>5 DEF CheckSolution, TypeOK, KeepsHold, Exists, HoldsNode, HoldsSubstitutions, HoldsPair,
     HoldsArc, AtNodes, AtNode, AtPairs, AtPair
<1>6. CASE ListNodes(d)
  BY <1>1, <1>6 DEF ListNodes, TypeOK, KeepsHold, Exists, HoldsNode, HoldsSubstitutions, HoldsPair,
     HoldsArc, AtNodes, AtNode, AtPairs, AtPair
<1>7. CASE SkipNode(d)
  BY <1>1, <1>7 DEF SkipNode, TypeOK, KeepsHold, Exists, HoldsNode, HoldsSubstitutions, HoldsPair,
     HoldsArc, AtNodes, AtNode, AtPairs, AtPair
<1>8. CASE TakeNode(d)
  BY <1>1, <1>8 DEF TakeNode, TypeOK, KeepsHold, Exists, HoldsNode, HoldsSubstitutions, HoldsPair,
     HoldsArc, AtNodes, AtNode, AtPairs, AtPair
<1>9. CASE FindSubstitutions(d)
  BY <1>1, <1>9 DEF FindSubstitutions, TypeOK, KeepsHold, Exists, HoldsNode, HoldsSubstitutions, HoldsPair,
     HoldsArc, AtNodes, AtNode, AtPairs, AtPair
<1>10. CASE ListPairs(d)
  BY <1>1, <1>10 DEF ListPairs, TypeOK, KeepsHold, Exists, HoldsNode, HoldsSubstitutions, HoldsPair,
     HoldsArc, AtNodes, AtNode, AtPairs, AtPair, PairsOf
<1>11. CASE SkipPair(d)
  BY <1>1, <1>11 DEF SkipPair, TypeOK, KeepsHold, Exists, HoldsNode, HoldsSubstitutions, HoldsPair,
     HoldsArc, AtNodes, AtNode, AtPairs, AtPair
<1>12. CASE TakePair(d)
  BY <1>1, <1>12 DEF TakePair, TypeOK, KeepsHold, Exists, HoldsNode, HoldsSubstitutions, HoldsPair,
     HoldsArc, AtNodes, AtNode, AtPairs, AtPair
<1>13. CASE FindReplacement(d)
  BY <1>1, <1>13 DEF FindReplacement, TypeOK, KeepsHold, Exists, HoldsNode, HoldsSubstitutions, HoldsPair,
     HoldsArc, AtNodes, AtNode, AtPairs, AtPair
<1>14. CASE DeleteEdges(d)
  <2>1. /\ elements' = elements /\ disturbed' = disturbed /\ deleter[d] = "deleteArcs"
        /\ deleter'[d] = "pairs" /\ node' = node /\ nodesLeft' = nodesLeft /\ pairsLeft' = pairsLeft
        /\ arcs' = {arc \in arcs : arc[1] # pair[d][4] \/ arc[2] # column[node[d]][pair[d][4]]}
    BY <1>14 DEF DeleteEdges, TypeOK
  <2>2. \A n, v : HoldsArc(d, n, v) => <<v, column[n][v], n>> \notin arcs'
    BY <2>1, PairShape DEF HoldsArc
  <2>. QED
    BY <1>1, <2>1, <2>2 DEF KeepsHold, Exists, HoldsNode, HoldsSubstitutions, HoldsPair,
       AtNodes, AtNode, AtPairs, AtPair
<1>15. CASE PairsDeleted(d)
  BY <1>1, <1>15 DEF PairsDeleted, TypeOK, KeepsHold, Exists, HoldsNode, HoldsSubstitutions, HoldsPair,
     HoldsArc, AtNodes, AtNode, AtPairs, AtPair
<1>16. CASE NodesDeleted(d)
  BY <1>1, <1>16 DEF NodesDeleted, TypeOK, KeepsHold, Exists, HoldsNode, HoldsSubstitutions, HoldsPair,
     HoldsArc, AtNodes, AtNode, AtPairs, AtPair
<1>17. CASE EraseSolution(d)
  <2>1. /\ elements' = elements \ {Root(d)} /\ disturbed' = disturbed
        /\ deleter[d] = "eraseSolution" /\ deleter'[d] = "nodes" /\ nodesLeft' = nodesLeft
    BY <1>17 DEF EraseSolution, Erase, TypeOK
  <2>2. ASSUME NEW n \in Nodes
        PROVE  /\ Exists(n)' <=> Exists(n)
               /\ Exists(SubstitutionsOf(n))' <=> Exists(SubstitutionsOf(n))
               /\ \A v \in Variables : Exists(PairOf(n, v))' <=> Exists(PairOf(n, v))
    BY <2>1, RootIsNoOther DEF Exists, Root
  <2>3. ASSUME NEW n \in Nodes, n[2] \notin disturbed, Exists(n), Exists(RootOf(n[2])),
               ~Exists(RootOf(n[2]))'
        PROVE  n \in nodesLeft[d]
    <3>1. n[2] = solution[d] /\ n[2] \in Solutions
      BY <1>3, <2>1, <2>3, NodeShape DEF Exists
    <3>2. Created(n[2]) \subseteq nodesLeft[d]
      BY <2>1, <2>3, <3>1 DEF Deletions, Undisturbed
    <3>. QED  BY <2>3, <3>2 DEF Created, Trees, Known
  <2>4. \A n, v : ~HoldsNode(d, n) /\ ~HoldsSubstitutions(d, n) /\ ~HoldsPair(d, n, v) /\ ~HoldsArc(d, n, v)
    BY <2>1 DEF HoldsNode, HoldsSubstitutions, HoldsPair, HoldsArc, AtNodes, AtNode, AtPairs, AtPair
  <2>5. \A n : n \in nodesLeft[d] => HoldsNode(d, n)'
    BY <2>1 DEF HoldsNode, AtNodes
  <2>. QED  BY <2>1, <2>2, <2>3, <2>4, <2>5 DEF KeepsHold
<1>18. CASE EraseNode(d)
  <2>1. /\ elements' = elements \ {node[d]} /\ disturbed' = disturbed
        /\ deleter[d] = "eraseNode" /\ deleter'[d] = "listPairs" /\ nodesLeft' = nodesLeft
        /\ node' = node
    BY <1>18 DEF EraseNode, Erase, TypeOK
  <2>2. node[d] \in Nodes
    BY <1>1, <2>1 DEF Advanced, AtNode
  <2>3. ASSUME NEW n \in Nodes
        PROVE  /\ Exists(RootOf(n[2]))' <=> Exists(RootOf(n[2]))
               /\ Exists(n)' <=> Exists(n) /\ n # node[d]
               /\ Exists(SubstitutionsOf(n))' <=> Exists(SubstitutionsOf(n))
               /\ \A v \in Variables : Exists(PairOf(n, v))' <=> Exists(PairOf(n, v))
    BY <2>1, <2>2, RootIsNoOther, NodeIsNoOther DEF Exists
  <2>. QED
    BY <2>1, <2>3 DEF KeepsHold, HoldsNode, HoldsSubstitutions, HoldsPair, HoldsArc,
       AtNodes, AtNode, AtPairs, AtPair
<1>19. CASE EraseSubstitutions(d)
  <2>1. /\ elements' = elements \ {SubstitutionsOf(node[d])} /\ disturbed' = disturbed
        /\ deleter[d] = "eraseSubstitutions" /\ deleter'[d] = "pairs" /\ nodesLeft' = nodesLeft
        /\ node' = node /\ pairsLeft' = pairsLeft
    BY <1>19 DEF EraseSubstitutions, Erase, TypeOK
  <2>2. node[d] \in Nodes /\ PairsOf(node[d]) \subseteq pairsLeft[d]
    BY <1>1, <2>1 DEF Advanced, AtNode
  <2>3. ASSUME NEW n \in Nodes
        PROVE  /\ Exists(RootOf(n[2]))' <=> Exists(RootOf(n[2]))
               /\ Exists(n)' <=> Exists(n)
               /\ Exists(SubstitutionsOf(n))' <=> Exists(SubstitutionsOf(n)) /\ n # node[d]
               /\ \A v \in Variables : Exists(PairOf(n, v))' <=> Exists(PairOf(n, v))
    BY <2>1, <2>2, RootIsNoOther, NodeIsNoOther DEF Exists
  <2>4. \A v \in Variables : Exists(PairOf(node[d], v)) => PairOf(node[d], v) \in pairsLeft[d]
    BY <2>2 DEF PairsOf, Exists
  <2>. QED
    BY <2>1, <2>3, <2>4 DEF KeepsHold, HoldsNode, HoldsSubstitutions, HoldsPair, HoldsArc,
       AtNodes, AtNode, AtPairs, AtPair
<1>20. CASE ErasePair(d)
  <2>1. /\ elements' = elements \ {pair[d]} /\ disturbed' = disturbed
        /\ deleter[d] = "erasePair" /\ deleter'[d] = "deleteArcs" /\ nodesLeft' = nodesLeft
        /\ node' = node /\ pairsLeft' = pairsLeft /\ pair' = pair
    BY <1>20 DEF ErasePair, Erase, TypeOK
  <2>2. node[d] \in Nodes /\ \E w \in Variables : pair[d] = PairOf(node[d], w)
    BY <1>1, <2>1 DEF Advanced, AtNode, AtPairs, AtPair
  <2>3. ASSUME NEW n \in Nodes
        PROVE  /\ Exists(RootOf(n[2]))' <=> Exists(RootOf(n[2]))
               /\ Exists(n)' <=> Exists(n)
               /\ Exists(SubstitutionsOf(n))' <=> Exists(SubstitutionsOf(n))
               /\ \A v \in Variables :
                    /\ Exists(PairOf(n, v))' <=> Exists(PairOf(n, v)) /\ PairOf(n, v) # pair[d]
                    /\ PairOf(n, v) = pair[d] => n = node[d]
    BY <2>1, <2>2, RootIsNoOther, NodeIsNoOther DEF Exists
  <2>. QED
    BY <2>1, <2>3 DEF KeepsHold, HoldsNode, HoldsSubstitutions, HoldsPair, HoldsArc,
       AtNodes, AtNode, AtPairs, AtPair
<1>. QED
  BY <1>4, <1>5, <1>6, <1>7, <1>8, <1>9, <1>10, <1>11, <1>12, <1>13, <1>14, <1>15, <1>16,
     <1>17, <1>18, <1>19, <1>20 DEF Delete
-----------------------------------------------------------------------------
(* The trees, while an inference writes one of them.                       *)

(* The new node is the next one of its solution, and nobody's before.      *)
LEMMA NodeCreated ==
  ASSUME TypeOK, NEW g \in Solutions, Counted(g), CreateSolutionNode(g)
  PROVE  \E c \in Columns, new \in Nodes :
           /\ new = NodeOf(g, Amount(g) + 1) /\ column[new] = None
           /\ column' = [column EXCEPT ![new] = c]
           /\ elements' = elements \cup {new, SubstitutionsOf(new)} \cup
                            {PairOf(new, v) : v \in Variables}
           /\ arcs' = arcs \cup {<<v, c[v], new>> : v \in Variables}
           /\ Created(g)' = Created(g) \cup {new} /\ Amount(g)' = Amount(g) + 1
           /\ IsFiniteSet(Created(g)')
           /\ \A h \in Solutions \ {g} : Created(h)' = Created(h)
<1>. DEFINE new == NodeOf(g, Amount(g) + 1)
<1>1. /\ Amount(g) \in Nat /\ size[g] \in 0 .. MaxNodes /\ MaxNodes \in Nat
      /\ NewNode(g) = new
      /\ \A n \in Nodes : n[2] = g => (column[n] # None <=> n[3] <= Amount(g))
  BY CreatedAre, MaxNodesAssumption
<1>2. Amount(g) + 1 \in 1 .. MaxNodes
  BY <1>1 DEF CreateSolutionNode, Amount
<1>3. new \in Nodes /\ new[2] = g /\ new[3] = Amount(g) + 1
  BY <1>2, NodeShape
<1>4. column[new] = None
  BY <1>1, <1>3
<1>5. PICK c \in Columns :
        /\ column' = [column EXCEPT ![new] = c]
        /\ elements' = elements \cup {new, SubstitutionsOf(new)} \cup
                         {PairOf(new, v) : v \in Variables}
        /\ arcs' = arcs \cup {<<v, c[v], new>> : v \in Variables}
  <2>1. PICK c \in Columns :
          /\ column' = [column EXCEPT ![NewNode(g)] = c]
          /\ elements' = elements \cup {NewNode(g), SubstitutionsOf(NewNode(g))} \cup
                           {PairOf(NewNode(g), v) : v \in Variables}
          /\ arcs' = arcs \cup {<<v, c[v], NewNode(g)>> : v \in Variables}
    BY DEF CreateSolutionNode
  <2>. QED  BY <1>1, <2>1, Zenon
<1>6. c # None
  BY NoneAssumption
<1>7. \A n \in Nodes : column'[n] = IF n = new THEN c ELSE column[n]
  BY <1>3, <1>5 DEF TypeOK
<1>8. Created(g)' = Created(g) \cup {new} /\ new \notin Created(g)
  BY <1>3, <1>4, <1>6, <1>7 DEF Created
<1>9. \A h \in Solutions \ {g} : Created(h)' = Created(h)
  BY <1>3, <1>7 DEF Created
<1>10. IsFiniteSet(Created(g)') /\ Amount(g)' = Amount(g) + 1
  BY <1>8, FS_AddElement DEF Counted, Amount
<1>. QED  BY <1>3, <1>4, <1>5, <1>8, <1>9, <1>10

(* A node that addNode has come to is attached, whether it was linked or   *)
(* not.                                                                    *)
LEMMA NodeAttached ==
  ASSUME TypeOK, NEW g \in Solutions, Counted(g), UNCHANGED column,
         generator[g] \in {"link", "append"}, generator' = [generator EXCEPT ![g] = "idle"]
  PROVE  /\ LatestNode(g) \in Nodes /\ LatestNode(g) = NodeOf(g, Amount(g))
         /\ LatestNode(g)[2] = g /\ LatestNode(g)[3] = Amount(g)
         /\ ~Attached(LatestNode(g))
         /\ \A n \in Nodes : Attached(n)' <=> Attached(n) \/ n = LatestNode(g)
<1>1. /\ Amount(g) \in Nat /\ Amount(g) <= size[g] /\ size[g] \in 0 .. MaxNodes /\ MaxNodes \in Nat
      /\ LatestNode(g) = NodeOf(g, Amount(g))
      /\ \A n \in Nodes : n[2] = g => (column[n] # None <=> n[3] <= Amount(g))
  BY CreatedAre, MaxNodesAssumption
<1>2. Amount(g) \in 1 .. MaxNodes
  BY <1>1 DEF Counted
<1>3. LatestNode(g) \in Nodes /\ LatestNode(g)[2] = g /\ LatestNode(g)[3] = Amount(g)
  BY <1>1, <1>2, NodeShape
<1>4. Pending(g) = 1 /\ Pending(g)' = 0
  BY DEF Pending, TypeOK
<1>5. /\ \A h : Amount(h)' = Amount(h)
      /\ \A h \in Solutions \ {g} : Pending(h)' = Pending(h)
  BY DEF Amount, Created, Pending, TypeOK
<1>6. ASSUME NEW n \in Nodes
      PROVE  Attached(n)' <=> Attached(n) \/ n = LatestNode(g)
  <2>1. n = NodeOf(n[2], n[3]) /\ n[2] \in Solutions /\ n[3] \in Nat
    BY NodeShape, MaxNodesAssumption
  <2>2. CASE n[2] # g
    BY <1>3, <1>5, <2>1, <2>2 DEF Attached
  <2>3. CASE n[2] = g
    <3>1. n = LatestNode(g) <=> n[3] = Amount(g)
      BY <1>1, <1>3, <2>1, <2>3
    <3>. QED  BY <1>1, <1>4, <1>5, <2>1, <2>3, <3>1 DEF Attached
  <2>. QED  BY <2>2, <2>3
<1>7. ~Attached(LatestNode(g))
  BY <1>1, <1>3, <1>4 DEF Attached
<1>. QED  BY <1>1, <1>3, <1>6, <1>7

LEMMA GenerateCounted ==
  ASSUME TypeOK, NEW g \in Solutions, \A h \in Solutions : Counted(h), Generate(g)
  PROVE  \A h \in Solutions : Counted(h)'
<1>. USE DEF treeVars, generatorVars, deleterVars, GeneratorAt
<1>1. \A h \in Solutions : generator'[h] = IF h = g THEN generator'[g] ELSE generator[h]
  BY DEF Generate, CreateSolutionNode, AddFirstNode, LastNodeFound, LastNodeNotFound, AddNode,
     CreateSolution, TypeOK
<1>2. \A h \in Solutions : last'[h] = IF h = g THEN last'[g] ELSE last[h]
  BY DEF Generate, CreateSolutionNode, AddFirstNode, LastNodeFound, LastNodeNotFound, AddNode,
     CreateSolution, TypeOK
<1>3. size' = size
  BY DEF Generate, CreateSolutionNode, AddFirstNode, LastNodeFound, LastNodeNotFound, AddNode,
     CreateSolution
<1>4. /\ Amount(g) \in Nat /\ size[g] \in 0 .. MaxNodes /\ MaxNodes \in Nat
      /\ LatestNode(g) = NodeOf(g, Amount(g))
  BY CreatedAre, MaxNodesAssumption
<1>5. CASE CreateSolutionNode(g)
  <2>1. PICK new \in Nodes :
          /\ new = NodeOf(g, Amount(g) + 1)
          /\ Created(g)' = Created(g) \cup {new} /\ Amount(g)' = Amount(g) + 1
          /\ IsFiniteSet(Created(g)')
          /\ \A h \in Solutions \ {g} : Created(h)' = Created(h)
    BY <1>5, NodeCreated
  <2>2. Created(g)' = {NodeOf(g, k) : k \in 1 .. Amount(g)'}
    BY <1>4, <2>1 DEF Counted
  <2>3. /\ Amount(g) < size[g] /\ generator[g] = "idle" /\ generator'[g] = "link" /\ last' = last
    BY <1>5 DEF CreateSolutionNode, TypeOK, Amount
  <2>4. Pending(g) = 0 /\ Pending(g)' = 1
    BY <2>3 DEF Pending
  <2>5. last[g] = IF Amount(g) = 0 THEN None ELSE NodeOf(g, Amount(g))
    BY <1>4, <2>4 DEF Counted
  <2>6. last'[g] = IF Amount(g)' = Pending(g)' THEN None ELSE NodeOf(g, Amount(g)' - Pending(g)')
    BY <1>4, <2>1, <2>3, <2>4, <2>5
  <2>7. Counted(g)'
    BY <1>3, <1>4, <2>1, <2>2, <2>3, <2>6 DEF Counted
  <2>8. ASSUME NEW h \in Solutions \ {g} PROVE Counted(h)'
    BY <1>1, <1>2, <1>3, <2>1, <2>8 DEF Counted, Amount, Pending
  <2>. QED  BY <2>7, <2>8
<1>6. CASE ~CreateSolutionNode(g)
  <2>1. column' = column
    BY <1>6 DEF Generate, AddFirstNode, LastNodeFound, LastNodeNotFound, AddNode, CreateSolution
  <2>2. \A h : Created(h)' = Created(h) /\ Amount(h)' = Amount(h)
    BY <2>1 DEF Created, Amount
  <2>3. ASSUME NEW h \in Solutions \ {g} PROVE Counted(h)'
    BY <1>1, <1>2, <1>3, <2>2, <2>3 DEF Counted, Pending
  <2>4. /\ generator'[g] = "link" => Amount(g) >= 1
        /\ generator'[g] = "append" => Amount(g) >= 2
        /\ last'[g] = IF Amount(g) = Pending(g)' THEN None ELSE NodeOf(g, Amount(g) - Pending(g)')
    <3>1. CASE AddFirstNode(g) \/ LastNodeNotFound(g) \/ AddNode(g)
      <4>1. generator[g] \in {"link", "append"} /\ generator'[g] = "idle" /\ last'[g] = LatestNode(g)
        BY <3>1 DEF AddFirstNode, LastNodeNotFound, AddNode, TypeOK
      <4>2. Amount(g) >= 1 /\ Pending(g)' = 0
        BY <1>4, <4>1 DEF Counted, Pending
      <4>. QED  BY <1>4, <4>1, <4>2
    <3>2. CASE LastNodeFound(g)
      <4>1. generator[g] = "link" /\ generator'[g] = "append" /\ last' = last /\ last[g] # None
        BY <3>2, NoneAssumption DEF LastNodeFound, TypeOK
      <4>2. Pending(g) = 1 /\ Pending(g)' = 1
        BY <4>1 DEF Pending
      <4>3. Amount(g) >= 1 /\ Amount(g) # 1
        BY <4>1, <4>2 DEF Counted
      <4>. QED  BY <1>4, <4>1, <4>2, <4>3 DEF Counted
    <3>3. CASE CreateSolution(g)
      <4>1. generator[g] = "idle" /\ generator'[g] = "done" /\ last' = last
        BY <3>3 DEF CreateSolution, TypeOK
      <4>2. Pending(g) = 0 /\ Pending(g)' = 0
        BY <4>1 DEF Pending
      <4>. QED  BY <4>1, <4>2 DEF Counted
    <3>. QED  BY <1>6, <3>1, <3>2, <3>3 DEF Generate
  <2>5. Counted(g)'
    BY <1>3, <2>2, <2>4 DEF Counted
  <2>. QED  BY <2>3, <2>5
<1>. QED  BY <1>5, <1>6

LEMMA GenerateOrdered ==
  ASSUME TypeOK, NEW g \in Solutions, \A h \in Solutions : Counted(h), Ordered, Generate(g)
  PROVE  Ordered'
<1>. USE DEF treeVars, generatorVars, deleterVars, GeneratorAt
<1>1. Amount(g) \in Nat
  BY CreatedAre
<1>2. CASE CreateSolutionNode(g)
  <2>1. PICK c \in Columns, new \in Nodes :
          /\ new = NodeOf(g, Amount(g) + 1) /\ column[new] = None
          /\ column' = [column EXCEPT ![new] = c]
          /\ elements' = elements \cup {new, SubstitutionsOf(new)} \cup
                           {PairOf(new, v) : v \in Variables}
          /\ Created(g)' = Created(g) \cup {new} /\ Amount(g)' = Amount(g) + 1
          /\ \A h \in Solutions \ {g} : Created(h)' = Created(h)
    BY <1>2, NodeCreated
  <2>2. Pending(g) = 0 /\ Pending(g)' = 1 /\ \A h \in Solutions \ {g} : Pending(h)' = Pending(h)
    BY <1>2 DEF CreateSolutionNode, Pending, TypeOK
  <2>3. \A h \in Solutions \ {g} : Amount(h)' = Amount(h)
    BY <2>1 DEF Amount
  <2>4. new[2] = g /\ new[3] = Amount(g) + 1
    BY <2>1 DEF NodeOf
  <2>5. ASSUME NEW n \in Nodes PROVE Attached(n)' <=> Attached(n)
    <3>1. n[2] \in Solutions /\ n[3] \in Nat
      BY NodeShape, MaxNodesAssumption
    <3>2. CASE n = new
      BY <1>1, <2>1, <2>2, <2>4, <3>2 DEF Attached
    <3>3. CASE n # new /\ n[2] = g
      BY <1>1, <2>1, <2>2, <3>1, <3>3 DEF Attached, TypeOK
    <3>4. CASE n # new /\ n[2] # g
      BY <2>1, <2>2, <2>3, <3>1, <3>4 DEF Attached, TypeOK
    <3>. QED  BY <3>2, <3>3, <3>4
  <2>6. \A h : Exists(RootOf(h))' <=> Exists(RootOf(h))
    BY <2>1, RootIsNoOther DEF Exists
  <2>7. linked' = linked /\ first' = first /\ follows' = follows
    BY <1>2 DEF CreateSolutionNode
  <2>. QED  BY <2>5, <2>6, <2>7 DEF Ordered
<1>3. CASE LastNodeFound(g) \/ CreateSolution(g)
  <2>1. /\ linked' = linked /\ first' = first /\ follows' = follows /\ elements' = elements
        /\ column' = column
    BY <1>3 DEF LastNodeFound, CreateSolution
  <2>2. \A h \in Solutions : Amount(h)' = Amount(h) /\ Pending(h)' = Pending(h)
    BY <1>3, <2>1 DEF LastNodeFound, CreateSolution, Amount, Created, Pending, TypeOK
  <2>3. \A n \in Nodes : Attached(n)' <=> Attached(n)
    BY <2>1, <2>2, NodeShape DEF Attached
  <2>. QED  BY <2>1, <2>3 DEF Ordered, Exists
<1>4. CASE AddFirstNode(g) \/ LastNodeNotFound(g) \/ AddNode(g)
  <2>. DEFINE latest == LatestNode(g)
              new == {n \in {latest} : Exists(RootOf(g))}
  <2>1. /\ generator[g] \in {"link", "append"} /\ generator' = [generator EXCEPT ![g] = "idle"]
        /\ column' = column /\ elements' = elements
    BY <1>4 DEF AddFirstNode, LastNodeNotFound, AddNode
  <2>2. /\ latest \in Nodes /\ latest = NodeOf(g, Amount(g))
        /\ latest[2] = g /\ latest[3] = Amount(g) /\ ~Attached(latest)
        /\ \A n \in Nodes : Attached(n)' <=> Attached(n) \/ n = latest
    BY <2>1, NodeAttached
  <2>3. latest \notin linked
    BY <2>2 DEF Ordered
  <2>4. Pending(g) = 1 /\ Amount(g) >= 1
    BY <1>1, <2>1 DEF Pending, Counted
  <2>5. last[g] = IF Amount(g) = 1 THEN None ELSE NodeOf(g, Amount(g) - 1)
    BY <2>4 DEF Counted
  <2>6. \A n \in linked : /\ n \in Nodes /\ n[3] \in Nat /\ n[3] >= 1
                          /\ n[2] = g => n[3] <= Amount(g) - 1
    BY <2>4, NodeShape, MaxNodesAssumption DEF Ordered, Attached
  <2>7. Amount(g) # 1 =>
          /\ NodeOf(g, Amount(g) - 1) \in Nodes
          /\ NodeOf(g, Amount(g) - 1)[2] = g /\ NodeOf(g, Amount(g) - 1)[3] = Amount(g) - 1
          /\ NodeOf(g, Amount(g) - 1) \in linked <=> Exists(RootOf(g))
    <3>. SUFFICES ASSUME Amount(g) # 1
                  PROVE  /\ NodeOf(g, Amount(g) - 1) \in Nodes
                         /\ NodeOf(g, Amount(g) - 1)[2] = g
                         /\ NodeOf(g, Amount(g) - 1)[3] = Amount(g) - 1
                         /\ NodeOf(g, Amount(g) - 1) \in linked <=> Exists(RootOf(g))
      OBVIOUS
    <3>1. /\ Amount(g) - 1 \in 1 .. MaxNodes /\ MaxNodes \in Nat
          /\ \A n \in Nodes : n[2] = g => (column[n] # None <=> n[3] <= Amount(g))
      BY <1>1, <2>4, CreatedAre, MaxNodesAssumption
    <3>2. /\ NodeOf(g, Amount(g) - 1) \in Nodes /\ NodeOf(g, Amount(g) - 1)[2] = g
          /\ NodeOf(g, Amount(g) - 1)[3] = Amount(g) - 1
      BY <3>1, NodeShape
    <3>3. Attached(NodeOf(g, Amount(g) - 1))
      BY <1>1, <2>4, <3>1, <3>2 DEF Attached
    <3>. QED  BY <3>2, <3>3 DEF Ordered
  <2>8. linked' = linked \cup new
    <3>1. CASE AddFirstNode(g) \/ AddNode(g)
      BY <3>1 DEF AddFirstNode, AddNode
    <3>2. CASE LastNodeNotFound(g)
      <4>1. linked' = linked /\ ~Exists(RootOf(g))
        BY <2>5, <2>7, <3>2 DEF LastNodeNotFound
      <4>. QED  BY <4>1
    <3>. QED  BY <1>4, <3>1, <3>2
  <2>9. linked' = {n \in Nodes : Exists(RootOf(n[2])) /\ Attached(n)}'
    <3>1. \A h : Exists(RootOf(h))' <=> Exists(RootOf(h))
      BY <2>1 DEF Exists
    <3>2. \A n \in Nodes : n \in new <=> n = latest /\ Exists(RootOf(n[2]))
      BY <2>2
    <3>. QED  BY <2>2, <2>8, <3>1, <3>2 DEF Ordered
  <2>10. first' = {n \in linked : n[3] = 1}'
    <3>1. CASE AddFirstNode(g)
      <4>1. Amount(g) = 1 /\ first' = first \cup new
        BY <2>5, <2>7, <3>1, NoneAssumption DEF AddFirstNode
      <4>. QED  BY <2>2, <2>8, <4>1 DEF Ordered
    <3>2. CASE AddNode(g) \/ LastNodeNotFound(g)
      <4>1. first' = first
        BY <3>2 DEF AddNode, LastNodeNotFound
      <4>2. Amount(g) # 1
        BY <2>5, <3>2 DEF AddNode, LastNodeNotFound, Counted
      <4>. QED  BY <2>2, <2>8, <4>1, <4>2 DEF Ordered
    <3>. QED  BY <1>4, <3>1, <3>2
  <2>11. follows' = {f \in linked \X linked : f[1][2] = f[2][2] /\ f[2][3] = f[1][3] + 1}'
    <3>1. CASE Amount(g) = 1
      <4>1. follows' = follows
        BY <1>4, <3>1 DEF AddFirstNode, AddNode, LastNodeNotFound, Counted
      <4>. QED  BY <1>1, <2>2, <2>6, <2>8, <3>1, <4>1 DEF Ordered
    <3>2. CASE Amount(g) # 1 /\ Exists(RootOf(g))
      <4>1. last[g] \in linked /\ last[g] # None
        BY <2>5, <2>7, <3>2, NoneAssumption DEF TypeOK
      <4>2. follows' = follows \cup {<<last[g], latest>>}
        BY <1>4, <3>2, <4>1 DEF AddFirstNode, AddNode, LastNodeNotFound
      <4>3. linked' = linked \cup {latest}
        BY <2>8, <3>2
      <4>4. /\ last[g] \in linked /\ last[g][2] = g /\ last[g][3] = Amount(g) - 1
        BY <2>5, <2>7, <3>2, <4>1
      <4>5. \A n \in linked : n[2] = g /\ n[3] = Amount(g) - 1 => n = last[g]
        BY <2>5, <2>6, <3>2, NodeShape
      <4>. QED  BY <1>1, <2>2, <2>6, <4>2, <4>3, <4>4, <4>5 DEF Ordered
    <3>3. CASE Amount(g) # 1 /\ ~Exists(RootOf(g))
      <4>1. linked' = linked /\ follows' = follows
        BY <1>4, <2>8, <3>3 DEF AddFirstNode, AddNode, LastNodeNotFound
      <4>. QED  BY <4>1 DEF Ordered
    <3>. QED  BY <3>1, <3>2, <3>3
  <2>. QED  BY <2>9, <2>10, <2>11 DEF Ordered
<1>. QED  BY <1>2, <1>3, <1>4 DEF Generate

LEMMA GenerateKeepsTrees ==
  ASSUME TypeOK, Trees, NEW g \in Solutions, Generate(g)
  PROVE  Trees'
<1>. USE DEF treeVars, generatorVars, deleterVars, GeneratorAt
<1>1. \A h \in Solutions : Counted(h)'
  BY GenerateCounted DEF Trees
<1>2. Ordered'
  BY GenerateOrdered DEF Trees
<1>3. CASE CreateSolutionNode(g)
  <2>1. PICK c \in Columns, new \in Nodes :
          /\ column[new] = None
          /\ column' = [column EXCEPT ![new] = c]
          /\ elements' = elements \cup {new, SubstitutionsOf(new)} \cup
                           {PairOf(new, v) : v \in Variables}
          /\ arcs' = arcs \cup {<<v, c[v], new>> : v \in Variables}
    BY <1>3, NodeCreated DEF Trees
  <2>2. c # None /\ column'[new] = c /\ \A n \in Nodes \ {new} : column'[n] = column[n]
    BY <2>1, NoneAssumption DEF TypeOK
  <2>3. \A h : Exists(RootOf(h))' <=> Exists(RootOf(h))
    BY <2>1, RootIsNoOther DEF Exists
  <2>4. ASSUME NEW n \in Nodes \ {new}
        PROVE  /\ Exists(n)' <=> Exists(n)
               /\ Exists(SubstitutionsOf(n))' <=> Exists(SubstitutionsOf(n))
               /\ \A v \in Variables : Exists(PairOf(n, v))' <=> Exists(PairOf(n, v))
    <3>1. \A v : /\ n # SubstitutionsOf(new) /\ n # PairOf(new, v)
                 /\ SubstitutionsOf(n) # new /\ SubstitutionsOf(n) # SubstitutionsOf(new)
                 /\ SubstitutionsOf(n) # PairOf(new, v)
      BY NodeIsNoOther
    <3>2. \A v, w : /\ PairOf(n, v) # new /\ PairOf(n, v) # SubstitutionsOf(new)
                    /\ PairOf(n, v) # PairOf(new, w)
      BY NodeIsNoOther
    <3>. QED  BY <2>1, <3>1, <3>2 DEF Exists
  <2>5. /\ Exists(new)' /\ Exists(SubstitutionsOf(new))'
        /\ \A v \in Variables : Exists(PairOf(new, v))'
    BY <2>1 DEF Exists
  <2>6. \A n \in Nodes : Untouched(n)' /\ Known(n)'
    BY <2>2, <2>3, <2>4, <2>5 DEF Trees, Untouched, Known
  <2>7. ASSUME NEW arc \in arcs' PROVE KnownArc(arc)'
    <3>1. CASE arc \in arcs
      <4>1. column[arc[3]] # None /\ arc = <<arc[1], column[arc[3]][arc[1]], arc[3]>> /\ arc[3] \in Nodes
        BY <3>1 DEF Trees, KnownArc, TypeOK
      <4>. QED  BY <2>1, <2>2, <4>1 DEF KnownArc
    <3>2. CASE arc \notin arcs
      BY <2>1, <2>2, <3>2 DEF KnownArc
    <3>. QED  BY <3>1, <3>2
  <2>8. ASSUME NEW n \in Nodes, NEW v \in Variables PROVE ArcKept(n, v)'
    <3>1. CASE n = new
      <4>1. <<v, c[v], new>> \in arcs'
        BY <2>1
      <4>. QED  BY <2>2, <3>1, <4>1 DEF ArcKept
    <3>2. CASE n # new
      <4>. SUFFICES ASSUME Exists(n), <<v, column[n][v], n>> \notin arcs
                    PROVE  \E m \in Nodes \ {n} :
                             ~Exists(m)' /\ column'[m] # None /\ column'[m][v] = column[n][v]
        BY <2>1, <2>2, <2>4, <3>2 DEF ArcKept
      <4>1. PICK m \in Nodes \ {n} :
              ~Exists(m) /\ column[m] # None /\ column[m][v] = column[n][v]
        BY DEF Trees, ArcKept
      <4>. QED  BY <2>1, <2>2, <2>4, <4>1
    <3>. QED  BY <3>1, <3>2
  <2>. QED  BY <1>1, <1>2, <2>6, <2>7, <2>8 DEF Trees
<1>4. CASE ~CreateSolutionNode(g)
  <2>1. column' = column /\ elements' = elements /\ arcs' = arcs
    BY <1>4 DEF Generate, AddFirstNode, LastNodeFound, LastNodeNotFound, AddNode, CreateSolution
  <2>. QED  BY <1>1, <1>2, <2>1 DEF Trees, Untouched, Known, KnownArc, ArcKept, Exists
<1>. QED  BY <1>3, <1>4

(* A node that is created belongs to a solution nobody deletes, or to a    *)
(* disturbed one.                                                          *)
LEMMA GenerateKeepsDeletions ==
  ASSUME TypeOK, Trees, Deletions, NEW g \in Solutions, Generate(g)
  PROVE  Deletions'
<1>. USE DEF treeVars, generatorVars, deleterVars, GeneratorAt
<1>1. /\ deleter' = deleter /\ solution' = solution /\ nodesLeft' = nodesLeft /\ node' = node
      /\ pairsLeft' = pairsLeft /\ pair' = pair /\ disturbed' = disturbed
  BY DEF Generate, CreateSolutionNode, AddFirstNode, LastNodeFound, LastNodeNotFound, AddNode,
     CreateSolution
<1>2. generator[g] # "done" /\ \A h \in Solutions \ {g} : generator'[h] = generator[h]
  BY DEF Generate, CreateSolutionNode, AddFirstNode, LastNodeFound, LastNodeNotFound, AddNode,
     CreateSolution, TypeOK
<1>3. /\ \A x : AtPair(x)' = AtPair(x) /\ AtPairs(x)' = AtPairs(x) /\ AtNode(x)' = AtNode(x)
             /\ AtNodes(x)' = AtNodes(x) /\ Root(x)' = Root(x)
      /\ \A x, n, v : /\ HoldsNode(x, n)' = HoldsNode(x, n)
                      /\ HoldsSubstitutions(x, n)' = HoldsSubstitutions(x, n)
                      /\ HoldsPair(x, n, v)' = HoldsPair(x, n, v)
                      /\ HoldsArc(x, n, v)' = HoldsArc(x, n, v)
  BY <1>1 DEF AtPair, AtPairs, AtNode, AtNodes, Root, HoldsNode, HoldsSubstitutions, HoldsPair, HoldsArc
<1>4. CASE CreateSolutionNode(g)
  <2>1. PICK c \in Columns, new \in Nodes :
          /\ new[2] = g /\ column[new] = None
          /\ column' = [column EXCEPT ![new] = c]
          /\ elements' = elements \cup {new, SubstitutionsOf(new)} \cup
                           {PairOf(new, v) : v \in Variables}
          /\ arcs' = arcs \cup {<<v, c[v], new>> : v \in Variables}
          /\ \A h \in Solutions \ {g} : Created(h)' = Created(h)
    <3>1. PICK c \in Columns, new \in Nodes :
            /\ new = NodeOf(g, Amount(g) + 1) /\ column[new] = None
            /\ column' = [column EXCEPT ![new] = c]
            /\ elements' = elements \cup {new, SubstitutionsOf(new)} \cup
                             {PairOf(new, v) : v \in Variables}
            /\ arcs' = arcs \cup {<<v, c[v], new>> : v \in Variables}
            /\ \A h \in Solutions \ {g} : Created(h)' = Created(h)
      BY <1>4, NodeCreated DEF Trees
    <3>2. new[2] = g
      BY <3>1 DEF NodeOf
    <3>. QED  BY <3>1, <3>2, Zenon
  <2>2. column'[new] = c /\ c # None /\ \A n \in Nodes \ {new} : column'[n] = column[n]
    BY <2>1, NoneAssumption DEF TypeOK
  <2>3. \A h : Exists(RootOf(h))' <=> Exists(RootOf(h))
    BY <2>1, RootIsNoOther DEF Exists
  <2>4. ASSUME NEW n \in Nodes \ {new}
        PROVE  /\ Exists(n)' <=> Exists(n)
               /\ Exists(SubstitutionsOf(n))' <=> Exists(SubstitutionsOf(n))
               /\ \A v \in Variables : Exists(PairOf(n, v))' <=> Exists(PairOf(n, v))
    <3>1. \A v : /\ n # SubstitutionsOf(new) /\ n # PairOf(new, v)
                 /\ SubstitutionsOf(n) # new /\ SubstitutionsOf(n) # SubstitutionsOf(new)
                 /\ SubstitutionsOf(n) # PairOf(new, v)
      BY NodeIsNoOther
    <3>2. \A v, w : /\ PairOf(n, v) # new /\ PairOf(n, v) # SubstitutionsOf(new)
                    /\ PairOf(n, v) # PairOf(new, w)
      BY NodeIsNoOther
    <3>. QED  BY <2>1, <3>1, <3>2 DEF Exists
  <2>5. /\ Exists(new)' /\ Exists(SubstitutionsOf(new))'
        /\ \A v \in Variables : Exists(PairOf(new, v))'
    BY <2>1 DEF Exists
  <2>6. ASSUME NEW d \in Deleters PROVE Advanced(d)'
    <3>1. Advanced(d)
      BY DEF Deletions
    <3>2. \A n \in nodesLeft[d] : n \in Nodes /\ n # new
      BY <2>1, <3>1 DEF Advanced, TypeOK
    <3>3. AtNode(d) => node[d] \in Nodes \ {new}
      BY <2>1, <3>1 DEF Advanced
    <3>4. ASSUME AtNode(d)
          PROVE  /\ Exists(node[d])' <=> Exists(node[d])
                 /\ Exists(SubstitutionsOf(node[d]))' <=> Exists(SubstitutionsOf(node[d]))
                 /\ \A v \in Variables : Exists(PairOf(node[d], v))' <=> Exists(PairOf(node[d], v))
                 /\ PairsOf(node[d])' = PairsOf(node[d])
                 /\ column'[node[d]] = column[node[d]]
      <4>1. node[d] \in Nodes \ {new}
        BY <3>3, <3>4
      <4>2. \A v \in Variables : PairOf(node[d], v) \in elements' <=> PairOf(node[d], v) \in elements
        BY <1>1, <2>4, <4>1 DEF Exists
      <4>3. PairsOf(node[d])' = PairsOf(node[d])
        BY <1>1, <4>2 DEF PairsOf
      <4>. QED  BY <1>1, <2>2, <2>4, <4>1, <4>3 DEF Exists
    <3>5. deleter[d] = "deleteArcs" => (Exists(pair[d])' <=> Exists(pair[d]))
      BY <1>1, <3>1, <3>4 DEF Advanced, AtNode, AtPairs, AtPair, Exists
    <3>6. Exists(Root(d))' <=> Exists(Root(d))
      BY <1>1, <2>3 DEF Root, Exists
    <3>7. deleter[d] \in {"listPairs", "eraseSubstitutions"} \/ AtPairs(d) => AtNode(d)
      BY DEF AtNode
    <3>8. AtPair(d) => AtPairs(d)
      BY DEF AtPairs
    <3>. QED
      BY <1>1, <1>3, <2>2, <3>1, <3>2, <3>3, <3>4, <3>5, <3>6, <3>7, <3>8 DEF Advanced
  <2>7. ASSUME NEW h \in Solutions PROVE Undisturbed(h)'
    <3>1. CASE h = g
      BY <1>1, <1>2, <2>3, <3>1 DEF Deletions, Undisturbed
    <3>2. CASE h # g
      BY <1>1, <1>2, <2>1, <2>3, <3>2 DEF Deletions, Undisturbed
    <3>. QED  BY <3>1, <3>2
  <2>8. g \in disturbed \/ Exists(RootOf(g))
    BY <1>2 DEF Deletions, Undisturbed
  <2>9. ASSUME NEW n \in Nodes PROVE NodeHeld(n)' /\ SubstitutionsHeld(n)'
    <3>1. CASE n = new
      BY <1>1, <2>1, <2>3, <2>5, <2>8, <3>1 DEF NodeHeld, SubstitutionsHeld
    <3>2. CASE n # new
      BY <1>1, <1>3, <2>3, <2>4, <3>2 DEF Deletions, NodeHeld, SubstitutionsHeld
    <3>. QED  BY <3>1, <3>2
  <2>10. ASSUME NEW n \in Nodes, NEW v \in Variables PROVE PairHeld(n, v)' /\ ArcHeld(n, v)'
    <3>1. CASE n = new
      BY <2>5, <3>1 DEF PairHeld, ArcHeld
    <3>2. CASE n # new
      <4>1. <<v, column'[n][v], n>> \in arcs' => <<v, column[n][v], n>> \in arcs
        BY <2>1, <2>2, <3>2
      <4>. QED  BY <1>3, <2>2, <2>4, <3>2, <4>1 DEF Deletions, PairHeld, ArcHeld
    <3>. QED  BY <3>1, <3>2
  <2>. QED  BY <2>6, <2>7, <2>9, <2>10 DEF Deletions
<1>5. CASE ~CreateSolutionNode(g)
  <2>1. column' = column /\ elements' = elements /\ arcs' = arcs
    BY <1>5 DEF Generate, AddFirstNode, LastNodeFound, LastNodeNotFound, AddNode, CreateSolution
  <2>2. \A x : Exists(x)' <=> Exists(x)
    BY <2>1 DEF Exists
  <2>3. \A n : PairsOf(n)' = PairsOf(n)
    BY <2>1 DEF PairsOf
  <2>4. \A d \in Deleters : Advanced(d)'
    BY <1>1, <1>3, <2>1, <2>2, <2>3 DEF Deletions, Advanced, Exists, PairsOf
  <2>5. \A h \in Solutions : Created(h)' = Created(h)
    BY <2>1 DEF Created
  <2>6. ASSUME NEW h \in Solutions PROVE Undisturbed(h)'
    <3>1. CASE h = g
      BY <1>1, <1>2, <2>2, <3>1 DEF Deletions, Undisturbed
    <3>2. CASE h # g
      BY <1>1, <1>2, <2>2, <2>5, <3>2 DEF Deletions, Undisturbed
    <3>. QED  BY <3>1, <3>2
  <2>7. \A n \in Nodes : NodeHeld(n)' /\ SubstitutionsHeld(n)'
    BY <1>1, <1>3, <2>2 DEF Deletions, NodeHeld, SubstitutionsHeld
  <2>8. \A n \in Nodes : \A v \in Variables : PairHeld(n, v)' /\ ArcHeld(n, v)'
    BY <1>1, <1>3, <2>1, <2>2 DEF Deletions, PairHeld, ArcHeld
  <2>. QED  BY <2>4, <2>6, <2>7, <2>8 DEF Deletions
<1>. QED  BY <1>4, <1>5

-----------------------------------------------------------------------------
(* The invariant holds.                                                    *)

LEMMA TreeInit == Init => TreeInv
<1>. SUFFICES ASSUME Init PROVE TreeInv
  OBVIOUS
<1>1. TypeOK
  BY TypeInit
<1>2. ASSUME NEW g \in Solutions PROVE Counted(g) /\ Amount(g) = 0
  <2>1. Created(g) = {}
    BY DEF Created, Init
  <2>2. IsFiniteSet(Created(g)) /\ Amount(g) = 0
    BY <2>1, FS_EmptySet DEF Amount
  <2>3. size[g] \in 0 .. MaxNodes
    BY <1>1 DEF TypeOK
  <2>4. Pending(g) = 0 /\ generator[g] = "idle" /\ last[g] = None
    BY DEF Pending, Init
  <2>. QED  BY <2>1, <2>2, <2>3, <2>4, MaxNodesAssumption DEF Counted
<1>3. \A n \in Nodes : column[n] = None
  BY DEF Init
<1>4. \A n \in Nodes : \A v :
       ~Exists(n) /\ ~Exists(SubstitutionsOf(n)) /\ ~Exists(PairOf(n, v))
  BY RootIsNoOther DEF Init, Exists
<1>5. \A g \in Solutions : Exists(RootOf(g))
  BY DEF Init, Exists
<1>6. Ordered
  BY <1>3 DEF Init, Ordered, Attached
<1>7. Trees
  BY <1>2, <1>3, <1>4, <1>6 DEF Trees, Untouched, Known, ArcKept, Init
<1>8. \A d \in Deleters : Advanced(d)
  BY DEF Init, Advanced, AtNodes, AtNode, AtPairs, AtPair
<1>9. Deletions
  BY <1>3, <1>4, <1>5, <1>8 DEF Deletions, Undisturbed, NodeHeld, SubstitutionsHeld, PairHeld, ArcHeld, Init
<1>. QED  BY <1>1, <1>7, <1>9 DEF TreeInv

LEMMA TreeNext == TreeInv /\ [Next]_vars => TreeInv'
<1>. SUFFICES ASSUME TreeInv, [Next]_vars PROVE TreeInv'
  OBVIOUS
<1>. USE DEF TreeInv
<1>1. CASE UNCHANGED vars
  <2>. USE <1>1 DEF vars, treeVars, generatorVars, deleterVars
  <2>1. TypeOK'
    BY DEF TypeOK
  <2>2. /\ \A g : /\ Created(g)' = Created(g) /\ Amount(g)' = Amount(g) /\ Pending(g)' = Pending(g)
      /\ \A x : Exists(x)' <=> Exists(x)
    BY DEF Created, Amount, Pending, Exists
  <2>3. \A n : Attached(n)' <=> Attached(n)
    BY <2>2 DEF Attached
  <2>4. \A g \in Solutions : Counted(g)'
    BY <2>2 DEF Trees, Counted
  <2>5. Ordered'
    BY <2>2, <2>3 DEF Trees, Ordered
  <2>6. Trees'
    BY <2>2, <2>4, <2>5 DEF Trees, Untouched, Known, KnownArc, ArcKept
  <2>7. /\ \A x : AtPair(x)' = AtPair(x) /\ AtPairs(x)' = AtPairs(x) /\ AtNode(x)' = AtNode(x)
              /\ AtNodes(x)' = AtNodes(x) /\ Root(x)' = Root(x)
        /\ \A x, n, v : /\ HoldsNode(x, n)' = HoldsNode(x, n)
                        /\ HoldsSubstitutions(x, n)' = HoldsSubstitutions(x, n)
                        /\ HoldsPair(x, n, v)' = HoldsPair(x, n, v)
                        /\ HoldsArc(x, n, v)' = HoldsArc(x, n, v)
        /\ \A n : PairsOf(n)' = PairsOf(n)
    BY DEF AtPair, AtPairs, AtNode, AtNodes, Root, HoldsNode, HoldsSubstitutions, HoldsPair, HoldsArc,
       PairsOf
  <2>8. \A x \in Deleters : Advanced(x)'
    BY <2>2, <2>7 DEF Deletions, Advanced, PairsOf, Exists
  <2>9. \A g \in Solutions : Undisturbed(g)'
    BY <2>2 DEF Deletions, Undisturbed
  <2>10. Deletions'
    BY <2>2, <2>7, <2>8, <2>9 DEF Deletions, NodeHeld, SubstitutionsHeld, PairHeld, ArcHeld
  <2>. QED  BY <2>1, <2>6, <2>10
<1>2. ASSUME NEW g \in Solutions, Generate(g) PROVE TreeInv'
  <2>1. TypeOK'
    BY <1>2, TypeGenerate DEF Trees
  <2>2. Trees'
    BY <1>2, GenerateKeepsTrees
  <2>3. Deletions'
    BY <1>2, GenerateKeepsDeletions
  <2>. QED  BY <2>1, <2>2, <2>3
<1>3. ASSUME NEW d \in Deleters, StartDeletion(d) \/ Delete(d) PROVE TreeInv'
  <2>1. Advanced(d) /\ Ordered /\ \A n \in Nodes : Known(n)
    BY DEF Trees, Deletions
  <2>2. TypeOK' /\ DeleteFrame(d)
    BY <1>3, <2>1, TypeDelete
  <2>3. Trees'
    BY <1>3, <2>1, DeleteKeepsTrees
  <2>4. ASSUME NEW x \in Deleters PROVE Advanced(x)'
    <3>1. CASE x = d
      BY <1>3, <2>1, <3>1, SelfAdvanced
    <3>2. CASE x # d
      BY <2>2, <3>2, OthersAdvanced DEF Deletions
    <3>. QED  BY <3>1, <3>2
  <2>5. \A g \in Solutions : Undisturbed(g)'
    BY <1>3, <2>1, DeleteKeepsUndisturbed DEF Deletions
  <2>6. KeepsHold(d)
    BY <1>3, <2>2, StepKeepsHold
  <2>7. /\ \A n \in Nodes : NodeHeld(n)' /\ SubstitutionsHeld(n)'
        /\ \A n \in Nodes : \A v \in Variables : PairHeld(n, v)' /\ ArcHeld(n, v)'
    BY <2>2, <2>6, HeldIfKept
  <2>8. Deletions'
    BY <2>4, <2>5, <2>7 DEF Deletions
  <2>. QED  BY <2>2, <2>3, <2>8
<1>. QED  BY <1>1, <1>2, <1>3 DEF Next

(* Every reachable state is as the invariant says: SolutionTreeGenerator   *)
(* has numbered, linked and ordered the nodes of each solution, and what   *)
(* is left of an erased one is held by a step of DeleteSolutionManager     *)
(* that will come to it.                                                   *)
THEOREM TreeCorrect == Spec => []TreeInv
<1>. QED  BY TreeInit, TreeNext, PTL DEF Spec

(* The variables of agents that write and delete solutions have their      *)
(* types.                                                                  *)
THEOREM TypeCorrect == Spec => []TypeOK
<1>1. TreeInv => TypeOK
  BY DEF TreeInv
<1>. QED  BY <1>1, TreeCorrect, PTL

(* While a solution exists and no node is being added, its tree consists   *)
(* of all the nodes created for it, in their order, each with its          *)
(* substitutions, whatever the delete agents are doing to this solution or *)
(* to others.                                                              *)
THEOREM ExistingTreeIsWhole == Spec => []TreeIsWhole
<1>1. ASSUME TreeInv, NEW g \in Solutions, Exists(RootOf(g)), generator[g] \in {"idle", "done"}
      PROVE  /\ {n \in linked : n[2] = g} = Created(g)
             /\ {n \in first : n[2] = g} = {n \in Created(g) : n[3] = 1}
             /\ {f \in follows : f[1][2] = g} =
                  {f \in Created(g) \X Created(g) : f[2][3] = f[1][3] + 1}
             /\ \A n \in Created(g) :
                  /\ Exists(n) /\ Exists(SubstitutionsOf(n))
                  /\ \A v \in Variables : Exists(PairOf(n, v))
  <2>1. Pending(g) = 0 /\ Amount(g) \in Nat
    BY <1>1, CreatedAre DEF Pending, TreeInv, Trees
  <2>2. \A n \in Nodes : n[2] = g => (column[n] # None <=> Attached(n))
    BY <1>1, <2>1, CreatedAre, NodeShape DEF TreeInv, Trees, Attached
  <2>3. {n \in linked : n[2] = g} = Created(g)
    BY <1>1, <2>2 DEF TreeInv, Trees, Ordered, Created
  <2>4. {n \in first : n[2] = g} = {n \in Created(g) : n[3] = 1}
    BY <1>1, <2>3 DEF TreeInv, Trees, Ordered
  <2>5. {f \in follows : f[1][2] = g} = {f \in Created(g) \X Created(g) : f[2][3] = f[1][3] + 1}
    BY <1>1, <2>3 DEF TreeInv, Trees, Ordered
  <2>6. ASSUME NEW n \in Created(g)
        PROVE  /\ Exists(n) /\ Exists(SubstitutionsOf(n))
               /\ \A v \in Variables : Exists(PairOf(n, v))
    BY <1>1 DEF TreeInv, Trees, Untouched, Created
  <2>. QED  BY <2>3, <2>4, <2>5, <2>6
<1>2. TreeInv => TreeIsWhole
  BY <1>1 DEF TreeIsWhole
<1>. QED  BY <1>2, TreeCorrect, PTL

(* When a complete solution was deleted and no agent is at it any more,    *)
(* nothing is left of its tree and none of its temporary arcs, however     *)
(* many agents deleted it at the same time.                                *)
THEOREM DeletedSolutionIsGone == Spec => []NothingLeft
<1>1. ASSUME TreeInv, NEW d \in Deleters, deleter[d] = "finished",
             Deleting(solution[d]) = {}, solution[d] \notin disturbed
      PROVE  /\ ElementsOf(solution[d]) = {}
             /\ \A arc \in arcs : arc[3][2] # solution[d]
  <2>. DEFINE g == solution[d]
  <2>1. g \in Solutions /\ ~Exists(RootOf(g))
    BY <1>1 DEF TreeInv, TypeOK, Deletions, Advanced, Root
  <2>2. ASSUME NEW x \in Deleters PROVE AtNodes(x) => solution[x] # g
    BY <1>1 DEF Deleting, AtNodes, AtNode, AtPairs, AtPair
  <2>3. ASSUME NEW x \in Deleters, AtNode(x) PROVE node[x] \in Nodes /\ node[x][2] # g
    BY <1>1, <2>2, <2>3 DEF AtNodes, TreeInv, Deletions, Advanced
  <2>4. ASSUME NEW n \in Nodes, n[2] = g
        PROVE  /\ ~Exists(n) /\ ~Exists(SubstitutionsOf(n))
               /\ \A v \in Variables :
                    ~Exists(PairOf(n, v)) /\ (column[n] # None => <<v, column[n][v], n>> \notin arcs)
    <3>1. \A x \in Deleters : ~HoldsNode(x, n)
      BY <1>1, <2>2, <2>3, <2>4 DEF HoldsNode, AtNode, TreeInv, Deletions, Advanced
    <3>2. \A x \in Deleters : ~HoldsSubstitutions(x, n)
      BY <2>3, <2>4 DEF HoldsSubstitutions, AtNode
    <3>3. \A x \in Deleters : \A v : ~HoldsPair(x, n, v) /\ ~HoldsArc(x, n, v)
      BY <2>3, <2>4 DEF HoldsPair, HoldsArc, AtNode, AtPairs, AtPair
    <3>4. ~Exists(n)
      BY <1>1, <2>1, <2>4, <3>1 DEF TreeInv, Deletions, NodeHeld
    <3>5. ~Exists(SubstitutionsOf(n))
      BY <1>1, <3>2, <3>4 DEF TreeInv, Deletions, SubstitutionsHeld
    <3>6. \A v \in Variables : ~Exists(PairOf(n, v))
      BY <1>1, <3>3, <3>5 DEF TreeInv, Deletions, PairHeld
    <3>7. \A v \in Variables : column[n] # None => <<v, column[n][v], n>> \notin arcs
      BY <1>1, <3>3, <3>6 DEF TreeInv, Deletions, ArcHeld
    <3>. QED  BY <3>4, <3>5, <3>6, <3>7
  <2>5. ASSUME NEW x \in elements, x[2] = g PROVE FALSE
    <3>1. x # RootOf(g) /\ \A h : x = RootOf(h) => h = g
      BY <2>1, <2>5 DEF Exists, RootOf
    <3>2. \A n \in Nodes : x = SubstitutionsOf(n) => n[2] = g
      BY <2>5 DEF SubstitutionsOf
    <3>3. \A n \in Nodes : \A v : x = PairOf(n, v) => n[2] = g
      BY <2>5 DEF PairOf
    <3>. QED  BY <1>1, <2>4, <2>5, <3>1, <3>2, <3>3, ElementsAre DEF TreeInv, Exists
  <2>6. ASSUME NEW arc \in arcs, arc[3][2] = g PROVE FALSE
    <3>1. /\ arc[1] \in Variables /\ arc[3] \in Nodes /\ column[arc[3]] # None
          /\ <<arc[1], column[arc[3]][arc[1]], arc[3]>> \in arcs
      BY <1>1 DEF TreeInv, TypeOK, Trees, KnownArc
    <3>. QED  BY <2>4, <2>6, <3>1
  <2>. QED  BY <2>5, <2>6 DEF ElementsOf
<1>2. TreeInv => NothingLeft
  BY <1>1 DEF NothingLeft
<1>. QED  BY <1>2, TreeCorrect, PTL

(* A linked node has its temporary arcs, except those that the deletion of *)
(* another node with the same variable and replacement has taken away.     *)
THEOREM LinkedNodesKeepTheirArcs == Spec => []ArcsKept
<1>1. ASSUME TreeInv, NEW n \in linked, NEW v \in Variables
      PROVE  \/ <<v, column[n][v], n>> \in arcs
             \/ \E m \in Nodes \ {n} : ~Exists(m) /\ column[m] # None /\ column[m][v] = column[n][v]
  <2>1. n \in Nodes /\ Exists(n)
    BY <1>1 DEF TreeInv, Trees, Ordered, Attached, Untouched
  <2>. QED  BY <1>1, <2>1 DEF TreeInv, Trees, ArcKept
<1>2. TreeInv => ArcsKept
  BY <1>1 DEF ArcsKept
<1>. QED  BY <1>2, TreeCorrect, PTL

-----------------------------------------------------------------------------
(* What a deletion leaves of a solution that was still written.            *)

(* The parts of a node are erased from the node down to its pairs.         *)
Intact(n) ==
  /\ Exists(n) => Exists(SubstitutionsOf(n))
  /\ Exists(SubstitutionsOf(n)) => \A v \in Variables : Exists(PairOf(n, v))

Earlier(n, m) == n[2] = m[2] /\ n[3] < m[3]

Lists(d, m) ==
  \/ (deleter[d] = "eraseSolution" \/ AtNodes(d)) /\ m \in nodesLeft[d]
  \/ AtNode(d) /\ node[d] = m

StillHas(d, n) ==
  n \in nodesLeft[d] \/ (deleter[d] \in {"findSubstitutions", "eraseNode"} /\ node[d] = n)

(* Who has a node in hand has listed all nodes before it, and has each of  *)
(* them until it is erased.                                                *)
ListsBeginning(d) ==
  \A m, n \in Nodes : Lists(d, m) /\ Earlier(n, m) => ~Exists(n) \/ StillHas(d, n)

(* A node that outlives a later one is held by somebody.                   *)
ErasedInOrder(m, n) ==
  Earlier(n, m) /\ column[m] # None /\ ~Exists(m) /\ Exists(n) =>
    \E d \in Deleters : HoldsNode(d, n)

BeginningInv ==
  /\ \A n \in Nodes : Intact(n)
  /\ \A d \in Deleters : ListsBeginning(d)
  /\ \A m, n \in Nodes : ErasedInOrder(m, n)

LEMMA BeginningInit == Init => BeginningInv
<1>. SUFFICES ASSUME Init PROVE BeginningInv
  OBVIOUS
<1>1. \A n \in Nodes : ~Exists(n) /\ ~Exists(SubstitutionsOf(n))
  BY RootIsNoOther DEF Init, Exists
<1>. QED  BY <1>1 DEF BeginningInv, Intact, ListsBeginning, ErasedInOrder

(* A new node comes after all nodes anybody has listed or erased.          *)
LEMMA GenerateKeepsBeginning ==
  ASSUME TypeOK, Trees, Deletions, BeginningInv, NEW g \in Solutions, Generate(g)
  PROVE  BeginningInv'
<1>1. /\ deleter' = deleter /\ nodesLeft' = nodesLeft /\ node' = node
  BY DEF Generate, CreateSolutionNode, AddFirstNode, LastNodeFound, LastNodeNotFound, AddNode,
     CreateSolution, deleterVars, treeVars, generatorVars
<1>2. /\ \A d, n : HoldsNode(d, n)' = HoldsNode(d, n)
      /\ \A d, n : Lists(d, n)' = Lists(d, n) /\ StillHas(d, n)' = StillHas(d, n)
      /\ \A m, n : Earlier(m, n)' = Earlier(m, n)
  BY <1>1 DEF HoldsNode, Lists, StillHas, Earlier, AtNodes, AtNode, AtPairs, AtPair
<1>3. CASE CreateSolutionNode(g)
  <2>1. PICK c \in Columns, new \in Nodes :
          /\ new = NodeOf(g, Amount(g) + 1) /\ column[new] = None
          /\ column' = [column EXCEPT ![new] = c]
          /\ elements' = elements \cup {new, SubstitutionsOf(new)} \cup
                           {PairOf(new, v) : v \in Variables}
    BY <1>3, NodeCreated DEF Trees
  <2>2. \A n \in Nodes \ {new} : column'[n] = column[n]
    BY <2>1 DEF TypeOK
  <2>3. ASSUME NEW n \in Nodes \ {new}
        PROVE  /\ Exists(n)' <=> Exists(n)
               /\ Exists(SubstitutionsOf(n))' <=> Exists(SubstitutionsOf(n))
               /\ \A v \in Variables : Exists(PairOf(n, v))' <=> Exists(PairOf(n, v))
    <3>1. \A v : /\ n # SubstitutionsOf(new) /\ n # PairOf(new, v)
                 /\ SubstitutionsOf(n) # new /\ SubstitutionsOf(n) # SubstitutionsOf(new)
                 /\ SubstitutionsOf(n) # PairOf(new, v)
      BY NodeIsNoOther
    <3>2. \A v, w : /\ PairOf(n, v) # new /\ PairOf(n, v) # SubstitutionsOf(new)
                    /\ PairOf(n, v) # PairOf(new, w)
      BY NodeIsNoOther
    <3>. QED  BY <2>1, <3>1, <3>2 DEF Exists
  <2>4. /\ Exists(new)' /\ Exists(SubstitutionsOf(new))'
        /\ \A v \in Variables : Exists(PairOf(new, v))'
    BY <2>1 DEF Exists
  <2>5. ASSUME NEW m \in Nodes, column[m] # None
        PROVE  ~Earlier(new, m)
    <3>1. Amount(g) \in Nat /\ new[2] = g /\ new[3] = Amount(g) + 1
      BY <2>1, CreatedAre DEF Trees, NodeOf
    <3>2. m[2] = g => m[3] <= Amount(g)
      BY <2>5, CreatedAre DEF Trees
    <3>3. m[3] \in 1 .. MaxNodes /\ MaxNodes \in Nat
      BY NodeShape, MaxNodesAssumption
    <3>. QED  BY <3>1, <3>2, <3>3 DEF Earlier
  <2>6. \A n \in Nodes : Intact(n)'
    BY <2>3, <2>4 DEF BeginningInv, Intact
  <2>7. ASSUME NEW d \in Deleters PROVE ListsBeginning(d)'
    <3>. SUFFICES ASSUME NEW m \in Nodes, NEW n \in Nodes, Lists(d, m), Earlier(n, m), Exists(n)'
                  PROVE  StillHas(d, n)
      BY <1>2 DEF ListsBeginning
    <3>1. column[m] # None
      BY DEF Lists, Deletions, Advanced
    <3>2. n # new
      BY <2>5, <3>1
    <3>. QED  BY <2>3, <3>2 DEF BeginningInv, ListsBeginning
  <2>8. ASSUME NEW m \in Nodes, NEW n \in Nodes PROVE ErasedInOrder(m, n)'
    <3>. SUFFICES ASSUME Earlier(n, m), column'[m] # None, ~Exists(m)', Exists(n)'
                  PROVE  \E d \in Deleters : HoldsNode(d, n)
      BY <1>2 DEF ErasedInOrder
    <3>1. m # new /\ column[m] # None
      BY <2>2, <2>4
    <3>2. n # new
      BY <2>5, <3>1
    <3>. QED  BY <2>3, <3>1, <3>2 DEF BeginningInv, ErasedInOrder
  <2>. QED  BY <2>6, <2>7, <2>8 DEF BeginningInv
<1>4. CASE ~CreateSolutionNode(g)
  <2>1. column' = column /\ elements' = elements
    BY <1>4 DEF Generate, AddFirstNode, LastNodeFound, LastNodeNotFound, AddNode, CreateSolution,
       treeVars, generatorVars
  <2>. QED
    BY <1>2, <2>1 DEF BeginningInv, Intact, ListsBeginning, ErasedInOrder, Exists
<1>. QED  BY <1>3, <1>4

(* A step of a deletion keeps what it holds until it is erased.            *)
LEMMA StepKeepsListed ==
  ASSUME TypeOK, TypeOK', Trees, Deletions, NEW d \in Deleters, DeleteFrame(d),
         StartDeletion(d) \/ Delete(d), ListsBeginning(d)
  PROVE  /\ \A n \in Nodes : HoldsNode(d, n) /\ Exists(n)' => HoldsNode(d, n)'
         /\ ListsBeginning(d)'
<1>. USE DEF DeleterAt, treeVars, generatorVars, unlistedVars, writerVars
<1>1. /\ column' = column /\ elements' \subseteq elements /\ solution' = solution /\ Advanced(d)
  BY DEF DeleteFrame, Deletions, generatorVars
<1>2. \A x : Exists(x)' => Exists(x)
  BY <1>1 DEF Exists
<1>. USE DEF HoldsNode, AtNodes, AtNode, AtPairs, AtPair, ListsBeginning, Lists, StillHas, Earlier
<1>3. CASE StartDeletion(d)
  BY <1>1, <1>2, <1>3 DEF StartDeletion, TypeOK
<1>4. CASE CheckSolution(d)
  BY <1>1, <1>2, <1>4 DEF CheckSolution, TypeOK
<1>5. CASE ListNodes(d)
  <2>1. /\ deleter[d] = "list" /\ deleter'[d] = "eraseSolution"
        /\ nodesLeft'[d] = {n \in linked : n[2] = solution[d]}
        /\ UNCHANGED <<elements, node>>
    BY <1>5 DEF ListNodes, TypeOK
  <2>2. ASSUME NEW m \in linked, NEW n \in Nodes, Earlier(n, m), Exists(n)
        PROVE  n \in linked
    <3>1. m \in Nodes /\ n[3] < m[3] /\ n[2] = m[2] /\ column[n] # None
      BY <2>2 DEF TypeOK, Trees, Known
    <3>2. /\ n[2] \in Solutions /\ n[3] \in 1 .. MaxNodes /\ m[3] \in 1 .. MaxNodes /\ MaxNodes \in Nat
      BY <3>1, NodeShape, MaxNodesAssumption
    <3>3. Amount(n[2]) \in Nat /\ Pending(n[2]) \in Nat
      BY <3>2, CreatedAre DEF Trees, Pending
    <3>4. m[3] <= Amount(n[2]) - Pending(n[2]) /\ Exists(RootOf(n[2]))
      BY <2>2, <3>1 DEF Trees, Ordered, Attached
    <3>5. Attached(n)
      BY <3>1, <3>2, <3>3, <3>4 DEF Attached
    <3>. QED  BY <3>4, <3>5 DEF Trees, Ordered
  <2>. QED  BY <1>1, <1>2, <2>1, <2>2
<1>6. CASE EraseSolution(d)
  BY <1>1, <1>2, <1>6 DEF EraseSolution, TypeOK
<1>7. CASE SkipNode(d)
  BY <1>1, <1>2, <1>7 DEF SkipNode, TypeOK, Exists
<1>8. CASE TakeNode(d)
  BY <1>1, <1>2, <1>8 DEF TakeNode, TypeOK
<1>9. CASE FindSubstitutions(d)
  BY <1>1, <1>2, <1>9 DEF FindSubstitutions, TypeOK, Exists
<1>10. CASE EraseNode(d)
  <2>1. ~Exists(node[d])' /\ deleter[d] = "eraseNode" /\ deleter'[d] = "listPairs"
        /\ nodesLeft' = nodesLeft /\ node' = node
    BY <1>10 DEF EraseNode, Erase, Exists, TypeOK
  <2>. QED  BY <1>1, <1>2, <2>1 DEF Exists
<1>11. CASE ListPairs(d)
  BY <1>1, <1>2, <1>11 DEF ListPairs, TypeOK
<1>12. CASE EraseSubstitutions(d)
  BY <1>1, <1>2, <1>12 DEF EraseSubstitutions, TypeOK
<1>13. CASE SkipPair(d)
  BY <1>1, <1>2, <1>13 DEF SkipPair, TypeOK
<1>14. CASE TakePair(d)
  BY <1>1, <1>2, <1>14 DEF TakePair, TypeOK
<1>15. CASE FindReplacement(d)
  BY <1>1, <1>2, <1>15 DEF FindReplacement, TypeOK
<1>16. CASE ErasePair(d)
  BY <1>1, <1>2, <1>16 DEF ErasePair, TypeOK
<1>17. CASE DeleteEdges(d)
  BY <1>1, <1>2, <1>17 DEF DeleteEdges, TypeOK
<1>18. CASE PairsDeleted(d)
  BY <1>1, <1>2, <1>18 DEF PairsDeleted, TypeOK
<1>19. CASE NodesDeleted(d)
  BY <1>1, <1>2, <1>19 DEF NodesDeleted, TypeOK
<1>. QED
  BY <1>3, <1>4, <1>5, <1>6, <1>7, <1>8, <1>9, <1>10, <1>11, <1>12, <1>13, <1>14, <1>15, <1>16,
     <1>17, <1>18, <1>19 DEF Delete

(* A deletion erases a node before its substitutions, these before their   *)
(* pairs, and no node before it listed those before it.                    *)
LEMMA StepErasesInOrder ==
  ASSUME TypeOK, Trees, Deletions, NEW d \in Deleters, StartDeletion(d) \/ Delete(d),
         NEW n \in Nodes
  PROVE  /\ Exists(n) /\ ~Exists(n)' =>
              /\ deleter[d] = "eraseNode" /\ node[d] = n
              /\ deleter'[d] = "listPairs" /\ nodesLeft' = nodesLeft
         /\ Exists(SubstitutionsOf(n)) /\ ~Exists(SubstitutionsOf(n))' => ~Exists(n)
         /\ \A v \in Variables :
              Exists(PairOf(n, v)) /\ ~Exists(PairOf(n, v))' => ~Exists(SubstitutionsOf(n))
<1>. USE DEF DeleterAt, treeVars, unlistedVars
<1>1. Advanced(d)
  BY DEF Deletions
<1>2. CASE EraseSolution(d)
  <2>1. elements' = elements \ {Root(d)}
    BY <1>2 DEF EraseSolution, Erase
  <2>. QED  BY <2>1, RootIsNoOther DEF Exists, Root
<1>3. CASE EraseNode(d)
  <2>1. /\ elements' = elements \ {node[d]} /\ deleter[d] = "eraseNode" /\ deleter'[d] = "listPairs"
        /\ nodesLeft' = nodesLeft
    BY <1>3 DEF EraseNode, Erase, TypeOK
  <2>2. node[d] \in Nodes
    BY <1>1, <2>1 DEF Advanced, AtNode
  <2>. QED  BY <2>1, <2>2, NodeIsNoOther DEF Exists
<1>4. CASE EraseSubstitutions(d)
  <2>1. /\ elements' = elements \ {SubstitutionsOf(node[d])} /\ deleter[d] = "eraseSubstitutions"
    BY <1>4 DEF EraseSubstitutions, Erase, TypeOK
  <2>2. node[d] \in Nodes /\ ~Exists(node[d])
    BY <1>1, <2>1 DEF Advanced, AtNode
  <2>. QED  BY <2>1, <2>2, NodeIsNoOther DEF Exists
<1>5. CASE ErasePair(d)
  <2>1. /\ elements' = elements \ {pair[d]} /\ deleter[d] = "erasePair"
    BY <1>5 DEF ErasePair, Erase, TypeOK
  <2>2. /\ node[d] \in Nodes /\ ~Exists(SubstitutionsOf(node[d]))
        /\ \E w \in Variables : pair[d] = PairOf(node[d], w)
    BY <1>1, <2>1 DEF Advanced, AtNode, AtPairs, AtPair
  <2>. QED  BY <2>1, <2>2, NodeIsNoOther DEF Exists
<1>6. CASE elements' = elements
  BY <1>6 DEF Exists
<1>. QED
  BY <1>2, <1>3, <1>4, <1>5, <1>6 DEF Delete, StartDeletion, CheckSolution, ListNodes, SkipNode, TakeNode,
     FindSubstitutions, ListPairs, SkipPair, TakePair, FindReplacement, DeleteEdges,
     PairsDeleted, NodesDeleted

LEMMA DeleteKeepsBeginning ==
  ASSUME TypeOK, Trees, Deletions, BeginningInv, TypeOK',
         NEW d \in Deleters, StartDeletion(d) \/ Delete(d)
  PROVE  BeginningInv'
<1>1. DeleteFrame(d) /\ column' = column /\ elements' \subseteq elements
  <2>1. DeleteFrame(d)
    BY TypeDelete DEF Deletions
  <2>. QED  BY <2>1 DEF DeleteFrame, generatorVars
<1>2. \A x : Exists(x)' => Exists(x)
  BY <1>1 DEF Exists
<1>3. ASSUME NEW x \in Deleters \ {d}
      PROVE  /\ \A n : HoldsNode(x, n)' = HoldsNode(x, n)
             /\ \A n : Lists(x, n)' = Lists(x, n) /\ StillHas(x, n)' = StillHas(x, n)
  BY <1>1 DEF DeleteFrame, HoldsNode, Lists, StillHas, AtNodes, AtNode, AtPairs, AtPair
<1>4. /\ \A n \in Nodes : HoldsNode(d, n) /\ Exists(n)' => HoldsNode(d, n)'
      /\ ListsBeginning(d)'
  BY <1>1, StepKeepsListed DEF BeginningInv
<1>5. ASSUME NEW n \in Nodes PROVE Intact(n)'
  BY <1>2, StepErasesInOrder DEF BeginningInv, Intact
<1>6. ASSUME NEW x \in Deleters PROVE ListsBeginning(x)'
  <2>1. CASE x = d
    BY <1>4, <2>1
  <2>2. CASE x # d
    BY <1>2, <1>3, <2>2 DEF BeginningInv, ListsBeginning, Earlier
  <2>. QED  BY <2>1, <2>2
<1>7. ASSUME NEW m \in Nodes, NEW n \in Nodes PROVE ErasedInOrder(m, n)'
  <2>. SUFFICES ASSUME Earlier(n, m), column[m] # None, ~Exists(m)', Exists(n)'
                PROVE  \E x \in Deleters : HoldsNode(x, n)'
    BY <1>1 DEF ErasedInOrder, Earlier
  <2>1. CASE Exists(m)
    <3>1. deleter[d] = "eraseNode" /\ node[d] = m /\ deleter'[d] = "listPairs" /\ nodesLeft' = nodesLeft
      BY <2>1, StepErasesInOrder
    <3>2. Lists(d, m)
      BY <3>1 DEF Lists, AtNode
    <3>3. StillHas(d, n)
      BY <1>2, <3>2 DEF BeginningInv, ListsBeginning
    <3>4. n \in nodesLeft[d]
      <4>1. n # m
        BY NodeShape, MaxNodesAssumption DEF Earlier
      <4>. QED  BY <3>1, <3>3, <4>1 DEF StillHas
    <3>. QED  BY <3>1, <3>4 DEF HoldsNode, AtNodes, AtNode
  <2>2. CASE ~Exists(m)
    <3>1. PICK x \in Deleters : HoldsNode(x, n)
      BY <1>2, <2>2 DEF BeginningInv, ErasedInOrder
    <3>. QED  BY <1>3, <1>4, <3>1
  <2>. QED  BY <2>1, <2>2
<1>. QED  BY <1>5, <1>6, <1>7 DEF BeginningInv

LEMMA BeginningNext == TreeInv /\ BeginningInv /\ TreeInv' /\ [Next]_vars => BeginningInv'
<1>. SUFFICES ASSUME TreeInv, BeginningInv, TreeInv', [Next]_vars PROVE BeginningInv'
  OBVIOUS
<1>1. CASE UNCHANGED vars
  <2>. USE <1>1 DEF vars, treeVars, generatorVars, deleterVars
  <2>1. /\ \A x : Exists(x)' <=> Exists(x)
        /\ \A d, n : /\ HoldsNode(d, n)' = HoldsNode(d, n)
                     /\ Lists(d, n)' = Lists(d, n) /\ StillHas(d, n)' = StillHas(d, n)
    BY DEF Exists, HoldsNode, Lists, StillHas, AtNodes, AtNode, AtPairs, AtPair
  <2>. QED  BY <2>1 DEF BeginningInv, Intact, ListsBeginning, ErasedInOrder, Earlier
<1>2. ASSUME NEW g \in Solutions, Generate(g) PROVE BeginningInv'
  BY <1>2, GenerateKeepsBeginning DEF TreeInv
<1>3. ASSUME NEW d \in Deleters, StartDeletion(d) \/ Delete(d) PROVE BeginningInv'
  BY <1>3, DeleteKeepsBeginning DEF TreeInv
<1>. QED  BY <1>1, <1>2, <1>3 DEF Next

(* When nobody deletes a solution any more each of its nodes is whole, or  *)
(* gone with its substitutions and arcs and with all nodes before it, even *)
(* if its inference went on writing while it was deleted.                  *)
THEOREM DeletionLeavesNoPart == Spec => []BeginningIsErased
<1>1. ASSUME TreeInv, BeginningInv, NEW g \in Solutions, Deleting(g) = {}
      PROVE  \A n \in Created(g) :
               \/ Whole(n)
               \/ Gone(n) /\ \A m \in Created(g) : m[3] < n[3] => Gone(m)
  <2>1. ASSUME NEW x \in Deleters PROVE AtNodes(x) => solution[x] # g
    BY <1>1 DEF Deleting, AtNodes, AtNode, AtPairs, AtPair
  <2>2. ASSUME NEW n \in Nodes, n[2] = g, NEW x \in Deleters
        PROVE  /\ ~HoldsNode(x, n) /\ ~HoldsSubstitutions(x, n)
               /\ \A v : ~HoldsPair(x, n, v) /\ ~HoldsArc(x, n, v)
    <3>1. AtNode(x) => AtNodes(x)
      BY DEF AtNodes
    <3>2. AtNode(x) => node[x][2] = solution[x]
      BY <1>1 DEF TreeInv, Deletions, Advanced
    <3>3. \A k \in nodesLeft[x] : k[2] = solution[x]
      BY <1>1 DEF TreeInv, Deletions, Advanced
    <3>. QED
      BY <2>1, <2>2, <3>1, <3>2, <3>3 DEF HoldsNode, HoldsSubstitutions, HoldsPair, HoldsArc, AtNode, AtPairs, AtPair
  <2>3. ASSUME NEW n \in Nodes, n[2] = g, Exists(n) PROVE Whole(n)
    BY <1>1, <2>3 DEF BeginningInv, Intact, Whole
  <2>4. ASSUME NEW n \in Nodes, n[2] = g, column[n] # None, ~Exists(n) PROVE Gone(n)
    <3>1. ~Exists(SubstitutionsOf(n))
      BY <1>1, <2>2, <2>4 DEF TreeInv, Deletions, SubstitutionsHeld
    <3>2. \A v \in Variables : ~Exists(PairOf(n, v))
      BY <1>1, <2>2, <2>4, <3>1 DEF TreeInv, Deletions, PairHeld
    <3>3. \A v \in Variables : <<v, column[n][v], n>> \notin arcs
      BY <1>1, <2>2, <2>4, <3>2 DEF TreeInv, Deletions, ArcHeld
    <3>4. ASSUME NEW arc \in arcs PROVE arc[3] # n
      <4>1. arc[1] \in Variables /\ arc = <<arc[1], column[arc[3]][arc[1]], arc[3]>>
        BY <1>1 DEF TreeInv, TypeOK, Trees, KnownArc
      <4>. QED  BY <3>3, <4>1
    <3>. QED  BY <2>4, <3>1, <3>2, <3>4 DEF Gone
  <2>5. ASSUME NEW n \in Created(g), NEW m \in Created(g), ~Exists(n), m[3] < n[3] PROVE ~Exists(m)
    <3>1. Earlier(m, n) /\ n \in Nodes /\ m \in Nodes /\ m[2] = g /\ column[n] # None
      BY <2>5 DEF Created, Earlier
    <3>. QED  BY <1>1, <2>2, <2>5, <3>1 DEF BeginningInv, ErasedInOrder
  <2>. QED  BY <2>3, <2>4, <2>5 DEF Created
<1>2. TreeInv /\ BeginningInv => BeginningIsErased
  BY <1>1 DEF BeginningIsErased
<1>. QED  BY <1>2, TreeCorrect, BeginningInit, BeginningNext, PTL DEF Spec
================================================================================
