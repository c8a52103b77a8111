--------------------------- MODULE MCFormulasSets ---------------------------
(***************************************************************************)
(* The formula sets the instances of the two managers are called with.     *)
(***************************************************************************)
EXTENDS InferenceManagerAbstract, SequencesExt

CONSTANTS s1, s2, s3

(* Members of a formula set: distinct formulas in any order, at most n.    *)
Members(n) == UNION {SetToSeqs(S) : S \in {T \in SUBSET Formulas : Cardinality(T) <= n}}

(* The oriented set of s1, s2, s3 in this order, as many as there are      *)
(* members.                                                                *)
Chain(members) ==
  [first   |-> IF members = <<>> THEN None ELSE s1,
   next    |-> [s \in Sets |-> CASE s = s1 /\ Len(members) > 1 -> s2
                                 [] s = s2 /\ Len(members) > 2 -> s3
                                 [] OTHER -> None],
   members |-> [s \in Sets |-> CASE s = s1 /\ Len(members) > 0 -> members[1]
                                 [] s = s2 /\ Len(members) > 1 -> members[2]
                                 [] s = s3 /\ Len(members) > 2 -> members[3]
                                 [] OTHER -> <<>>]]

(* No set, one set of up to three formulas, two sets of up to two, three   *)
(* sets of at most one; a formula may be in several sets.                  *)
AllShapes ==
  {Chain(<<>>)} \cup
  {Chain(<<m>>) : m \in Members(3)} \cup
  {Chain(<<m, n>>) : m, n \in Members(2)} \cup
  {Chain(<<m, n, o>>) : m, n, o \in Members(1)}
=============================================================================
