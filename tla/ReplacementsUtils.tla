-------------------------- MODULE ReplacementsUtils --------------------------
(***************************************************************************)
(* The algebra of replacements (class ReplacementsUtils).                  *)
(*                                                                         *)
(* Replacements map each variable to a vector; the values at one index of  *)
(* all vectors are a column: one way to replace the variables.  The maps   *)
(* and sets of the code are hash containers, so every operator takes a     *)
(* `walk`: the order in which the containers keyed by variables are        *)
(* iterated, and the order of the buckets of the column hashes.            *)
(***************************************************************************)
EXTENDS Integers, Sequences, FiniteSets, Functions

CONSTANTS
  Variables, (* the variables of the formulas                              *)
  Values,    (* the elements that may replace them                         *)
  Offset     (* Offset[v]: the offset of v inside its storage segment      *)

ASSUME VariablesAssumption == IsFiniteSet(Variables)
ASSUME OffsetAssumption == Offset \in [Values -> Nat]

(* Replacements: any variables, any vectors.                               *)
IsReplacements(r) ==
  /\ DOMAIN r \subseteq Variables
  /\ r \in [DOMAIN r -> Seq(Values)]

(* Matrices of replacements, and their columns.                            *)
IsMatrix(r) == \A k, m \in DOMAIN r : Len(r[k]) = Len(r[m])

Column(r, i) == [key \in DOMAIN r |-> r[key][i]]

Columns(r) == {Column(r, i) : i \in UNION {DOMAIN r[key] : key \in DOMAIN r}}

-----------------------------------------------------------------------------
(* Orders, as sets of pairs.                                               *)

(* `before` orders all elements of S.                                      *)
IsOrder(before, S) ==
  /\ \A a \in S : <<a, a>> \notin before
  /\ \A a, b \in S : a # b => <<a, b>> \in before \/ <<b, a>> \in before
  /\ \A a, b, c \in S : <<a, b>> \in before /\ <<b, c>> \in before => <<a, c>> \in before

(* The elements of S in that order.                                        *)
InOrder(S, before) ==
  LET rank == [e \in S |-> Cardinality({d \in S : <<d, e>> \in before}) + 1]
  IN  [n \in 1 .. Cardinality(S) |-> CHOOSE e \in S : rank[e] = n]

Less(S) == {p \in S \X S : p[1] < p[2]}

Ascending(S) == InOrder(S, Less(S))

(* Pairs in the order of their first elements, then of their second ones.  *)
Lexicographic(S, before) ==
  {p \in S \X S : IF p[1][1] = p[2][1] THEN p[1][2] < p[2][2]
                  ELSE <<p[1][1], p[2][1]>> \in before}

(* The values at the given indexes.                                        *)
Selected(row, indexes) == [n \in DOMAIN indexes |-> row[indexes[n]]]

IsWalk(walk) ==
  /\ IsOrder(walk.keys, Variables)
  /\ walk.oldestFirst \in BOOLEAN

-----------------------------------------------------------------------------
(* The keys in iteration order.                                            *)
KeySeq(walk, keys) == InOrder(keys, walk.keys)

CommonKeys(first, second) == DOMAIN first \cap DOMAIN second

(* The size of the vector of begin(): the other vectors are not looked at. *)
ColumnsAmount(r, walk) ==
  IF DOMAIN r = {} THEN 0 ELSE Len(r[KeySeq(walk, DOMAIN r)[1]])

(* A copy has no row for a variable whose vector is empty.                 *)
CopyReplacements(r) == Restrict(r, {key \in DOMAIN r : r[key] # <<>>})

(* at(i) throws std::out_of_range for a key and a column: a vector is      *)
(* shorter than that of begin().                                           *)
ReadsBeyond(r, keys, columns) == \E key \in keys, i \in columns : Len(r[key]) < i

ColumnNumbers(r, walk) == 1 .. ColumnsAmount(r, walk)

OutOfRange(r, walk) == ReadsBeyond(r, DOMAIN r, ColumnNumbers(r, walk))

Agree(first, i, second, j) ==
  \A key \in CommonKeys(first, second) : first[key][i] = second[key][j]

-----------------------------------------------------------------------------
(* Hashes of columns.                                                      *)

Primes == <<7, 13, 17, 19, 31, 41, 43>>

Total(terms) == FoldFunction(+, 0, terms)

Hash(r, keys, i, walk) ==
  LET keySeq == KeySeq(walk, keys)
      terms == [k \in DOMAIN keySeq |-> Offset[r[keySeq[k]][i]] * Primes[((k - 1) % 7) + 1]]
  IN  Total(terms) \div (IF keys = {} THEN 1 ELSE Cardinality(keys))

HashesOf(r, keys, walk) == [i \in ColumnNumbers(r, walk) |-> Hash(r, keys, i, walk)]

(* The columns of a bucket in ascending order; the buckets in the order    *)
(* they were inserted, or the last one first.                              *)
BucketOrder(hash, walk) ==
  LET oldest == [i \in DOMAIN hash |->
                   CHOOSE j \in 1 .. i : hash[j] = hash[i] /\ \A k \in 1 .. j - 1 : hash[k] # hash[i]]
  IN  {p \in (DOMAIN hash) \X (DOMAIN hash) :
         IF hash[p[1]] = hash[p[2]] THEN p[1] < p[2]
         ELSE IF walk.oldestFirst THEN oldest[p[1]] < oldest[p[2]]
         ELSE oldest[p[2]] < oldest[p[1]]}

(* The columns of r in the order in which the buckets are iterated.        *)
ColumnsByHash(r, keys, walk) ==
  InOrder(ColumnNumbers(r, walk), BucketOrder(HashesOf(r, keys, walk), walk))

-----------------------------------------------------------------------------
(* removeDuplicateColumns.  columnsToRemove holds column numbers and is    *)
(* asked for positions in a bucket, so some duplicates survive.            *)

(* Pairs of columns of one bucket, the first before the second.            *)
Compared(hash) ==
  {p \in (DOMAIN hash) \X (DOMAIN hash) : p[1] < p[2] /\ hash[p[1]] = hash[p[2]]}

Position(hash, i) == Cardinality({k \in 1 .. i : hash[k] = hash[i]})

(* columnsToRemove after one more pair is compared.                        *)
RemoveSecond(r, hash, p, columnsToRemove) ==
  IF /\ {Position(hash, p[1]), Position(hash, p[2])} \cap columnsToRemove = {}
     /\ Column(r, p[1]) = Column(r, p[2])
  THEN columnsToRemove \cup {p[2]} ELSE columnsToRemove

ColumnsToRemove(r, walk) ==
  LET hash == HashesOf(r, DOMAIN r, walk)
      pairs == InOrder(Compared(hash), Lexicographic(Compared(hash), BucketOrder(hash, walk)))
      columnsToRemove[n \in 0 .. Cardinality(Compared(hash))] ==
        IF n = 0 THEN {} ELSE RemoveSecond(r, hash, pairs[n], columnsToRemove[n - 1])
  IN  columnsToRemove[Cardinality(Compared(hash))]

WithoutColumns(r, columns) ==
  [key \in DOMAIN r |-> Selected(r[key], Ascending(DOMAIN r[key] \ columns))]

RemoveDuplicateColumns(r, walk) == WithoutColumns(r, ColumnsToRemove(r, walk))

-----------------------------------------------------------------------------
(* intersectReplacements and subtractReplacements, for matrices.  Columns  *)
(* that agree have the same hash, so the comparison of the buckets only    *)
(* fixes the order of the columns.                                         *)

(* Mutant of Matches: columns with the same hash are not compared.         *)
MatchesByHash(first, i, second, walk) ==
  LET common == CommonKeys(first, second)
  IN  {j \in ColumnNumbers(second, walk) :
         Hash(first, common, i, walk) = Hash(second, common, j, walk)}

Matches(first, i, second, walk) ==
  {j \in ColumnNumbers(second, walk) : Agree(first, i, second, j)}

(* firstSecondPairs.                                                       *)
Pairs(first, second, walk) ==
  LET hash == HashesOf(first, CommonKeys(first, second), walk)
      pairs == {p \in ColumnNumbers(first, walk) \X ColumnNumbers(second, walk) :
                  p[2] \in Matches(first, p[1], second, walk)}
  IN  InOrder(pairs, Lexicographic(pairs, BucketOrder(hash, walk)))

Joined(first, second, pairs) ==
  [key \in DOMAIN first \cup DOMAIN second |->
    [n \in DOMAIN pairs |->
      IF key \in DOMAIN first THEN first[key][pairs[n][1]] ELSE second[key][pairs[n][2]]]]

IntersectReplacements(first, second, walk) ==
  IF ColumnsAmount(first, walk) = 0 THEN CopyReplacements(second)
  ELSE IF ColumnsAmount(second, walk) = 0 THEN CopyReplacements(first)
  ELSE RemoveDuplicateColumns(Joined(first, second, Pairs(first, second, walk)), walk)

(* intersectReplacements reads a vector that is too short: of a common key *)
(* while the hashes are calculated, of any key while pairs are copied.     *)
IntersectThrows(first, second, walk) ==
  LET common == CommonKeys(first, second)
      ofFirst == ColumnNumbers(first, walk)
      ofSecond == ColumnNumbers(second, walk)
      hashed == ~ReadsBeyond(first, common, ofFirst) /\ ~ReadsBeyond(second, common, ofSecond)
      paired(i, j) == Agree(first, i, second, j)
      copyThrows(i, j) == \/ ReadsBeyond(first, DOMAIN first, {i})
                          \/ ReadsBeyond(second, DOMAIN second, {j})
  IN  /\ ofFirst # {} /\ ofSecond # {}
      /\ hashed => \E i \in ofFirst, j \in ofSecond : paired(i, j) /\ copyThrows(i, j)

(* The columns of first that agree with no column of second.               *)
Unmatched(first, second, walk) ==
  LET hash == HashesOf(first, CommonKeys(first, second), walk)
      columns == {i \in ColumnNumbers(first, walk) : Matches(first, i, second, walk) = {}}
      inOrder == InOrder(columns, BucketOrder(hash, walk))
  IN  [key \in DOMAIN first |-> Selected(first[key], inOrder)]

(* Mutant of SubtractReplacements: no early return without common keys.    *)
SubtractUnguarded(first, second, walk) ==
  IF ColumnsAmount(first, walk) = 0 \/ ColumnsAmount(second, walk) = 0
    THEN CopyReplacements(first)
    ELSE RemoveDuplicateColumns(Unmatched(first, second, walk), walk)

SubtractReplacements(first, second, walk) ==
  IF \/ ColumnsAmount(first, walk) = 0
     \/ ColumnsAmount(second, walk) = 0
     \/ CommonKeys(first, second) = {}
    THEN CopyReplacements(first)
    ELSE RemoveDuplicateColumns(Unmatched(first, second, walk), walk)

(* subtractReplacements reads a vector of first that is too short.         *)
SubtractThrows(first, second, walk) ==
  LET common == CommonKeys(first, second)
      columns == ColumnNumbers(first, walk)
      unmatched == {i \in columns : Matches(first, i, second, walk) = {}}
  IN  /\ common # {} /\ columns # {} /\ ColumnsAmount(second, walk) > 0
      /\ ~ReadsBeyond(first, common, columns) => ReadsBeyond(first, DOMAIN first, unmatched)

-----------------------------------------------------------------------------
(* uniteReplacements.                                                      *)

(* The columns of second equal to the columns of first of the same hash:   *)
(* to all of them, by the first common key alone.                          *)
Skipped(first, second, walk) ==
  LET common == CommonKeys(first, second)
      key == KeySeq(walk, common)[1]
      sameHash(j) == {i \in ColumnNumbers(first, walk) :
                        Hash(first, common, i, walk) = Hash(second, common, j, walk)}
  IN  {j \in ColumnNumbers(second, walk) :
         /\ sameHash(j) # {}
         /\ common # {} => \A i \in sameHash(j) : first[key][i] = second[key][j]}

(* The values of a row at the given columns, each so many times; a row     *)
(* repeated as a whole.                                                    *)
Repeated(row, columns, times) ==
  [n \in 1 .. Len(columns) * times |-> row[columns[((n - 1) \div times) + 1]]]

Copies(row, amount) ==
  [n \in 1 .. amount * Len(row) |-> row[((n - 1) % Len(row)) + 1]]

(* Every column of first with every column of second, the common keys from *)
(* first; then every column of second not skipped with every column of     *)
(* first, the common keys from second.  Each row is filled by itself, a    *)
(* value of a column being repeated so many times.                         *)
CombineRepeating(first, second, walk, timesFirst, timesSecond) ==
  LET common == CommonKeys(first, second)
      ofFirst == ColumnsByHash(first, common, walk)
      ofSecond == InOrder(ColumnNumbers(second, walk) \ Skipped(first, second, walk),
                          BucketOrder(HashesOf(second, common, walk), walk))
      fill(key, r, columns, times, other) ==
        IF key \in DOMAIN r THEN Repeated(r[key], columns, times)
        ELSE Copies(other[key], Len(columns))
  IN  [key \in DOMAIN first \cup DOMAIN second |->
        fill(key, first, ofFirst, timesFirst, second) \o
        fill(key, second, ofSecond, timesSecond, first)]

(* Mutant of Combine: a value is repeated once, whatever the other has.    *)
CombineOnce(first, second, walk) == CombineRepeating(first, second, walk, 1, 1)

Combine(first, second, walk) ==
  LET times(r, other) == IF DOMAIN r = CommonKeys(first, second)
                           THEN 1 ELSE ColumnsAmount(other, walk)
  IN  CombineRepeating(first, second, walk, times(first, second), times(second, first))

UniteReplacements(first, second, walk) ==
  IF ColumnsAmount(first, walk) = 0 THEN CopyReplacements(second)
  ELSE IF ColumnsAmount(second, walk) = 0 THEN CopyReplacements(first)
  ELSE RemoveDuplicateColumns(Combine(first, second, walk), walk)

(* A vector of an operand is too short for its hashes or for a column that *)
(* is combined, or one of what was combined for the removal of duplicates. *)
UniteThrows(first, second, walk) ==
  LET common == CommonKeys(first, second)
      ofSecond == ColumnNumbers(second, walk)
      added == ofSecond \ Skipped(first, second, walk)
  IN  /\ ColumnsAmount(first, walk) > 0
      /\ ofSecond # {}
      /\ /\ ~OutOfRange(first, walk)
         /\ ~ReadsBeyond(second, common, ofSecond)
         /\ ~ReadsBeyond(second, DOMAIN second, added)
         => OutOfRange(Combine(first, second, walk), walk)
=============================================================================
