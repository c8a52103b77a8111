------------------------ MODULE TemplateSearcher_proofs ------------------------
(***************************************************************************)
(* Proofs about TemplateSearcher: the evaluation of an atomic formula, for *)
(* any template, configuration, storage and arguments.                     *)
(***************************************************************************)
EXTENDS TemplateSearcher, SequenceTheorems, FiniteSetTheorems, TLAPS

-----------------------------------------------------------------------------
(* The invariant.                                                          *)

Fixed == manager = "TemplateManagerFixedArguments"

(* The fixed arguments are those under the roles, without a gap.           *)
ManagerInv ==
  /\ pc # "formula" => (Fixed <=> 1 \in DOMAIN input.roles)
  /\ pc = "roles" => Fixed
  /\ pc # "formula" /\ Fixed =>
       /\ \A n \in 1 .. Len(fixedArguments) :
            HasFixedArgument(n) /\ fixedArguments[n] = input.roles[n]
       /\ pc # "roles" => ~HasFixedArgument(Len(fixedArguments) + 1)

(* The params are the assignments of the variables in `done`.              *)
Made(done) == Range(params) = AssignmentsOf(done) /\ IsInjective(params)

(* What the inner loop has copied: the params made so far, for each        *)
(* address it has come to.                                                 *)
Copied ==
  /\ \A param :
       param \in Range(updatedParams) <=>
         \E address \in Addresses(variable) \ addresses : param \in Range(With(address))
  /\ IsInjective(updatedParams)

ParamsInv ==
  /\ pc \in {"formula", "roles"} => variablesLeft = NodeVariables /\ params = <<>>
  /\ pc # "addresses" => updatedParams = <<>>
  /\ pc = "params" /\ ~Fixed => Made(NodeVariables \ variablesLeft)
  /\ pc = "addresses" =>
       /\ input.arguments # <<>> /\ ~Fixed
       /\ variable \in NodeVariables \ variablesLeft
       /\ addresses \subseteq Addresses(variable)
       /\ Addresses(variable) # {}
       /\ Made(NodeVariables \ (variablesLeft \cup {variable}))
       /\ Copied
  /\ ParamsAreAssignments

(* The replacements whose columns are the matches h.                       *)
Rows(h) ==
  IF h = <<>> THEN NoReplacements
  ELSE [v \in Variables |-> [n \in DOMAIN h |-> h[n][v]]]

(* The matches h are what searches for the params in P may find.           *)
FoundFor(h, P) ==
  /\ \A match \in Range(h) : \E param \in P : match \in MatchesOf(param)
  /\ \A param \in P : Finds(Range(h), param)

Processed == {params[n] : n \in 1 .. next - 1}

OneHitUpTo(k) ==
  \A n \in 1 .. k :
    /\ StopsAtFirst \/ \A match, other \in MatchesOf(params[n]) : match = other
    /\ MatchesOf(params[n]) = {} => \A m \in 1 .. n : MatchesOf(params[m]) = {}

(* The unadjusted replacements are those of the matches found so far; the  *)
(* adjusted ones have at least their values, and are the same as long as   *)
(* every params has found one match.                                       *)
RowsInv ==
  /\ \E h \in Seq(Matches) : searchResults = Rows(h) /\ FoundFor(h, Processed)
  /\ input.arguments # <<>> =>
       /\ DOMAIN result = DOMAIN searchResults
       /\ \A v \in DOMAIN result : Range(searchResults[v]) \subseteq Range(result[v])
       /\ OneHitUpTo(next - 1) => result = searchResults
  /\ input.arguments = <<>> =>
       IF pc = "done" THEN \E h \in Seq(Matches) : result = Rows(h) /\ FoundFor(h, {<<>>})
       ELSE result = NoReplacements

PlaceInv ==
  /\ pc \notin {"search", "done"} => next = 1
  /\ pc = "search" => input.arguments # <<>>
  /\ pc = "done" /\ input.arguments # <<>> => next = Len(params) + 1

SearchInv == TypeOK /\ ManagerInv /\ ParamsInv /\ RowsInv /\ PlaceInv

-----------------------------------------------------------------------------
(* The operators of the model.                                             *)

LEMMA RangeOf == ASSUME NEW S, NEW s \in Seq(S)
  PROVE  /\ Range(s) \subseteq S
         /\ DOMAIN s = 1 .. Len(s) /\ Len(s) \in Nat
         /\ Range(s) = {} <=> s = <<>>
<1>1. /\ DOMAIN s = 1 .. Len(s) /\ Len(s) \in Nat
      /\ \A n \in 1 .. Len(s) : s[n] \in S
  BY LenProperties, ElementOfSeq
<1>2. s # <<>> => 1 \in DOMAIN s
  BY <1>1, EmptySeq
<1>3. s = <<>> => DOMAIN s = {}
  OBVIOUS
<1>. QED  BY <1>1, <1>2, <1>3 DEF Range

LEMMA RangeConcat ==
  ASSUME NEW S, NEW s \in Seq(S), NEW t \in Seq(S)
  PROVE  /\ s \o t \in Seq(S)
         /\ Range(s \o t) = Range(s) \cup Range(t)
         /\ IsInjective(s) /\ IsInjective(t) /\ Range(s) \cap Range(t) = {} => IsInjective(s \o t)
<1>1. /\ s \o t \in Seq(S) /\ Len(s \o t) = Len(s) + Len(t)
      /\ \A i \in 1 .. Len(s) + Len(t) :
           (s \o t)[i] = IF i <= Len(s) THEN s[i] ELSE t[i - Len(s)]
  BY ConcatProperties
<1>2. /\ Len(s) \in Nat /\ Len(t) \in Nat
      /\ DOMAIN s = 1 .. Len(s) /\ DOMAIN t = 1 .. Len(t)
      /\ DOMAIN (s \o t) = 1 .. Len(s) + Len(t)
  BY <1>1, RangeOf
<1>3. \A i \in DOMAIN s : i \in DOMAIN (s \o t) /\ (s \o t)[i] = s[i]
  BY <1>1, <1>2
<1>4. ASSUME NEW i \in DOMAIN t
      PROVE  Len(s) + i \in DOMAIN (s \o t) /\ (s \o t)[Len(s) + i] = t[i]
  <2>1. Len(s) + i \in 1 .. Len(s) + Len(t) /\ ~(Len(s) + i <= Len(s)) /\ (Len(s) + i) - Len(s) = i
    BY <1>2
  <2>. QED  BY <1>1, <1>2, <2>1
<1>5. \A i \in DOMAIN (s \o t) :
        \/ i \in DOMAIN s /\ (s \o t)[i] = s[i]
        \/ i - Len(s) \in DOMAIN t /\ (s \o t)[i] = t[i - Len(s)]
  BY <1>1, <1>2
<1>6. Range(s \o t) = Range(s) \cup Range(t)
  <2>1. Range(s) \subseteq Range(s \o t) /\ Range(t) \subseteq Range(s \o t)
    BY <1>3, <1>4 DEF Range
  <2>2. Range(s \o t) \subseteq Range(s) \cup Range(t)
    BY <1>5 DEF Range
  <2>. QED  BY <2>1, <2>2
<1>7. ASSUME IsInjective(s), IsInjective(t), Range(s) \cap Range(t) = {},
             NEW i \in DOMAIN (s \o t), NEW j \in DOMAIN (s \o t), (s \o t)[i] = (s \o t)[j]
      PROVE  i = j
  <2>1. CASE i \in DOMAIN s /\ j \in DOMAIN s
    BY <1>7, <1>3, <2>1 DEF IsInjective
  <2>2. CASE i \notin DOMAIN s /\ j \notin DOMAIN s
    <3>1. i - Len(s) \in DOMAIN t /\ j - Len(s) \in DOMAIN t /\ t[i - Len(s)] = t[j - Len(s)]
      BY <1>7, <1>5, <2>2
    <3>2. i - Len(s) = j - Len(s)
      BY <1>7, <3>1 DEF IsInjective
    <3>. QED  BY <1>2, <3>2
  <2>3. CASE (i \in DOMAIN s) # (j \in DOMAIN s)
    <3>1. (s \o t)[i] \in Range(s) \cap Range(t)
      BY <1>7, <1>3, <1>5, <2>3 DEF Range
    <3>. QED  BY <1>7, <3>1
  <2>. QED  BY <2>1, <2>2, <2>3
<1>. QED  BY <1>1, <1>6, <1>7 DEF IsInjective

LEMMA RangeAppend ==
  ASSUME NEW S, NEW s \in Seq(S), NEW e \in S
  PROVE  Range(Append(s, e)) = Range(s) \cup {e}
<1>1. /\ DOMAIN s = 1 .. Len(s) /\ Len(s) \in Nat
      /\ DOMAIN Append(s, e) = 1 .. Len(s) + 1
      /\ \A n \in 1 .. Len(s) : Append(s, e)[n] = s[n]
      /\ Append(s, e)[Len(s) + 1] = e
  BY RangeOf, AppendProperties
<1>2. DOMAIN Append(s, e) = DOMAIN s \cup {Len(s) + 1}
  BY <1>1
<1>. QED  BY <1>1, <1>2 DEF Range

(* An enumeration of a finite set has all its elements.                    *)
LEMMA Enumeration ==
  ASSUME NEW S, IsFiniteSet(S), NEW s \in SetToSeqs(S)
  PROVE  s \in Seq(S) /\ Range(s) = S /\ Len(s) = Cardinality(S)
<1>1. Cardinality(S) \in Nat
  BY FS_CardinalityType
<1>. DEFINE D == 1 .. Cardinality(S)
<1>2. s \in [D -> S] /\ \A i, j \in D : i # j => s[i] # s[j]
  BY DEF SetToSeqs
<1>3. s \in Seq(S) /\ Len(s) = Cardinality(S)
  BY <1>1, <1>2
<1>4. Range(s) \subseteq S
  BY <1>2 DEF Range
<1>5. s \in Bijection(D, Range(s))
  BY <1>2 DEF Bijection, Injection, Surjection, IsInjective, Range
<1>6. IsFiniteSet(D) /\ Cardinality(D) = Cardinality(S)
  BY <1>1, FS_Interval
<1>7. Cardinality(Range(s)) = Cardinality(S)
  BY <1>5, <1>6, FS_Bijection DEF ExistsBijection
<1>8. Range(s) = S
  BY <1>4, <1>7, FS_Subset
<1>. QED  BY <1>3, <1>8

-----------------------------------------------------------------------------
(* The params are assignments.                                             *)

Typed(variables) == {v \in variables : Addresses(v) # {}}

LEMMA AddIs ==
  ASSUME NEW p, NEW v, NEW a
  PROVE  /\ DOMAIN Add(p, v, a) = DOMAIN p \cup {v}
         /\ Add(p, v, a)[v] = a
         /\ \A w \in DOMAIN p \ {v} : Add(p, v, a)[w] = p[w]
BY DEF Add

LEMMA AddToEmpty ==
  ASSUME NEW v, NEW a
  PROVE  Add(<<>>, v, a) = [w \in {v} |-> a]
BY DEF Add

LEMMA AssignmentsAre ==
  ASSUME NEW variables
  PROVE  /\ AssignmentsOf(variables) =
              IF Typed(variables) = {} THEN {}
              ELSE {p \in [Typed(variables) -> Range(input.arguments)] :
                      \A v \in Typed(variables) : p[v] \in Addresses(v)}
         /\ AssignmentsOf(variables) = {} <=> Typed(variables) = {}
<1>1. AssignmentsOf(variables) =
        IF Typed(variables) = {} THEN {}
        ELSE {p \in [Typed(variables) -> Range(input.arguments)] :
                \A v \in Typed(variables) : p[v] \in Addresses(v)}
  BY DEF AssignmentsOf, Typed
<1>2. ASSUME Typed(variables) # {} PROVE AssignmentsOf(variables) # {}
  <2>. DEFINE p == [v \in Typed(variables) |-> CHOOSE a \in Addresses(v) : TRUE]
  <2>1. \A v \in Typed(variables) : p[v] \in Addresses(v)
    BY DEF Typed
  <2>2. p \in [Typed(variables) -> Range(input.arguments)]
    BY <2>1 DEF Addresses
  <2>. QED  BY <1>1, <1>2, <2>1, <2>2
<1>. QED  BY <1>1, <1>2

(* A variable that no argument is in a class of changes nothing.           *)
LEMMA AssignmentsSkip ==
  ASSUME NEW done, NEW w, Addresses(w) = {}
  PROVE  AssignmentsOf(done \cup {w}) = AssignmentsOf(done)
<1>1. Typed(done \cup {w}) = Typed(done)
  BY DEF Typed
<1>. QED  BY <1>1, AssignmentsAre

Begun(w) == {Add(<<>>, w, a) : a \in Addresses(w)}

Extended(done, w) == {Add(p, w, a) : p \in AssignmentsOf(done), a \in Addresses(w)}

(* The assignments of one more variable are those there were, with each of *)
(* its addresses.                                                          *)
LEMMA AssignmentsExtend ==
  ASSUME NEW done, NEW w, w \notin done, Addresses(w) # {}
  PROVE  /\ AssignmentsOf(done) = {} => AssignmentsOf(done \cup {w}) = Begun(w)
         /\ AssignmentsOf(done) # {} => AssignmentsOf(done \cup {w}) = Extended(done, w)
<1>. DEFINE T == Typed(done)
            A == Range(input.arguments)
            all == AssignmentsOf(done \cup {w})
<1>1. Typed(done \cup {w}) = T \cup {w} /\ w \notin T /\ Addresses(w) \subseteq A
  BY DEF Typed, Addresses
<1>2. all = {p \in [T \cup {w} -> A] : \A v \in T \cup {w} : p[v] \in Addresses(v)}
  BY <1>1, AssignmentsAre
<1>3. ASSUME T = {} PROVE AssignmentsOf(done) = {} /\ all = Begun(w)
  <2>1. AssignmentsOf(done) = {}
    BY <1>3, AssignmentsAre
  <2>2. all = {p \in [{w} -> A] : p[w] \in Addresses(w)}
    <3>1. T \cup {w} = {w}
      BY <1>3
    <3>2. all = {p \in [{w} -> A] : \A v \in {w} : p[v] \in Addresses(v)}
      BY <1>2, <3>1
    <3>3. \A p : (\A v \in {w} : p[v] \in Addresses(v)) <=> p[w] \in Addresses(w)
      OBVIOUS
    <3>. QED  BY <3>2, <3>3
  <2>. HIDE DEF all
  <2>3. ASSUME NEW p \in all PROVE p = Add(<<>>, w, p[w]) /\ p[w] \in Addresses(w)
    <3>1. p \in [{w} -> A] /\ p[w] \in Addresses(w)
      BY <2>2
    <3>2. p = [x \in {w} |-> p[w]]
      BY <3>1
    <3>. QED  BY <3>1, <3>2, AddToEmpty
  <2>4. ASSUME NEW a \in Addresses(w) PROVE Add(<<>>, w, a) \in all
    <3>1. Add(<<>>, w, a) = [x \in {w} |-> a] /\ a \in A
      BY <1>1, AddToEmpty
    <3>. QED  BY <2>2, <3>1
  <2>5. Begun(w) = all
    BY <2>3, <2>4 DEF Begun
  <2>. QED  BY <2>1, <2>5
<1>4. ASSUME T # {} PROVE AssignmentsOf(done) # {} /\ all = Extended(done, w)
  <2>1. /\ AssignmentsOf(done) # {}
        /\ AssignmentsOf(done) = {p \in [T -> A] : \A v \in T : p[v] \in Addresses(v)}
    BY <1>4, AssignmentsAre
  <2>2. ASSUME NEW q \in all
        PROVE  \E p \in AssignmentsOf(done), a \in Addresses(w) : q = Add(p, w, a)
    <3>. DEFINE p == [v \in T |-> q[v]]
    <3>1. q \in [T \cup {w} -> A] /\ \A v \in T \cup {w} : q[v] \in Addresses(v)
      BY <1>2, <2>2
    <3>2. p \in AssignmentsOf(done) /\ q[w] \in Addresses(w)
      BY <2>1, <3>1
    <3>3. q = Add(p, w, q[w])
      BY <1>1, <3>1 DEF Add
    <3>. QED  BY <3>2, <3>3
  <2>3. ASSUME NEW p \in AssignmentsOf(done), NEW a \in Addresses(w)
        PROVE  Add(p, w, a) \in all
    <3>1. p \in [T -> A] /\ \A v \in T : p[v] \in Addresses(v)
      BY <2>1, <2>3
    <3>2. Add(p, w, a) \in [T \cup {w} -> A]
      BY <1>1, <3>1 DEF Add
    <3>3. \A v \in T \cup {w} : Add(p, w, a)[v] \in Addresses(v)
      <4>1. DOMAIN p = T
        BY <3>1
      <4>2. \A v \in T : Add(p, w, a)[v] = p[v]
        BY <1>1, <4>1 DEF Add
      <4>3. Add(p, w, a)[w] = a
        BY DEF Add
      <4>. QED  BY <3>1, <4>2, <4>3
    <3>. QED  BY <1>2, <3>2, <3>3
  <2>. HIDE DEF all
  <2>4. Extended(done, w) = all
    BY <2>2, <2>3 DEF Extended
  <2>. QED  BY <2>1, <2>4
<1>. QED  BY <1>3, <1>4

-----------------------------------------------------------------------------
(* What a search finds, and the rows it makes of it.                       *)

LEMMA MatchesAre ==
  ASSUME TypeOK, NEW param
  PROVE  /\ MatchesOf(param) \subseteq Matches
         /\ IsFiniteSet(MatchesOf(param))
         /\ MatchesOf(param) \subseteq input.knowledge
<1>1. input.knowledge \subseteq Matches /\ IsFiniteSet(input.knowledge)
  BY DEF TypeOK, InputTypeOK
<1>2. MatchesOf(param) \subseteq input.knowledge
  BY DEF MatchesOf
<1>. QED  BY <1>1, <1>2, FS_Subset

LEMMA HitsAre ==
  ASSUME TypeOK, NEW param, NEW hits \in Hits(param)
  PROVE  /\ hits \in Seq(Matches)
         /\ Range(hits) \subseteq MatchesOf(param)
         /\ Finds(Range(hits), param)
         /\ StopsAtFirst \/ (\A match, other \in MatchesOf(param) : match = other) =>
              IF MatchesOf(param) = {} THEN hits = <<>>
              ELSE \E match \in MatchesOf(param) : hits = <<match>>
<1>. DEFINE M == MatchesOf(param)
<1>1. M \subseteq Matches /\ IsFiniteSet(M)
  BY MatchesAre
<1>. HIDE DEF M
<1>2. CASE StopsAtFirst /\ M # {}
  <2>1. PICK match \in M : hits = <<match>>
    BY <1>2 DEF Hits, M
  <2>2. Range(hits) = {match}
    BY <2>1 DEF Range
  <2>3. hits \in Seq(Matches)
    BY <1>1, <2>1
  <2>4. Finds(Range(hits), param)
    BY <1>2, <2>1, <2>2 DEF Finds, M
  <2>. QED  BY <1>2, <2>1, <2>2, <2>3, <2>4 DEF M
<1>3. CASE ~(StopsAtFirst /\ M # {})
  <2>1. hits \in SetToSeqs(M)
    BY <1>3 DEF Hits, M
  <2>2. hits \in Seq(M) /\ Range(hits) = M /\ Len(hits) = Cardinality(M)
    BY <1>1, <2>1, Enumeration
  <2>3. hits \in Seq(Matches)
    BY <1>1, <2>2
  <2>4. M = {} => hits = <<>>
    BY <2>2, RangeOf
  <2>5. ASSUME NEW match \in M, \A m, other \in M : m = other PROVE hits = <<match>>
    <3>1. M = {match}
      BY <2>5
    <3>2. Len(hits) = 1
      BY <2>2, <3>1, FS_Singleton
    <3>3. hits[1] = match
      BY <2>2, <3>1, <3>2, ElementOfSeq
    <3>. QED  BY <2>2, <3>2, <3>3
  <2>6. Finds(Range(hits), param)
    BY <2>2 DEF Finds, M
  <2>. QED  BY <1>3, <2>2, <2>3, <2>4, <2>5, <2>6 DEF M
<1>. QED  BY <1>2, <1>3

LEMMA RowsAre ==
  ASSUME NEW h \in Seq(Matches)
  PROVE  /\ DOMAIN Rows(h) = IF h = <<>> THEN {} ELSE Variables
         /\ \A v \in Variables : Row(Rows(h), v) = [n \in DOMAIN h |-> h[n][v]]
         /\ \A v \in DOMAIN Rows(h) : v \in Variables /\ Rows(h)[v] = [n \in DOMAIN h |-> h[n][v]]
         /\ IsReplacements(Rows(h))
<1>1. \A n \in DOMAIN h : h[n] \in [Variables -> Elements]
  BY ElementOfSeq, RangeOf DEF Matches
<1>2. DOMAIN h = 1 .. Len(h) /\ Len(h) \in Nat
  BY RangeOf
<1>3. CASE h = <<>>
  <2>1. Rows(h) = NoReplacements /\ DOMAIN Rows(h) = {}
    BY <1>3 DEF Rows, NoReplacements
  <2>2. \A v : Row(Rows(h), v) = <<>>
    BY <2>1 DEF Row
  <2>3. \A v : [n \in DOMAIN h |-> h[n][v]] = <<>>
    BY <1>3
  <2>4. IsReplacements(Rows(h))
    BY <2>1 DEF IsReplacements, NoReplacements
  <2>. QED  BY <1>3, <2>1, <2>2, <2>3, <2>4
<1>4. CASE h # <<>>
  <2>1. Rows(h) = [v \in Variables |-> [n \in DOMAIN h |-> h[n][v]]]
    BY <1>4 DEF Rows
  <2>2. \A v \in Variables : [n \in DOMAIN h |-> h[n][v]] \in Seq(Elements)
    BY <1>1, <1>2
  <2>. QED  BY <1>4, <2>1, <2>2 DEF Row, IsReplacements
<1>. QED  BY <1>3, <1>4

LEMMA RowsAdd ==
  ASSUME NEW h \in Seq(Matches), NEW hits \in Seq(Matches)
  PROVE  /\ AddHits(Rows(h), hits) = Rows(h \o hits)
         /\ h \o hits \in Seq(Matches)
         /\ Range(h \o hits) = Range(h) \cup Range(hits)
<1>. DEFINE row(s, v) == [n \in DOMAIN s |-> s[n][v]]
<1>1. /\ h \o hits \in Seq(Matches) /\ Len(h \o hits) = Len(h) + Len(hits)
      /\ \A i \in 1 .. Len(h) + Len(hits) :
           (h \o hits)[i] = IF i <= Len(h) THEN h[i] ELSE hits[i - Len(h)]
      /\ Range(h \o hits) = Range(h) \cup Range(hits)
  BY ConcatProperties, RangeConcat
<1>2. CASE hits = <<>>
  <2>1. h \o hits = h
    BY <1>2
  <2>. QED  BY <1>1, <1>2, <2>1 DEF AddHits
<1>3. CASE hits # <<>>
  <2>1. /\ DOMAIN h = 1 .. Len(h) /\ DOMAIN hits = 1 .. Len(hits)
        /\ DOMAIN (h \o hits) = 1 .. Len(h) + Len(hits)
        /\ Len(h) \in Nat /\ Len(hits) \in Nat /\ Len(hits) # 0
    BY <1>1, <1>3, RangeOf, EmptySeq
  <2>2. h \o hits # <<>>
    BY <1>1, <2>1
  <2>3. ASSUME NEW v \in Variables PROVE row(h, v) \o row(hits, v) = row(h \o hits, v)
    <3>. DEFINE values == {h[n][v] : n \in DOMAIN h} \cup {hits[n][v] : n \in DOMAIN hits}
                s == row(h, v)
                t == row(hits, v)
    <3>1. s \in Seq(values) /\ t \in Seq(values) /\ Len(s) = Len(h) /\ Len(t) = Len(hits)
      BY <2>1
    <3>2. /\ DOMAIN (s \o t) = 1 .. Len(h) + Len(hits)
          /\ \A i \in 1 .. Len(h) + Len(hits) :
               (s \o t)[i] = IF i <= Len(h) THEN s[i] ELSE t[i - Len(h)]
          /\ s \o t = [i \in DOMAIN (s \o t) |-> (s \o t)[i]]
      <4>. HIDE DEF s, t, values
      <4>1. s \o t \in Seq(values) /\ Len(s \o t) = Len(h) + Len(hits)
        <5>1. s \o t \in Seq(values) /\ Len(s \o t) = Len(s) + Len(t)
          BY <3>1, ConcatProperties, Zenon
        <5>. QED  BY <3>1, <5>1
      <4>2. \A i \in 1 .. Len(h) + Len(hits) :
               (s \o t)[i] = IF i <= Len(h) THEN s[i] ELSE t[i - Len(h)]
        BY <3>1, ConcatProperties
      <4>. QED  BY <4>1, <4>2, LenProperties
    <3>3. \A i \in 1 .. Len(h) + Len(hits) : (s \o t)[i] = (h \o hits)[i][v]
      <4>1. \A i \in 1 .. Len(h) : s[i] = h[i][v]
        BY <2>1
      <4>2. \A i \in 1 .. Len(hits) : t[i] = hits[i][v]
        BY <2>1
      <4>. HIDE DEF s, t
      <4>3. ASSUME NEW i \in 1 .. Len(h) + Len(hits), ~(i <= Len(h))
            PROVE  i - Len(h) \in 1 .. Len(hits)
        BY <2>1, <4>3
      <4>4. ASSUME NEW i \in 1 .. Len(h) + Len(hits)
            PROVE  (s \o t)[i] = (h \o hits)[i][v]
        <5>1. CASE i <= Len(h)
          <6>1. (s \o t)[i] = s[i] /\ (h \o hits)[i] = h[i]
            BY <1>1, <3>2, <5>1
          <6>2. i \in 1 .. Len(h)
            BY <2>1, <5>1
          <6>. QED  BY <4>1, <6>1, <6>2
        <5>2. CASE ~(i <= Len(h))
          <6>1. (s \o t)[i] = t[i - Len(h)] /\ (h \o hits)[i] = hits[i - Len(h)]
            BY <1>1, <3>2, <5>2
          <6>. QED  BY <4>2, <4>3, <5>2, <6>1
        <5>. QED  BY <5>1, <5>2
      <4>. QED  BY <4>4
    <3>. HIDE DEF s, t
    <3>4. s \o t = [i \in DOMAIN (h \o hits) |-> (h \o hits)[i][v]]
      BY <2>1, <3>2, <3>3
    <3>. QED  BY <3>4 DEF s, t
  <2>4. AddHits(Rows(h), hits) = [v \in Variables |-> row(h, v) \o row(hits, v)]
    BY <1>3, RowsAre DEF AddHits
  <2>5. Rows(h \o hits) = [v \in Variables |-> row(h \o hits, v)]
    BY <2>2 DEF Rows
  <2>. HIDE DEF row
  <2>6. AddHits(Rows(h), hits) = Rows(h \o hits)
    BY <2>3, <2>4, <2>5
  <2>. QED  BY <1>1, <2>6
<1>. QED  BY <1>2, <1>3

LEMMA ColumnsOfRows ==
  ASSUME NEW h \in Seq(Matches), Variables # {}
  PROVE  IsMatrix(Rows(h)) /\ Columns(Rows(h)) = Range(h)
<1>1. DOMAIN h = 1 .. Len(h) /\ Len(h) \in Nat /\ \A n \in DOMAIN h : h[n] \in [Variables -> Elements]
  BY RangeOf, ElementOfSeq DEF Matches
<1>2. \A v \in DOMAIN Rows(h) : DOMAIN Rows(h)[v] = 1 .. Len(h) /\ Len(Rows(h)[v]) = Len(h)
  BY <1>1, RowsAre
<1>3. CASE h = <<>>
  <2>1. DOMAIN Rows(h) = {} /\ Range(h) = {}
    BY <1>3, RowsAre, RangeOf
  <2>. QED  BY <2>1 DEF IsMatrix, Columns
<1>4. CASE h # <<>>
  <2>1. DOMAIN Rows(h) = Variables
    BY <1>4, RowsAre
  <2>2. UNION {DOMAIN Rows(h)[v] : v \in DOMAIN Rows(h)} = DOMAIN h
    BY <1>1, <1>2, <2>1
  <2>3. \A n \in DOMAIN h : [v \in DOMAIN Rows(h) |-> Rows(h)[v][n]] = h[n]
    <3>1. \A n \in DOMAIN h : \A v \in Variables : Rows(h)[v][n] = h[n][v]
      BY <2>1, RowsAre
    <3>. QED  BY <1>1, <2>1, <3>1
  <2>4. Columns(Rows(h)) = Range(h)
    <3>. DEFINE column(n) == [v \in DOMAIN Rows(h) |-> Rows(h)[v][n]]
    <3>1. Columns(Rows(h)) = {column(n) : n \in DOMAIN h}
      BY <2>2 DEF Columns
    <3>2. \A n \in DOMAIN h : column(n) = h[n]
      BY <2>3
    <3>. HIDE DEF column
    <3>. QED  BY <3>1, <3>2 DEF Range
  <2>. QED  BY <1>2, <2>4 DEF IsMatrix
<1>. QED  BY <1>3, <1>4

-----------------------------------------------------------------------------
(* Types.                                                                  *)

LEMMA AddType ==
  ASSUME NEW p \in Params \cup {<<>>}, NEW v \in NodeVariables \cup OtherVariables, NEW a \in Elements
  PROVE  Add(p, v, a) \in Params
<1>1. PICK variables \in SUBSET (NodeVariables \cup OtherVariables) : p \in [variables -> Elements]
  <2>1. <<>> \in [{} -> Elements]
    OBVIOUS
  <2>. QED  BY <2>1 DEF Params
<1>2. variables \cup {v} \in SUBSET (NodeVariables \cup OtherVariables)
  OBVIOUS
<1>3. Add(p, v, a) \in [variables \cup {v} -> Elements]
  BY <1>1 DEF Add
<1>. QED  BY <1>2, <1>3 DEF Params

LEMMA WithIs ==
  ASSUME TypeOK, variable \in NodeVariables, NEW address \in Elements
  PROVE  /\ With(address) \in Seq(Params)
         /\ params = <<>> => Range(With(address)) = {Add(<<>>, variable, address)}
         /\ params # <<>> =>
              Range(With(address)) = {Add(p, variable, address) : p \in Range(params)}
<1>1. params \in Seq(Params)
  BY DEF TypeOK
<1>2. CASE params = <<>>
  <2>1. With(address) = <<Add(<<>>, variable, address)>>
    BY <1>2 DEF With
  <2>2. Add(<<>>, variable, address) \in Params
    BY AddType
  <2>3. Range(With(address)) = {Add(<<>>, variable, address)}
    BY <2>1 DEF Range
  <2>. QED  BY <1>2, <2>1, <2>2, <2>3
<1>3. CASE params # <<>>
  <2>1. With(address) = [n \in DOMAIN params |-> Add(params[n], variable, address)]
    BY <1>3 DEF With
  <2>2. \A n \in DOMAIN params : Add(params[n], variable, address) \in Params
    BY <1>1, AddType, ElementOfSeq, RangeOf
  <2>3. With(address) \in Seq(Params)
    BY <1>1, <2>1, <2>2, RangeOf
  <2>4. Range(With(address)) = {Add(p, variable, address) : p \in Range(params)}
    BY <2>1 DEF Range
  <2>. QED  BY <1>3, <2>3, <2>4
<1>. QED  BY <1>2, <1>3

LEMMA AdjustedIs ==
  ASSUME TypeOK, NEW found, IsReplacements(found), NEW param \in Params
  PROVE  /\ DOMAIN Adjusted(found, param) = DOMAIN found
         /\ IsReplacements(Adjusted(found, param))
         /\ \A v \in Variables : Row(result, v) \in Seq(Elements)
<1>1. \A v \in Variables : Row(result, v) \in Seq(Elements)
  <2>1. \A v \in DOMAIN result : result[v] \in Seq(Elements)
    BY DEF TypeOK, IsReplacements
  <2>2. <<>> \in Seq(Elements)
    OBVIOUS
  <2>. QED  BY <2>1, <2>2 DEF Row
<1>2. DOMAIN found \subseteq Variables /\ found \in [DOMAIN found -> Seq(Elements)]
  BY DEF IsReplacements
<1>3. \A v \in DOMAIN param : param[v] \in Elements
  BY DEF Params
<1>4. ASSUME NEW v \in DOMAIN found
      PROVE  (IF v \in DOMAIN param THEN Append(Row(result, v), param[v]) ELSE found[v]) \in Seq(Elements)
  BY <1>1, <1>2, <1>3, AppendProperties
<1>5. /\ DOMAIN Adjusted(found, param) = DOMAIN found
      /\ Adjusted(found, param) \in [DOMAIN found -> Seq(Elements)]
  BY <1>4 DEF Adjusted
<1>. QED  BY <1>1, <1>2, <1>5 DEF IsReplacements

(* The search for one params adds matches to those found so far.           *)
LEMMA SearchStep ==
  ASSUME SearchInv, SearchParams
  PROVE  /\ params[next] \in Params /\ next \in 1 .. Len(params) /\ next \in DOMAIN params
         /\ \E h \in Seq(Matches), hits \in Hits(params[next]) :
              /\ searchResults = Rows(h) /\ FoundFor(h, Processed)
              /\ hits \in Seq(Matches)
              /\ searchResults' = Rows(h \o hits)
              /\ h \o hits \in Seq(Matches)
<1>1. /\ params \in Seq(Params) /\ next \in 1 .. Len(params) + 1 /\ next <= Len(params)
  BY DEF SearchInv, TypeOK, SearchParams
<1>2. params[next] \in Params /\ next \in 1 .. Len(params) /\ next \in DOMAIN params
  BY <1>1, ElementOfSeq, RangeOf
<1>3. PICK h \in Seq(Matches) : searchResults = Rows(h) /\ FoundFor(h, Processed)
  BY DEF SearchInv, RowsInv
<1>4. PICK hits \in Hits(params[next]) : searchResults' = AddHits(searchResults, hits)
  BY DEF SearchParams
<1>5. hits \in Seq(Matches)
  BY HitsAre DEF SearchInv
<1>6. searchResults' = Rows(h \o hits) /\ h \o hits \in Seq(Matches)
  BY <1>3, <1>4, <1>5, RowsAdd
<1>. QED  BY <1>2, <1>3, <1>5, <1>6

LEMMA TypeInit == Init => TypeOK
<1>. SUFFICES ASSUME Init PROVE TypeOK
  OBVIOUS
<1>1. InputTypeOK(input)
  BY InputsAssumption DEF Init
<1>2. IsReplacements(NoReplacements)
  BY DEF IsReplacements, NoReplacements
<1>. QED  BY <1>1, <1>2 DEF Init, TypeOK

LEMMA TypeNext == SearchInv /\ [Next]_vars => TypeOK'
<1>. SUFFICES ASSUME SearchInv, [Next]_vars PROVE TypeOK'
  OBVIOUS
<1>. USE DEF managerVars, loopVars, searchVars
<1>1. TypeOK
  BY DEF SearchInv
<1>2. CASE UseTemplateManager
  BY <1>1, <1>2 DEF UseTemplateManager, TypeOK
<1>3. CASE UseTemplateManagerFixedArguments
  <2>1. input.roles[1] \in NodeVariables \cup OtherVariables
    BY <1>1, <1>3 DEF UseTemplateManagerFixedArguments, TypeOK, InputTypeOK
  <2>. QED  BY <1>1, <1>3, <2>1 DEF UseTemplateManagerFixedArguments, TypeOK
<1>4. CASE AddFixedArgument
  <2>1. input.roles[Len(fixedArguments) + 1] \in NodeVariables \cup OtherVariables
    BY <1>1, <1>4 DEF AddFixedArgument, HasFixedArgument, TypeOK, InputTypeOK
  <2>2. fixedArguments' \in Seq(NodeVariables \cup OtherVariables)
    BY <1>1, <1>4, <2>1, AppendProperties DEF AddFixedArgument, TypeOK
  <2>. QED  BY <1>1, <1>4, <2>2 DEF AddFixedArgument, TypeOK
<1>5. CASE FixedArgumentsFilled
  BY <1>1, <1>5 DEF FixedArgumentsFilled, TypeOK
<1>6. CASE SkipVariable
  BY <1>1, <1>6 DEF SkipVariable, Uses, TypeOK
<1>7. CASE TakeVariable
  <2>1. \A v \in NodeVariables : Addresses(v) \subseteq Elements
    BY <1>1 DEF Addresses, TypeOK, InputTypeOK
  <2>. QED  BY <1>1, <1>7, <2>1 DEF TakeVariable, Uses, TypeOK
<1>8. CASE CopyParams
  <2>1. PICK address \in addresses :
          addresses' = addresses \ {address} /\ updatedParams' = updatedParams \o With(address)
    BY <1>8 DEF CopyParams
  <2>2. With(address) \in Seq(Params)
    BY <1>1, <1>8, <2>1, WithIs DEF CopyParams, SearchInv, ParamsInv, TypeOK
  <2>3. updatedParams' \in Seq(Params)
    BY <1>1, <2>1, <2>2, ConcatProperties DEF TypeOK
  <2>. QED  BY <1>1, <1>8, <2>1, <2>3 DEF CopyParams, TypeOK
<1>9. CASE UpdateParams
  <2>1. next = 1 /\ params' \in Seq(Params)
    BY <1>1, <1>9 DEF UpdateParams, SearchInv, PlaceInv, TypeOK
  <2>2. next \in 1 .. Len(params') + 1
    BY <2>1, LenProperties
  <2>. QED  BY <1>1, <1>9, <2>1, <2>2 DEF UpdateParams, TypeOK
<1>10. CASE TemplateParamsCreated
  BY <1>1, <1>10 DEF TemplateParamsCreated, Uses, TypeOK
<1>11. CASE CreateFixedTemplateParams
  <2>. DEFINE both == DOMAIN fixedArguments \cap DOMAIN input.arguments
  <2>1. /\ fixedArguments \in Seq(NodeVariables \cup OtherVariables)
        /\ input.arguments \in Seq(Elements)
    BY <1>1 DEF TypeOK, InputTypeOK
  <2>2. \A n \in both : Add(<<>>, fixedArguments[n], input.arguments[n]) \in Params
    <3>1. \A n \in both : /\ fixedArguments[n] \in NodeVariables \cup OtherVariables
                          /\ input.arguments[n] \in Elements
      BY <2>1, ElementOfSeq, RangeOf
    <3>. QED  BY <3>1, AddType
  <2>3. PICK k \in Nat : both = 1 .. k
    <3>1. DOMAIN fixedArguments = 1 .. Len(fixedArguments) /\ Len(fixedArguments) \in Nat
      BY <2>1, RangeOf
    <3>2. DOMAIN input.arguments = 1 .. Len(input.arguments) /\ Len(input.arguments) \in Nat
      BY <2>1, RangeOf
    <3>3. CASE Len(fixedArguments) <= Len(input.arguments)
      BY <3>1, <3>2, <3>3
    <3>4. CASE ~(Len(fixedArguments) <= Len(input.arguments))
      BY <3>1, <3>2, <3>4
    <3>. QED  BY <3>3, <3>4
  <2>4. params' = [n \in both |-> Add(<<>>, fixedArguments[n], input.arguments[n])]
    BY <1>11 DEF CreateFixedTemplateParams
  <2>5. params' \in Seq(Params)
    <3>. DEFINE single(n) == Add(<<>>, fixedArguments[n], input.arguments[n])
    <3>1. /\ params' = [n \in 1 .. k |-> single(n)]
          /\ \A n \in 1 .. k : single(n) \in Params
      BY <2>2, <2>3, <2>4
    <3>. HIDE DEF single
    <3>. QED  BY <3>1
  <2>6. next = 1
    BY <1>11 DEF CreateFixedTemplateParams, Uses, SearchInv, PlaceInv
  <2>7. next \in 1 .. Len(params') + 1
    BY <2>5, <2>6, LenProperties
  <2>. QED  BY <1>1, <1>11, <2>5, <2>7 DEF CreateFixedTemplateParams, TypeOK
<1>12. CASE SearchWithoutArguments
  <2>1. PICK hits \in Hits(<<>>) : result' = AddHits(result, hits)
    BY <1>12 DEF SearchWithoutArguments
  <2>2. result = Rows(<<>>) /\ <<>> \in Seq(Matches)
    BY <1>12 DEF SearchWithoutArguments, SearchInv, RowsInv, Rows
  <2>3. hits \in Seq(Matches)
    BY <1>1, HitsAre
  <2>4. result' = Rows(<<>> \o hits) /\ <<>> \o hits \in Seq(Matches)
    BY <2>1, <2>2, <2>3, RowsAdd
  <2>5. IsReplacements(result)'
    BY <2>4, RowsAre DEF IsReplacements
  <2>. QED  BY <1>1, <1>12, <2>5 DEF SearchWithoutArguments, TypeOK, IsReplacements
<1>13. CASE SearchParams
  <2>1. PICK h \in Seq(Matches) : searchResults' = Rows(h)
    BY <1>13, SearchStep
  <2>2. IsReplacements(searchResults)'
    BY <2>1, RowsAre DEF IsReplacements
  <2>3. IsReplacements(result)'
    <3>1. IsReplacements(searchResults') /\ params[next] \in Params
      BY <1>13, <2>1, RowsAre, SearchStep
    <3>2. result' = Adjusted(searchResults', params[next])
      BY <1>13 DEF SearchParams
    <3>3. IsReplacements(result')
      BY <1>1, <3>1, <3>2, AdjustedIs
    <3>. QED  BY <3>3 DEF IsReplacements
  <2>4. next' \in 1 .. Len(params') + 1
    BY <1>1, <1>13, LenProperties DEF SearchParams, TypeOK
  <2>. QED  BY <1>1, <1>13, <2>2, <2>3, <2>4 DEF SearchParams, TypeOK
<1>14. CASE Searched
  BY <1>1, <1>14 DEF Searched, TypeOK
<1>15. CASE UNCHANGED vars
  BY <1>1, <1>15 DEF vars, TypeOK, IsReplacements
<1>. QED  BY <1>2, <1>3, <1>4, <1>5, <1>6, <1>7, <1>8, <1>9, <1>10, <1>11, <1>12, <1>13, <1>14, <1>15
          DEF Next, Computed

-----------------------------------------------------------------------------
(* What depends on the input alone does not change.                        *)

LEMMA InputKeeps ==
  ASSUME input' = input
  PROVE  /\ \A v : Addresses(v)' = Addresses(v)
         /\ \A variables : AssignmentsOf(variables)' = AssignmentsOf(variables)
         /\ \A n : HasFixedArgument(n)' <=> HasFixedArgument(n)
         /\ Intended' = Intended
         /\ Searches' = Searches
<1>1. \A v : Addresses(v)' = Addresses(v)
  BY DEF Addresses
<1>2. \A variables : AssignmentsOf(variables)' = AssignmentsOf(variables)
  BY <1>1 DEF AssignmentsOf
<1>3. \A n : HasFixedArgument(n)' <=> HasFixedArgument(n)
  BY DEF HasFixedArgument
<1>4. FixedAssignments' = FixedAssignments
  BY DEF FixedAssignments
<1>5. Intended' = Intended
  BY <1>2, <1>4 DEF Intended
<1>. QED  BY <1>1, <1>2, <1>3, <1>5 DEF Searches

LEMMA MatchesKeep ==
  ASSUME input' = input
  PROVE  /\ \A param : MatchesOf(param)' = MatchesOf(param)
         /\ StopsAtFirst' <=> StopsAtFirst
         /\ \A found, param : Finds(found, param)' <=> Finds(found, param)
         /\ \A h, P : FoundFor(h, P)' <=> FoundFor(h, P)
<1>1. \A match : IsValid(match)' <=> IsValid(match)
  BY DEF IsValid, IsContentIdentical, ComparesLink, ElementsAreValid, AccessEdgesAreValid
<1>2. \A param : MatchesOf(param)' = MatchesOf(param)
  BY <1>1 DEF MatchesOf, Fits
<1>3. StopsAtFirst' <=> StopsAtFirst
  BY DEF StopsAtFirst
<1>4. \A found, param : Finds(found, param)' <=> Finds(found, param)
  BY <1>2, <1>3 DEF Finds
<1>5. \A h, P : FoundFor(h, P)' <=> FoundFor(h, P)
  BY <1>2, <1>4 DEF FoundFor
<1>. QED  BY <1>2, <1>3, <1>4, <1>5

LEMMA InputIsConstant == [Next]_vars => input' = input
BY DEF Next, vars, UseTemplateManager, UseTemplateManagerFixedArguments, AddFixedArgument,
   FixedArgumentsFilled, SkipVariable, TakeVariable, CopyParams, UpdateParams, TemplateParamsCreated,
   CreateFixedTemplateParams, SearchWithoutArguments, SearchParams, Searched, Computed

-----------------------------------------------------------------------------
(* The template manager.                                                   *)

LEMMA ManagerNext == SearchInv /\ [Next]_vars => ManagerInv'
<1>. SUFFICES ASSUME SearchInv, [Next]_vars PROVE ManagerInv'
  OBVIOUS
<1>. USE DEF managerVars
<1>1. /\ ManagerInv /\ fixedArguments \in Seq(NodeVariables \cup OtherVariables)
      /\ Len(fixedArguments) \in Nat /\ DOMAIN fixedArguments = 1 .. Len(fixedArguments)
  BY RangeOf DEF SearchInv, TypeOK
<1>2. /\ input' = input
      /\ \A n : HasFixedArgument(n)' <=> HasFixedArgument(n)
  BY InputIsConstant, InputKeeps
<1>3. CASE UseTemplateManager
  BY <1>3 DEF UseTemplateManager, ManagerInv, Fixed
<1>4. CASE UseTemplateManagerFixedArguments
  <2>1. /\ fixedArguments' = <<input.roles[1]>> /\ Len(fixedArguments') = 1
        /\ pc' = "roles" /\ Fixed' /\ 1 \in DOMAIN input.roles
    BY <1>4 DEF UseTemplateManagerFixedArguments, Fixed
  <2>2. HasFixedArgument(1)
    BY <2>1, MaxFixedArgumentsAssumption DEF HasFixedArgument
  <2>3. \A n \in 1 .. Len(fixedArguments') : n = 1
    BY <2>1
  <2>. QED  BY <1>2, <2>1, <2>2, <2>3 DEF ManagerInv
<1>5. CASE AddFixedArgument
  <2>. DEFINE k == Len(fixedArguments)
  <2>1. /\ pc = "roles" /\ pc' = "roles" /\ manager' = manager /\ HasFixedArgument(k + 1)
        /\ fixedArguments' = Append(fixedArguments, input.roles[k + 1])
    BY <1>5 DEF AddFixedArgument
  <2>2. Fixed /\ Fixed' /\ 1 \in DOMAIN input.roles
    BY <1>1, <2>1 DEF ManagerInv, Fixed
  <2>3. input.roles[k + 1] \in NodeVariables \cup OtherVariables
    BY <2>1 DEF SearchInv, TypeOK, InputTypeOK, HasFixedArgument
  <2>4. /\ Len(fixedArguments') = k + 1
        /\ \A n \in 1 .. k : fixedArguments'[n] = fixedArguments[n]
        /\ fixedArguments'[k + 1] = input.roles[k + 1]
    BY <1>1, <2>1, <2>3, AppendProperties
  <2>5. \A n \in 1 .. k : HasFixedArgument(n) /\ fixedArguments[n] = input.roles[n]
    BY <1>1, <2>1, <2>2 DEF ManagerInv
  <2>6. \A n \in 1 .. k + 1 : n \in 1 .. k \/ n = k + 1
    BY <1>1
  <2>. HIDE DEF k
  <2>7. \A n \in 1 .. Len(fixedArguments') :
          HasFixedArgument(n)' /\ fixedArguments'[n] = input'.roles[n]
    BY <1>2, <2>1, <2>4, <2>5, <2>6
  <2>. QED  BY <1>2, <2>1, <2>2, <2>7 DEF ManagerInv
<1>6. CASE FixedArgumentsFilled
  <2>1. /\ pc = "roles" /\ pc' = "params" /\ manager' = manager /\ fixedArguments' = fixedArguments
        /\ ~HasFixedArgument(Len(fixedArguments) + 1)
    BY <1>6 DEF FixedArgumentsFilled
  <2>. QED  BY <1>1, <1>2, <2>1 DEF ManagerInv, Fixed, HasFixedArgument
<1>7. CASE /\ manager' = manager /\ fixedArguments' = fixedArguments
           /\ pc' # "roles" /\ (pc = "formula" <=> pc' = "formula") /\ (pc = "roles" <=> pc' = "roles")
  BY <1>1, <1>2, <1>7 DEF ManagerInv, Fixed, HasFixedArgument
<1>8. CASE UNCHANGED vars
  BY <1>1, <1>2, <1>8 DEF vars, ManagerInv, Fixed, HasFixedArgument
<1>. QED  BY <1>3, <1>4, <1>5, <1>6, <1>7, <1>8
          DEF Next, SkipVariable, TakeVariable, CopyParams, UpdateParams, TemplateParamsCreated, Uses,
              CreateFixedTemplateParams, SearchWithoutArguments, SearchParams, Searched, Computed

LEMMA PlaceNext == SearchInv /\ [Next]_vars => PlaceInv'
<1>. SUFFICES ASSUME SearchInv, [Next]_vars PROVE PlaceInv'
  OBVIOUS
<1>1. PlaceInv /\ input' = input /\ next \in Nat /\ params \in Seq(Params) /\ next <= Len(params) + 1
  BY InputIsConstant DEF SearchInv, TypeOK
<1>2. Len(params) \in Nat
  BY <1>1, LenProperties
<1>. USE DEF managerVars, loopVars, searchVars
<1>3. CASE Searched
  BY <1>1, <1>2, <1>3 DEF Searched, PlaceInv
<1>4. CASE SearchWithoutArguments
  BY <1>1, <1>4 DEF SearchWithoutArguments, PlaceInv
<1>5. CASE SearchParams
  BY <1>1, <1>5 DEF SearchParams, PlaceInv
<1>6. CASE UNCHANGED vars
  BY <1>1, <1>6 DEF vars, PlaceInv
<1>. QED  BY <1>1, <1>3, <1>4, <1>5, <1>6
          DEF PlaceInv, Next, UseTemplateManager, UseTemplateManagerFixedArguments, AddFixedArgument,
              FixedArgumentsFilled, SkipVariable, TakeVariable, CopyParams, UpdateParams,
              TemplateParamsCreated, CreateFixedTemplateParams, Uses, Computed

-----------------------------------------------------------------------------
(* The params.                                                             *)

(* The copies for an address are the params so far with the address, each  *)
(* once; they tell the address.                                            *)
LEMMA CopiesAre ==
  ASSUME TypeOK, variable \in NodeVariables, NEW done, variable \notin done, Made(done),
         NEW address \in Elements
  PROVE  /\ IsInjective(With(address))
         /\ \A q \in Range(With(address)) : q[variable] = address
         /\ AssignmentsOf(done) = {} => Range(With(address)) = {Add(<<>>, variable, address)}
         /\ AssignmentsOf(done) # {} =>
              Range(With(address)) = {Add(p, variable, address) : p \in AssignmentsOf(done)}
<1>0. \A p : Add(p, variable, address)[variable] = address
  BY DEF Add
<1>1. params \in Seq(Params) /\ Range(params) = AssignmentsOf(done) /\ IsInjective(params)
  BY DEF TypeOK, Made
<1>2. params = <<>> <=> AssignmentsOf(done) = {}
  BY <1>1, RangeOf
<1>3. CASE params = <<>>
  <2>1. With(address) = <<Add(<<>>, variable, address)>>
    BY <1>3 DEF With
  <2>2. IsInjective(With(address))
    BY <2>1 DEF IsInjective
  <2>3. Range(With(address)) = {Add(<<>>, variable, address)}
    BY <1>3, WithIs
  <2>4. \A q \in Range(With(address)) : q[variable] = address
    BY <1>0, <2>3
  <2>. QED  BY <1>2, <1>3, <2>2, <2>3, <2>4
<1>4. CASE params # <<>>
  <2>1. With(address) = [n \in DOMAIN params |-> Add(params[n], variable, address)]
    BY <1>4 DEF With
  <2>2. \A n \in DOMAIN params : params[n] \in AssignmentsOf(done)
    BY <1>1 DEF Range
  <2>3. \A p \in AssignmentsOf(done) : p \in [Typed(done) -> Range(input.arguments)]
    BY AssignmentsAre
  <2>4. variable \notin Typed(done)
    BY DEF Typed
  <2>5. ASSUME NEW p \in AssignmentsOf(done), NEW q \in AssignmentsOf(done),
               Add(p, variable, address) = Add(q, variable, address)
        PROVE  p = q
    <3>1. /\ p \in [Typed(done) -> Range(input.arguments)]
          /\ q \in [Typed(done) -> Range(input.arguments)]
      BY <2>3
    <3>2. ASSUME NEW v \in Typed(done) PROVE p[v] = q[v]
      <4>1. v # variable /\ v \in DOMAIN p /\ v \in DOMAIN q
        BY <2>4, <3>1
      <4>2. Add(p, variable, address)[v] = p[v] /\ Add(q, variable, address)[v] = q[v]
        BY <4>1 DEF Add
      <4>. QED  BY <2>5, <4>2
    <3>. QED  BY <3>1, <3>2
  <2>6. IsInjective(With(address))
    <3>. SUFFICES ASSUME NEW m \in DOMAIN params, NEW n \in DOMAIN params,
                         With(address)[m] = With(address)[n]
                  PROVE  m = n
      BY <2>1 DEF IsInjective
    <3>1. params[m] = params[n]
      BY <2>1, <2>2, <2>5
    <3>. QED  BY <1>1, <3>1 DEF IsInjective
  <2>7. Range(With(address)) = {Add(p, variable, address) : p \in AssignmentsOf(done)}
    <3>1. Range(With(address)) = {Add(p, variable, address) : p \in Range(params)}
      BY <1>4, WithIs
    <3>. QED  BY <1>1, <3>1, Zenon
  <2>8. \A q \in Range(With(address)) : q[variable] = address
    BY <1>0, <2>7
  <2>. QED  BY <1>2, <1>4, <2>6, <2>7, <2>8, Zenon
<1>. QED  BY <1>3, <1>4

(* When all addresses are copied, the variable is among the assigned ones. *)
LEMMA AllCopied ==
  ASSUME TypeOK, variable \in NodeVariables, NEW done, variable \notin done, Made(done),
         Addresses(variable) # {},
         NEW q
  PROVE  (\E address \in Addresses(variable) : q \in Range(With(address))) <=>
           q \in AssignmentsOf(done \cup {variable})
<1>1. Addresses(variable) \subseteq Elements
  BY DEF Addresses, TypeOK, InputTypeOK
<1>2. CASE AssignmentsOf(done) = {}
  <2>1. AssignmentsOf(done \cup {variable}) = Begun(variable)
    BY <1>2, AssignmentsExtend
  <2>2. \A a \in Addresses(variable) : Range(With(a)) = {Add(<<>>, variable, a)}
    BY <1>1, <1>2, CopiesAre
  <2>. QED  BY <2>1, <2>2 DEF Begun
<1>3. CASE AssignmentsOf(done) # {}
  <2>1. AssignmentsOf(done \cup {variable}) = Extended(done, variable)
    BY <1>3, AssignmentsExtend
  <2>2. \A a \in Addresses(variable) :
          Range(With(a)) = {Add(p, variable, a) : p \in AssignmentsOf(done)}
    BY <1>1, <1>3, CopiesAre
  <2>3. \A a \in Addresses(variable) :
          q \in Range(With(a)) <=> \E p \in AssignmentsOf(done) : q = Add(p, variable, a)
    BY <2>2
  <2>4. q \in Extended(done, variable) <=>
          \E p \in AssignmentsOf(done), a \in Addresses(variable) : q = Add(p, variable, a)
    BY DEF Extended
  <2>5. (\E a \in Addresses(variable) : q \in Range(With(a))) <=>
          \E a \in Addresses(variable), p \in AssignmentsOf(done) : q = Add(p, variable, a)
    BY <2>3, Zenon
  <2>. QED  BY <2>1, <2>4, <2>5
<1>. QED  BY <1>2, <1>3

LEMMA CopyKeeps ==
  ASSUME SearchInv, CopyParams
  PROVE  Copied'
<1>. DEFINE done == NodeVariables \ (variablesLeft \cup {variable})
            gone == Addresses(variable) \ addresses
<1>1. PICK a \in addresses :
        addresses' = addresses \ {a} /\ updatedParams' = updatedParams \o With(a)
  BY DEF CopyParams
<1>2. /\ TypeOK /\ variable \in NodeVariables /\ addresses \subseteq Addresses(variable)
      /\ Made(done) /\ Copied /\ updatedParams \in Seq(Params) /\ variable \notin done
  BY DEF CopyParams, SearchInv, ParamsInv, TypeOK
<1>3. Addresses(variable) \subseteq Elements
  BY <1>2 DEF Addresses, TypeOK, InputTypeOK
<1>. HIDE DEF done
<1>4. \A b \in Addresses(variable) :
        IsInjective(With(b)) /\ \A q \in Range(With(b)) : q[variable] = b
  BY <1>2, <1>3, CopiesAre
<1>5. With(a) \in Seq(Params)
  BY <1>2, <1>3, WithIs
<1>6. /\ \A q : q \in Range(updatedParams) <=> \E b \in gone : q \in Range(With(b))
      /\ IsInjective(updatedParams)
  BY <1>2 DEF Copied
<1>7. Range(updatedParams) \cap Range(With(a)) = {}
  <2>1. \A q \in Range(updatedParams) : q[variable] \in gone
    BY <1>4, <1>6
  <2>2. \A q \in Range(With(a)) : q[variable] = a
    BY <1>2, <1>4
  <2>. QED  BY <2>1, <2>2
<1>8. /\ Range(updatedParams') = Range(updatedParams) \cup Range(With(a))
      /\ IsInjective(updatedParams')
  BY <1>1, <1>2, <1>4, <1>5, <1>6, <1>7, RangeConcat
<1>9. /\ variable' = variable
      /\ \A b : With(b)' = With(b)
      /\ \A v : Addresses(v)' = Addresses(v)
  BY InputKeeps DEF CopyParams, With
<1>10. (Addresses(variable) \ addresses)' = gone \cup {a}
  <2>1. Addresses(variable)' = Addresses(variable)
    BY <1>9 DEF Addresses, CopyParams
  <2>. QED  BY <1>1, <1>2, <2>1
<1>11. \A b : Range(With(b))' = Range(With(b))
  BY <1>9 DEF Range
<1>12. ASSUME NEW q
       PROVE  q \in Range(updatedParams)' <=>
                \E b \in (Addresses(variable) \ addresses)' : q \in Range(With(b))'
  <2>1. q \in Range(updatedParams)' <=> q \in Range(updatedParams) \/ q \in Range(With(a))
    BY <1>8 DEF Range
  <2>. QED  BY <1>6, <1>10, <1>11, <2>1
<1>13. IsInjective(updatedParams)'
  BY <1>8 DEF IsInjective
<1>. QED  BY <1>12, <1>13 DEF Copied

(* The params of fixed arguments are what the roles give to the arguments. *)
LEMMA FixedParamsAre ==
  ASSUME SearchInv, CreateFixedTemplateParams
  PROVE  /\ Range(params') = FixedAssignments
         /\ IsInjective(input.arguments) => IsInjective(params')
<1>. DEFINE k == Len(fixedArguments)
            both == DOMAIN fixedArguments \cap DOMAIN input.arguments
            single(n) == Add(<<>>, fixedArguments[n], input.arguments[n])
            reached == {n \in DOMAIN input.arguments :
                          n <= MaxFixedArguments /\ 1 .. n \subseteq DOMAIN input.roles}
<1>1. /\ k \in Nat /\ DOMAIN fixedArguments = 1 .. k
      /\ DOMAIN input.arguments \subseteq Nat \ {0}
  <2>1. /\ fixedArguments \in Seq(NodeVariables \cup OtherVariables)
        /\ input.arguments \in Seq(Elements)
    BY DEF SearchInv, TypeOK, InputTypeOK
  <2>. QED  BY <2>1, RangeOf
<1>2. /\ \A n \in 1 .. k : HasFixedArgument(n) /\ fixedArguments[n] = input.roles[n]
      /\ ~HasFixedArgument(k + 1)
  BY DEF CreateFixedTemplateParams, Uses, SearchInv, ManagerInv, Fixed
<1>3. /\ params' = [n \in both |-> single(n)]
      /\ DOMAIN params' = both /\ \A n \in both : params'[n] = single(n)
  BY DEF CreateFixedTemplateParams
<1>4. reached = both
  <2>1. ASSUME NEW n \in reached PROVE n \in both
    <3>1. n \in Nat \ {0} /\ n <= MaxFixedArguments /\ 1 .. n \subseteq DOMAIN input.roles
      BY <1>1
    <3>2. ASSUME ~(n <= k) PROVE FALSE
      <4>1. k + 1 \in 1 .. n /\ k + 1 <= MaxFixedArguments
        BY <1>1, <3>1, <3>2, MaxFixedArgumentsAssumption
      <4>. QED  BY <1>2, <3>1, <4>1 DEF HasFixedArgument
    <3>. QED  BY <1>1, <3>1, <3>2
  <2>2. ASSUME NEW n \in both PROVE n \in reached
    <3>1. n \in 1 .. k /\ \A m \in 1 .. n : m \in 1 .. k
      BY <1>1
    <3>. QED  BY <1>2, <3>1 DEF HasFixedArgument
  <2>. QED  BY <2>1, <2>2
<1>5. \A n \in both : single(n) = Add(<<>>, input.roles[n], input.arguments[n])
  BY <1>1, <1>2
<1>6. FixedAssignments = {Add(<<>>, input.roles[n], input.arguments[n]) : n \in reached}
  BY DEF FixedAssignments
<1>7. ASSUME NEW m \in both, NEW n \in both, single(m) = single(n),
             IsInjective(input.arguments)
      PROVE  m = n
  <2>1. /\ DOMAIN single(m) = {fixedArguments[m]} /\ DOMAIN single(n) = {fixedArguments[n]}
        /\ single(m)[fixedArguments[m]] = input.arguments[m]
        /\ single(n)[fixedArguments[n]] = input.arguments[n]
    <3>1. /\ single(m) = [w \in {fixedArguments[m]} |-> input.arguments[m]]
          /\ single(n) = [w \in {fixedArguments[n]} |-> input.arguments[n]]
      BY AddToEmpty
    <3>. HIDE DEF single
    <3>. QED  BY <3>1
  <2>. HIDE DEF single
  <2>2. fixedArguments[m] = fixedArguments[n]
    BY <1>7, <2>1
  <2>3. input.arguments[m] = input.arguments[n]
    BY <1>7, <2>1, <2>2
  <2>. QED  BY <1>7, <2>3 DEF IsInjective
<1>. HIDE DEF single, both, reached
<1>8. Range(params') = FixedAssignments
  BY <1>3, <1>4, <1>5, <1>6 DEF Range
<1>9. IsInjective(input.arguments) => IsInjective(params')
  BY <1>3, <1>7 DEF IsInjective
<1>. QED  BY <1>8, <1>9

LEMMA ParamsNext == SearchInv /\ [Next]_vars => ParamsInv'
<1>. SUFFICES ASSUME SearchInv, [Next]_vars PROVE ParamsInv'
  OBVIOUS
<1>. USE DEF managerVars, loopVars, searchVars
<1>1. /\ TypeOK /\ ManagerInv /\ ParamsInv /\ ParamsAreAssignments /\ PlaceInv
      /\ variablesLeft \subseteq NodeVariables
  BY DEF SearchInv, ParamsInv, TypeOK
<1>2. /\ input' = input
      /\ \A v : Addresses(v)' = Addresses(v)
      /\ \A variables : AssignmentsOf(variables)' = AssignmentsOf(variables)
      /\ Intended' = Intended
  BY InputIsConstant, InputKeeps
<1>3. CASE UseTemplateManager
  <2>1. /\ pc = "formula" /\ pc' = "params" /\ params' = params /\ updatedParams' = updatedParams
        /\ variablesLeft' = variablesLeft
    BY <1>3 DEF UseTemplateManager
  <2>2. params' = <<>> /\ NodeVariables \ variablesLeft' = {} /\ updatedParams' = <<>>
    BY <1>1, <2>1 DEF ParamsInv
  <2>3. Range(<<>>) = {} /\ IsInjective(<<>>)
    BY DEF Range, IsInjective
  <2>4. AssignmentsOf({}) = {}
    BY AssignmentsAre DEF Typed
  <2>5. Made(NodeVariables \ variablesLeft)'
    BY <1>2, <2>2, <2>3, <2>4 DEF Made, Range, IsInjective
  <2>. QED  BY <2>1, <2>2, <2>5 DEF ParamsInv, ParamsAreAssignments
<1>4. CASE UseTemplateManagerFixedArguments \/ AddFixedArgument
  BY <1>1, <1>4 DEF UseTemplateManagerFixedArguments, AddFixedArgument, ParamsInv, ParamsAreAssignments
<1>5. CASE FixedArgumentsFilled
  BY <1>1, <1>5 DEF FixedArgumentsFilled, ManagerInv, Fixed, ParamsInv, ParamsAreAssignments
<1>6. CASE SkipVariable
  <2>1. PICK v \in variablesLeft :
          Addresses(v) = {} /\ variablesLeft' = variablesLeft \ {v}
    BY <1>6 DEF SkipVariable
  <2>2. /\ pc = "params" /\ pc' = "params" /\ ~Fixed
        /\ params' = params /\ updatedParams' = updatedParams
    BY <1>6 DEF SkipVariable, Uses, Fixed
  <2>3. NodeVariables \ variablesLeft' = (NodeVariables \ variablesLeft) \cup {v}
    BY <1>1, <2>1
  <2>4. AssignmentsOf(NodeVariables \ variablesLeft') = AssignmentsOf(NodeVariables \ variablesLeft)
    BY <2>1, <2>3, AssignmentsSkip
  <2>5. Made(NodeVariables \ variablesLeft)
    BY <1>1, <2>2 DEF ParamsInv
  <2>6. Made(NodeVariables \ variablesLeft)'
    BY <1>2, <2>2, <2>4, <2>5 DEF Made, Range, IsInjective
  <2>. QED  BY <1>1, <2>2, <2>6 DEF ParamsInv, ParamsAreAssignments
<1>7. CASE TakeVariable
  <2>1. PICK v \in variablesLeft : /\ Addresses(v) # {} /\ variablesLeft' = variablesLeft \ {v}
                                   /\ variable' = v /\ addresses' = Addresses(v)
    BY <1>7 DEF TakeVariable
  <2>2. /\ pc = "params" /\ pc' = "addresses" /\ ~Fixed /\ manager' = manager
        /\ input.arguments # <<>>
        /\ params' = params /\ updatedParams' = updatedParams /\ updatedParams = <<>>
    BY <1>1, <1>7 DEF TakeVariable, Uses, Fixed, ParamsInv
  <2>3. Made(NodeVariables \ (variablesLeft \cup {variable}))'
    <3>1. variablesLeft' \cup {variable'} = variablesLeft
      BY <2>1
    <3>2. Made(NodeVariables \ variablesLeft)
      BY <1>1, <2>2 DEF ParamsInv
    <3>. QED  BY <1>2, <2>2, <3>1, <3>2 DEF Made, Range, IsInjective
  <2>4. Addresses(variable)' = Addresses(v)
    BY <1>2, <2>1 DEF Addresses
  <2>5. Copied'
    <3>1. (Addresses(variable) \ addresses)' = {}
      BY <2>1, <2>4
    <3>2. Range(updatedParams)' = {} /\ IsInjective(updatedParams)'
      BY <2>2 DEF Range, IsInjective
    <3>. QED  BY <3>1, <3>2 DEF Copied
  <2>6. variable' \in NodeVariables \ variablesLeft' /\ addresses' \subseteq Addresses(variable)'
        /\ Addresses(variable)' # {}
    BY <1>1, <2>1, <2>4
  <2>7. input.arguments' # <<>> /\ ~Fixed'
    BY <1>2, <2>2 DEF Fixed
  <2>. QED  BY <2>2, <2>3, <2>5, <2>6, <2>7 DEF ParamsInv, ParamsAreAssignments
<1>8. CASE CopyParams
  <2>1. /\ pc = "addresses" /\ pc' = pc /\ variablesLeft' = variablesLeft /\ variable' = variable
        /\ params' = params /\ manager' = manager /\ addresses' \subseteq addresses
    BY <1>8 DEF CopyParams
  <2>2. Copied'
    BY <1>8, CopyKeeps
  <2>3. Addresses(variable)' = Addresses(variable)
    BY <1>2, <2>1 DEF Addresses
  <2>4. Made(NodeVariables \ (variablesLeft \cup {variable}))'
    BY <1>1, <1>2, <2>1 DEF ParamsInv, Made, Range, IsInjective
  <2>5. /\ input.arguments' # <<>> /\ ~Fixed' /\ variable' \in NodeVariables \ variablesLeft'
        /\ addresses' \subseteq Addresses(variable)' /\ Addresses(variable)' # {}
    BY <1>1, <1>2, <2>1, <2>3 DEF ParamsInv, Fixed
  <2>. QED  BY <2>1, <2>2, <2>4, <2>5 DEF ParamsInv, ParamsAreAssignments
<1>9. CASE UpdateParams
  <2>. DEFINE done == NodeVariables \ (variablesLeft \cup {variable})
  <2>1. /\ pc = "addresses" /\ pc' = "params" /\ addresses = {} /\ params' = updatedParams
        /\ updatedParams' = <<>> /\ variablesLeft' = variablesLeft /\ manager' = manager
    BY <1>9 DEF UpdateParams
  <2>2. /\ variable \in NodeVariables \ variablesLeft /\ Made(done) /\ Copied
        /\ Addresses(variable) # {} /\ variable \notin done
    BY <1>1, <2>1 DEF ParamsInv
  <2>3. NodeVariables \ variablesLeft' = done \cup {variable}
    BY <2>1, <2>2
  <2>. HIDE DEF done
  <2>4. \A q : q \in Range(updatedParams) <=> q \in AssignmentsOf(done \cup {variable})
    <3>1. \A q : q \in Range(updatedParams) <=> \E a \in Addresses(variable) : q \in Range(With(a))
      BY <2>1, <2>2 DEF Copied
    <3>2. \A q : (\E a \in Addresses(variable) : q \in Range(With(a))) <=>
                   q \in AssignmentsOf(done \cup {variable})
      BY <1>1, <2>2, AllCopied
    <3>. QED  BY <3>1, <3>2
  <2>5. Range(updatedParams) = AssignmentsOf(done \cup {variable}) /\ IsInjective(updatedParams)
    BY <2>2, <2>4 DEF Copied
  <2>6. Made(NodeVariables \ variablesLeft)'
    BY <1>2, <2>1, <2>3, <2>5 DEF Made, Range, IsInjective
  <2>. QED  BY <2>1, <2>6 DEF ParamsInv, ParamsAreAssignments
<1>10. CASE TemplateParamsCreated
  <2>1. /\ pc = "params" /\ pc' = "search" /\ ~Fixed /\ variablesLeft = {}
        /\ params' = params /\ updatedParams' = updatedParams
    BY <1>10 DEF TemplateParamsCreated, Uses, Fixed
  <2>2. Range(params) = AssignmentsOf(NodeVariables) /\ IsInjective(params)
    BY <1>1, <2>1 DEF ParamsInv, Made
  <2>3. Intended = AssignmentsOf(NodeVariables)
    BY <1>1, <2>1 DEF ManagerInv, Intended
  <2>4. Range(params') = Intended' /\ IsInjective(params')
    BY <1>2, <2>1, <2>2, <2>3
  <2>. QED  BY <1>1, <2>1, <2>4 DEF ParamsInv, ParamsAreAssignments, Range, IsInjective
<1>11. CASE CreateFixedTemplateParams
  <2>1. /\ pc = "params" /\ pc' = "search" /\ Fixed /\ updatedParams' = updatedParams
    BY <1>11 DEF CreateFixedTemplateParams, Uses, Fixed
  <2>2. Intended = FixedAssignments /\ 1 \in DOMAIN input.roles
    BY <1>1, <2>1 DEF ManagerInv, Intended
  <2>3. /\ Range(params') = Intended'
        /\ IsInjective(input.arguments) => IsInjective(params')
    BY <1>2, <1>11, <2>2, FixedParamsAre
  <2>. QED  BY <1>1, <1>2, <2>1, <2>2, <2>3 DEF ParamsInv, ParamsAreAssignments, Range, IsInjective
<1>12. CASE SearchWithoutArguments \/ SearchParams \/ Searched
  <2>1. /\ params' = params /\ updatedParams' = updatedParams /\ manager' = manager
        /\ pc \in {"params", "search"} /\ pc' \in {"search", "done"}
        /\ pc = "search" \/ input.arguments = <<>>
    BY <1>12 DEF SearchWithoutArguments, SearchParams, Searched
  <2>2. ParamsAreAssignments'
    BY <1>1, <1>2, <2>1 DEF ParamsAreAssignments, Range, IsInjective
  <2>. QED  BY <1>1, <2>1, <2>2 DEF ParamsInv
<1>13. CASE UNCHANGED vars
  <2>1. /\ pc' = pc /\ params' = params /\ updatedParams' = updatedParams /\ manager' = manager
        /\ variablesLeft' = variablesLeft /\ variable' = variable /\ addresses' = addresses
    BY <1>13 DEF vars
  <2>2. Addresses(variable)' = Addresses(variable)
    BY <1>2, <2>1 DEF Addresses
  <2>3. /\ (Made(NodeVariables \ variablesLeft) <=> Made(NodeVariables \ variablesLeft)')
        /\ (Made(NodeVariables \ (variablesLeft \cup {variable})) <=>
              Made(NodeVariables \ (variablesLeft \cup {variable}))')
    BY <1>2, <2>1 DEF Made, Range, IsInjective
  <2>4. Copied' <=> Copied
    <3>1. \A a : With(a)' = With(a)
      BY <2>1 DEF With
    <3>2. \A a : Range(With(a))' = Range(With(a))
      BY <3>1 DEF Range
    <3>3. Range(updatedParams)' = Range(updatedParams)
      BY <2>1 DEF Range
    <3>4. IsInjective(updatedParams)' <=> IsInjective(updatedParams)
      BY <2>1 DEF IsInjective
    <3>5. (Addresses(variable) \ addresses)' = Addresses(variable) \ addresses
      BY <2>1, <2>2
    <3>. QED  BY <3>2, <3>3, <3>4, <3>5 DEF Copied
  <2>5. ParamsAreAssignments'
    BY <1>1, <1>2, <2>1 DEF ParamsAreAssignments, Range, IsInjective
  <2>. QED  BY <1>1, <1>2, <2>1, <2>2, <2>3, <2>4, <2>5 DEF ParamsInv, Fixed
<1>. QED  BY <1>3, <1>4, <1>5, <1>6, <1>7, <1>8, <1>9, <1>10, <1>11, <1>12, <1>13 DEF Next, Computed

-----------------------------------------------------------------------------
(* The rows.                                                               *)

LEMMA RowsOfParams ==
  ASSUME SearchInv, SearchParams
  PROVE  RowsInv'
<1>. USE DEF managerVars, loopVars
<1>1. /\ TypeOK /\ RowsInv /\ params[next] \in Params /\ next \in DOMAIN params
      /\ next \in 1 .. Len(params) /\ Len(params) \in Nat
  BY SearchStep, RangeOf DEF SearchInv, TypeOK
<1>2. PICK h \in Seq(Matches), hits \in Hits(params[next]) :
        /\ searchResults = Rows(h) /\ FoundFor(h, Processed)
        /\ hits \in Seq(Matches)
        /\ searchResults' = Rows(h \o hits)
        /\ h \o hits \in Seq(Matches)
  BY SearchStep
<1>3. /\ result' = Adjusted(searchResults', params[next])
      /\ next' = next + 1 /\ params' = params /\ input' = input /\ pc' = "search" /\ pc = "search"
      /\ input.arguments # <<>>
  BY DEF SearchParams, SearchInv, PlaceInv
<1>. DEFINE param == params[next]
            all == h \o hits
<1>4. /\ Range(hits) \subseteq MatchesOf(param) /\ Finds(Range(hits), param)
      /\ StopsAtFirst \/ (\A match, other \in MatchesOf(param) : match = other) =>
           IF MatchesOf(param) = {} THEN hits = <<>>
           ELSE \E match \in MatchesOf(param) : hits = <<match>>
  BY <1>1, HitsAre
<1>5. Range(all) = Range(h) \cup Range(hits) /\ all \in Seq(Matches)
  BY <1>2, RowsAdd
<1>6. /\ \A p : MatchesOf(p)' = MatchesOf(p)
      /\ StopsAtFirst' <=> StopsAtFirst
      /\ \A s, P : FoundFor(s, P)' <=> FoundFor(s, P)
  BY <1>3, MatchesKeep
<1>7. Processed' = Processed \cup {param}
  <2>1. next \in Nat /\ next' - 1 = next /\ 1 .. next = (1 .. next - 1) \cup {next}
    BY <1>1, <1>3
  <2>. QED  BY <1>3, <2>1 DEF Processed
<1>. HIDE DEF all, param
<1>8. FoundFor(all, Processed')
  <2>1. \A p \in Processed \cup {param} : Finds(Range(all), p)
    <3>1. \A p \in Processed : Finds(Range(h), p)
      BY <1>2 DEF FoundFor
    <3>2. ASSUME NEW p, Finds(Range(h), p) \/ Finds(Range(hits), p) PROVE Finds(Range(all), p)
      BY <1>5, <3>2 DEF Finds
    <3>. QED  BY <1>4, <3>1, <3>2
  <2>2. \A match \in Range(all) : \E p \in Processed \cup {param} : match \in MatchesOf(p)
    BY <1>2, <1>4, <1>5 DEF FoundFor
  <2>. QED  BY <1>7, <2>1, <2>2 DEF FoundFor
<1>9. \E s \in Seq(Matches) : searchResults' = Rows(s) /\ FoundFor(s, Processed)'
  <2>1. FoundFor(all, Processed)'
    BY <1>6, <1>8 DEF FoundFor
  <2>. QED  BY <1>2, <1>5, <2>1 DEF all
<1>10. IsReplacements(searchResults') /\ DOMAIN result' = DOMAIN searchResults'
  <2>1. IsReplacements(searchResults')
    BY <1>2, RowsAre
  <2>. QED  BY <1>1, <1>3, <2>1, AdjustedIs
<1>11. /\ DOMAIN result = DOMAIN searchResults
       /\ \A v \in DOMAIN result : Range(searchResults[v]) \subseteq Range(result[v])
       /\ OneHitUpTo(next - 1) => result = searchResults
  BY <1>1, <1>3 DEF RowsInv
<1>12. ASSUME NEW v \in DOMAIN searchResults', v \in DOMAIN param
       PROVE  /\ result'[v] = Append(Row(result, v), param[v])
              /\ v \in Variables /\ param[v] \in Elements
              /\ searchResults'[v] = Row(searchResults, v) \o [n \in DOMAIN hits |-> hits[n][v]]
              /\ \A n \in DOMAIN hits : hits[n][v] = param[v]
  <2>1. result'[v] = Append(Row(result, v), param[v])
    BY <1>3, <1>12 DEF Adjusted, param
  <2>2. v \in Variables
    BY <1>10 DEF IsReplacements
  <2>3. param[v] \in Elements
    BY <1>1, <1>12 DEF Params, param
  <2>4. \A n \in DOMAIN hits : hits[n][v] = param[v]
    BY <1>4, <1>12, <2>2 DEF Range, MatchesOf, Fits
  <2>5. searchResults'[v] = Row(searchResults, v) \o [n \in DOMAIN hits |-> hits[n][v]]
    <3>1. searchResults' = AddHits(searchResults, hits)
      BY <1>2, RowsAdd
    <3>2. CASE hits = <<>>
      <4>1. searchResults' = searchResults /\ [n \in DOMAIN hits |-> hits[n][v]] = <<>>
        BY <3>1, <3>2 DEF AddHits
      <4>2. Row(searchResults, v) = searchResults'[v] /\ searchResults'[v] \in Seq(Elements)
        BY <1>10, <1>12, <4>1 DEF Row, IsReplacements
      <4>. QED  BY <4>1, <4>2
    <3>3. CASE hits # <<>>
      BY <2>2, <3>1, <3>3 DEF AddHits
    <3>. QED  BY <3>2, <3>3
  <2>. QED  BY <2>1, <2>2, <2>3, <2>4, <2>5
<1>13. ASSUME NEW v \in DOMAIN result' PROVE Range(searchResults'[v]) \subseteq Range(result'[v])
  <2>1. v \in DOMAIN searchResults'
    BY <1>10
  <2>2. CASE v \notin DOMAIN param
    <3>1. result'[v] = searchResults'[v]
      BY <1>3, <2>1, <2>2 DEF Adjusted, param
    <3>. QED  BY <3>1
  <2>3. CASE v \in DOMAIN param
    <3>. DEFINE before == Row(searchResults, v)
                found == [n \in DOMAIN hits |-> hits[n][v]]
    <3>1. /\ result'[v] = Append(Row(result, v), param[v])
          /\ v \in Variables /\ param[v] \in Elements
          /\ searchResults'[v] = before \o found
          /\ \A n \in DOMAIN hits : hits[n][v] = param[v]
      BY <1>12, <2>1, <2>3
    <3>2. Row(result, v) \in Seq(Elements) /\ before \in Seq(Elements)
      <4>1. /\ \A w \in DOMAIN result : result[w] \in Seq(Elements)
            /\ \A w \in DOMAIN searchResults : searchResults[w] \in Seq(Elements)
        BY <1>1 DEF TypeOK, IsReplacements
      <4>2. <<>> \in Seq(Elements)
        OBVIOUS
      <4>. QED  BY <4>1, <4>2 DEF Row
    <3>3. found \in Seq(Elements) /\ Range(found) \subseteq {param[v]}
      <4>1. DOMAIN hits = 1 .. Len(hits) /\ Len(hits) \in Nat
        BY <1>2, RangeOf
      <4>. QED  BY <3>1, <4>1 DEF Range
    <3>. HIDE DEF found
    <3>4. Range(before) \subseteq Range(Row(result, v))
      <4>1. CASE v \in DOMAIN result
        BY <1>11, <4>1 DEF Row
      <4>2. CASE v \notin DOMAIN result
        BY <1>11, <4>2 DEF Row
      <4>. QED  BY <4>1, <4>2
    <3>. HIDE DEF before
    <3>5. Range(searchResults'[v]) = Range(before) \cup Range(found)
      BY <3>1, <3>2, <3>3, RangeConcat
    <3>6. Range(result'[v]) = Range(Row(result, v)) \cup {param[v]}
      BY <3>1, <3>2, RangeAppend
    <3>. QED  BY <3>3, <3>4, <3>5, <3>6
  <2>. QED  BY <2>2, <2>3
<1>14. OneHitUpTo(next - 1)' => result' = searchResults'
  <2>. SUFFICES ASSUME OneHitUpTo(next - 1)' PROVE result' = searchResults'
    OBVIOUS
  <2>1. \A n \in 1 .. next :
          /\ StopsAtFirst \/ \A match, other \in MatchesOf(params[n]) : match = other
          /\ MatchesOf(params[n]) = {} => \A m \in 1 .. n : MatchesOf(params[m]) = {}
    <3>1. next' - 1 = next
      BY <1>1, <1>3
    <3>. QED  BY <1>3, <1>6, <3>1 DEF OneHitUpTo
  <2>2. next \in 1 .. next /\ \A n \in 1 .. next - 1 : n \in 1 .. next
    BY <1>1
  <2>3. result = searchResults
    BY <1>11, <2>1, <2>2 DEF OneHitUpTo
  <2>4. /\ searchResults' \in [DOMAIN searchResults' -> Seq(Elements)]
        /\ result' = [v \in DOMAIN searchResults' |-> result'[v]]
        /\ \A v \in DOMAIN searchResults' \ DOMAIN param : result'[v] = searchResults'[v]
    BY <1>3, <1>10 DEF IsReplacements, Adjusted, param
  <2>5. CASE MatchesOf(param) = {}
    <3>1. \A p \in Processed : MatchesOf(p) = {}
      BY <2>1, <2>2, <2>5 DEF Processed, param
    <3>2. Range(h) = {} /\ hits = <<>>
      BY <1>2, <1>4, <2>5, <3>1 DEF FoundFor
    <3>3. h = <<>> /\ h \o hits = <<>>
      BY <3>2, RangeOf
    <3>4. DOMAIN searchResults' = {}
      BY <1>2, <3>3, RowsAre
    <3>. QED  BY <2>4, <3>4
  <2>6. CASE MatchesOf(param) # {}
    <3>1. StopsAtFirst \/ \A match, other \in MatchesOf(param) : match = other
      BY <2>1, <2>2 DEF param
    <3>2. PICK match \in MatchesOf(param) : hits = <<match>>
      BY <1>4, <2>6, <3>1
    <3>3. ASSUME NEW v \in DOMAIN searchResults', v \in DOMAIN param
          PROVE  result'[v] = searchResults'[v]
      <4>. DEFINE before == Row(searchResults, v)
      <4>1. /\ result'[v] = Append(before, param[v])
            /\ searchResults'[v] = before \o [n \in DOMAIN hits |-> hits[n][v]]
            /\ \A n \in DOMAIN hits : hits[n][v] = param[v]
            /\ param[v] \in Elements
        BY <1>12, <2>3, <3>3
      <4>2. DOMAIN hits = 1 .. 1
        BY <3>2
      <4>3. [n \in DOMAIN hits |-> hits[n][v]] = <<param[v]>>
        BY <4>1, <4>2
      <4>4. before \in Seq(Elements)
        <5>1. \A w \in DOMAIN searchResults : searchResults[w] \in Seq(Elements)
          BY <1>1 DEF TypeOK, IsReplacements
        <5>2. <<>> \in Seq(Elements)
          OBVIOUS
        <5>. QED  BY <5>1, <5>2 DEF Row
      <4>. HIDE DEF before
      <4>5. Append(before, param[v]) = before \o <<param[v]>>
        BY <4>1, <4>4
      <4>. QED  BY <4>1, <4>3, <4>5
    <3>. QED  BY <2>4, <3>3
  <2>. QED  BY <2>5, <2>6
<1>. QED  BY <1>3, <1>9, <1>10, <1>13, <1>14 DEF RowsInv

LEMMA RowsNext == SearchInv /\ [Next]_vars => RowsInv'
<1>. SUFFICES ASSUME SearchInv, [Next]_vars PROVE RowsInv'
  OBVIOUS
<1>. USE DEF managerVars, loopVars, searchVars
<1>1. TypeOK /\ RowsInv /\ PlaceInv /\ next \in Nat
  BY DEF SearchInv, TypeOK
<1>2. /\ input' = input
      /\ \A p : MatchesOf(p)' = MatchesOf(p)
      /\ StopsAtFirst' <=> StopsAtFirst
      /\ \A s, P : FoundFor(s, P)' <=> FoundFor(s, P)
  BY InputIsConstant, MatchesKeep
<1>3. PICK h \in Seq(Matches) : searchResults = Rows(h) /\ FoundFor(h, Processed)
  BY <1>1 DEF RowsInv
<1>4. CASE SearchWithoutArguments
  <2>1. /\ input.arguments = <<>> /\ pc' = "done" /\ pc = "params"
        /\ params' = params /\ next' = next /\ searchResults' = searchResults
    BY <1>4 DEF SearchWithoutArguments
  <2>2. PICK hits \in Hits(<<>>) : result' = AddHits(result, hits)
    BY <1>4 DEF SearchWithoutArguments
  <2>3. hits \in Seq(Matches) /\ Range(hits) \subseteq MatchesOf(<<>>) /\ Finds(Range(hits), <<>>)
    BY <1>1, HitsAre
  <2>4. result = Rows(<<>>) /\ <<>> \in Seq(Matches) /\ <<>> \o hits = hits
    BY <1>1, <2>1, <2>3 DEF RowsInv, Rows
  <2>5. result' = Rows(hits)
    BY <2>2, <2>3, <2>4, RowsAdd
  <2>6. FoundFor(hits, {<<>>})
    BY <2>3 DEF FoundFor
  <2>7. FoundFor(hits, {<<>>})' /\ FoundFor(h, Processed)'
    <3>1. Processed' = Processed
      BY <2>1 DEF Processed
    <3>. QED  BY <1>2, <1>3, <2>6, <3>1 DEF FoundFor
  <2>. QED  BY <1>2, <1>3, <2>1, <2>3, <2>5, <2>7 DEF RowsInv
<1>5. CASE SearchParams
  BY <1>5, RowsOfParams
<1>6. CASE UpdateParams \/ CreateFixedTemplateParams
  <2>1. /\ pc' # "done" /\ pc # "done" /\ next = 1 /\ next' = next
        /\ searchResults' = searchResults /\ result' = result
    BY <1>1, <1>6 DEF UpdateParams, CreateFixedTemplateParams, Uses, PlaceInv
  <2>2. Processed = {} /\ Processed' = {} /\ OneHitUpTo(next - 1)
    BY <2>1 DEF Processed, OneHitUpTo
  <2>3. FoundFor(h, Processed)'
    BY <1>2, <1>3, <2>2 DEF FoundFor
  <2>. QED  BY <1>1, <1>2, <1>3, <2>1, <2>2, <2>3 DEF RowsInv
<1>7. CASE /\ params' = params /\ next' = next /\ searchResults' = searchResults /\ result' = result
           /\ (pc = "done" <=> pc' = "done") \/ input.arguments # <<>>
  <2>1. Processed' = Processed
    BY <1>7 DEF Processed
  <2>2. FoundFor(h, Processed)' /\ \A s : FoundFor(s, {<<>>})' <=> FoundFor(s, {<<>>})
    BY <1>2, <1>3, <2>1 DEF FoundFor
  <2>3. OneHitUpTo(next - 1)' <=> OneHitUpTo(next - 1)
    BY <1>2, <1>7 DEF OneHitUpTo
  <2>. QED  BY <1>1, <1>2, <1>3, <1>7, <2>2, <2>3 DEF RowsInv
<1>8. CASE UNCHANGED vars
  BY <1>7, <1>8 DEF vars
<1>. QED  BY <1>1, <1>4, <1>5, <1>6, <1>7, <1>8
          DEF Next, UseTemplateManager, UseTemplateManagerFixedArguments, AddFixedArgument,
              FixedArgumentsFilled, SkipVariable, TakeVariable, CopyParams, TemplateParamsCreated,
              Searched, Uses, Computed, PlaceInv

-----------------------------------------------------------------------------
(* The theorems.                                                           *)

LEMMA SearchInit == Init => SearchInv
<1>. SUFFICES ASSUME Init PROVE SearchInv
  OBVIOUS
<1>1. TypeOK
  BY TypeInit
<1>2. ManagerInv /\ PlaceInv
  BY DEF Init, ManagerInv, PlaceInv
<1>3. ParamsInv
  BY DEF Init, ParamsInv, ParamsAreAssignments
<1>4. RowsInv
  <2>1. searchResults = Rows(<<>>) /\ <<>> \in Seq(Matches) /\ result = NoReplacements
    BY DEF Init, Rows
  <2>2. Processed = {} /\ Range(<<>>) = {} /\ DOMAIN NoReplacements = {}
    BY DEF Init, Processed, Range, NoReplacements
  <2>3. FoundFor(<<>>, Processed)
    BY <2>2 DEF FoundFor
  <2>. QED  BY <2>1, <2>2, <2>3 DEF Init, RowsInv
<1>. QED  BY <1>1, <1>2, <1>3, <1>4 DEF SearchInv

LEMMA SearchNext == SearchInv /\ [Next]_vars => SearchInv'
BY TypeNext, ManagerNext, ParamsNext, RowsNext, PlaceNext DEF SearchInv

(* The inductive invariant: the params are the assignments made so far,    *)
(* and the replacements the rows of the matches found so far.              *)
THEOREM SearchCorrect == Spec => []SearchInv
BY SearchInit, SearchNext, PTL DEF Spec

(* The variables have their types: the params give elements to variables   *)
(* of the formula, the replacements rows of elements to the template's.    *)
THEOREM TypeCorrect == Spec => []TypeOK
<1>1. SearchInv => TypeOK
  BY DEF SearchInv
<1>. QED  BY <1>1, SearchCorrect, PTL

(* createTemplateParams makes all assignments of the arguments and each    *)
(* once, in every order of variables and addresses; with fixed arguments,  *)
(* the n-th argument's params.                                             *)
THEOREM ParamsCorrect == Spec => []ParamsAreAssignments
<1>1. SearchInv => ParamsAreAssignments
  BY DEF SearchInv, ParamsInv
<1>. QED  BY <1>1, SearchCorrect, PTL

(* When the evaluation is done, its replacements have the values of the    *)
(* matches found, and these are matches of what was to be searched.        *)
LEMMA WhatIsFound ==
  ASSUME SearchInv, pc = "done"
  PROVE  \E h \in Seq(Matches) :
           /\ FoundFor(h, Searches)
           /\ DOMAIN result = DOMAIN Rows(h)
           /\ \A v \in DOMAIN result : Range(Rows(h)[v]) \subseteq Range(result[v])
           /\ input.arguments = <<>> \/ OneHitEach => result = Rows(h)
<1>1. CASE input.arguments = <<>>
  <2>1. PICK h \in Seq(Matches) : result = Rows(h) /\ FoundFor(h, {<<>>})
    BY <1>1 DEF SearchInv, RowsInv
  <2>2. Searches = {<<>>}
    BY <1>1 DEF Searches
  <2>. QED  BY <2>1, <2>2
<1>2. CASE input.arguments # <<>>
  <2>1. /\ params \in Seq(Params) /\ next = Len(params) + 1 /\ RowsInv
        /\ Range(params) = Intended
    BY <1>2 DEF SearchInv, TypeOK, PlaceInv, ParamsInv, ParamsAreAssignments
  <2>2. DOMAIN params = 1 .. next - 1
    BY <2>1, RangeOf
  <2>3. Searches = Processed
    BY <1>2, <2>1, <2>2 DEF Searches, Processed, Range
  <2>4. OneHitEach => OneHitUpTo(next - 1)
    BY <2>2 DEF OneHitEach, OneHitUpTo
  <2>5. PICK h \in Seq(Matches) : searchResults = Rows(h) /\ FoundFor(h, Processed)
    BY <2>1 DEF RowsInv
  <2>. QED  BY <1>2, <2>1, <2>3, <2>4, <2>5 DEF RowsInv
<1>. QED  BY <1>1, <1>2

(* A formula with a variable is true just when some search has a match.    *)
THEOREM TruthCorrect == Spec => []TrueIffMatched
<1>1. ASSUME SearchInv PROVE TrueIffMatched
  <2>. SUFFICES ASSUME pc = "done", Variables # {}
                PROVE  DOMAIN result # {} <=> \E param \in Searches : MatchesOf(param) # {}
    BY DEF TrueIffMatched, ResultValue
  <2>1. PICK h \in Seq(Matches) : FoundFor(h, Searches) /\ DOMAIN result = DOMAIN Rows(h)
    BY <1>1, WhatIsFound
  <2>2. DOMAIN result # {} <=> Range(h) # {}
    BY <2>1, RowsAre, RangeOf
  <2>3. Range(h) # {} <=> \E param \in Searches : MatchesOf(param) # {}
    BY <2>1 DEF FoundFor, Finds
  <2>. QED  BY <2>2, <2>3
<1>. QED  BY <1>1, SearchCorrect, PTL

(* As long as every params finds one match, and without arguments always,  *)
(* the columns of the replacements are the matches found.                  *)
THEOREM ColumnsCorrect == Spec => []ColumnsAreHits
<1>1. ASSUME SearchInv PROVE ColumnsAreHits
  <2>. SUFFICES ASSUME pc = "done", Variables # {}, input.arguments = <<>> \/ OneHitEach
                PROVE  /\ IsMatrix(result)
                       /\ Columns(result) \subseteq UNION {MatchesOf(param) : param \in Searches}
                       /\ \A param \in Searches : Finds(Columns(result), param)
    BY DEF ColumnsAreHits
  <2>1. PICK h \in Seq(Matches) : FoundFor(h, Searches) /\ result = Rows(h)
    BY <1>1, WhatIsFound
  <2>2. IsMatrix(result) /\ Columns(result) = Range(h)
    BY <2>1, ColumnsOfRows
  <2>3. Range(h) \subseteq UNION {MatchesOf(param) : param \in Searches}
    BY <2>1 DEF FoundFor
  <2>. QED  BY <2>1, <2>2, <2>3 DEF FoundFor
<1>. QED  BY <1>1, SearchCorrect, PTL

(* No match that was found is lost: its values are in the rows, whatever   *)
(* the other params found.                                                 *)
THEOREM NoHitLostCorrect == Spec => []NoHitLost
<1>1. ASSUME SearchInv PROVE NoHitLost
  <2>. DEFINE present == {match \in input.knowledge :
                            \A v \in Variables : match[v] \in Range(Row(result, v))}
  <2>. SUFFICES ASSUME pc = "done", NEW param \in Searches
                PROVE  Finds(present, param)
    BY DEF NoHitLost
  <2>1. PICK h \in Seq(Matches) :
          /\ FoundFor(h, Searches) /\ DOMAIN result = DOMAIN Rows(h)
          /\ \A v \in DOMAIN result : Range(Rows(h)[v]) \subseteq Range(result[v])
    BY <1>1, WhatIsFound
  <2>2. Range(h) \subseteq input.knowledge
    BY <1>1, <2>1, MatchesAre DEF FoundFor, SearchInv
  <2>3. ASSUME NEW match \in Range(h), NEW v \in Variables
        PROVE  match[v] \in Range(Row(result, v))
    <3>1. PICK n \in DOMAIN h : h[n] = match
      BY DEF Range
    <3>2. h # <<>> /\ v \in DOMAIN result
      BY <2>1, <3>1, RowsAre
    <3>3. Rows(h)[v] = [m \in DOMAIN h |-> h[m][v]]
      BY <2>1, <3>2, RowsAre
    <3>4. match[v] \in Range(Rows(h)[v])
      BY <3>1, <3>3 DEF Range
    <3>. QED  BY <2>1, <3>2, <3>4 DEF Row
  <2>4. Range(h) \subseteq present
    BY <2>2, <2>3
  <2>. HIDE DEF present
  <2>. QED  BY <2>1, <2>4 DEF FoundFor, Finds
<1>. QED  BY <1>1, SearchCorrect, PTL

=============================================================================
