---------------------------- MODULE ReportProofs ----------------------------
(***************************************************************************)
(* What a run stores as its report, for every text a model may write, any  *)
(* number of hits, calls and src_ids, and every assignment of src_ids to   *)
(* hits.                                                                   *)
(*                                                                         *)
(* Cited and Without are recursive functions on the positions of a text.   *)
(* That they are what their equations say, and what they do to every text, *)
(* is shown by induction over positions, from the end of the text to its   *)
(* start: WFMin of the library states it for sets of numbers.              *)
(***************************************************************************)
EXTENDS Report, WellFoundedInduction, SequenceTheorems, TLAPS

-----------------------------------------------------------------------------
(* Induction.                                                              *)

Less == {p \in Nat \X Nat : p[1] < p[2]}

LEMMA LessWellFounded == IsWellFoundedOn(Less, Nat)
<1>1. IsWellFoundedOn(OpToRel(<, Nat), Nat)
  BY NatLessThanWellFounded
<1>2. Less = OpToRel(<, Nat)
  BY DEF Less, OpToRel
<1>3. QED
  BY <1>1, <1>2

\* A set of numbers that is not empty has a least element.
LEMMA Least ==
  ASSUME NEW T \in SUBSET Nat, T # {}
  PROVE  \E x \in T : \A y \in T : x <= y
<1>1. PICK x \in T : \A y \in T : <<y, x>> \notin Less
  BY LessWellFounded, WFMin
<1>2. ASSUME NEW y \in T PROVE x <= y
  <2>1. y < x => <<y, x>> \in Less
    BY DEF Less
  <2>2. QED
    BY <1>1, <2>1
<1>3. QED
  BY <1>2

\* What holds of a position if it holds of all behind it holds of all.
LEMMA Backward ==
  ASSUME NEW n \in Nat, NEW S,
         \A i \in 1 .. n : (\A j \in i + 1 .. n : j \in S) => i \in S
  PROVE  \A i \in 1 .. n : i \in S
<1> DEFINE T == {k \in 0 .. n - 1 : n - k \notin S}
<1> SUFFICES ASSUME T # {} PROVE FALSE
  <2>1. ASSUME NEW i \in 1 .. n, i \notin S PROVE n - i \in T
    BY <2>1
  <2>2. QED
    BY <2>1
<1>1. T \in SUBSET Nat
  OBVIOUS
<1> HIDE DEF T
<1>2. PICK k \in T : \A m \in T : k <= m
  BY <1>1, Least
<1>3. k \in 0 .. n - 1 /\ n - k \notin S
  BY DEF T
<1>4. ASSUME NEW j \in n - k + 1 .. n PROVE j \in S
  <2>1. n - j \in 0 .. n - 1 /\ n - j < k /\ n - (n - j) = j
    BY <1>3
  <2>2. n - j \notin T
    BY <1>2, <1>3, <2>1
  <2>3. QED
    BY <2>1, <2>2 DEF T
<1>5. QED
  BY <1>3, <1>4

\* A recursive definition on the positions up to n: the value at i is G[i] of
\* the function, and depends on its values behind i only.
Recursion(n, V, G) ==
    /\ G \in [1 .. n -> [[1 .. n -> V] -> V]]
    /\ \A i \in 1 .. n, g, h \in [1 .. n -> V] :
          (\A j \in i + 1 .. n : g[j] = h[j]) => G[i][g] = G[i][h]

Solves(f, n, G) == \A i \in 1 .. n : f[i] = G[i][f]

LEMMA Unwinds ==
  ASSUME NEW n \in Nat, NEW V, NEW v \in V, NEW G, Recursion(n, V, G)
  PROVE  \E f \in [1 .. n -> V] : Solves(f, n, G)
<1> USE DEF Recursion, Solves
<1> DEFINE S == {i \in 1 .. n : \E f \in [1 .. n -> V] : \A j \in i .. n : f[j] = G[j][f]}
<1>1. ASSUME NEW i \in 1 .. n, \A j \in i + 1 .. n : j \in S
      PROVE  i \in S
  <2>1. PICK g \in [1 .. n -> V] : \A j \in i + 1 .. n : g[j] = G[j][g]
    <3>1. CASE i = n
      <4>1. [j \in 1 .. n |-> v] \in [1 .. n -> V]
        OBVIOUS
      <4>2. i + 1 .. n = {}
        BY <3>1
      <4>3. QED
        BY <4>1, <4>2
    <3>2. CASE i # n
      <4>1. i + 1 \in i + 1 .. n
        BY <3>2
      <4>2. i + 1 \in S
        BY <1>1, <4>1 
      <4>3. QED
        BY <4>2
    <3>3. QED
      BY <3>1, <3>2
  <2> DEFINE f == [g EXCEPT ![i] = G[i][g]]
  <2>2. f \in [1 .. n -> V] /\ f[i] = G[i][g] /\ \A j \in 1 .. n : j # i => f[j] = g[j]
    OBVIOUS
  <2> HIDE DEF f
  <2>3. ASSUME NEW j \in i .. n PROVE f[j] = G[j][f]
    <3>1. j \in 1 .. n /\ \A k \in j + 1 .. n : f[k] = g[k]
      BY <2>2
    <3>2. G[j][f] = G[j][g]
      BY <2>2, <3>1
    <3>3. QED
      BY <2>1, <2>2, <3>2
  <2>4. QED
    BY <2>2, <2>3
<1> HIDE DEF S
<1>2. \A i \in 1 .. n : i \in S
  BY <1>1, Backward
<1>3. CASE n = 0
  <2>1. [j \in 1 .. n |-> v] \in [1 .. n -> V]
    OBVIOUS
  <2>2. 1 .. n = {}
    BY <1>3
  <2>3. QED
    BY <2>1, <2>2
<1>4. CASE n # 0
  <2>1. 1 \in S
    BY <1>2, <1>4
  <2>2. QED
    BY <2>1 DEF S
<1>5. QED
  BY <1>3, <1>4

-----------------------------------------------------------------------------
(* The recursive functions of the model satisfy their equations.           *)

LEMMA EndFacts ==
  ASSUME NEW text \in Seq(Symbols), NEW i \in 1 .. Len(text), End(text, i) # 0
  PROVE  /\ End(text, i) \in i + 3 .. Len(text)
         /\ text[i] = "[" /\ text[i + 1] = "^" /\ text[End(text, i)] = "]"
         /\ \A m \in i + 2 .. End(text, i) - 1 : text[m] # "]"
<1> DEFINE ends == {j \in i + 3 .. Len(text) :
                      text[j] = "]" /\ \A m \in i + 2 .. j - 1 : text[m] # "]"}
           opens == text[i] = "[" /\ i < Len(text) /\ text[i + 1] = "^" /\ ends # {}
<1>1. End(text, i) = IF opens THEN CHOOSE j \in ends : TRUE ELSE 0
  BY Zenon DEF End
<1>2. CASE ~opens
  <2> HIDE DEF opens
  <2>1. End(text, i) = 0
    BY <1>1, <1>2
  <2>2. QED
    BY <2>1
<1>3. CASE opens
  <2>1. ends # {}
    BY <1>3
  <2>2. text[i] = "[" /\ text[i + 1] = "^"
    BY <1>3
  <2> HIDE DEF opens
  <2>3. End(text, i) = CHOOSE j \in ends : TRUE
    BY <1>1, <1>3, Zenon
  <2> HIDE DEF ends
  <2>4. End(text, i) \in ends
    BY <2>1, <2>3
  <2> USE DEF ends
  <2>5. QED
    BY <2>2, <2>4
<1>4. QED
  BY <1>2, <1>3

\* The first "]" at least two symbols behind "[^" is the end.
LEMMA EndIs ==
  ASSUME NEW text \in Seq(Symbols), NEW i \in 1 .. Len(text), NEW e \in i + 3 .. Len(text),
         text[i] = "[", text[i + 1] = "^", text[e] = "]",
         \A m \in i + 2 .. e - 1 : text[m] # "]"
  PROVE  End(text, i) = e
<1> DEFINE ends == {j \in i + 3 .. Len(text) :
                      text[j] = "]" /\ \A m \in i + 2 .. j - 1 : text[m] # "]"}
           opens == text[i] = "[" /\ i < Len(text) /\ text[i + 1] = "^" /\ ends # {}
<1>1. Len(text) \in Nat
  BY LenProperties
<1>2. e \in ends
  OBVIOUS
<1>3. ASSUME NEW j \in ends PROVE j = e
  <2>1. ~(j < e)
    BY <1>1
  <2>2. ~(e < j)
    BY <1>1
  <2>3. QED
    BY <1>1, <2>1, <2>2
<1>4. i < Len(text)
  BY <1>1
<1>5. ends # {}
  <2> HIDE DEF ends
  <2>1. QED
    BY <1>2
<1>6. opens
  <2> HIDE DEF ends
  <2>1. QED
    BY <1>4, <1>5
<1>7. End(text, i) = IF opens THEN CHOOSE j \in ends : TRUE ELSE 0
  BY Zenon DEF End
<1> HIDE DEF opens
<1>8. End(text, i) = CHOOSE j \in ends : TRUE
  BY <1>6, <1>7, Zenon
<1> HIDE DEF ends
<1>9. QED
  BY <1>2, <1>3, <1>8

LEMMA EndNat ==
  ASSUME NEW text \in Seq(Symbols), NEW i \in 1 .. Len(text)
  PROVE  End(text, i) = 0 \/ End(text, i) \in i + 3 .. Len(text)
  BY EndFacts

\* The body of a citation, without its brackets.
CitedAt(text, i) == SubSeq(text, i + 2, End(text, i) - 1)

LEMMA CiteType ==
  ASSUME NEW text \in Seq(Symbols), NEW i \in 1 .. Len(text), End(text, i) # 0
  PROVE  /\ CitedAt(text, i) \in Seq(Symbols)
         /\ Len(CitedAt(text, i)) = End(text, i) - i - 2
         /\ \A k \in 1 .. End(text, i) - i - 2 : CitedAt(text, i)[k] = text[i + k + 1]
<1> DEFINE a == i + 2
           b == End(text, i) - 1
<1>1. a \in Int /\ b \in Int /\ a <= b /\ a >= 1 /\ b <= Len(text) /\ Len(text) \in Nat
      /\ b - a + 1 = End(text, i) - i - 2
  BY EndFacts, LenProperties
<1>2. \A k \in a .. b : text[k] \in Symbols
  BY <1>1, ElementOfSeq
<1>3. \A k \in 1 .. b - a + 1 : a + k - 1 = i + k + 1
  BY <1>1
<1> HIDE DEF a, b
<1>4. /\ SubSeq(text, a, b) \in Seq(Symbols)
      /\ Len(SubSeq(text, a, b)) = b - a + 1
      /\ \A k \in 1 .. b - a + 1 : SubSeq(text, a, b)[k] = text[a + k - 1]
  BY <1>1, <1>2, SubSeqProperties
<1>5. QED
  BY <1>1, <1>3, <1>4 DEF CitedAt, a, b

\* The equation of Cited.
CitedFrom(text, f, i) ==
    IF i > Len(text) THEN {}
    ELSE IF End(text, i) = 0 THEN f[i + 1]
    ELSE {SubSeq(text, i + 2, End(text, i) - 1)} \cup f[End(text, i) + 1]

LEMMA CitedUnwinds ==
  ASSUME NEW text \in Seq(Symbols)
  PROVE  \E f \in [1 .. Len(text) + 1 -> SUBSET Seq(Symbols)] :
             /\ Cited(text) = f[1]
             /\ \A i \in 1 .. Len(text) + 1 : f[i] = CitedFrom(text, f, i)
<1> DEFINE n == Len(text) + 1
           V == SUBSET Seq(Symbols)
           G == [i \in 1 .. n |-> [g \in [1 .. n -> V] |-> CitedFrom(text, g, i)]]
           f == CHOOSE g : g = [i \in 1 .. n |-> CitedFrom(text, g, i)]
<1>1. n \in Nat /\ Len(text) \in Nat
  BY LenProperties
<1>2. ASSUME NEW i \in 1 .. n, NEW g, NEW h, \A j \in i + 1 .. n : g[j] = h[j]
      PROVE  CitedFrom(text, g, i) = CitedFrom(text, h, i)
  <2>1. CASE i > Len(text)
    BY <2>1 DEF CitedFrom
  <2>2. CASE i <= Len(text) /\ End(text, i) = 0
    <3>1. i + 1 \in i + 1 .. n
      BY <1>1, <2>2
    <3>2. QED
      BY <1>1, <1>2, <2>2, <3>1 DEF CitedFrom
  <2>3. CASE i <= Len(text) /\ End(text, i) # 0
    <3>1. End(text, i) + 1 \in i + 1 .. n
      BY <1>1, <2>3, EndNat
    <3>2. QED
      BY <1>1, <1>2, <2>3, <3>1 DEF CitedFrom
  <2>4. QED
    BY <1>1, <2>1, <2>2, <2>3
<1>3. ASSUME NEW i \in 1 .. n, NEW g \in [1 .. n -> V]
      PROVE  CitedFrom(text, g, i) \in V
  <2>1. CASE i > Len(text)
    BY <2>1 DEF CitedFrom
  <2>2. CASE i <= Len(text) /\ End(text, i) = 0
    <3>1. i + 1 \in 1 .. n
      BY <1>1, <2>2
    <3>2. QED
      BY <1>1, <2>2, <3>1 DEF CitedFrom
  <2>3. CASE i <= Len(text) /\ End(text, i) # 0
    <3>1. End(text, i) + 1 \in 1 .. n
      BY <1>1, <2>3, EndNat
    <3>2. SubSeq(text, i + 2, End(text, i) - 1) \in Seq(Symbols)
      BY <1>1, <2>3, CiteType DEF CitedAt
    <3>3. g[End(text, i) + 1] \in V
      BY <3>1
    <3> QED
      BY <1>1, <2>3, <3>2, <3>3 DEF CitedFrom
  <2>4. QED
    BY <1>1, <2>1, <2>2, <2>3
<1>4. \E h \in [1 .. n -> V] : \A i \in 1 .. n : h[i] = CitedFrom(text, h, i)
  <2>1. Recursion(n, V, G)
    BY <1>2, <1>3 DEF Recursion
  <2>2. {} \in V
    OBVIOUS
  <2>3. \A i \in 1 .. n, g \in [1 .. n -> V] : G[i][g] = CitedFrom(text, g, i)
    OBVIOUS
  <2> HIDE DEF n, V, G
  <2>4. \E h \in [1 .. n -> V] : Solves(h, n, G)
    BY <1>1, <2>1, <2>2, Unwinds
  <2>5. QED
    BY <2>3, <2>4 DEF Solves
<1> HIDE DEF V, G
<1>5. PICK h \in [1 .. n -> V] : \A i \in 1 .. n : h[i] = CitedFrom(text, h, i)
  BY <1>4
<1>6. h = [i \in 1 .. n |-> CitedFrom(text, h, i)]
  BY <1>5
<1>7. f = [i \in 1 .. n |-> CitedFrom(text, f, i)]
  BY <1>6
<1>8. Cited(text) = f[1]
  BY DEF Cited, CitedFrom
<1> HIDE DEF f, n
<1>9. \A i \in 1 .. n : f[i] = CitedFrom(text, f, i)
  BY <1>7
<1>10. \A i \in 1 .. n : i \in {k \in 1 .. n : f[k] = h[k]}
  <2>1. ASSUME NEW i \in 1 .. n, \A j \in i + 1 .. n : j \in {k \in 1 .. n : f[k] = h[k]}
        PROVE  f[i] = h[i]
    <3>1. CitedFrom(text, f, i) = CitedFrom(text, h, i)
      BY <1>2, <2>1
    <3>2. QED
      BY <1>5, <1>9, <3>1
  <2>2. QED
    BY <1>1, <2>1, Backward
<1>11. f \in [1 .. n -> V]
  BY <1>5, <1>7, <1>10
<1>12. QED
  BY <1>8, <1>9, <1>11 DEF n, V

\* The equation of Without.
Matches(text, token, i) ==
    i + Len(token) - 1 <= Len(text) /\ SubSeq(text, i, i + Len(token) - 1) = token

WithoutFrom(text, token, f, i) ==
    IF i > Len(text) THEN <<>>
    ELSE IF Matches(text, token, i) THEN f[i + Len(token)]
    ELSE <<text[i]>> \o f[i + 1]

LEMMA WithoutUnwinds ==
  ASSUME NEW text \in Seq(Symbols), NEW token \in Seq(Symbols), token # <<>>
  PROVE  \E f \in [1 .. Len(text) + 1 -> Seq(Symbols)] :
             /\ Without(text, token) = f[1]
             /\ \A i \in 1 .. Len(text) + 1 : f[i] = WithoutFrom(text, token, f, i)
<1> DEFINE n == Len(text) + 1
           V == Seq(Symbols)
           G == [i \in 1 .. n |-> [g \in [1 .. n -> V] |-> WithoutFrom(text, token, g, i)]]
           f == CHOOSE g : g = [i \in 1 .. n |-> WithoutFrom(text, token, g, i)]
<1>1. n \in Nat /\ Len(text) \in Nat /\ Len(token) \in Nat \ {0}
  BY LenProperties, EmptySeq
<1>2. ASSUME NEW i \in 1 .. n, NEW g, NEW h, \A j \in i + 1 .. n : g[j] = h[j]
      PROVE  WithoutFrom(text, token, g, i) = WithoutFrom(text, token, h, i)
  <2>1. CASE i > Len(text)
    BY <2>1 DEF WithoutFrom
  <2>2. CASE i <= Len(text) /\ ~Matches(text, token, i)
    <3>1. i + 1 \in i + 1 .. n
      BY <1>1, <2>2
    <3>2. QED
      BY <1>1, <1>2, <2>2, <3>1 DEF WithoutFrom
  <2>3. CASE i <= Len(text) /\ Matches(text, token, i)
    <3>1. i + Len(token) \in i + 1 .. n
      BY <1>1, <2>3 DEF Matches
    <3>2. QED
      BY <1>1, <1>2, <2>3, <3>1 DEF WithoutFrom
  <2>4. QED
    BY <1>1, <2>1, <2>2, <2>3
<1>3. ASSUME NEW i \in 1 .. n, NEW g \in [1 .. n -> V]
      PROVE  WithoutFrom(text, token, g, i) \in V
  <2>1. CASE i > Len(text)
    BY <2>1, EmptySeq DEF WithoutFrom
  <2>2. CASE i <= Len(text) /\ ~Matches(text, token, i)
    <3>1. i + 1 \in 1 .. n /\ i \in 1 .. Len(text)
      BY <1>1, <2>2
    <3>2. <<text[i]>> \in V /\ g[i + 1] \in V
      BY <3>1, ElementOfSeq
    <3>3. <<text[i]>> \o g[i + 1] \in V
      BY <3>2, ConcatProperties
    <3>4. QED
      BY <1>1, <2>2, <3>3 DEF WithoutFrom
  <2>3. CASE i <= Len(text) /\ Matches(text, token, i)
    <3>1. i + Len(token) \in 1 .. n
      BY <1>1, <2>3 DEF Matches
    <3>2. QED
      BY <1>1, <2>3, <3>1 DEF WithoutFrom
  <2>4. QED
    BY <1>1, <2>1, <2>2, <2>3
<1>4. \E h \in [1 .. n -> V] : \A i \in 1 .. n : h[i] = WithoutFrom(text, token, h, i)
  <2>1. Recursion(n, V, G)
    BY <1>2, <1>3 DEF Recursion
  <2>2. <<>> \in V
    BY EmptySeq
  <2>3. \A i \in 1 .. n, g \in [1 .. n -> V] : G[i][g] = WithoutFrom(text, token, g, i)
    OBVIOUS
  <2> HIDE DEF n, V, G
  <2>4. \E h \in [1 .. n -> V] : Solves(h, n, G)
    BY <1>1, <2>1, <2>2, Unwinds
  <2>5. QED
    BY <2>3, <2>4 DEF Solves
<1> HIDE DEF V, G
<1>5. PICK h \in [1 .. n -> V] : \A i \in 1 .. n : h[i] = WithoutFrom(text, token, h, i)
  BY <1>4
<1>6. h = [i \in 1 .. n |-> WithoutFrom(text, token, h, i)]
  BY <1>5
<1>7. f = [i \in 1 .. n |-> WithoutFrom(text, token, f, i)]
  BY <1>6
<1>8. Without(text, token) = f[1]
  BY DEF Without, WithoutFrom, Matches
<1> HIDE DEF f, n
<1>9. \A i \in 1 .. n : f[i] = WithoutFrom(text, token, f, i)
  BY <1>7
<1>10. \A i \in 1 .. n : i \in {k \in 1 .. n : f[k] = h[k]}
  <2>1. ASSUME NEW i \in 1 .. n, \A j \in i + 1 .. n : j \in {k \in 1 .. n : f[k] = h[k]}
        PROVE  f[i] = h[i]
    <3>1. WithoutFrom(text, token, f, i) = WithoutFrom(text, token, h, i)
      BY <1>2, <2>1
    <3>2. QED
      BY <1>5, <1>9, <3>1
  <2>2. QED
    BY <1>1, <2>1, Backward
<1>11. f \in [1 .. n -> V]
  BY <1>5, <1>7, <1>10
<1>12. QED
  BY <1>8, <1>9, <1>11 DEF n, V

\* The equation of _extract_citations.
KeptFrom(citations, f, i) ==
    IF i > Len(citations) THEN <<>>
    ELSE IF citations[i] \in Web THEN <<citations[i]>> \o f[i + 1]
    ELSE f[i + 1]

LEMMA ExtractType ==
  ASSUME NEW citations \in Seq(Web \cup {None})
  PROVE  _extract_citations(citations) \in Seq(Web)
<1> DEFINE n == Len(citations) + 1
           V == Seq(Web)
           G == [i \in 1 .. n |-> [g \in [1 .. n -> V] |-> KeptFrom(citations, g, i)]]
           f == CHOOSE g : g = [i \in 1 .. n |-> KeptFrom(citations, g, i)]
<1>1. n \in Nat /\ Len(citations) \in Nat
  BY LenProperties
<1>2. ASSUME NEW i \in 1 .. n, NEW g, NEW h, \A j \in i + 1 .. n : g[j] = h[j]
      PROVE  KeptFrom(citations, g, i) = KeptFrom(citations, h, i)
  <2>1. CASE i > Len(citations)
    BY <2>1 DEF KeptFrom
  <2>2. CASE i <= Len(citations) /\ citations[i] \in Web
    <3>1. i + 1 \in i + 1 .. n
      BY <1>1, <2>2
    <3>2. QED
      BY <1>1, <1>2, <2>2, <3>1 DEF KeptFrom
  <2>3. CASE i <= Len(citations) /\ citations[i] \notin Web
    <3>1. i + 1 \in i + 1 .. n
      BY <1>1, <2>3
    <3>2. QED
      BY <1>1, <1>2, <2>3, <3>1 DEF KeptFrom
  <2>4. QED
    BY <1>1, <2>1, <2>2, <2>3
<1>3. ASSUME NEW i \in 1 .. n, NEW g \in [1 .. n -> V]
      PROVE  KeptFrom(citations, g, i) \in V
  <2>1. CASE i > Len(citations)
    BY <2>1, EmptySeq DEF KeptFrom
  <2>2. CASE i <= Len(citations) /\ citations[i] \in Web
    <3>1. i + 1 \in 1 .. n /\ i \in 1 .. Len(citations)
      BY <1>1, <2>2
    <3>2. <<citations[i]>> \in V /\ g[i + 1] \in V
      BY <2>2, <3>1
    <3>3. <<citations[i]>> \o g[i + 1] \in V
      BY <3>2, ConcatProperties
    <3>4. QED
      BY <1>1, <2>2, <3>3 DEF KeptFrom
  <2>3. CASE i <= Len(citations) /\ citations[i] \notin Web
    <3>1. i + 1 \in 1 .. n
      BY <1>1, <2>3
    <3>2. QED
      BY <1>1, <2>3, <3>1 DEF KeptFrom
  <2>4. QED
    BY <1>1, <2>1, <2>2, <2>3
<1>4. \E h \in [1 .. n -> V] : \A i \in 1 .. n : h[i] = KeptFrom(citations, h, i)
  <2>1. Recursion(n, V, G)
    BY <1>2, <1>3 DEF Recursion
  <2>2. <<>> \in V
    BY EmptySeq
  <2>3. \A i \in 1 .. n, g \in [1 .. n -> V] : G[i][g] = KeptFrom(citations, g, i)
    OBVIOUS
  <2> HIDE DEF n, V, G
  <2>4. \E h \in [1 .. n -> V] : Solves(h, n, G)
    BY <1>1, <2>1, <2>2, Unwinds
  <2>5. QED
    BY <2>3, <2>4 DEF Solves
<1> HIDE DEF V, G
<1>5. PICK h \in [1 .. n -> V] : \A i \in 1 .. n : h[i] = KeptFrom(citations, h, i)
  BY <1>4
<1>6. h = [i \in 1 .. n |-> KeptFrom(citations, h, i)]
  BY <1>5
<1>7. f = [i \in 1 .. n |-> KeptFrom(citations, f, i)]
  BY <1>6
<1>8. _extract_citations(citations) = f[1]
  BY DEF _extract_citations, KeptFrom
<1> HIDE DEF f, n
<1>9. \A i \in 1 .. n : f[i] = KeptFrom(citations, f, i)
  BY <1>7
<1>10. \A i \in 1 .. n : i \in {k \in 1 .. n : f[k] = h[k]}
  <2>1. ASSUME NEW i \in 1 .. n, \A j \in i + 1 .. n : j \in {k \in 1 .. n : f[k] = h[k]}
        PROVE  f[i] = h[i]
    <3>1. KeptFrom(citations, f, i) = KeptFrom(citations, h, i)
      BY <1>2, <2>1
    <3>2. QED
      BY <1>5, <1>9, <3>1
  <2>2. QED
    BY <1>1, <2>1, Backward
<1>11. f \in [1 .. n -> V]
  BY <1>5, <1>7, <1>10
<1>12. QED
  BY <1>1, <1>8, <1>11 DEF n, V

-----------------------------------------------------------------------------
(* Tidy texts.  Their citations are where their brackets are.              *)

Opens(text) == {i \in 1 .. Len(text) : text[i] = "["}

Cites(text) == {CitedAt(text, i) : i \in Opens(text)}

\* The citations that begin at i or behind it.
Behind(text, i) == {CitedAt(text, j) : j \in {k \in Opens(text) : i <= k}}

LEMMA TidyFacts ==
  ASSUME NEW text \in Seq(Symbols), Tidy(text), NEW i \in Opens(text)
  PROVE  /\ i \in 1 .. Len(text) /\ Len(text) \in Nat
         /\ End(text, i) # 0 /\ End(text, i) \in i + 3 .. Len(text)
         /\ text[i] = "[" /\ text[i + 1] = "^" /\ text[End(text, i)] = "]"
         /\ \A m \in i + 2 .. End(text, i) - 1 : text[m] # "]"
         /\ \A m \in i + 1 .. End(text, i) : text[m] # "["
<1>1. i \in 1 .. Len(text) /\ text[i] = "[" /\ Len(text) \in Nat
  BY LenProperties DEF Opens
<1>2. End(text, i) # 0 /\ \A m \in i + 1 .. End(text, i) : text[m] # "["
  BY <1>1 DEF Tidy
<1>3. QED
  BY <1>1, <1>2, EndFacts

LEMMA CitedTidy ==
  ASSUME NEW text \in Seq(Symbols), Tidy(text)
  PROVE  Cited(text) = Cites(text)
<1> DEFINE n == Len(text) + 1
<1>1. n \in Nat /\ Len(text) \in Nat
  BY LenProperties
<1>2. PICK f \in [1 .. n -> SUBSET Seq(Symbols)] :
         /\ Cited(text) = f[1]
         /\ \A i \in 1 .. n : f[i] = CitedFrom(text, f, i)
  BY CitedUnwinds
<1> DEFINE S == {i \in 1 .. n : f[i] = Behind(text, i)}
<1>3. ASSUME NEW i \in 1 .. n, \A j \in i + 1 .. n : j \in S
      PROVE  f[i] = Behind(text, i)
  <2>1. f[i] = CitedFrom(text, f, i)
    BY <1>2
  <2>2. CASE i > Len(text)
    <3>1. Behind(text, i) = {}
      BY <1>1, <2>2 DEF Behind, Opens
    <3>2. QED
      BY <2>1, <2>2, <3>1 DEF CitedFrom
  <2>3. CASE i <= Len(text) /\ text[i] # "["
    <3>1. End(text, i) = 0
      BY <2>3 DEF End
    <3>2. i + 1 \in i + 1 .. n
      BY <1>1, <2>3
    <3>3. f[i] = Behind(text, i + 1)
      BY <1>1, <1>3, <2>1, <2>3, <3>1, <3>2 DEF CitedFrom
    <3>4. \A k \in Opens(text) : i <= k <=> i + 1 <= k
      BY <1>1, <2>3 DEF Opens
    <3>5. Behind(text, i) = Behind(text, i + 1)
      BY <3>4 DEF Behind
    <3>6. QED
      BY <3>3, <3>5
  <2>4. CASE i <= Len(text) /\ text[i] = "["
    <3> DEFINE e == End(text, i)
    <3>1. i \in Opens(text)
      BY <1>1, <2>4 DEF Opens
    <3>2. e # 0 /\ e \in i + 3 .. Len(text) /\ \A m \in i + 1 .. e : text[m] # "["
      BY <3>1, TidyFacts
    <3> HIDE DEF e
    <3>3. e + 1 \in i + 1 .. n
      BY <1>1, <3>2
    <3>4. f[i] = {CitedAt(text, i)} \cup Behind(text, e + 1)
      BY <1>1, <1>3, <2>1, <2>4, <3>2, <3>3 DEF CitedFrom, CitedAt, e
    <3>5. \A k \in Opens(text) : i <= k <=> k = i \/ e + 1 <= k
      BY <1>1, <3>2 DEF Opens
    <3>6. Behind(text, i) = {CitedAt(text, i)} \cup Behind(text, e + 1)
      BY <3>1, <3>5 DEF Behind
    <3>7. QED
      BY <3>4, <3>6
  <2>5. QED
    BY <1>1, <2>2, <2>3, <2>4
<1>4. \A i \in 1 .. n : i \in S
  <2>1. \A i \in 1 .. n : (\A j \in i + 1 .. n : j \in S) => i \in S
    BY <1>3
  <2> HIDE DEF n, S
  <2>2. QED
    BY <1>1, <2>1, Backward
<1>5. Behind(text, 1) = Cites(text)
  BY <1>1 DEF Behind, Cites, Opens
<1>6. 1 \in S
  BY <1>1, <1>4
<1>7. QED
  BY <1>2, <1>5, <1>6

\* A sequence of equal symbols.
LEMMA SameSlice ==
  ASSUME NEW t \in Seq(Symbols), NEW u \in Seq(Symbols), NEW d \in Nat,
         NEW i \in 1 .. Len(t), End(t, i) # 0, d + i \in 1 .. Len(u),
         End(u, d + i) = d + End(t, i),
         \A k \in i .. End(t, i) : u[d + k] = t[k]
  PROVE  CitedAt(u, d + i) = CitedAt(t, i)
<1>1. End(t, i) \in i + 3 .. Len(t) /\ Len(t) \in Nat /\ Len(u) \in Nat
  BY EndFacts, LenProperties
<1> DEFINE l == End(t, i) - i - 2
<1>2. l \in Nat /\ End(u, d + i) # 0 /\ End(u, d + i) - (d + i) - 2 = l
  BY <1>1
<1>3. /\ CitedAt(t, i) \in Seq(Symbols) /\ Len(CitedAt(t, i)) = l
      /\ \A k \in 1 .. l : CitedAt(t, i)[k] = t[i + k + 1]
  BY CiteType
<1>4. /\ CitedAt(u, d + i) \in Seq(Symbols) /\ Len(CitedAt(u, d + i)) = l
      /\ \A k \in 1 .. l : CitedAt(u, d + i)[k] = u[(d + i) + k + 1]
  BY <1>2, CiteType
<1>5. ASSUME NEW k \in 1 .. l PROVE CitedAt(u, d + i)[k] = CitedAt(t, i)[k]
  <2>1. i + k + 1 \in i .. End(t, i) /\ (d + i) + k + 1 = d + (i + k + 1)
    BY <1>1
  <2>2. u[(d + i) + k + 1] = t[i + k + 1]
    BY <2>1
  <2>3. QED
    BY <1>3, <1>4, <2>2
<1> HIDE DEF l
<1>6. QED
  BY <1>3, <1>4, <1>5, SeqEqual

\* Two tidy texts make a tidy text, with the citations of both.
LEMMA JoinTidy ==
  ASSUME NEW t \in Seq(Symbols), NEW s \in Seq(Symbols), Tidy(t), Tidy(s)
  PROVE  t \o s \in Seq(Symbols) /\ Tidy(t \o s) /\ Cites(t \o s) = Cites(t) \cup Cites(s)
<1> DEFINE u == t \o s
           d == Len(t)
<1>1. /\ u \in Seq(Symbols) /\ Len(u) = d + Len(s) /\ d \in Nat /\ Len(s) \in Nat
      /\ \A i \in 1 .. d : u[i] = t[i]
      /\ \A i \in 1 .. Len(s) : u[d + i] = s[i]
  <2>1. d \in Nat /\ Len(s) \in Nat
    BY LenProperties
  <2>2. /\ u \in Seq(Symbols) /\ Len(u) = d + Len(s)
        /\ \A i \in 1 .. d + Len(s) : u[i] = IF i <= d THEN t[i] ELSE s[i - d]
    BY ConcatProperties
  <2> HIDE DEF u, d
  <2>3. \A i \in 1 .. Len(s) : d + i \in 1 .. d + Len(s) /\ ~(d + i <= d) /\ (d + i) - d = i
    BY <2>1
  <2>4. \A i \in 1 .. d : i \in 1 .. d + Len(s) /\ i <= d
    BY <2>1
  <2>5. QED
    BY <2>1, <2>2, <2>3, <2>4
<1> HIDE DEF u
<1>2. ASSUME NEW i \in Opens(t)
      PROVE  /\ i \in Opens(u) /\ CitedAt(u, i) = CitedAt(t, i)
             /\ End(u, i) # 0 /\ \A m \in i + 1 .. End(u, i) : u[m] # "["
  <2> DEFINE e == End(t, i)
  <2>1. /\ i \in 1 .. d /\ e # 0 /\ e \in i + 3 .. d
        /\ t[i] = "[" /\ t[i + 1] = "^" /\ t[e] = "]"
        /\ \A m \in i + 2 .. e - 1 : t[m] # "]"
        /\ \A m \in i + 1 .. e : t[m] # "["
    BY TidyFacts
  <2> HIDE DEF e, d
  <2>2. \A k \in i .. e : k \in 1 .. d /\ u[k] = t[k]
    BY <1>1, <2>1
  <2>3. i \in 1 .. Len(u) /\ e \in i + 3 .. Len(u)
    BY <1>1, <2>1
  <2>4. i \in i .. e /\ i + 1 \in i .. e /\ e \in i .. e
        /\ (\A m \in i + 2 .. e - 1 : m \in i .. e) /\ (\A m \in i + 1 .. e : m \in i .. e)
    BY <1>1, <2>1
  <2>5. u[i] = "[" /\ u[i + 1] = "^" /\ u[e] = "]"
        /\ (\A m \in i + 2 .. e - 1 : u[m] # "]") /\ (\A m \in i + 1 .. e : u[m] # "[")
    BY <2>1, <2>2, <2>4
  <2>6. End(u, i) = e
    BY <1>1, <2>3, <2>5, EndIs
  <2>7. CitedAt(u, 0 + i) = CitedAt(t, i)
    <3>1. 0 + i = i /\ 0 + e = e /\ \A k \in i .. e : 0 + k = k
      BY <2>1, <1>1
    <3>2. 0 \in Nat /\ i \in 1 .. Len(t) /\ e # 0 /\ 0 + i \in 1 .. Len(u)
          /\ End(u, 0 + i) = 0 + e /\ \A k \in i .. e : u[0 + k] = t[k]
      BY <2>1, <2>2, <2>3, <2>6, <3>1 DEF d
    <3>3. QED
      BY <1>1, <3>2, SameSlice DEF e
  <2>8. 0 + i = i
    BY <2>1, <1>1
  <2>9. QED
    BY <2>1, <2>3, <2>5, <2>6, <2>7, <2>8 DEF Opens
<1>3. ASSUME NEW i \in Opens(s)
      PROVE  /\ d + i \in Opens(u) /\ CitedAt(u, d + i) = CitedAt(s, i)
             /\ End(u, d + i) # 0 /\ \A m \in (d + i) + 1 .. End(u, d + i) : u[m] # "["
  <2> DEFINE e == End(s, i)
  <2>1. /\ i \in 1 .. Len(s) /\ e # 0 /\ e \in i + 3 .. Len(s)
        /\ s[i] = "[" /\ s[i + 1] = "^" /\ s[e] = "]"
        /\ \A m \in i + 2 .. e - 1 : s[m] # "]"
        /\ \A m \in i + 1 .. e : s[m] # "["
    BY TidyFacts
  <2> HIDE DEF e, d
  <2>2. \A k \in i .. e : k \in 1 .. Len(s) /\ u[d + k] = s[k]
    BY <1>1, <2>1
  <2>3. d + i \in 1 .. Len(u) /\ d + e \in (d + i) + 3 .. Len(u)
    BY <1>1, <2>1
  <2>4. i \in i .. e /\ i + 1 \in i .. e /\ e \in i .. e /\ (d + i) + 1 = d + (i + 1)
    BY <1>1, <2>1
  <2>5. u[d + i] = "[" /\ u[(d + i) + 1] = "^" /\ u[d + e] = "]"
    BY <2>1, <2>2, <2>4
  <2>6. ASSUME NEW m \in (d + i) + 2 .. (d + e) - 1 PROVE u[m] # "]"
    <3>1. m - d \in i + 2 .. e - 1 /\ m - d \in i .. e /\ d + (m - d) = m
      BY <1>1, <2>1
    <3>2. QED
      BY <2>1, <2>2, <3>1
  <2>7. ASSUME NEW m \in (d + i) + 1 .. d + e PROVE u[m] # "["
    <3>1. m - d \in i + 1 .. e /\ m - d \in i .. e /\ d + (m - d) = m
      BY <1>1, <2>1
    <3>2. QED
      BY <2>1, <2>2, <3>1
  <2>8. End(u, d + i) = d + e
    BY <1>1, <2>3, <2>5, <2>6, EndIs
  <2>9. CitedAt(u, d + i) = CitedAt(s, i)
    BY <1>1, <2>1, <2>2, <2>3, <2>8, SameSlice DEF e
  <2>10. d + e # 0
    BY <1>1, <2>1
  <2>11. QED
    BY <2>3, <2>5, <2>7, <2>8, <2>9, <2>10 DEF Opens
<1>4. ASSUME NEW k \in Opens(u)
      PROVE  k \in Opens(t) \/ \E i \in Opens(s) : k = d + i
  <2>1. k \in 1 .. d + Len(s) /\ u[k] = "["
    BY <1>1 DEF Opens
  <2>2. CASE k <= d
    BY <1>1, <2>1, <2>2 DEF Opens
  <2>3. CASE k > d
    <3>1. k - d \in 1 .. Len(s) /\ k = d + (k - d)
      BY <1>1, <2>1, <2>3
    <3>2. s[k - d] = "["
      BY <1>1, <2>1, <3>1
    <3>3. QED
      BY <3>1, <3>2 DEF Opens
  <2>4. QED
    BY <1>1, <2>1, <2>2, <2>3
<1>5. Tidy(u)
  <2>1. ASSUME NEW k \in 1 .. Len(u), u[k] = "["
        PROVE  End(u, k) # 0 /\ \A m \in k + 1 .. End(u, k) : u[m] # "["
    <3>1. k \in Opens(u)
      BY <2>1 DEF Opens
    <3>2. QED
      BY <1>2, <1>3, <1>4, <3>1
  <2>2. QED
    BY <2>1 DEF Tidy
<1>6. Cites(u) = Cites(t) \cup Cites(s)
  BY <1>2, <1>3, <1>4 DEF Cites
<1>7. QED
  BY <1>1, <1>5, <1>6 DEF u

\* A symbol that is no bracket, and a citation, are tidy.
LEMMA TidyPlain ==
  ASSUME NEW c \in Symbols, c # "["
  PROVE  <<c>> \in Seq(Symbols) /\ Tidy(<<c>>) /\ Cites(<<c>>) = {}
<1>1. <<c>> \in Seq(Symbols) /\ Len(<<c>>) = 1 /\ <<c>>[1] = c
  OBVIOUS
<1>2. Opens(<<c>>) = {}
  BY <1>1 DEF Opens
<1>3. QED
  BY <1>1, <1>2 DEF Tidy, Cites

LEMMA TidyEmpty == <<>> \in Seq(Symbols) /\ Tidy(<<>>) /\ Cites(<<>>) = {}
<1>1. <<>> \in Seq(Symbols) /\ Len(<<>>) = 0
  BY EmptySeq
<1>2. Opens(<<>>) = {}
  BY <1>1 DEF Opens
<1>3. QED
  BY <1>1, <1>2 DEF Tidy, Cites

LEMMA SliceFacts ==
  ASSUME NEW s \in Seq(Symbols), NEW m \in 1 .. Len(s) + 1, NEW n \in m - 1 .. Len(s)
  PROVE  /\ SubSeq(s, m, n) \in Seq(Symbols)
         /\ Len(SubSeq(s, m, n)) = n - m + 1
         /\ \A k \in 1 .. n - m + 1 : SubSeq(s, m, n)[k] = s[m + k - 1]
<1>1. Len(s) \in Nat
  BY LenProperties
<1>2. m \in Int /\ n \in Int /\ \A i \in m .. n : s[i] \in Symbols
  BY <1>1, ElementOfSeq
<1>3. QED
  BY <1>1, <1>2, SubSeqProperties

LEMMA TidyCitation ==
  ASSUME NEW text \in Seq(Symbols), Tidy(text), NEW i \in Opens(text)
  PROVE  LET t == SubSeq(text, i, End(text, i)) IN
         t \in Seq(Symbols) /\ Tidy(t) /\ Cites(t) = {CitedAt(text, i)}
<1> DEFINE e == End(text, i)
           l == e - i + 1
           t == SubSeq(text, i, e)
<1>1. /\ i \in 1 .. Len(text) /\ Len(text) \in Nat
      /\ e # 0 /\ e \in i + 3 .. Len(text)
      /\ text[i] = "[" /\ text[i + 1] = "^" /\ text[e] = "]"
      /\ \A m \in i + 2 .. e - 1 : text[m] # "]"
      /\ \A m \in i + 1 .. e : text[m] # "["
  BY TidyFacts
<1>2. t \in Seq(Symbols) /\ Len(t) = l /\ \A k \in 1 .. l : t[k] = text[i + k - 1]
  BY <1>1, SliceFacts
<1> HIDE DEF e, t
<1>3. l \in Nat /\ l >= 4 /\ i \in Nat
  BY <1>1
<1>4. i + 1 - 1 = i /\ i + 2 - 1 = i + 1 /\ i + l - 1 = e
  BY <1>1
<1>5. t[1] = "[" /\ t[2] = "^" /\ t[l] = "]"
  BY <1>1, <1>2, <1>3, <1>4
<1>6. ASSUME NEW k \in 3 .. l - 1 PROVE t[k] # "]"
  <2>1. k \in 1 .. l /\ i + k - 1 \in i + 2 .. e - 1
    BY <1>1
  <2>2. QED
    BY <1>1, <1>2, <2>1
<1>7. ASSUME NEW k \in 2 .. l PROVE t[k] # "["
  <2>1. k \in 1 .. l /\ i + k - 1 \in i + 1 .. e
    BY <1>1
  <2>2. QED
    BY <1>1, <1>2, <2>1
<1> HIDE DEF l
<1>8. Opens(t) = {1}
  <2>1. \A k \in 1 .. l : k = 1 \/ k \in 2 .. l
    BY <1>3
  <2>2. 1 \in 1 .. l
    BY <1>3
  <2>3. QED
    BY <1>2, <1>5, <1>7, <2>1, <2>2 DEF Opens
<1>9. End(t, 1) = l
  <2>1. 1 \in 1 .. Len(t) /\ l \in 1 + 3 .. Len(t) /\ 1 + 1 = 2 /\ 1 + 2 = 3
    BY <1>2, <1>3
  <2>2. t[1 + 1] = "^" /\ \A m \in 1 + 2 .. l - 1 : t[m] # "]"
    BY <1>5, <1>6, <2>1
  <2>3. QED
    BY <1>2, <1>5, <2>1, <2>2, EndIs
<1>10. Tidy(t)
  <2>1. ASSUME NEW k \in 1 .. Len(t), t[k] = "["
        PROVE  End(t, k) # 0 /\ \A m \in k + 1 .. End(t, k) : t[m] # "["
    <3>1. k = 1 /\ 1 + 1 = 2
      BY <1>8, <2>1 DEF Opens
    <3>2. QED
      BY <1>3, <1>7, <1>9, <3>1
  <2>2. QED
    BY <2>1 DEF Tidy
<1>11. CitedAt(text, (i - 1) + 1) = CitedAt(t, 1)
  <2>1. i - 1 \in Nat /\ (i - 1) + 1 = i /\ (i - 1) + l = e
    BY <1>1, <1>4, <1>3
  <2>2. \A k \in 1 .. l : (i - 1) + k = i + k - 1
    BY <1>3
  <2>3. \A k \in 1 .. l : text[(i - 1) + k] = t[k]
    BY <1>2, <2>2
  <2>4. 1 \in 1 .. Len(t) /\ End(t, 1) # 0 /\ (i - 1) + 1 \in 1 .. Len(text)
        /\ End(text, (i - 1) + 1) = (i - 1) + End(t, 1)
    BY <1>1, <1>2, <1>3, <1>9, <2>1 DEF e
  <2>5. QED
    BY <1>2, <1>9, <2>1, <2>3, <2>4, SameSlice
<1>12. (i - 1) + 1 = i
  BY <1>1
<1>13. Cites(t) = {CitedAt(text, i)}
  BY <1>8, <1>11, <1>12 DEF Cites
<1>14. QED
  BY <1>2, <1>10, <1>13 DEF t, e

LEMMA TokenFacts ==
  ASSUME NEW id \in Seq(Symbols)
  PROVE  /\ Token(id) \in Seq(Symbols) /\ Token(id) # <<>> /\ Len(Token(id)) = Len(id) + 3
         /\ Len(id) \in Nat
         /\ Token(id)[1] = "[" /\ Token(id)[2] = "^" /\ Token(id)[Len(id) + 3] = "]"
         /\ \A k \in 1 .. Len(id) : Token(id)[k + 2] = id[k]
<1> DEFINE a == <<"[", "^">>
           b == <<"]">>
           l == Len(id)
<1>1. /\ a \in Seq(Symbols) /\ Len(a) = 2 /\ a[1] = "[" /\ a[2] = "^"
      /\ b \in Seq(Symbols) /\ Len(b) = 1 /\ b[1] = "]"
  BY DEF Symbols
<1>2. l \in Nat
  BY LenProperties
<1> HIDE DEF a, b, l
<1>3. /\ a \o id \in Seq(Symbols) /\ Len(a \o id) = 2 + l
      /\ \A k \in 1 .. 2 + l : (a \o id)[k] = IF k <= 2 THEN a[k] ELSE id[k - 2]
  <2>1. /\ a \o id \in Seq(Symbols) /\ Len(a \o id) = Len(a) + Len(id)
        /\ \A k \in 1 .. Len(a) + Len(id) :
              (a \o id)[k] = IF k <= Len(a) THEN a[k] ELSE id[k - Len(a)]
    BY <1>1, ConcatProperties
  <2>2. QED
    BY <1>1, <2>1 DEF l
<1>4. /\ (a \o id) \o b \in Seq(Symbols) /\ Len((a \o id) \o b) = (2 + l) + 1
      /\ \A k \in 1 .. (2 + l) + 1 :
            ((a \o id) \o b)[k] = IF k <= 2 + l THEN (a \o id)[k] ELSE b[k - (2 + l)]
  <2> DEFINE c == a \o id
  <2>1. c \in Seq(Symbols) /\ Len(c) = 2 + l
    BY <1>3
  <2> HIDE DEF c
  <2>2. /\ c \o b \in Seq(Symbols) /\ Len(c \o b) = Len(c) + Len(b)
        /\ \A k \in 1 .. Len(c) + Len(b) :
              (c \o b)[k] = IF k <= Len(c) THEN c[k] ELSE b[k - Len(c)]
    BY <1>1, <2>1, ConcatProperties
  <2>3. QED
    BY <1>1, <2>1, <2>2 DEF c
<1>5. Token(id) = (a \o id) \o b
  BY DEF Token, a, b
<1>6. (2 + l) + 1 = l + 3 /\ (l + 3) - (2 + l) = 1 /\ ~(l + 3 <= 2 + l)
  BY <1>2
<1> DEFINE tok == Token(id)
<1> HIDE DEF tok
<1>7. /\ tok \in Seq(Symbols) /\ Len(tok) = l + 3
      /\ \A k \in 1 .. l + 3 : tok[k] = IF k <= 2 + l THEN (a \o id)[k] ELSE b[k - (2 + l)]
  BY <1>4, <1>5, <1>6 DEF tok
<1>8. tok[1] = "[" /\ tok[2] = "^"
  BY <1>1, <1>2, <1>3, <1>7
<1>9. tok[l + 3] = "]"
  BY <1>1, <1>2, <1>6, <1>7
<1>10. ASSUME NEW k \in 1 .. l PROVE tok[k + 2] = id[k]
  <2>1. k + 2 \in 1 .. l + 3 /\ k + 2 <= 2 + l /\ ~(k + 2 <= 2) /\ (k + 2) - 2 = k
        /\ k + 2 \in 1 .. 2 + l
    BY <1>2
  <2>2. QED
    BY <1>3, <1>7, <2>1
<1>11. tok # <<>>
  BY <1>2, <1>7, EmptySeq
<1>12. QED
  BY <1>2, <1>7, <1>8, <1>9, <1>10, <1>11 DEF tok, l

\* The token of a citation begins with a bracket, and it is found where the
\* text cites it and nowhere else.
LEMMA MatchOpens ==
  ASSUME NEW text \in Seq(Symbols), NEW id \in Seq(Symbols), NEW i \in 1 .. Len(text),
         Matches(text, Token(id), i)
  PROVE  /\ i + Len(id) + 2 <= Len(text) /\ text[i] = "["
         /\ \A k \in 1 .. Len(id) + 3 : text[i + k - 1] = Token(id)[k]
<1> DEFINE tok == Token(id)
           l == Len(id) + 3
<1>1. /\ Len(tok) = l /\ Len(id) \in Nat /\ tok[1] = "[" /\ Len(text) \in Nat
  BY TokenFacts, LenProperties
<1> HIDE DEF tok
<1>2. i + Len(tok) - 1 <= Len(text) /\ SubSeq(text, i, i + Len(tok) - 1) = tok
  BY DEF Matches, tok
<1>3. i + l - 1 \in i - 1 .. Len(text) /\ i \in 1 .. Len(text) + 1
  BY <1>1, <1>2
<1>4. \A k \in 1 .. (i + l - 1) - i + 1 : SubSeq(text, i, i + l - 1)[k] = text[i + k - 1]
  BY <1>3, SliceFacts
<1>5. (i + l - 1) - i + 1 = l /\ 1 \in 1 .. l /\ i + 1 - 1 = i
  BY <1>1
<1>6. \A k \in 1 .. l : text[i + k - 1] = tok[k]
  BY <1>1, <1>2, <1>4, <1>5
<1>7. text[i] = "["
  BY <1>1, <1>5, <1>6
<1>8. QED
  BY <1>1, <1>2, <1>6, <1>7 DEF tok

LEMMA MatchIff ==
  ASSUME NEW text \in Seq(Symbols), Tidy(text), NEW id \in Seq(Symbols), NEW i \in Opens(text),
         Len(id) # 0, \A k \in 1 .. Len(id) : id[k] # "]"
  PROVE  /\ Matches(text, Token(id), i) <=> CitedAt(text, i) = id
         /\ Matches(text, Token(id), i) => End(text, i) + 1 = i + Len(Token(id))
<1> DEFINE e == End(text, i)
           n == Len(id)
           tok == Token(id)
           l == n + 3
<1>1. /\ i \in 1 .. Len(text) /\ Len(text) \in Nat
      /\ e # 0 /\ e \in i + 3 .. Len(text)
      /\ text[i] = "[" /\ text[i + 1] = "^" /\ text[e] = "]"
  BY TidyFacts
<1>2. /\ CitedAt(text, i) \in Seq(Symbols)
      /\ Len(CitedAt(text, i)) = e - i - 2
      /\ \A k \in 1 .. e - i - 2 : CitedAt(text, i)[k] = text[i + k + 1]
  BY <1>1, CiteType
<1>3. /\ tok \in Seq(Symbols) /\ Len(tok) = l /\ n \in Nat \ {0}
      /\ tok[1] = "[" /\ tok[2] = "^" /\ tok[l] = "]"
      /\ \A k \in 1 .. n : tok[k + 2] = id[k]
  BY TokenFacts
<1> HIDE DEF e, n, tok
<1>4. ASSUME Matches(text, tok, i)
      PROVE  e + 1 = i + l /\ CitedAt(text, i) = id
  <2>1. /\ i + n + 2 <= Len(text)
        /\ \A k \in 1 .. n + 3 : text[i + k - 1] = tok[k]
    BY <1>1, <1>4, MatchOpens DEF tok, n
  <2>2. \A k \in 1 .. n : k + 2 \in 1 .. n + 3 /\ i + (k + 2) - 1 = i + k + 1
    BY <1>1, <1>3
  <2>3. \A k \in 1 .. n : text[i + k + 1] = id[k]
    BY <1>3, <2>1, <2>2
  <2>4. text[i + n + 2] = "]"
    <3>1. n + 3 \in 1 .. n + 3 /\ i + (n + 3) - 1 = i + n + 2
      BY <1>1, <1>3
    <3>2. QED
      BY <1>3, <2>1, <3>1
  <2>5. ASSUME NEW m \in i + 2 .. (i + n + 2) - 1 PROVE text[m] # "]"
    <3>1. m - i - 1 \in 1 .. n /\ i + (m - i - 1) + 1 = m
      BY <1>1, <1>3
    <3>2. QED
      BY <2>3, <3>1 DEF n
  <2>6. e = i + n + 2
    <3>1. i + n + 2 \in i + 3 .. Len(text)
      BY <1>1, <1>3, <2>1
    <3>2. QED
      BY <1>1, <2>4, <2>5, <3>1, EndIs DEF e
  <2>7. e - i - 2 = n /\ e + 1 = i + l
    BY <1>1, <1>3, <2>6
  <2>8. CitedAt(text, i) = id
    BY <1>2, <2>3, <2>7, SeqEqual DEF n
  <2>9. QED
    BY <2>7, <2>8
<1>5. ASSUME CitedAt(text, i) = id
      PROVE  Matches(text, tok, i)
  <2>1. n = e - i - 2 /\ \A k \in 1 .. n : id[k] = text[i + k + 1]
    BY <1>2, <1>5 DEF n
  <2>2. i + l - 1 = e /\ e \in i - 1 .. Len(text) /\ i \in 1 .. Len(text) + 1 /\ e - i + 1 = l
    BY <1>1, <1>3, <2>1
  <2>3. /\ SubSeq(text, i, e) \in Seq(Symbols) /\ Len(SubSeq(text, i, e)) = l
        /\ \A k \in 1 .. l : SubSeq(text, i, e)[k] = text[i + k - 1]
    BY <2>2, SliceFacts
  <2>4. ASSUME NEW k \in 1 .. l PROVE text[i + k - 1] = tok[k]
    <3>1. CASE k = 1
      <4>1. i + 1 - 1 = i
        BY <1>1
      <4>2. QED
        BY <1>1, <1>3, <3>1, <4>1
    <3>2. CASE k = 2
      <4>1. i + 2 - 1 = i + 1
        BY <1>1
      <4>2. QED
        BY <1>1, <1>3, <3>2, <4>1
    <3>3. CASE k = l
      BY <1>1, <1>3, <2>2, <3>3
    <3>4. CASE k \in 3 .. l - 1
      <4>1. k - 2 \in 1 .. n /\ i + (k - 2) + 1 = i + k - 1 /\ (k - 2) + 2 = k
        BY <1>1, <1>3, <3>4
      <4>2. QED
        BY <1>3, <2>1, <4>1
    <3>5. k = 1 \/ k = 2 \/ k = l \/ k \in 3 .. l - 1
      BY <1>3
    <3>6. QED
      BY <3>1, <3>2, <3>3, <3>4, <3>5
  <2>5. SubSeq(text, i, e) = tok
    <3> DEFINE c == SubSeq(text, i, e)
    <3>1. c \in Seq(Symbols) /\ Len(c) = Len(tok) /\ \A k \in 1 .. Len(c) : c[k] = tok[k]
      BY <1>3, <2>3, <2>4
    <3> HIDE DEF c
    <3>2. c = tok
      BY <1>3, <3>1, SeqEqual
    <3>3. QED
      BY <3>2 DEF c
  <2>6. QED
    BY <1>1, <1>3, <2>2, <2>5 DEF Matches
<1>6. QED
  BY <1>3, <1>4, <1>5 DEF e, tok

\* Without the token of one of its citations a tidy text is tidy, and has its
\* other citations.
LEMMA StripOne ==
  ASSUME NEW text \in Seq(Symbols), Tidy(text), NEW id \in Cites(text)
  PROVE  LET w == Without(text, Token(id)) IN
         w \in Seq(Symbols) /\ Tidy(w) /\ Cites(w) = Cites(text) \ {id}
<1> DEFINE n == Len(text) + 1
           tok == Token(id)
<1>1. n \in Nat /\ Len(text) \in Nat
  BY LenProperties
<1>2. id \in Seq(Symbols) /\ Len(id) # 0 /\ \A k \in 1 .. Len(id) : id[k] # "]"
  <2>1. PICK i \in Opens(text) : id = CitedAt(text, i)
    BY DEF Cites
  <2> DEFINE e == End(text, i)
  <2>2. /\ i \in 1 .. Len(text) /\ e # 0 /\ e \in i + 3 .. Len(text)
        /\ \A m \in i + 2 .. e - 1 : text[m] # "]"
    BY TidyFacts
  <2>3. /\ id \in Seq(Symbols) /\ Len(id) = e - i - 2
        /\ \A k \in 1 .. e - i - 2 : id[k] = text[i + k + 1]
    BY <2>1, <2>2, CiteType
  <2> HIDE DEF e
  <2>4. ASSUME NEW k \in 1 .. e - i - 2 PROVE text[i + k + 1] # "]"
    <3>1. i + k + 1 \in i + 2 .. e - 1
      BY <1>1, <2>2
    <3>2. QED
      BY <2>2, <3>1
  <2>5. \A k \in 1 .. e - i - 2 : id[k] # "]"
    BY <2>3, <2>4
  <2>6. e - i - 2 # 0
    BY <1>1, <2>2
  <2>7. QED
    BY <2>3, <2>5, <2>6
<1>3. tok \in Seq(Symbols) /\ tok # <<>> /\ Len(tok) \in Nat
  BY <1>2, TokenFacts, LenProperties
<1>4. PICK f \in [1 .. n -> Seq(Symbols)] :
         /\ Without(text, tok) = f[1]
         /\ \A i \in 1 .. n : f[i] = WithoutFrom(text, tok, f, i)
  BY <1>3, WithoutUnwinds
<1>5. \A i \in 1 .. Len(text) : Matches(text, tok, i) => i \in Opens(text)
  BY <1>2, MatchOpens DEF Opens
<1>6. \A i \in Opens(text) : /\ Matches(text, tok, i) <=> CitedAt(text, i) = id
                             /\ Matches(text, tok, i) => End(text, i) + 1 = i + Len(tok)
  BY <1>2, MatchIff
<1> HIDE DEF tok, n
\* Where nothing begins that the token matches, the text is taken over.
<1>7. ASSUME NEW i \in Opens(text), CitedAt(text, i) # id
      PROVE  f[i] = SubSeq(text, i, End(text, i)) \o f[End(text, i) + 1]
  <2> DEFINE e == End(text, i)
  <2>1. /\ i \in 1 .. Len(text) /\ e # 0 /\ e \in i + 3 .. Len(text)
        /\ \A m \in i + 1 .. e : text[m] # "["
    BY TidyFacts
  <2>2. e + 1 \in 1 .. n /\ f[e + 1] \in Seq(Symbols)
    BY <1>1, <1>4, <2>1 DEF n
  <2> DEFINE S == {k \in 1 .. e : k >= i => f[k] = SubSeq(text, k, e) \o f[e + 1]}
  <2> HIDE DEF e
  <2>3. ASSUME NEW k \in 1 .. e, \A j \in k + 1 .. e : j \in S, k >= i
        PROVE  f[k] = SubSeq(text, k, e) \o f[e + 1]
    <3>1. k \in 1 .. Len(text) /\ k \in 1 .. n /\ ~(k > Len(text))
      BY <1>1, <2>1 DEF n
    <3>2. ~Matches(text, tok, k)
      <4>1. CASE k = i
        BY <1>6, <1>7, <4>1
      <4>2. CASE k # i
        <5>1. k \in i + 1 .. e
          BY <2>1, <2>3, <4>2
        <5>2. k \notin Opens(text)
          BY <2>1, <5>1 DEF Opens
        <5>3. QED
          BY <1>5, <3>1, <5>2
      <4>3. QED
        BY <4>1, <4>2
    <3>3. f[k] = <<text[k]>> \o f[k + 1]
      BY <1>4, <3>1, <3>2 DEF WithoutFrom
    <3>4. <<text[k]>> \in Seq(Symbols)
      BY <3>1, ElementOfSeq
    <3>5. CASE k = e
      <4>1. e + 1 > e /\ e \in 1 .. Len(text) /\ e \in e .. Len(text) /\ e \in Int /\ e + 1 \in Int
            /\ e < e + 1
        BY <1>1, <2>1
      <4>2. SubSeq(text, e, e) = <<text[e]>> \o SubSeq(text, e + 1, e)
        BY <4>1, SubSeqRecursiveFirst
      <4>3. SubSeq(text, e + 1, e) = <<>>
        BY <4>1, SubSeqEmpty
      <4>4. <<text[e]>> \o <<>> = <<text[e]>>
        BY <3>4, <3>5, ConcatEmptySeq
      <4>5. QED
        BY <3>3, <3>5, <4>2, <4>3, <4>4
    <3>6. CASE k # e
      <4>1. k + 1 \in k + 1 .. e /\ k + 1 >= i /\ k \in 1 .. Len(text) /\ e \in k .. Len(text)
            /\ k + 1 \in 1 .. Len(text) + 1 /\ e \in (k + 1) - 1 .. Len(text)
        BY <1>1, <2>1, <2>3, <3>6
      <4>2. f[k + 1] = SubSeq(text, k + 1, e) \o f[e + 1]
        BY <2>3, <4>1
      <4>3. SubSeq(text, k, e) = <<text[k]>> \o SubSeq(text, k + 1, e)
        BY <4>1, SubSeqRecursiveFirst
      <4>4. SubSeq(text, k + 1, e) \in Seq(Symbols)
        BY <4>1, SliceFacts
      <4>5. (<<text[k]>> \o SubSeq(text, k + 1, e)) \o f[e + 1]
              = <<text[k]>> \o (SubSeq(text, k + 1, e) \o f[e + 1])
        BY <2>2, <3>4, <4>4, ConcatAssociative
      <4>6. QED
        BY <3>3, <4>2, <4>3, <4>5
    <3>7. QED
      BY <3>5, <3>6
  <2>4. e \in Nat /\ i \in 1 .. e
    BY <1>1, <2>1
  <2>5. \A k \in 1 .. e : (\A j \in k + 1 .. e : j \in S) => k \in S
    BY <2>3
  <2> HIDE DEF S
  <2>6. i \in S
    BY <2>4, <2>5, Backward
  <2>7. QED
    BY <2>4, <2>6 DEF S, e
\* A position outside of all citations, or where one begins.
<1> DEFINE Edge(i) == \A j \in Opens(text) : j < i => End(text, j) < i
           S == {i \in 1 .. n : Edge(i) => Tidy(f[i]) /\ Cites(f[i]) = Behind(text, i) \ {id}}
<1>8. ASSUME NEW i \in 1 .. n, \A j \in i + 1 .. n : j \in S, Edge(i)
      PROVE  Tidy(f[i]) /\ Cites(f[i]) = Behind(text, i) \ {id}
  <2>1. f[i] = WithoutFrom(text, tok, f, i)
    BY <1>4
  <2>2. CASE i > Len(text)
    <3>1. Behind(text, i) = {}
      BY <1>1, <2>2 DEF Behind, Opens
    <3>2. f[i] = <<>>
      BY <2>1, <2>2 DEF WithoutFrom
    <3>3. QED
      BY <3>1, <3>2, TidyEmpty
  <2>3. CASE i <= Len(text) /\ text[i] # "["
    <3>1. i \in 1 .. Len(text) /\ i + 1 \in i + 1 .. n /\ i + 1 \in 1 .. n /\ ~(i > Len(text))
      BY <1>1, <2>3 DEF n
    <3>2. f[i] = <<text[i]>> \o f[i + 1]
      BY <1>5, <2>1, <2>3, <3>1 DEF WithoutFrom, Opens
    <3>3. \A k \in Opens(text) : k # i /\ k \in 1 .. Len(text) /\ End(text, k) \in Nat
      BY <1>1, <2>3, TidyFacts DEF Opens
    <3>4. \A k \in Opens(text) : i <= k <=> i + 1 <= k
      BY <1>1, <3>1, <3>3
    <3>5. Edge(i + 1)
      <4>1. ASSUME NEW k \in Opens(text), k < i + 1 PROVE End(text, k) < i + 1
        <5>1. k < i
          BY <1>1, <3>3, <4>1
        <5>2. End(text, k) < i
          BY <1>8, <5>1
        <5>3. QED
          BY <1>1, <3>3, <5>2
      <4>2. QED
        BY <4>1
    <3>6. Tidy(f[i + 1]) /\ Cites(f[i + 1]) = Behind(text, i + 1) \ {id}
      BY <1>8, <3>1, <3>5
    <3>7. Behind(text, i) = Behind(text, i + 1)
      BY <3>4 DEF Behind
    <3>8. text[i] \in Symbols /\ f[i + 1] \in Seq(Symbols)
      BY <1>4, <3>1, ElementOfSeq
    <3>9. <<text[i]>> \in Seq(Symbols) /\ Tidy(<<text[i]>>) /\ Cites(<<text[i]>>) = {}
      BY <2>3, <3>8, TidyPlain
    <3>10. Tidy(<<text[i]>> \o f[i + 1])
           /\ Cites(<<text[i]>> \o f[i + 1]) = {} \cup Cites(f[i + 1])
      BY <3>6, <3>8, <3>9, JoinTidy
    <3>11. QED
      BY <3>2, <3>6, <3>7, <3>10
  <2>4. CASE i <= Len(text) /\ text[i] = "["
    <3> DEFINE e == End(text, i)
               t == SubSeq(text, i, e)
    <3>1. i \in Opens(text) /\ ~(i > Len(text))
      BY <1>1, <2>4 DEF Opens, n
    <3>2. e # 0 /\ e \in i + 3 .. Len(text) /\ \A m \in i + 1 .. e : text[m] # "["
      BY <3>1, TidyFacts
    <3>3. t \in Seq(Symbols) /\ Tidy(t) /\ Cites(t) = {CitedAt(text, i)}
      BY <3>1, TidyCitation
    <3>4. CitedAt(text, i) # id => f[i] = t \o f[e + 1]
      BY <1>7, <3>1
    <3>5. CitedAt(text, i) = id => f[i] = f[e + 1]
      BY <1>6, <2>1, <3>1 DEF WithoutFrom
    <3> HIDE DEF t
    <3>6. \A k \in Opens(text) : k \in 1 .. Len(text) /\ End(text, k) \in Nat
      BY <1>1, TidyFacts
    <3>7. \A k \in Opens(text) : k \notin i + 1 .. e
      BY <3>2 DEF Opens
    <3>8. Edge(e + 1)
      <4>1. ASSUME NEW k \in Opens(text), k < e + 1 PROVE End(text, k) < e + 1
        <5>1. k = i \/ k < i
          BY <1>1, <3>2, <3>6, <3>7, <4>1
        <5>2. CASE k = i
          BY <1>1, <3>2, <5>2
        <5>3. CASE k < i
          <6>1. End(text, k) < i
            BY <1>8, <5>3
          <6>2. QED
            BY <1>1, <3>2, <3>6, <6>1
        <5>4. QED
          BY <5>1, <5>2, <5>3
      <4>2. QED
        BY <4>1
    <3> HIDE DEF e
    <3>9. e + 1 \in i + 1 .. n /\ e + 1 \in 1 .. n
      BY <1>1, <3>2 DEF n
    <3>10. Tidy(f[e + 1]) /\ Cites(f[e + 1]) = Behind(text, e + 1) \ {id}
      BY <1>8, <3>8, <3>9
    <3>11. \A k \in Opens(text) : i <= k <=> k = i \/ e + 1 <= k
      <4>1. ASSUME NEW k \in Opens(text) PROVE i <= k <=> k = i \/ e + 1 <= k
        <5>1. k \in Nat /\ ~(i + 1 <= k /\ k <= e) /\ i \in Nat /\ e \in Nat /\ i + 3 <= e
          BY <1>1, <3>2, <3>6, <3>7
        <5>2. QED
          BY <5>1
      <4>2. QED
        BY <4>1
    <3>12. Behind(text, i) = {CitedAt(text, i)} \cup Behind(text, e + 1)
      BY <3>1, <3>11 DEF Behind
    <3>13. f[e + 1] \in Seq(Symbols)
      BY <1>4, <3>9
    <3>14. Tidy(t \o f[e + 1]) /\ Cites(t \o f[e + 1]) = Cites(t) \cup Cites(f[e + 1])
      BY <3>3, <3>10, <3>13, JoinTidy
    <3>15. CASE CitedAt(text, i) = id
      BY <3>5, <3>10, <3>12, <3>15
    <3>16. CASE CitedAt(text, i) # id
      BY <3>3, <3>4, <3>10, <3>12, <3>14, <3>16
    <3>17. QED
      BY <3>15, <3>16
  <2>5. QED
    BY <1>1, <2>2, <2>3, <2>4 DEF n
<1>9. \A i \in 1 .. n : (\A j \in i + 1 .. n : j \in S) => i \in S
  BY <1>8
<1>10. 1 \in S
  <2> HIDE DEF S
  <2>1. 1 \in 1 .. n
    BY <1>1 DEF n
  <2>2. QED
    BY <1>1, <1>9, <2>1, Backward
<1>11. Edge(1) /\ Behind(text, 1) = Cites(text)
  BY <1>1 DEF Behind, Cites, Opens
<1>12. 1 \in 1 .. n /\ f[1] \in Seq(Symbols)
  BY <1>1, <1>4 DEF n
<1>13. QED
  BY <1>4, <1>10, <1>11, <1>12 DEF tok

-----------------------------------------------------------------------------
(* The report.                                                             *)

Working == {"draft", "reject", "strip", "announce", "write"}

\* A hit's row is under the hit's src_id.
Own == \A s \in Srcs : cards[s] \in Hits => SrcId[cards[s]] = s

\* The row of what a model is shown says what it said then.
Says(p, rows) == rows[p[1]] = p[3] /\ p[3] # None

Told ==
    /\ \A p \in shown : Says(p, cards)
    /\ \A c \in Calls : \A p \in call[c].out : Says(p, cards)

\* Of the citations of a draft, a body has those of known evidence.
Faithful(draft, body, known) ==
    Tidy(draft) => Cited(body) = Cited(draft) \cap Ids(known)

InHand(y, rows) ==
    /\ y.pc \in Working => y.told \subseteq y.known /\ y.known \subseteq rows
    /\ y.pc = "draft" => y.attempt < max_attempts
    /\ y.pc = "reject" => y.body = y.draft /\ y.bad = Unknown(y.draft, y.known)
    /\ y.pc = "strip" =>
        /\ y.bad \cap Ids(y.known) = {}
        /\ Tidy(y.draft) =>
              /\ Tidy(y.body)
              /\ Cited(y.body) = (Cited(y.draft) \cap Ids(y.known)) \cup y.bad
    /\ y.pc \in {"announce", "write"} => Faithful(y.draft, y.body, y.known)

InStore(r, rows) ==
    r # None => /\ r.told \subseteq r.sources /\ r.sources \subseteq rows
                /\ Faithful(r.draft, r.body, r.sources)

ReportHolds == TypeOK /\ Own /\ Told /\ InHand(synth, Rows) /\ InStore(stored, Rows)

\* Rows are added, never removed.
LEMMA RowsGrow ==
  ASSUME NEW rows, NEW more, rows \subseteq more
  PROVE  /\ \A y : InHand(y, rows) => InHand(y, more)
         /\ \A r : InStore(r, rows) => InStore(r, more)
  BY DEF InHand, InStore

LEMMA CitedType ==
  ASSUME NEW text \in Seq(Symbols)
  PROVE  Cited(text) \in SUBSET Seq(Symbols)
<1>1. 1 \in 1 .. Len(text) + 1
  BY LenProperties
<1>2. PICK f \in [1 .. Len(text) + 1 -> SUBSET Seq(Symbols)] : Cited(text) = f[1]
  BY CitedUnwinds
<1>3. QED
  BY <1>1, <1>2

LEMMA WithoutType ==
  ASSUME NEW text \in Seq(Symbols), NEW id \in Seq(Symbols)
  PROVE  Without(text, Token(id)) \in Seq(Symbols)
<1>1. 1 \in 1 .. Len(text) + 1
  BY LenProperties
<1>2. Token(id) \in Seq(Symbols) /\ Token(id) # <<>>
  BY TokenFacts
<1>3. PICK f \in [1 .. Len(text) + 1 -> Seq(Symbols)] : Without(text, Token(id)) = f[1]
  BY <1>2, WithoutUnwinds
<1>4. QED
  BY <1>1, <1>3

LEMMA FirstOfType ==
  ASSUME NEW S, NEW items \in Seq(S), NEW k \in Nat
  PROVE  FirstOf(items, k) \in Seq(S)
<1> DEFINE n == IF k < Len(items) THEN k ELSE Len(items)
<1>1. n \in Int /\ \A i \in 1 .. n : items[i] \in S
  BY LenProperties, ElementOfSeq
<1>2. SubSeq(items, 1, n) \in Seq(S)
  BY <1>1, SubSeqProperties
<1>3. QED
  BY <1>2 DEF FirstOf

LEMMA UpToType ==
  ASSUME NEW n \in Nat, NEW S, NEW items \in UpTo(n, S)
  PROVE  items \in Seq(S)
  BY SeqDef DEF UpTo

-----------------------------------------------------------------------------

LEMMA Starts == Init => ReportHolds
<1> SUFFICES ASSUME Init
             PROVE  ReportHolds
  OBVIOUS
<1>1. <<>> \in Seq(Symbols) /\ <<>> \in Seq(Hits)
  BY EmptySeq
<1>2. TypeOK
  BY <1>1, ReportAssumption DEF Init, TypeOK, Quiet, Waiting, max_attempts
<1>3. Own
  BY ReportAssumption DEF Init, Own
<1>4. Told
  BY DEF Init, Told, Quiet
<1>5. InHand(synth, Rows) /\ InStore(stored, Rows)
  BY DEF Init, InHand, InStore, Waiting, Working
<1>6. QED
  BY <1>2, <1>3, <1>4, <1>5 DEF ReportHolds

\* A call that goes on keeps its type, and what it shows was true.
LEMMA Proceeds ==
  ASSUME ReportHolds, NEW c \in Calls, NEW hits \in Seq(Hits), NEW out \in SUBSET Cards,
         NEW rows, \A p \in out : Says(p, rows),
         \A p \in shown : Says(p, rows),
         \A d \in Calls : \A p \in call[d].out : Says(p, rows),
         Proceed(c, hits, out)
  PROVE  /\ call' \in [Calls -> [pc : {"idle", "select", "insert", "over"},
                                 hits : Seq(Hits), out : SUBSET Cards]]
         /\ \A d \in Calls : call'[d].pc \in {"select", "insert"} => call'[d].hits # <<>>
         /\ shown' \subseteq Cards
         /\ \A p \in shown' : Says(p, rows)
         /\ \A d \in Calls : \A p \in call'[d].out : Says(p, rows)
<1>1. /\ call \in [Calls -> [pc : {"idle", "select", "insert", "over"},
                             hits : Seq(Hits), out : SUBSET Cards]]
      /\ \A d \in Calls : call[d].pc \in {"select", "insert"} => call[d].hits # <<>>
      /\ shown \subseteq Cards
  BY DEF ReportHolds, TypeOK
<1>2. CASE hits = <<>>
  <2>1. call' = [call EXCEPT ![c] = Over] /\ shown' = shown \cup out
    BY <1>2 DEF Proceed
  <2>2. Over \in [pc : {"idle", "select", "insert", "over"}, hits : Seq(Hits), out : SUBSET Cards]
        /\ Over.pc = "over" /\ Over.out = {}
    BY EmptySeq DEF Over
  <2>3. QED
    BY <1>1, <2>1, <2>2
<1>3. CASE hits # <<>>
  <2> DEFINE r == [pc |-> "select", hits |-> hits, out |-> out]
  <2>1. call' = [call EXCEPT ![c] = r] /\ shown' = shown
    BY <1>3 DEF Proceed
  <2>2. r \in [pc : {"idle", "select", "insert", "over"}, hits : Seq(Hits), out : SUBSET Cards]
        /\ r.hits # <<>> /\ r.out = out
    BY <1>3
  <2> HIDE DEF r
  <2>3. QED
    BY <1>1, <2>1, <2>2
<1>4. QED
  BY <1>2, <1>3

\* What a search hands to Proceed, before any hit is registered.
LEMMA Searches ==
  ASSUME ReportHolds, NEW c \in Calls, NEW hits \in Seq(Hits), Proceed(c, hits, {}),
         UNCHANGED <<cards, synth, stored, failures>>
  PROVE  ReportHolds'
<1>1. Told
  BY DEF ReportHolds
<1>2. /\ call' \in [Calls -> [pc : {"idle", "select", "insert", "over"},
                              hits : Seq(Hits), out : SUBSET Cards]]
      /\ \A d \in Calls : call'[d].pc \in {"select", "insert"} => call'[d].hits # <<>>
      /\ shown' \subseteq Cards
      /\ \A p \in shown' : Says(p, cards)
      /\ \A d \in Calls : \A p \in call'[d].out : Says(p, cards)
  <2>1. {} \in SUBSET Cards /\ \A p \in {} : Says(p, cards)
    OBVIOUS
  <2>2. /\ \A p \in shown : Says(p, cards)
        /\ \A d \in Calls : \A p \in call[d].out : Says(p, cards)
    BY <1>1 DEF Told
  <2>3. QED
    BY <2>1, <2>2, Proceeds
<1>3. TypeOK'
  BY <1>2 DEF ReportHolds, TypeOK
<1>4. Told'
  BY <1>2 DEF Told, Says
<1>5. Own' /\ InHand(synth, Rows)' /\ InStore(stored, Rows)'
  BY DEF ReportHolds, Own, Rows
<1>6. QED
  BY <1>3, <1>4, <1>5 DEF ReportHolds

\* The synthesis, or nothing, moves: rows and models stay.
LEMMA NodeMoves ==
  ASSUME ReportHolds, UNCHANGED <<cards, call, shown>>,
         synth' \in [pc : {"stages", "draft", "reject", "strip", "announce", "write",
                           "publish", "done"},
                     known : SUBSET Srcs, attempt : 0 .. max_attempts,
                     draft : Seq(Symbols), body : Seq(Symbols), bad : SUBSET Seq(Symbols),
                     told : SUBSET Srcs],
         failures' \in 0 .. MaxFailures,
         InHand(synth', Rows), InStore(stored', Rows)
  PROVE  ReportHolds'
<1>1. TypeOK'
  BY DEF ReportHolds, TypeOK
<1>2. Own' /\ Told'
  BY DEF ReportHolds, Own, Told, Says
<1>3. Rows' = Rows
  BY DEF Rows
<1>4. InHand(synth, Rows)' /\ InStore(stored, Rows)'
  BY <1>3
<1>5. QED
  BY <1>1, <1>2, <1>4 DEF ReportHolds

LEMMA SearchStep ==
  ASSUME ReportHolds, NEW c \in Calls, WebSearch(c) \/ RagSearch(c)
  PROVE  ReportHolds'
<1>1. CASE WebSearch(c)
  <2>1. K[c] \in Nat
    BY ReportAssumption
  <2>2. UNCHANGED <<cards, synth, stored, failures>>
    BY <1>1 DEF WebSearch
  <2>3. PICK k \in 0 .. K[c] :
          \/ \E items \in UpTo(K[c], Web) :
                \/ Proceed(c, TavilyProvider(items, k), {})
                \/ Proceed(c, ExaProvider(items, k), {})
          \/ \E items \in UpTo(K[c], Web \cup {None}) :
                Proceed(c, PerplexityProvider(items, k), {})
    BY <1>1 DEF WebSearch
  <2>4. k \in Nat
    BY <2>1, <2>3
  <2>5. \A items \in Seq(Web) : FirstOf(items, k) \in Seq(Hits)
    <3>1. Seq(Web) \subseteq Seq(Hits)
      BY SeqDef DEF Hits
    <3>2. QED
      BY <2>4, <3>1, FirstOfType
  <2>6. CASE \E items \in UpTo(K[c], Web) :
                \/ Proceed(c, TavilyProvider(items, k), {})
                \/ Proceed(c, ExaProvider(items, k), {})
    <3>1. PICK items \in UpTo(K[c], Web) :
                \/ Proceed(c, TavilyProvider(items, k), {})
                \/ Proceed(c, ExaProvider(items, k), {})
      BY <2>6
    <3>2. items \in Seq(Web)
      BY <2>1, UpToType
    <3>3. Proceed(c, FirstOf(items, k), {})
      BY <3>1 DEF TavilyProvider, ExaProvider
    <3>4. QED
      BY <2>2, <2>5, <3>2, <3>3, Searches
  <2>7. CASE \E items \in UpTo(K[c], Web \cup {None}) :
                Proceed(c, PerplexityProvider(items, k), {})
    <3>1. PICK items \in UpTo(K[c], Web \cup {None}) : Proceed(c, PerplexityProvider(items, k), {})
      BY <2>7
    <3>2. items \in Seq(Web \cup {None})
      BY <2>1, UpToType
    <3>3. _extract_citations(items) \in Seq(Web)
      BY <3>2, ExtractType
    <3>4. Proceed(c, FirstOf(_extract_citations(items), k), {})
      BY <3>1 DEF PerplexityProvider
    <3>5. QED
      BY <2>2, <2>5, <3>3, <3>4, Searches
  <2>8. QED
    BY <2>3, <2>6, <2>7
<1>2. CASE RagSearch(c)
  <2>1. K[c] \in Nat
    BY ReportAssumption
  <2>2. PICK chunks \in UpTo(K[c], Docs) : Proceed(c, chunks, {})
    BY <1>2 DEF RagSearch
  <2>3. chunks \in Seq(Docs)
    BY <2>1, UpToType
  <2>4. chunks \in Seq(Hits)
    BY <2>3, SeqDef DEF Hits
  <2>5. UNCHANGED <<cards, synth, stored, failures>>
    BY <1>2 DEF RagSearch
  <2>6. QED
    BY <2>2, <2>4, <2>5, Searches
<1>3. QED
  BY <1>1, <1>2

LEMMA SelectStep ==
  ASSUME ReportHolds, NEW c \in Calls, Select(c)
  PROVE  ReportHolds'
<1> DEFINE h == Head(call[c].hits)
           s == SrcId[h]
<1>1. /\ call \in [Calls -> [pc : {"idle", "select", "insert", "over"},
                             hits : Seq(Hits), out : SUBSET Cards]]
      /\ call[c].pc = "select" /\ call[c].hits # <<>>
      /\ UNCHANGED <<cards, synth, stored, failures>>
      /\ cards \in [Srcs -> Hits \cup {Claimed, None}]
  BY DEF ReportHolds, TypeOK, Select
<1>2. h \in Hits /\ Tail(call[c].hits) \in Seq(Hits)
  BY <1>1, HeadTailProperties
<1>3. s \in Srcs
  BY <1>2, ReportAssumption
<1>4. CASE cards[s] = None
  <2>1. call' = [call EXCEPT ![c].pc = "insert"] /\ shown' = shown
    BY <1>4 DEF Select
  <2>2. TypeOK'
    BY <1>1, <2>1 DEF ReportHolds, TypeOK
  <2>3. Told'
    BY <1>1, <2>1 DEF ReportHolds, Told, Says
  <2>4. Own' /\ InHand(synth, Rows)' /\ InStore(stored, Rows)'
    BY <1>1 DEF ReportHolds, Own, Rows
  <2>5. QED
    BY <2>2, <2>3, <2>4 DEF ReportHolds
<1>5. CASE cards[s] # None
  <2> DEFINE p == <<s, h, cards[s]>>
             out == call[c].out \cup {p}
  <2>1. Proceed(c, Tail(call[c].hits), out)
    BY <1>5 DEF Select
  <2>2. p \in Cards /\ p[1] = s /\ p[3] = cards[s]
    BY <1>1, <1>2, <1>3 DEF Cards
  <2>3. Says(p, cards)
    BY <1>5, <2>2 DEF Says
  <2>4. out \in SUBSET Cards
    BY <1>1, <2>2
  <2>5. Told
    BY DEF ReportHolds
  <2>6. \A q \in out : Says(q, cards)
    BY <2>3, <2>5 DEF Told
  <2> HIDE DEF out
  <2>7. /\ call' \in [Calls -> [pc : {"idle", "select", "insert", "over"},
                                hits : Seq(Hits), out : SUBSET Cards]]
        /\ \A d \in Calls : call'[d].pc \in {"select", "insert"} => call'[d].hits # <<>>
        /\ shown' \subseteq Cards
        /\ \A q \in shown' : Says(q, cards)
        /\ \A d \in Calls : \A q \in call'[d].out : Says(q, cards)
    BY <1>2, <2>1, <2>4, <2>5, <2>6, Proceeds DEF Told
  <2>8. TypeOK'
    BY <1>1, <2>7 DEF ReportHolds, TypeOK
  <2>9. Told'
    BY <1>1, <2>7 DEF Told, Says
  <2>10. Own' /\ InHand(synth, Rows)' /\ InStore(stored, Rows)'
    BY <1>1 DEF ReportHolds, Own, Rows
  <2>11. QED
    BY <2>8, <2>9, <2>10 DEF ReportHolds
<1>6. QED
  BY <1>4, <1>5

\* A row is added where there was none.
LEMMA Registers ==
  ASSUME ReportHolds, NEW s \in Srcs, cards[s] = None, NEW card \in Hits \cup {Claimed},
         card \in Hits => SrcId[card] = s,
         cards' = [cards EXCEPT ![s] = card]
  PROVE  /\ cards' \in [Srcs -> Hits \cup {Claimed, None}] /\ cards'[s] = card
         /\ Own'
         /\ \A p \in Cards : Says(p, cards) => Says(p, cards')
         /\ \A y : InHand(y, Rows) => InHand(y, Rows')
         /\ \A r : InStore(r, Rows) => InStore(r, Rows')
<1>1. cards \in [Srcs -> Hits \cup {Claimed, None}] /\ card # None
  BY ReportAssumption DEF ReportHolds, TypeOK
<1>2. cards' \in [Srcs -> Hits \cup {Claimed, None}] /\ cards'[s] = card
      /\ \A t \in Srcs \ {s} : cards'[t] = cards[t]
  BY <1>1
<1>3. Own'
  BY <1>2 DEF ReportHolds, Own
<1>4. \A p \in Cards : Says(p, cards) => Says(p, cards')
  BY <1>2 DEF Cards, Says
<1>5. Rows \subseteq Rows'
  BY <1>1, <1>2 DEF Rows
<1>6. QED
  BY <1>2, <1>3, <1>4, <1>5, RowsGrow

LEMMA InsertStep ==
  ASSUME ReportHolds, NEW c \in Calls, Insert(c)
  PROVE  ReportHolds'
<1> DEFINE h == Head(call[c].hits)
           s == SrcId[h]
<1>1. /\ call \in [Calls -> [pc : {"idle", "select", "insert", "over"},
                             hits : Seq(Hits), out : SUBSET Cards]]
      /\ call[c].pc = "insert" /\ call[c].hits # <<>>
      /\ UNCHANGED <<synth, stored, failures>>
      /\ cards \in [Srcs -> Hits \cup {Claimed, None}]
      /\ shown \subseteq Cards
  BY DEF ReportHolds, TypeOK, Insert
<1>2. h \in Hits /\ Tail(call[c].hits) \in Seq(Hits)
  BY <1>1, HeadTailProperties
<1>3. s \in Srcs
  BY <1>2, ReportAssumption
<1>4. CASE cards[s] = None
  <2> DEFINE p == <<s, h, h>>
             out == call[c].out \cup {p}
  <2>1. Proceed(c, Tail(call[c].hits), out) /\ cards' = [cards EXCEPT ![s] = h]
    BY <1>4 DEF Insert
  <2>2. /\ cards' \in [Srcs -> Hits \cup {Claimed, None}] /\ cards'[s] = h
        /\ Own'
        /\ \A q \in Cards : Says(q, cards) => Says(q, cards')
        /\ \A y : InHand(y, Rows) => InHand(y, Rows')
        /\ \A r : InStore(r, Rows) => InStore(r, Rows')
    BY <1>2, <1>3, <1>4, <2>1, Registers
  <2>3. p \in Cards /\ p[1] = s /\ p[3] = h
    BY <1>2, <1>3 DEF Cards
  <2>4. Says(p, cards')
    BY <1>2, <2>2, <2>3, ReportAssumption DEF Says
  <2>5. out \in SUBSET Cards
    BY <1>1, <2>3
  <2>6. Told
    BY DEF ReportHolds
  <2>7. /\ \A q \in shown : Says(q, cards')
        /\ \A d \in Calls : \A q \in call[d].out : Says(q, cards')
    <3>1. \A d \in Calls : call[d].out \subseteq Cards
      BY <1>1
    <3>2. QED
      BY <1>1, <2>2, <2>6, <3>1 DEF Told
  <2>8. \A q \in out : Says(q, cards')
    BY <2>4, <2>7
  <2> HIDE DEF out
  <2>9. /\ call' \in [Calls -> [pc : {"idle", "select", "insert", "over"},
                                hits : Seq(Hits), out : SUBSET Cards]]
        /\ \A d \in Calls : call'[d].pc \in {"select", "insert"} => call'[d].hits # <<>>
        /\ shown' \subseteq Cards
        /\ \A q \in shown' : Says(q, cards')
        /\ \A d \in Calls : \A q \in call'[d].out : Says(q, cards')
    BY <1>2, <2>1, <2>5, <2>7, <2>8, Proceeds
  <2>10. TypeOK'
    BY <1>1, <2>2, <2>9 DEF ReportHolds, TypeOK
  <2>11. Told'
    BY <2>9 DEF Told
  <2>12. InHand(synth, Rows)' /\ InStore(stored, Rows)'
    BY <1>1, <2>2 DEF ReportHolds
  <2>13. QED
    BY <2>2, <2>10, <2>11, <2>12 DEF ReportHolds
<1>5. CASE cards[s] # None
  <2>1. call' = [call EXCEPT ![c] = Over] /\ UNCHANGED <<cards, shown>>
    BY <1>5 DEF Insert
  <2>2. Over \in [pc : {"idle", "select", "insert", "over"}, hits : Seq(Hits), out : SUBSET Cards]
        /\ Over.pc = "over" /\ Over.out = {}
    BY EmptySeq DEF Over
  <2>3. TypeOK'
    BY <1>1, <2>1, <2>2 DEF ReportHolds, TypeOK
  <2>4. Told'
    BY <1>1, <2>1, <2>2 DEF ReportHolds, Told
  <2>5. Own' /\ InHand(synth, Rows)' /\ InStore(stored, Rows)'
    BY <1>1, <2>1 DEF ReportHolds, Own, Rows
  <2>6. QED
    BY <2>3, <2>4, <2>5 DEF ReportHolds
<1>6. QED
  BY <1>4, <1>5

LEMMA AbandonStep ==
  ASSUME ReportHolds, NEW c \in Calls, Abandon(c)
  PROVE  ReportHolds'
<1>1. /\ call \in [Calls -> [pc : {"idle", "select", "insert", "over"},
                             hits : Seq(Hits), out : SUBSET Cards]]
      /\ call' = [call EXCEPT ![c] = Over]
      /\ UNCHANGED <<cards, shown, synth, stored, failures>>
  BY DEF ReportHolds, TypeOK, Abandon
<1>2. Over \in [pc : {"idle", "select", "insert", "over"}, hits : Seq(Hits), out : SUBSET Cards]
      /\ Over.pc = "over" /\ Over.out = {}
  BY EmptySeq DEF Over
<1>3. TypeOK'
  BY <1>1, <1>2 DEF ReportHolds, TypeOK
<1>4. Told'
  BY <1>1, <1>2 DEF ReportHolds, Told
<1>5. Own' /\ InHand(synth, Rows)' /\ InStore(stored, Rows)'
  BY <1>1 DEF ReportHolds, Own, Rows
<1>6. QED
  BY <1>3, <1>4, <1>5 DEF ReportHolds

LEMMA ClaimStep ==
  ASSUME ReportHolds, Claim
  PROVE  ReportHolds'
<1>1. PICK s \in Srcs : cards[s] = None /\ cards' = [cards EXCEPT ![s] = Claimed]
  BY DEF Claim
<1>2. /\ UNCHANGED <<call, shown, synth, stored, failures>>
      /\ call \in [Calls -> [pc : {"idle", "select", "insert", "over"},
                             hits : Seq(Hits), out : SUBSET Cards]]
      /\ shown \subseteq Cards
  BY DEF ReportHolds, TypeOK, Claim
<1>3. /\ cards' \in [Srcs -> Hits \cup {Claimed, None}]
      /\ Own'
      /\ \A q \in Cards : Says(q, cards) => Says(q, cards')
      /\ \A y : InHand(y, Rows) => InHand(y, Rows')
      /\ \A r : InStore(r, Rows) => InStore(r, Rows')
  BY <1>1, Registers, ReportAssumption
<1>4. TypeOK'
  BY <1>2, <1>3 DEF ReportHolds, TypeOK
<1>5. Told'
  <2>1. \A d \in Calls : call[d].out \subseteq Cards
    BY <1>2
  <2>2. Told
    BY DEF ReportHolds
  <2>3. QED
    BY <1>2, <1>3, <2>1, <2>2 DEF Told
<1>6. InHand(synth, Rows)' /\ InStore(stored, Rows)'
  BY <1>2, <1>3 DEF ReportHolds
<1>7. QED
  BY <1>3, <1>4, <1>5, <1>6 DEF ReportHolds

\* What a model may write is text, and so are its citations.
LEMMA DraftFacts ==
  ASSUME NEW d \in Drafts, NEW known
  PROVE  d \in Seq(Symbols) /\ Unknown(d, known) \in SUBSET Seq(Symbols)
<1>1. d \in Seq(Symbols)
  BY ReportAssumption
<1>2. QED
  BY <1>1, CitedType DEF Unknown

\* A draft with no unknown citation is faithful as it is.
LEMMA Accepted ==
  ASSUME NEW d \in Seq(Symbols), NEW known, Unknown(d, known) = {}
  PROVE  Faithful(d, d, known)
<1>1. Cited(d) \subseteq Ids(known)
  BY DEF Unknown
<1> QED
  BY <1>1 DEF Faithful

\* The removal of one citation leaves the others.
LEMMA Stripped ==
  ASSUME NEW text \in Seq(Symbols), Tidy(text), NEW id \in Cited(text)
  PROVE  /\ Tidy(Without(text, Token(id)))
         /\ Cited(Without(text, Token(id))) = Cited(text) \ {id}
<1>1. Cited(text) = Cites(text) /\ id \in Cites(text)
  BY CitedTidy
<1>2. LET w == Without(text, Token(id)) IN
      w \in Seq(Symbols) /\ Tidy(w) /\ Cites(w) = Cites(text) \ {id}
  BY <1>1, StripOne
<1>3. QED
  BY <1>1, <1>2, CitedTidy

SynthType == [pc : {"stages", "draft", "reject", "strip", "announce", "write",
                    "publish", "done"},
              known : SUBSET Srcs, attempt : 0 .. max_attempts,
              draft : Seq(Symbols), body : Seq(Symbols), bad : SUBSET Seq(Symbols),
              told : SUBSET Srcs]

LEMMA ReadStep ==
  ASSUME ReportHolds, ReadEvidence
  PROVE  ReportHolds'
<1> DEFINE sent == {p[1] : p \in shown}
           y == [Waiting EXCEPT !.pc = "draft", !.known = Rows, !.told = sent]
<1>1. synth' = y /\ UNCHANGED <<cards, call, shown, stored, failures>>
  BY DEF ReadEvidence
<1>2. sent \subseteq Rows
  <2>1. shown \subseteq Cards /\ \A p \in shown : Says(p, cards)
    BY DEF ReportHolds, TypeOK, Told
  <2>2. QED
    BY <2>1 DEF Cards, Says, Rows
<1>3. Rows \subseteq Srcs /\ <<>> \in Seq(Symbols)
  BY EmptySeq DEF Rows
<1> HIDE DEF sent
<1>4. y \in SynthType
  <2>1. 0 \in 0 .. max_attempts /\ sent \in SUBSET Srcs
        /\ Rows \in SUBSET Srcs /\ {} \in SUBSET Seq(Symbols)
    BY <1>2, <1>3 DEF max_attempts
  <2>2. Waiting \in SynthType
    BY <1>3, <2>1 DEF SynthType, Waiting
  <2>3. QED
    BY <2>1, <2>2 DEF SynthType
<1>5. InHand(y, Rows)
  BY <1>2 DEF InHand, Waiting, Working, max_attempts
<1>6. InStore(stored', Rows) /\ failures' \in 0 .. MaxFailures
  BY <1>1 DEF ReportHolds, TypeOK
<1> HIDE DEF y
<1>7. QED
  BY <1>1, <1>4, <1>5, <1>6, NodeMoves DEF SynthType

LEMMA DraftStep ==
  ASSUME ReportHolds, Draft
  PROVE  ReportHolds'
<1>1. PICK d \in Drafts :
        synth' = [synth EXCEPT !.draft = d, !.body = d, !.bad = Unknown(d, synth.known),
                    !.attempt = @ + 1,
                    !.pc = IF Unknown(d, synth.known) = {} THEN "write" ELSE "reject"]
  BY DEF Draft
<1>2. UNCHANGED <<cards, call, shown, stored, failures>> /\ synth.pc = "draft"
  BY DEF Draft
<1>3. d \in Seq(Symbols) /\ Unknown(d, synth.known) \in SUBSET Seq(Symbols)
  BY DraftFacts
<1>4. synth \in SynthType
  BY DEF ReportHolds, TypeOK, SynthType
<1>5. synth.attempt + 1 \in 0 .. max_attempts
  BY <1>2, <1>4 DEF ReportHolds, InHand, SynthType, max_attempts
<1>6. /\ synth'.pc = IF Unknown(d, synth.known) = {} THEN "write" ELSE "reject"
      /\ synth'.draft = d /\ synth'.body = d /\ synth'.bad = Unknown(d, synth.known)
      /\ synth'.known = synth.known /\ synth'.told = synth.told
  BY <1>1, <1>4 DEF SynthType
<1>7. synth' \in SynthType
  BY <1>1, <1>3, <1>4, <1>5 DEF SynthType
<1>8. InHand(synth', Rows)
  <2>1. synth.told \subseteq synth.known /\ synth.known \subseteq Rows
    BY <1>2 DEF ReportHolds, InHand, Working
  <2>2. CASE Unknown(d, synth.known) = {}
    <3>1. Faithful(d, d, synth.known)
      BY <1>3, <2>2, Accepted
    <3>2. QED
      BY <1>6, <2>1, <2>2, <3>1 DEF InHand
  <2>3. CASE Unknown(d, synth.known) # {}
    BY <1>6, <2>1, <2>3 DEF InHand
  <2>4. QED
    BY <2>2, <2>3
<1>9. InStore(stored', Rows) /\ failures' \in 0 .. MaxFailures
  BY <1>2 DEF ReportHolds, TypeOK
<1>10. QED
  BY <1>2, <1>7, <1>8, <1>9, NodeMoves DEF SynthType

LEMMA RejectStep ==
  ASSUME ReportHolds, Reject
  PROVE  ReportHolds'
<1>1. UNCHANGED <<cards, call, shown, stored, failures>> /\ synth.pc = "reject"
  BY DEF Reject
<1>2. synth \in SynthType
  BY DEF ReportHolds, TypeOK, SynthType
<1>3. /\ synth.told \subseteq synth.known /\ synth.known \subseteq Rows
      /\ synth.body = synth.draft /\ synth.bad = Unknown(synth.draft, synth.known)
  BY <1>1 DEF ReportHolds, InHand, Working
<1>4. InStore(stored', Rows) /\ failures' \in 0 .. MaxFailures
  BY <1>1 DEF ReportHolds, TypeOK
<1>5. CASE synth.attempt < max_attempts
  <2>1. synth' = [synth EXCEPT !.pc = "draft", !.draft = <<>>, !.body = <<>>, !.bad = {}]
    BY <1>5 DEF Reject, Discarded
  <2>2. synth' \in SynthType
    BY <1>2, <2>1, EmptySeq DEF SynthType
  <2>3. InHand(synth', Rows)
    <3>1. /\ synth'.pc = "draft" /\ synth'.attempt = synth.attempt
          /\ synth'.known = synth.known /\ synth'.told = synth.told
      BY <1>2, <2>1 DEF SynthType
    <3>2. QED
      BY <1>3, <1>5, <3>1 DEF InHand
  <2>4. QED
    BY <1>1, <1>4, <2>2, <2>3, NodeMoves DEF SynthType
<1>6. CASE ~(synth.attempt < max_attempts)
  <2>1. synth' = [synth EXCEPT !.pc = "strip"]
    BY <1>6 DEF Reject
  <2>2. synth' \in SynthType
    BY <1>2, <2>1 DEF SynthType
  <2>3. InHand(synth', Rows)
    <3>1. /\ synth'.pc = "strip" /\ synth'.known = synth.known /\ synth'.told = synth.told
          /\ synth'.draft = synth.draft /\ synth'.body = synth.draft
          /\ synth'.bad = Unknown(synth.draft, synth.known)
      BY <1>2, <1>3, <2>1 DEF SynthType
    <3>2. synth'.bad \cap Ids(synth.known) = {}
      BY <3>1 DEF Unknown
    <3>3. Cited(synth.draft) = (Cited(synth.draft) \cap Ids(synth.known))
                                  \cup Unknown(synth.draft, synth.known)
      BY DEF Unknown
    <3>4. QED
      BY <1>3, <3>1, <3>2, <3>3 DEF InHand
  <2>4. QED
    BY <1>1, <1>4, <2>2, <2>3, NodeMoves DEF SynthType
<1>7. QED
  BY <1>5, <1>6

LEMMA StripStep ==
  ASSUME ReportHolds, Strip
  PROVE  ReportHolds'
<1>1. PICK id \in synth.bad :
        synth' = [synth EXCEPT !.body = Without(@, Token(id)), !.bad = @ \ {id},
                    !.pc = IF synth.bad = {id} THEN "announce" ELSE "strip"]
  BY DEF Strip
<1>2. UNCHANGED <<cards, call, shown, stored, failures>> /\ synth.pc = "strip"
  BY DEF Strip
<1>3. synth \in SynthType
  BY DEF ReportHolds, TypeOK, SynthType
<1>4. /\ synth.told \subseteq synth.known /\ synth.known \subseteq Rows
      /\ synth.bad \cap Ids(synth.known) = {}
      /\ Tidy(synth.draft) =>
            /\ Tidy(synth.body)
            /\ Cited(synth.body) = (Cited(synth.draft) \cap Ids(synth.known)) \cup synth.bad
  BY <1>2 DEF ReportHolds, InHand, Working
<1>5. synth.body \in Seq(Symbols) /\ id \in Seq(Symbols)
  BY <1>3 DEF SynthType
<1> DEFINE w == Without(synth.body, Token(id))
<1>6. w \in Seq(Symbols)
  BY <1>5, WithoutType
<1>7. /\ synth'.pc = IF synth.bad = {id} THEN "announce" ELSE "strip"
      /\ synth'.body = w /\ synth'.bad = synth.bad \ {id} /\ synth'.draft = synth.draft
      /\ synth'.known = synth.known /\ synth'.told = synth.told
  BY <1>1, <1>3 DEF SynthType
<1>8. synth' \in SynthType
  BY <1>1, <1>3, <1>6 DEF SynthType
<1>9. Tidy(synth.draft) =>
        /\ Tidy(w)
        /\ Cited(w) = (Cited(synth.draft) \cap Ids(synth.known)) \cup (synth.bad \ {id})
  <2> SUFFICES ASSUME Tidy(synth.draft)
               PROVE  /\ Tidy(w)
                      /\ Cited(w) = (Cited(synth.draft) \cap Ids(synth.known))
                                       \cup (synth.bad \ {id})
    OBVIOUS
  <2>1. id \in Cited(synth.body) /\ Tidy(synth.body)
    BY <1>4
  <2>2. Tidy(w) /\ Cited(w) = Cited(synth.body) \ {id}
    BY <1>5, <2>1, Stripped
  <2> HIDE DEF w
  <2>3. QED
    BY <1>4, <2>2
<1> HIDE DEF w
<1>10. InHand(synth', Rows)
  <2>1. CASE synth.bad = {id}
    <3>1. synth'.pc = "announce" /\ synth.bad \ {id} = {}
      BY <1>7, <2>1
    <3>2. Faithful(synth'.draft, synth'.body, synth'.known)
      BY <1>7, <1>9, <3>1 DEF Faithful
    <3>3. QED
      BY <1>4, <1>7, <3>1, <3>2 DEF InHand
  <2>2. CASE synth.bad # {id}
    <3>1. synth'.pc = "strip"
      BY <1>7, <2>2
    <3>2. QED
      BY <1>4, <1>7, <1>9, <3>1 DEF InHand
  <2>3. QED
    BY <2>1, <2>2
<1>11. InStore(stored', Rows) /\ failures' \in 0 .. MaxFailures
  BY <1>2 DEF ReportHolds, TypeOK
<1>12. QED
  BY <1>2, <1>8, <1>10, <1>11, NodeMoves DEF SynthType

\* The steps of the node that leave what it has in hand.
LEMMA OtherStep ==
  ASSUME ReportHolds, Announce \/ Write \/ Publish \/ Fail
  PROVE  ReportHolds'
<1>1. synth \in SynthType /\ failures \in 0 .. MaxFailures /\ MaxFailures \in Nat
  BY ReportAssumption DEF ReportHolds, TypeOK, SynthType
<1>2. InHand(synth, Rows) /\ InStore(stored, Rows)
  BY DEF ReportHolds
<1>3. Waiting \in SynthType /\ InHand(Waiting, Rows)
      /\ [Waiting EXCEPT !.pc = "publish"] \in SynthType
      /\ InHand([Waiting EXCEPT !.pc = "publish"], Rows)
  <2> DEFINE y == [Waiting EXCEPT !.pc = "publish"]
  <2>1. <<>> \in Seq(Symbols) /\ 0 \in 0 .. max_attempts
    BY EmptySeq DEF max_attempts
  <2>2. Waiting \in SynthType /\ Waiting.pc = "stages"
    BY <2>1 DEF Waiting, SynthType
  <2>3. y \in SynthType /\ y.pc = "publish"
    BY <2>2 DEF SynthType
  <2> HIDE DEF y
  <2>4. InHand(y, Rows) /\ InHand(Waiting, Rows)
    BY <2>2, <2>3 DEF InHand, Working
  <2>5. QED
    BY <2>2, <2>3, <2>4 DEF y
<1>4. CASE Announce
  <2>1. /\ synth' = [synth EXCEPT !.pc = "write"] /\ synth.pc = "announce"
        /\ UNCHANGED <<cards, call, shown, stored, failures>>
    BY <1>4 DEF Announce
  <2>2. synth' \in SynthType
    BY <1>1, <2>1 DEF SynthType
  <2>3. /\ synth'.pc = "write" /\ synth'.known = synth.known /\ synth'.told = synth.told
        /\ synth'.draft = synth.draft /\ synth'.body = synth.body
    BY <1>1, <2>1 DEF SynthType
  <2>4. InHand(synth', Rows)
    BY <1>2, <2>1, <2>3 DEF InHand, Working
  <2>5. QED
    BY <1>1, <1>2, <2>1, <2>2, <2>4, NodeMoves DEF SynthType
<1>5. CASE Write
  <2> DEFINE r == [body |-> synth.body, sources |-> synth.known,
                   draft |-> synth.draft, told |-> synth.told]
  <2>1. /\ stored' = r /\ synth' = [Waiting EXCEPT !.pc = "publish"] /\ synth.pc = "write"
        /\ UNCHANGED <<cards, call, shown, failures>>
    BY <1>5 DEF Write
  <2>2. InStore(r, Rows)
    BY <1>2, <2>1 DEF InHand, InStore, Working
  <2> HIDE DEF r
  <2>3. QED
    BY <1>1, <1>3, <2>1, <2>2, NodeMoves DEF SynthType
<1>6. CASE Publish
  <2>1. /\ synth' = [synth EXCEPT !.pc = "done"]
        /\ UNCHANGED <<cards, call, shown, stored, failures>>
    BY <1>6 DEF Publish
  <2>2. synth' \in SynthType /\ synth'.pc = "done"
    BY <1>1, <2>1 DEF SynthType
  <2>3. InHand(synth', Rows)
    BY <2>2 DEF InHand, Working
  <2>4. QED
    BY <1>1, <1>2, <2>1, <2>2, <2>3, NodeMoves DEF SynthType
<1>7. CASE Fail
  <2>1. /\ synth' = Waiting /\ failures < MaxFailures /\ failures' = failures + 1
        /\ UNCHANGED <<cards, call, shown, stored>>
    BY <1>7 DEF Fail
  <2>2. failures' \in 0 .. MaxFailures
    BY <1>1, <2>1
  <2>3. QED
    BY <1>2, <1>3, <2>1, <2>2, NodeMoves DEF SynthType
<1>8. QED
  BY <1>4, <1>5, <1>6, <1>7

LEMMA ReportSteps == ReportHolds /\ [Next]_vars => ReportHolds'
<1> SUFFICES ASSUME ReportHolds, [Next]_vars
             PROVE  ReportHolds'
  OBVIOUS
<1>1. CASE Tools
  BY <1>1, SearchStep, SelectStep, InsertStep, AbandonStep, ClaimStep DEF Tools
<1>2. CASE ReadEvidence
  BY <1>2, ReadStep
<1>3. CASE Node
  BY <1>3, DraftStep, RejectStep, StripStep, OtherStep DEF Node
<1>4. CASE Fail
  BY <1>4, OtherStep
<1>5. CASE UNCHANGED vars
  <2>1. UNCHANGED <<cards, call, shown, synth, stored, failures>>
    BY <1>5 DEF vars
  <2>2. QED
    BY <2>1 DEF ReportHolds, TypeOK, Own, Told, Says, Rows
<1>6. QED
  BY <1>1, <1>2, <1>3, <1>4, <1>5 DEF Next

\* Rows and what was shown of them agree, the synthesis knows all it was told of,
\* and what it strips are the unknown citations of the draft and no others
\* (cite.py, nodes/synthesis.py).
THEOREM ReportSafe == Spec => []ReportHolds
  BY Starts, ReportSteps, PTL DEF Spec

\* Whatever the searches of a run find, claim and race for, a row says for good
\* what the models were shown with its src_id (cite.py:34, stage.py:299).
THEOREM ReportRows == Spec => []ReportInv
<1>1. ReportHolds => ReportInv
  <2> SUFFICES ASSUME ReportHolds
               PROVE  ReportInv
    OBVIOUS
  <2>1. TypeOK /\ Own /\ Told
    BY DEF ReportHolds
  <2>2. CardMatches
    <3> SUFFICES ASSUME NEW p \in shown
                 PROVE  /\ cards[p[1]] = p[3]
                        /\ \/ p[3] \in {p[2], Claimed}
                           \/ \E h \in Hits \ {p[2]} : SrcId[h] = p[1] /\ p[3] = h
      BY DEF CardMatches
    <3>1. cards[p[1]] = p[3] /\ p[3] # None
      BY <2>1 DEF Told, Says
    <3>2. p \in Cards /\ p[1] \in Srcs /\ p[3] \in Hits \cup {Claimed}
      BY <2>1, <3>1 DEF TypeOK, Cards
    <3>3. CASE p[3] \in Hits
      BY <2>1, <3>1, <3>2, <3>3 DEF Own
    <3>4. CASE p[3] = Claimed
      BY <3>1, <3>4
    <3>5. QED
      BY <3>2, <3>3, <3>4
  <2>3. QED
    BY <2>1, <2>2 DEF ReportInv
<1>2. QED
  BY <1>1, ReportSafe, PTL

\* However long the drafts, and in whatever order the inventions of the last are
\* removed, a stored report cites only evidence it lists, and lists only evidence
\* of the run, if the brackets of the draft are those of its citations
\* (synthesis.py:132).
THEOREM ReportCites == Spec => []CitesKnown
<1>1. ReportHolds => CitesKnown
  BY DEF ReportHolds, InStore, Faithful, CitesKnown
<1>2. QED
  BY <1>1, ReportSafe, PTL

\* No citation of evidence that a model was shown before the synthesis is lost with
\* the inventions (synthesis.py:120).
THEOREM ReportKeeps == Spec => []ShownKept
<1>1. ReportHolds => ShownKept
  BY DEF ReportHolds, InStore, Faithful, Ids, ShownKept
<1>2. QED
  BY <1>1, ReportSafe, PTL
=============================================================================
