--------------------------- MODULE RetrievalProofs ---------------------------
(***************************************************************************)
(* Proofs about Retrieval and Evaluation. What fusing does is shown on any *)
(* two lists whose scores never rise: sorting is a permutation, filters    *)
(* keep the order of what they keep, and no part of a fused score falls    *)
(* when a chunk moves up. The context rests on an invariant of the builder,*)
(* the metrics on the ranking being a list of distinct chunks.             *)
(***************************************************************************)
EXTENDS Evaluation, SequenceLemmas, FiniteSetTheorems, TLAPS

(* Sorting. *)

\* s in another order: p tells from where each element comes.
IsOrderOf(p, n) ==
    /\ p \in [1 .. n -> 1 .. n] /\ IsInjective(p)
    /\ \A i \in 1 .. n : \E r \in 1 .. n : p[r] = i

\* Among two positions one comes before the other, and has fewer before it.
LEMMA AheadOrders ==
    ASSUME NEW S, NEW ids \in Seq(S), NEW value, \A i \in 1 .. Len(ids) : value[i] \in Int,
           NEW i \in 1 .. Len(ids), NEW j \in 1 .. Len(ids)
    PROVE  /\ Ahead(ids, value, i) \in SUBSET (1 .. Len(ids))
           /\ Cardinality(Ahead(ids, value, i)) \in 0 .. Len(ids) - 1
           /\ i # j => i \in Ahead(ids, value, j) \/ j \in Ahead(ids, value, i)
           /\ i \in Ahead(ids, value, j) =>
                Cardinality(Ahead(ids, value, i)) < Cardinality(Ahead(ids, value, j))
<1> DEFINE n == Len(ids)
           A(k) == Ahead(ids, value, k)
<1>1. n \in Nat /\ DOMAIN ids = 1 .. n
  OBVIOUS
<1>2. \A k \in 1 .. n, l \in 1 .. n :
        l \in A(k) <=> value[l] > value[k] \/ (value[l] = value[k] /\ l < k)
  BY <1>1 DEF Ahead
<1>3. \A k \in 1 .. n : A(k) \in SUBSET (1 .. n) /\ k \notin A(k)
  BY <1>1, <1>2 DEF Ahead
<1> HIDE DEF A, n
<1>4. IsFiniteSet(1 .. n) /\ Cardinality(1 .. n) = n
  <2>1. 1 \in Int /\ n \in Int /\ 1 .. n = IF n > 0 THEN 1 .. n ELSE {}
    BY <1>1
  <2> QED
    BY <1>1, FS_Interval
<1>5. ASSUME NEW k \in 1 .. n
      PROVE  /\ IsFiniteSet(A(k)) /\ Cardinality(A(k)) \in Nat
             /\ Cardinality(A(k) \cup {k}) = Cardinality(A(k)) + 1
             /\ IsFiniteSet(A(k) \cup {k})
  <2>1. IsFiniteSet(A(k))
    BY <1>3, <1>4, FS_Subset
  <2> QED
    BY <1>3, <2>1, FS_AddElement, FS_CardinalityType
<1>6. ASSUME NEW k \in 1 .. n PROVE Cardinality(A(k)) \in 0 .. n - 1
  <2>1. A(k) \cup {k} \in SUBSET (1 .. n)
    BY <1>3
  <2>2. Cardinality(A(k) \cup {k}) <= n
    BY <1>4, <2>1, FS_Subset
  <2> QED
    BY <1>1, <1>5, <2>2
<1>7. ASSUME i \in A(j) PROVE Cardinality(A(i)) < Cardinality(A(j))
  <2>1. A(i) \cup {i} \in SUBSET A(j)
    <3> SUFFICES ASSUME NEW l \in A(i) PROVE l \in A(j)
      BY <1>7
    <3>1. l \in 1 .. n /\ value[l] \in Int /\ value[i] \in Int /\ value[j] \in Int
      BY <1>3 DEF n
    <3> QED
      BY <1>2, <1>7, <3>1 DEF n
  <2>2. IsFiniteSet(A(j)) /\ Cardinality(A(j)) \in Nat
    BY <1>5 DEF n
  <2>3. Cardinality(A(i) \cup {i}) <= Cardinality(A(j))
    BY <2>1, <2>2, FS_Subset
  <2> QED
    BY <1>5, <2>2, <2>3 DEF n
<1>8. i # j => i \in A(j) \/ j \in A(i)
  BY <1>2 DEF n
<1> QED
  BY <1>3, <1>6, <1>7, <1>8 DEF A, n

\* Sorting is a permutation that puts each element after those ahead of it.
LEMMA SortedOrders ==
    ASSUME NEW S, NEW ids \in Seq(S), NEW value, \A i \in 1 .. Len(ids) : value[i] \in Int
    PROVE  \E p : /\ IsOrderOf(p, Len(ids))
                  /\ Sorted(ids, value) = [r \in 1 .. Len(ids) |-> ids[p[r]]]
                  /\ \A r, q \in 1 .. Len(ids) :
                        p[r] \in Ahead(ids, value, p[q]) => r < q
<1> DEFINE n == Len(ids)
           size(i) == Cardinality(Ahead(ids, value, i))
           place == [i \in 1 .. n |-> size(i) + 1]
           p == [r \in 1 .. n |-> CHOOSE i \in 1 .. n : size(i) = r - 1]
<1>1. n \in Nat /\ DOMAIN ids = 1 .. n
  OBVIOUS
<1>2. \A i, j \in 1 .. n : /\ size(i) \in 0 .. n - 1
                           /\ i # j => i \in Ahead(ids, value, j) \/ j \in Ahead(ids, value, i)
                           /\ i \in Ahead(ids, value, j) => size(i) < size(j)
  BY AheadOrders
<1>3. Sorted(ids, value) = [r \in 1 .. n |-> ids[p[r]]]
  BY <1>1 DEF Sorted
<1> HIDE DEF n, size
<1>4. place \in Injection(1 .. n, 1 .. n)
  <2>1. place \in [1 .. n -> 1 .. n]
    <3> SUFFICES ASSUME NEW i \in 1 .. n PROVE size(i) + 1 \in 1 .. n
      OBVIOUS
    <3> QED
      BY <1>1, <1>2
  <2>2. ASSUME NEW i \in 1 .. n, NEW j \in 1 .. n, i # j PROVE place[i] # place[j]
    BY <1>1, <1>2, <2>2
  <2> QED
    BY <2>1, <2>2 DEF Injection, IsInjective
<1>5. IsFiniteSet(1 .. n)
  <2>1. 1 \in Int /\ n \in Int
    BY <1>1
  <2> QED
    BY <2>1, FS_Interval
<1>6. place \in Surjection(1 .. n, 1 .. n)
  <2> HIDE DEF place
  <2> QED
    BY <1>4, <1>5, FS_Injection
<1>7. ASSUME NEW r \in 1 .. n PROVE p[r] \in 1 .. n /\ size(p[r]) = r - 1
  <2>1. \E i \in 1 .. n : place[i] = r
    BY <1>6 DEF Surjection
  <2>2. \E i \in 1 .. n : size(i) = r - 1
    BY <1>1, <1>2, <2>1
  <2> QED
    BY <2>2
<1>8. p \in [1 .. n -> 1 .. n]
  BY <1>7
<1> HIDE DEF p, place
<1>9. IsInjective(p)
  BY <1>1, <1>7, <1>8 DEF IsInjective
<1>10. ASSUME NEW i \in 1 .. n PROVE \E r \in 1 .. n : p[r] = i
  <2>1. size(i) + 1 \in 1 .. n
    BY <1>1, <1>2
  <2>2. p[size(i) + 1] \in 1 .. n /\ size(p[size(i) + 1]) = size(i)
    BY <1>1, <1>2, <1>7, <2>1
  <2>3. p[size(i) + 1] = i
    BY <1>2, <2>2
  <2> QED
    BY <2>1, <2>3
<1>11. ASSUME NEW r \in 1 .. n, NEW q \in 1 .. n, p[r] \in Ahead(ids, value, p[q])
       PROVE  r < q
  <2>1. size(p[r]) < size(p[q]) /\ size(p[r]) = r - 1 /\ size(p[q]) = q - 1
    BY <1>2, <1>7, <1>11
  <2> QED
    BY <1>1, <2>1
<1> QED
  BY <1>3, <1>8, <1>9, <1>10, <1>11 DEF IsOrderOf, n

-----------------------------------------------------------------------------
(* Folds that keep some elements of a list. *)

\* A fold that keeps some elements: h is what it has after each of them.
IsFilterRun(h, s, S) ==
    /\ h \in [0 .. Len(s) -> Seq(S)] /\ h[0] = <<>>
    /\ \A i \in 1 .. Len(s) : h[i] = h[i - 1] \/ h[i] = Append(h[i - 1], s[i])

\* What such a run consists of.
LEMMA FilterRunTyped ==
    ASSUME NEW S, NEW s \in Seq(S), NEW h, IsFilterRun(h, s, S)
    PROVE  /\ Len(s) \in Nat /\ h[0] = <<>>
           /\ \A k \in 0 .. Len(s) : h[k] \in Seq(S) /\ Len(h[k]) \in Nat
           /\ \A k \in 1 .. Len(s) : h[k] = h[k - 1] \/ h[k] = Append(h[k - 1], s[k])
           /\ \A k \in 1 .. Len(s) : s[k] \in S
<1>1. \A k \in 0 .. Len(s) : h[k] \in Seq(S)
  BY DEF IsFilterRun
<1>2. \A t \in Seq(S) : Len(t) \in Nat
  OBVIOUS
<1>3. \A k \in 1 .. Len(s) : s[k] \in S
  OBVIOUS
<1> QED
  BY <1>1, <1>2, <1>3 DEF IsFilterRun

\* What is kept stays where it is.
LEMMA KeptStays ==
    ASSUME NEW S, NEW s \in Seq(S), NEW h, IsFilterRun(h, s, S),
           NEW j \in 0 .. Len(s), NEW i \in 0 .. j
    PROVE  Len(h[i]) <= Len(h[j]) /\ \A a \in 1 .. Len(h[i]) : h[j][a] = h[i][a]
<1> DEFINE n == Len(s)
           Extends(k) == Len(h[i]) <= Len(h[k]) /\ \A a \in 1 .. Len(h[i]) : h[k][a] = h[i][a]
           G == {k \in 0 .. n : k < i \/ Extends(k)}
<1>1. /\ n \in Nat /\ i \in 0 .. n /\ j \in 0 .. n
      /\ \A k \in 0 .. n : h[k] \in Seq(S) /\ Len(h[k]) \in Nat
      /\ \A k \in 1 .. n : h[k] = h[k - 1] \/ h[k] = Append(h[k - 1], s[k])
      /\ \A k \in 1 .. n : s[k] \in S
  <2>1. /\ Len(s) \in Nat /\ h[0] = <<>>
        /\ \A k \in 0 .. Len(s) : h[k] \in Seq(S) /\ Len(h[k]) \in Nat
        /\ \A k \in 1 .. Len(s) : h[k] = h[k - 1] \/ h[k] = Append(h[k - 1], s[k])
        /\ \A k \in 1 .. Len(s) : s[k] \in S
    BY FilterRunTyped
  <2> HIDE DEF Extends, G
  <2> QED
    BY <2>1
<1> HIDE DEF n
<1>2. 0 \in G
  <2>1. CASE i = 0
    BY <1>1, <2>1
  <2>2. CASE i # 0
    BY <1>1, <2>2
  <2> QED
    BY <2>1, <2>2
<1>3. ASSUME NEW k \in 1 .. n, k - 1 \in G PROVE k \in G
  <2>1. k \in 0 .. n /\ k - 1 \in 0 .. n /\ k \in Nat /\ i \in Nat
    BY <1>1
  <2>2. CASE k < i
    BY <2>1, <2>2
  <2>3. CASE k = i
    BY <1>1, <2>1, <2>3
  <2>4. CASE i < k
    <3>1. Extends(k - 1)
      BY <1>3, <2>1, <2>4
    <3>2. Len(h[k - 1]) <= Len(h[k]) /\ \A a \in 1 .. Len(h[k - 1]) : h[k][a] = h[k - 1][a]
      <4>1. CASE h[k] = h[k - 1]
        BY <1>1, <2>1, <4>1
      <4>2. CASE h[k] = Append(h[k - 1], s[k])
        <5>1. h[k - 1] \in Seq(S) /\ s[k] \in S
          BY <1>1, <2>1
        <5> QED
          BY <4>2, <5>1, AppendProperties
      <4> QED
        BY <1>1, <4>1, <4>2
    <3>3. Len(h[i]) \in Nat /\ Len(h[k - 1]) \in Nat /\ Len(h[k]) \in Nat
      BY <1>1, <2>1
    <3>4. Extends(k)
      BY <3>1, <3>2, <3>3
    <3> QED
      BY <2>1, <3>4
  <2> QED
    BY <2>1, <2>2, <2>3, <2>4
<1>4. j \in G
  <2> HIDE DEF G
  <2> QED
    BY <1>1, <1>2, <1>3, UpToInduction
<1>5. i \in Nat /\ j \in Nat /\ ~(j < i)
  OBVIOUS
<1> QED
  BY <1>4, <1>5

\* Where an element that is kept comes from.
LEMMA KeptFrom ==
    ASSUME NEW S, NEW s \in Seq(S), NEW h, IsFilterRun(h, s, S),
           NEW j \in 0 .. Len(s), NEW a \in 1 .. Len(h[j])
    PROVE  \E i \in 1 .. j : /\ Len(h[i - 1]) = a - 1 /\ Len(h[i]) = a
                             /\ h[i] = Append(h[i - 1], s[i])
                             /\ h[j][a] = s[i]
<1> DEFINE n == Len(s)
           From(k, b) == \E i \in 1 .. k : /\ Len(h[i - 1]) = b - 1 /\ Len(h[i]) = b
                                           /\ h[i] = Append(h[i - 1], s[i])
                                           /\ h[k][b] = s[i]
           G == {k \in 0 .. n : \A b \in 1 .. Len(h[k]) : From(k, b)}
<1>1. /\ n \in Nat /\ j \in 0 .. n
      /\ \A k \in 0 .. n : h[k] \in Seq(S) /\ Len(h[k]) \in Nat
      /\ h[0] = <<>>
      /\ \A k \in 1 .. n : h[k] = h[k - 1] \/ h[k] = Append(h[k - 1], s[k])
      /\ \A k \in 1 .. n : s[k] \in S
  <2>1. /\ Len(s) \in Nat /\ h[0] = <<>>
        /\ \A k \in 0 .. Len(s) : h[k] \in Seq(S) /\ Len(h[k]) \in Nat
        /\ \A k \in 1 .. Len(s) : h[k] = h[k - 1] \/ h[k] = Append(h[k - 1], s[k])
        /\ \A k \in 1 .. Len(s) : s[k] \in S
    BY FilterRunTyped
  <2> HIDE DEF From, G
  <2> QED
    BY <2>1
<1> HIDE DEF n
<1>2. 0 \in G
  <2>1. Len(h[0]) = 0 /\ 1 .. 0 = {}
    BY <1>1
  <2> QED
    BY <1>1, <2>1
<1>3. ASSUME NEW k \in 1 .. n, k - 1 \in G PROVE k \in G
  <2>1. k \in 0 .. n /\ k - 1 \in 0 .. n /\ k \in Nat
    BY <1>1
  <2> SUFFICES ASSUME NEW b \in 1 .. Len(h[k]) PROVE From(k, b)
    BY <2>1
  <2>2. ASSUME b \in 1 .. Len(h[k - 1]), h[k][b] = h[k - 1][b] PROVE From(k, b)
    <3>1. From(k - 1, b)
      BY <1>3, <2>2
    <3>2. PICK i \in 1 .. k - 1 : /\ Len(h[i - 1]) = b - 1 /\ Len(h[i]) = b
                                  /\ h[i] = Append(h[i - 1], s[i])
                                  /\ h[k - 1][b] = s[i]
      BY <3>1
    <3>3. i \in 1 .. k
      BY <2>1
    <3> QED
      BY <2>2, <3>2, <3>3
  <2>3. CASE h[k] = h[k - 1]
    BY <2>2, <2>3
  <2>4. CASE h[k] = Append(h[k - 1], s[k])
    <3>1. h[k - 1] \in Seq(S) /\ s[k] \in S
      BY <1>1, <2>1
    <3>2. /\ Len(h[k]) = Len(h[k - 1]) + 1 /\ h[k][Len(h[k - 1]) + 1] = s[k]
          /\ \A c \in 1 .. Len(h[k - 1]) : h[k][c] = h[k - 1][c]
      BY <2>4, <3>1, AppendProperties
    <3>3. Len(h[k - 1]) \in Nat
      BY <1>1, <2>1
    <3>4. CASE b = Len(h[k - 1]) + 1
      <4>1. k \in 1 .. k /\ b - 1 = Len(h[k - 1])
        BY <2>1, <3>3, <3>4
      <4> QED
        BY <2>4, <3>2, <3>4, <4>1
    <3>5. CASE b # Len(h[k - 1]) + 1
      <4>1. b \in 1 .. Len(h[k - 1])
        BY <3>2, <3>3, <3>5
      <4> QED
        BY <2>2, <3>2, <4>1
    <3> QED
      BY <3>4, <3>5
  <2> QED
    BY <1>1, <2>3, <2>4
<1>4. j \in G
  <2> HIDE DEF G
  <2> QED
    BY <1>1, <1>2, <1>3, UpToInduction
<1> QED
  BY <1>4

\* r is s without some of its elements: at tells where each one is in s.
Sublist(r, s) ==
    \E at \in [1 .. Len(r) -> 1 .. Len(s)] :
        /\ \A a, b \in 1 .. Len(r) : a < b => at[a] < at[b]
        /\ \A a \in 1 .. Len(r) : r[a] = s[at[a]]

\* What is kept is a sublist.
LEMMA FilterIsSublist ==
    ASSUME NEW S, NEW s \in Seq(S), NEW h, IsFilterRun(h, s, S)
    PROVE  Sublist(h[Len(s)], s)
<1> DEFINE n == Len(s)
           r == h[n]
           From(a, i) == Len(h[i - 1]) = a - 1 /\ Len(h[i]) = a /\ r[a] = s[i]
           at == [a \in 1 .. Len(r) |-> CHOOSE i \in 1 .. n : From(a, i)]
<1>1. n \in Nat /\ n \in 0 .. n /\ Len(r) \in Nat /\ \A k \in 0 .. n : Len(h[k]) \in Nat
  BY DEF IsFilterRun
<1>2. ASSUME NEW a \in 1 .. Len(r) PROVE \E i \in 1 .. n : From(a, i)
  <2>1. Len(s) \in 0 .. Len(s) /\ a \in 1 .. Len(h[Len(s)])
    BY <1>1
  <2>2. PICK i \in 1 .. Len(s) : /\ Len(h[i - 1]) = a - 1 /\ Len(h[i]) = a
                                 /\ h[i] = Append(h[i - 1], s[i])
                                 /\ h[Len(s)][a] = s[i]
    <3>1. \A j \in 0 .. Len(s) : \A b \in 1 .. Len(h[j]) :
            \E i \in 1 .. j : /\ Len(h[i - 1]) = b - 1 /\ Len(h[i]) = b
                             /\ h[i] = Append(h[i - 1], s[i])
                             /\ h[j][b] = s[i]
      BY KeptFrom
    <3> HIDE DEF n, r
    <3> QED
      BY <2>1, <3>1
  <2> QED
    BY <2>2
<1>3. \A a \in 1 .. Len(r) : at[a] \in 1 .. n /\ From(a, at[a])
  <2> HIDE DEF From, r, n
  <2> QED
    BY <1>2
<1>4. ASSUME NEW a \in 1 .. Len(r), NEW b \in 1 .. Len(r), a < b PROVE at[a] < at[b]
  <2> DEFINE i == at[a]
             j == at[b]
  <2>1. i \in 1 .. n /\ j \in 1 .. n /\ From(a, i) /\ From(b, j)
    BY <1>3
  <2> HIDE DEF i, j, at
  <2>2. ASSUME ~(i < j) PROVE FALSE
    <3>1. i - 1 \in 0 .. n /\ j - 1 \in 0 .. i - 1 /\ i - 1 \in 0 .. Len(s)
      BY <1>1, <2>1, <2>2
    <3>2. Len(h[j - 1]) <= Len(h[i - 1])
      <4> HIDE DEF n, r, From
      <4> QED
        BY <3>1, KeptStays
    <3>3. Len(h[j - 1]) = b - 1 /\ Len(h[i - 1]) = a - 1
      BY <2>1
    <3> HIDE DEF r, n, From
    <3>4. b - 1 <= a - 1
      BY <3>2, <3>3
    <3> QED
      BY <1>1, <1>4, <3>4
  <2> QED
    BY <2>2 DEF i, j
<1>5. at \in [1 .. Len(r) -> 1 .. n]
  <2> HIDE DEF From, r, n
  <2> QED
    BY <1>3
<1> HIDE DEF at
<1>6. \A a \in 1 .. Len(r) : r[a] = s[at[a]]
  BY <1>3
<1> QED
  BY <1>4, <1>5, <1>6 DEF Sublist

\* The order and the elements of a list without repetition, and of its sublist.
LEMMA SublistOrders ==
    ASSUME NEW S, NEW s \in Seq(S), NEW r \in Seq(S), Sublist(r, s), IsInjective(s)
    PROVE  /\ IsInjective(r) /\ Range(r) \subseteq Range(s)
           /\ \A x, y \in Range(r) : Earlier(s, x, y) <=> Earlier(r, x, y)
<1>1. /\ DOMAIN s = 1 .. Len(s) /\ DOMAIN r = 1 .. Len(r) /\ Len(s) \in Nat /\ Len(r) \in Nat
  OBVIOUS
<1>2. PICK at \in [1 .. Len(r) -> 1 .. Len(s)] :
        /\ \A a, b \in 1 .. Len(r) : a < b => at[a] < at[b]
        /\ \A a \in 1 .. Len(r) : r[a] = s[at[a]]
  BY DEF Sublist
<1>3. ASSUME NEW a \in 1 .. Len(r), NEW b \in 1 .. Len(r)
      PROVE  /\ a < b <=> at[a] < at[b]
             /\ r[a] = r[b] => a = b
  <2>1. a < b \/ a = b \/ b < a
    OBVIOUS
  <2>2. at[a] \in Nat /\ at[b] \in Nat /\ at[a] \in DOMAIN s /\ at[b] \in DOMAIN s
    BY <1>1
  <2>3. r[a] = r[b] => at[a] = at[b]
    BY <1>2, <2>2 DEF IsInjective
  <2> QED
    BY <1>2, <2>1, <2>2, <2>3
<1>4. IsInjective(r)
  BY <1>1, <1>3 DEF IsInjective
<1>5. Range(r) \subseteq Range(s)
  BY <1>1, <1>2 DEF Range
<1>6. ASSUME NEW x \in Range(r), NEW y \in Range(r)
      PROVE  Earlier(s, x, y) <=> Earlier(r, x, y)
  <2>1. PICK a \in 1 .. Len(r), b \in 1 .. Len(r) : x = r[a] /\ y = r[b]
    BY <1>1 DEF Range
  <2>2. Earlier(r, x, y) <=> a < b
    BY <1>1, <1>3, <2>1 DEF Earlier
  <2>3. Earlier(s, x, y) <=> at[a] < at[b]
    BY <1>1, <1>2, <2>1 DEF Earlier, IsInjective
  <2> QED
    BY <1>3, <2>2, <2>3
<1> QED
  BY <1>4, <1>5, <1>6

-----------------------------------------------------------------------------
(* Deduplication and the cap, one chunk after the other. *)

\* What deduplication and the cap have kept after each chunk.
IsDistinctRun(h, s) ==
    /\ IsFilterRun(h, s, Chunks) /\ Distinct(s) = h[Len(s)]
    /\ \A i \in 1 .. Len(s) :
          h[i] = IF Words[s[i]] = {} \/ \E k \in DOMAIN h[i - 1] : Similar(s[i], h[i - 1][k])
                 THEN h[i - 1] ELSE Append(h[i - 1], s[i])

IsCappedRun(h, s) ==
    /\ IsFilterRun(h, s, Chunks) /\ Capped(s) = h[Len(s)]
    /\ \A i \in 1 .. Len(s) :
          h[i] = IF OfPaper(h[i - 1], Paper[s[i]]) >= MaxPerPaper
                 THEN h[i - 1] ELSE Append(h[i - 1], s[i])

\* Deduplication is such a run.
LEMMA DistinctRuns ==
    ASSUME NEW s \in Seq(Chunks)
    PROVE  \E h : IsDistinctRun(h, s)
<1> DEFINE n == Len(s)
           Op(kept, c) == IF Words[c] = {} \/ \E k \in DOMAIN kept : Similar(c, kept[k]) THEN kept
                         ELSE Append(kept, c)
           step == [i \in 1 .. n |-> [kept \in Seq(Chunks) |-> Op(kept, s[i])]]
           it == CHOOSE f : f = [t \in SUBSET (1 .. n) |->
                                   IF t = {} THEN <<>> ELSE Op(f[t \ {Max(t)}], s[Max(t)])]
<1>1. n \in Nat /\ DOMAIN s = 1 .. n /\ <<>> \in Seq(Chunks)
  OBVIOUS
<1>2. IsStep(step, Seq(Chunks), n)
      /\ \A i \in 1 .. n, kept \in Seq(Chunks) : step[i][kept] = Op(kept, s[i])
  <2>1. ASSUME NEW i \in 1 .. n, NEW kept \in Seq(Chunks) PROVE Op(kept, s[i]) \in Seq(Chunks)
    BY <1>1
  <2> HIDE DEF Op
  <2> QED
    BY <1>1, <2>1 DEF IsStep
<1>3. \A t \in SUBSET (1 .. n) : t # {} => Max(t) \in 1 .. n /\ t \ {Max(t)} \in SUBSET (1 .. n)
  BY <1>1, MaxOfPositions
<1>4. it = [t \in SUBSET (1 .. n) |->
              IF t = {} THEN <<>> ELSE Op(it[t \ {Max(t)}], s[Max(t)])]
  <2>1. PICK f : f \in [SUBSET (1 .. n) -> Seq(Chunks)] /\ Iterates(f, step, <<>>, Seq(Chunks), n)
    <3> HIDE DEF step, n, Op
    <3> QED
      BY <1>1, <1>2, IterationExists
  <2>2. f = [t \in SUBSET (1 .. n) |->
               IF t = {} THEN <<>> ELSE Op(f[t \ {Max(t)}], s[Max(t)])]
    <3> HIDE DEF step, n, Op
    <3> QED
      BY <2>1, <1>2, <1>3 DEF Iterates
  <2> QED
    BY <2>2
<1>5. Distinct(s) = it[1 .. n]
  BY <1>1 DEF Distinct, FoldLeft, MapThenFoldSet
<1> HIDE DEF step, it, n, Op
<1>6. Iterates(it, step, <<>>, Seq(Chunks), n)
  BY <1>2, <1>3, <1>4 DEF Iterates
<1>7. PICK h : IsRun(h, step, <<>>, Seq(Chunks), n, it[1 .. n])
  BY <1>1, <1>2, <1>6, IterationRuns
<1>8. h \in [0 .. n -> Seq(Chunks)] /\ \A i \in 1 .. n : h[i] = Op(h[i - 1], s[i])
  <2>1. \A i \in 1 .. n : h[i - 1] \in Seq(Chunks)
    BY <1>1, <1>7 DEF IsRun
  <2> QED
    BY <1>1, <1>2, <1>7, <2>1 DEF IsRun
<1> QED
  BY <1>5, <1>7, <1>8 DEF IsRun, n, Op, IsFilterRun, IsDistinctRun

\* So is the cap.
LEMMA CappedRuns ==
    ASSUME NEW s \in Seq(Chunks)
    PROVE  \E h : IsCappedRun(h, s)
<1> DEFINE n == Len(s)
           Op(kept, c) == IF OfPaper(kept, Paper[c]) >= MaxPerPaper THEN kept ELSE Append(kept, c)
           step == [i \in 1 .. n |-> [kept \in Seq(Chunks) |-> Op(kept, s[i])]]
           it == CHOOSE f : f = [t \in SUBSET (1 .. n) |->
                                   IF t = {} THEN <<>> ELSE Op(f[t \ {Max(t)}], s[Max(t)])]
<1>1. n \in Nat /\ DOMAIN s = 1 .. n /\ <<>> \in Seq(Chunks)
  OBVIOUS
<1>2. IsStep(step, Seq(Chunks), n)
      /\ \A i \in 1 .. n, kept \in Seq(Chunks) : step[i][kept] = Op(kept, s[i])
  <2>1. ASSUME NEW i \in 1 .. n, NEW kept \in Seq(Chunks) PROVE Op(kept, s[i]) \in Seq(Chunks)
    BY <1>1
  <2> HIDE DEF Op
  <2> QED
    BY <1>1, <2>1 DEF IsStep
<1>3. \A t \in SUBSET (1 .. n) : t # {} => Max(t) \in 1 .. n /\ t \ {Max(t)} \in SUBSET (1 .. n)
  BY <1>1, MaxOfPositions
<1>4. it = [t \in SUBSET (1 .. n) |->
              IF t = {} THEN <<>> ELSE Op(it[t \ {Max(t)}], s[Max(t)])]
  <2>1. PICK f : f \in [SUBSET (1 .. n) -> Seq(Chunks)] /\ Iterates(f, step, <<>>, Seq(Chunks), n)
    <3> HIDE DEF step, n, Op
    <3> QED
      BY <1>1, <1>2, IterationExists
  <2>2. f = [t \in SUBSET (1 .. n) |->
               IF t = {} THEN <<>> ELSE Op(f[t \ {Max(t)}], s[Max(t)])]
    <3> HIDE DEF step, n, Op
    <3> QED
      BY <2>1, <1>2, <1>3 DEF Iterates
  <2> QED
    BY <2>2
<1>5. Capped(s) = it[1 .. n]
  BY <1>1 DEF Capped, FoldLeft, MapThenFoldSet
<1> HIDE DEF step, it, n, Op
<1>6. Iterates(it, step, <<>>, Seq(Chunks), n)
  BY <1>2, <1>3, <1>4 DEF Iterates
<1>7. PICK h : IsRun(h, step, <<>>, Seq(Chunks), n, it[1 .. n])
  BY <1>1, <1>2, <1>6, IterationRuns
<1>8. h \in [0 .. n -> Seq(Chunks)] /\ \A i \in 1 .. n : h[i] = Op(h[i - 1], s[i])
  <2>1. \A i \in 1 .. n : h[i - 1] \in Seq(Chunks)
    BY <1>1, <1>7 DEF IsRun
  <2> QED
    BY <1>1, <1>2, <1>7, <2>1 DEF IsRun
<1> QED
  BY <1>5, <1>7, <1>8 DEF IsRun, n, Op, IsFilterRun, IsCappedRun

\* Cutting a list keeps its first elements.
LEMMA CutIsPrefix ==
    ASSUME NEW S, NEW s \in Seq(S), NEW m \in Nat
    PROVE  /\ Cut(s, m) \in Seq(S)
           /\ Len(Cut(s, m)) = IF m < Len(s) THEN m ELSE Len(s)
           /\ \A a \in 1 .. Len(Cut(s, m)) : Cut(s, m)[a] = s[a]
<1> DEFINE k == IF m < Len(s) THEN m ELSE Len(s)
<1>1. k \in Int /\ 1 \in Int /\ k <= Len(s) /\ 0 <= k /\ Len(s) \in Nat
  OBVIOUS
<1>2. Cut(s, m) = SubSeq(s, 1, k)
  BY DEF Cut
<1> HIDE DEF k
<1>3. /\ SubSeq(s, 1, k) \in Seq(S)
      /\ Len(SubSeq(s, 1, k)) = IF 1 <= k THEN k - 1 + 1 ELSE 0
      /\ \A i \in 1 .. Len(SubSeq(s, 1, k)) : SubSeq(s, 1, k)[i] = s[1 + i - 1]
  BY <1>1, PieceOf
<1>4. Len(Cut(s, m)) = k
  BY <1>1, <1>2, <1>3
<1> QED
  BY <1>1, <1>2, <1>3, <1>4 DEF k

\* So it gives a sublist.
LEMMA CutIsSublist ==
    ASSUME NEW S, NEW s \in Seq(S), NEW m \in Nat
    PROVE  Sublist(Cut(s, m), s)
<1> DEFINE r == Cut(s, m)
           at == [a \in 1 .. Len(r) |-> a]
<1>1. r \in Seq(S) /\ Len(r) \in Nat /\ Len(s) \in Nat /\ Len(r) <= Len(s)
      /\ \A a \in 1 .. Len(r) : r[a] = s[a]
  BY CutIsPrefix
<1> HIDE DEF r
<1>2. at \in [1 .. Len(r) -> 1 .. Len(s)]
  BY <1>1
<1> QED
  BY <1>1, <1>2 DEF Sublist, r

\* A chunk that deduplication drops is like one that it kept before.
LEMMA DroppedIsSaid ==
    ASSUME NEW s \in Seq(Chunks), NEW x \in Range(s) \ Range(Distinct(s))
    PROVE  \/ Words[x] = {}
           \/ \E c \in Range(Distinct(s)) : Earlier(s, c, x) /\ Similar(x, c)
<1>1. PICK h : IsDistinctRun(h, s)
  BY DistinctRuns
<1> DEFINE n == Len(s)
<1>2. /\ n \in Nat /\ DOMAIN s = 1 .. n
      /\ \A k \in 0 .. n : h[k] \in Seq(Chunks) /\ Len(h[k]) \in Nat /\ DOMAIN h[k] = 1 .. Len(h[k])
  <2>1. \A t \in Seq(Chunks) : DOMAIN t = 1 .. Len(t)
    OBVIOUS
  <2> QED
    BY <1>1, <2>1, FilterRunTyped DEF IsDistinctRun
<1>3. IsFilterRun(h, s, Chunks) /\ Distinct(s) = h[n]
      /\ \A i \in 1 .. n :
          h[i] = IF Words[s[i]] = {} \/ \E k \in DOMAIN h[i - 1] : Similar(s[i], h[i - 1][k])
                 THEN h[i - 1] ELSE Append(h[i - 1], s[i])
  BY <1>1 DEF IsDistinctRun
<1>4. PICK i \in 1 .. n : s[i] = x
  BY <1>2 DEF Range
<1>5. i \in 0 .. n /\ i - 1 \in 0 .. n /\ n \in 0 .. n /\ i \in 0 .. Len(s) /\ n \in 0 .. Len(s)
      /\ i \in 0 .. n /\ i - 1 \in 0 .. Len(s)
  BY <1>2
<1>6. ASSUME NEW a \in 1 .. Len(h[i]) PROVE h[i][a] \in Range(Distinct(s))
  <2>1. Len(h[i]) <= Len(h[n]) /\ \A b \in 1 .. Len(h[i]) : h[n][b] = h[i][b]
    <3> HIDE DEF n
    <3> QED
      BY <1>3, <1>5, KeptStays
  <2>2. a \in DOMAIN h[n]
    BY <1>2, <1>5, <2>1
  <2> QED
    BY <1>3, <2>1, <2>2 DEF Range
<1>7. CASE Words[x] = {} \/ \E k \in DOMAIN h[i - 1] : Similar(x, h[i - 1][k])
  <2>1. h[i] = h[i - 1]
    BY <1>3, <1>4, <1>7
  <2>2. ASSUME NEW k \in DOMAIN h[i - 1], Similar(x, h[i - 1][k])
        PROVE  \E c \in Range(Distinct(s)) : Earlier(s, c, x) /\ Similar(x, c)
    <3>1. k \in 1 .. Len(h[i - 1])
      BY <1>2, <1>5
    <3>2. h[i - 1][k] \in Range(Distinct(s))
      BY <1>6, <2>1, <3>1
    <3>3. PICK j \in 1 .. i - 1 : h[i - 1][k] = s[j]
      <4>1. \A q \in 0 .. Len(s) : \A b \in 1 .. Len(h[q]) :
              \E j \in 1 .. q : /\ Len(h[j - 1]) = b - 1 /\ Len(h[j]) = b
                                /\ h[j] = Append(h[j - 1], s[j])
                                /\ h[q][b] = s[j]
        BY <1>3, KeptFrom
      <4> QED
        BY <1>5, <3>1, <4>1
    <3>4. j \in DOMAIN s /\ i \in DOMAIN s /\ j < i
      BY <1>2
    <3>5. Earlier(s, h[i - 1][k], x)
      BY <1>4, <3>3, <3>4 DEF Earlier
    <3> QED
      BY <2>2, <3>2, <3>5
  <2> QED
    BY <1>7, <2>2
<1>8. CASE ~(Words[x] = {} \/ \E k \in DOMAIN h[i - 1] : Similar(x, h[i - 1][k]))
  <2>1. h[i] = Append(h[i - 1], x)
    BY <1>3, <1>4, <1>8
  <2>2. h[i - 1] \in Seq(Chunks) /\ x \in Chunks
    BY <1>2, <1>4, <1>5
  <2>3. Len(h[i]) \in 1 .. Len(h[i]) /\ h[i][Len(h[i])] = x
    BY <2>1, <2>2
  <2> QED
    BY <1>6, <2>3
<1> QED
  BY <1>7, <1>8

\* Places of a paper in a list, and in one that starts with it.
LEMMA PaperCount ==
    ASSUME NEW s \in Seq(Chunks), NEW r \in Seq(Chunks), NEW p, Len(r) <= Len(s),
           \A a \in 1 .. Len(r) : r[a] = s[a]
    PROVE  OfPaper(r, p) \in Nat /\ OfPaper(s, p) \in Nat /\ OfPaper(r, p) <= OfPaper(s, p)
<1> DEFINE A == {i \in DOMAIN r : Paper[r[i]] = p}
           B == {i \in DOMAIN s : Paper[s[i]] = p}
<1>1. Len(s) \in Nat /\ Len(r) \in Nat /\ DOMAIN s = 1 .. Len(s) /\ DOMAIN r = 1 .. Len(r)
  OBVIOUS
<1>2. A \in SUBSET B /\ B \in SUBSET (1 .. Len(s))
  BY <1>1
<1>3. IsFiniteSet(1 .. Len(s))
  BY <1>1, FS_Interval
<1> HIDE DEF A, B
<1>4. IsFiniteSet(B) /\ IsFiniteSet(A)
  BY <1>2, <1>3, FS_Subset
<1>5. Cardinality(A) \in Nat /\ Cardinality(B) \in Nat /\ Cardinality(A) <= Cardinality(B)
  BY <1>2, <1>4, FS_Subset, FS_CardinalityType
<1> QED
  BY <1>5 DEF OfPaper, A, B

\* One more chunk takes one place of its own paper at most, and none of another.
LEMMA PaperCountAppend ==
    ASSUME NEW s \in Seq(Chunks), NEW c \in Chunks, NEW p
    PROVE  /\ OfPaper(s, p) \in Nat
           /\ OfPaper(Append(s, c), p) <= OfPaper(s, p) + 1
           /\ Paper[c] # p => OfPaper(Append(s, c), p) = OfPaper(s, p)
<1> DEFINE t == Append(s, c)
           A == {i \in DOMAIN s : Paper[s[i]] = p}
           B == {i \in DOMAIN t : Paper[t[i]] = p}
           e == Len(s) + 1
<1>1. /\ Len(s) \in Nat /\ DOMAIN s = 1 .. Len(s) /\ DOMAIN t = 1 .. e
      /\ t[e] = c /\ \A i \in 1 .. Len(s) : t[i] = s[i]
  OBVIOUS
<1> HIDE DEF t
<1>2. A \in SUBSET (1 .. Len(s)) /\ e \notin A
      /\ B = (IF Paper[c] = p THEN A \cup {e} ELSE A)
  <2>1. e \notin 1 .. Len(s) /\ e \in 1 .. e /\ \A i \in 1 .. e : i = e \/ i \in 1 .. Len(s)
    BY <1>1
  <2> HIDE DEF e
  <2> QED
    BY <1>1, <2>1
<1>3. IsFiniteSet(1 .. Len(s))
  BY <1>1, FS_Interval
<1> HIDE DEF A, B, e
<1>4. IsFiniteSet(A) /\ Cardinality(A) \in Nat
  BY <1>2, <1>3, FS_Subset, FS_CardinalityType
<1>5. Cardinality(A \cup {e}) = Cardinality(A) + 1
  BY <1>2, <1>4, FS_AddElement
<1>6. Cardinality(B) <= Cardinality(A) + 1 /\ (Paper[c] # p => Cardinality(B) = Cardinality(A))
  BY <1>2, <1>4, <1>5
<1> QED
  BY <1>4, <1>6 DEF OfPaper, A, B, t

\* The cap is never exceeded.
LEMMA CapHolds ==
    ASSUME NEW s \in Seq(Chunks), NEW h, IsCappedRun(h, s), NEW p
    PROVE  \A i \in 0 .. Len(s) : OfPaper(h[i], p) \in 0 .. MaxPerPaper
<1> DEFINE n == Len(s)
           G == {i \in 0 .. n : OfPaper(h[i], p) \in 0 .. MaxPerPaper}
<1>1. MaxPerPaper \in Nat \ {0}
  BY RetrievalAssumption DEF RetrievalSettings
<1>2. /\ n \in Nat /\ h[0] = <<>> /\ \A k \in 0 .. n : h[k] \in Seq(Chunks)
      /\ \A k \in 1 .. n : s[k] \in Chunks
  BY FilterRunTyped DEF IsCappedRun
<1>3. \A i \in 1 .. n :
          h[i] = IF OfPaper(h[i - 1], Paper[s[i]]) >= MaxPerPaper
                 THEN h[i - 1] ELSE Append(h[i - 1], s[i])
  BY DEF IsCappedRun
<1>4. 0 \in G
  <2>1. {i \in DOMAIN <<>> : Paper[<<>>[i]] = p} = {}
    OBVIOUS
  <2>2. OfPaper(<<>>, p) = 0
    BY <2>1, FS_EmptySet DEF OfPaper
  <2> QED
    BY <1>1, <1>2, <2>2
<1> HIDE DEF n
<1>5. ASSUME NEW i \in 1 .. n, i - 1 \in G PROVE i \in G
  <2>1. /\ i \in 0 .. n /\ i - 1 \in 0 .. n /\ h[i - 1] \in Seq(Chunks) /\ s[i] \in Chunks
        /\ OfPaper(h[i - 1], p) \in 0 .. MaxPerPaper
    BY <1>2, <1>5
  <2>2. CASE h[i] = h[i - 1]
    BY <2>1, <2>2
  <2>3. CASE h[i] # h[i - 1]
    <3>1. h[i] = Append(h[i - 1], s[i]) /\ ~(OfPaper(h[i - 1], Paper[s[i]]) >= MaxPerPaper)
      BY <1>3, <2>3
    <3>2. /\ OfPaper(h[i], p) \in Nat
          /\ OfPaper(h[i], p) <= OfPaper(h[i - 1], p) + 1
          /\ Paper[s[i]] # p => OfPaper(h[i], p) = OfPaper(h[i - 1], p)
      <4>1. h[i] \in Seq(Chunks)
        BY <1>2, <2>1
      <4>2. OfPaper(h[i], p) \in Nat
        BY <4>1, PaperCount
      <4>3. /\ OfPaper(Append(h[i - 1], s[i]), p) <= OfPaper(h[i - 1], p) + 1
            /\ Paper[s[i]] # p => OfPaper(Append(h[i - 1], s[i]), p) = OfPaper(h[i - 1], p)
        BY <2>1, PaperCountAppend
      <4> QED
        BY <3>1, <4>2, <4>3
    <3>3. OfPaper(h[i], p) <= MaxPerPaper
      <4>1. CASE Paper[s[i]] = p
        BY <1>1, <2>1, <3>1, <3>2, <4>1
      <4>2. CASE Paper[s[i]] # p
        BY <2>1, <3>2, <4>2
      <4> QED
        BY <4>1, <4>2
    <3> QED
      BY <1>1, <2>1, <3>2, <3>3
  <2> QED
    BY <2>2, <2>3
<1>6. 0 .. n \subseteq G
  <2> HIDE DEF G
  <2> QED
    BY <1>2, <1>4, <1>5, UpToInduction
<1> QED
  BY <1>6 DEF n

\* A chunk that comes before one of the result is in the result, or its paper
\* has all its places there.
LEMMA CapIsSpentBefore ==
    ASSUME NEW s \in Seq(Chunks), IsInjective(s), NEW m \in Nat,
           NEW x \in Range(s), NEW b \in Range(Cut(Capped(s), m)), Earlier(s, x, b)
    PROVE  \/ x \in Range(Cut(Capped(s), m))
           \/ OfPaper(Cut(Capped(s), m), Paper[x]) = MaxPerPaper
<1> DEFINE n == Len(s)
           k == Capped(s)
           r == Cut(k, m)
<1>1. PICK h : IsCappedRun(h, s)
  BY CappedRuns
<1>2. IsFilterRun(h, s, Chunks) /\ k = h[n]
      /\ \A i \in 1 .. n :
          h[i] = IF OfPaper(h[i - 1], Paper[s[i]]) >= MaxPerPaper
                 THEN h[i - 1] ELSE Append(h[i - 1], s[i])
  BY <1>1 DEF IsCappedRun
<1>3. /\ n \in Nat /\ DOMAIN s = 1 .. n
      /\ \A i \in 0 .. n : h[i] \in Seq(Chunks) /\ Len(h[i]) \in Nat
  BY <1>2, FilterRunTyped
<1>4. n \in 0 .. n /\ k \in Seq(Chunks) /\ DOMAIN k = 1 .. Len(k) /\ Len(k) \in Nat
  BY <1>2, <1>3
<1> HIDE DEF k
<1>5. /\ r \in Seq(Chunks) /\ Len(r) <= Len(k) /\ Len(r) \in Nat /\ DOMAIN r = 1 .. Len(r)
      /\ \A a \in 1 .. Len(r) : r[a] = k[a]
  <2>1. /\ r \in Seq(Chunks) /\ Len(r) = IF m < Len(k) THEN m ELSE Len(k)
        /\ \A a \in 1 .. Len(r) : r[a] = k[a]
    BY <1>4, CutIsPrefix
  <2> HIDE DEF r
  <2> QED
    BY <1>4, <2>1
<1> HIDE DEF r
<1>6. PICK i \in 1 .. n, j \in 1 .. n : i < j /\ s[i] = x /\ s[j] = b
  BY <1>3 DEF Earlier
<1>7. PICK q \in 1 .. Len(r) : r[q] = b
  <2>1. b \in Range(r)
    BY DEF r, k
  <2> QED
    BY <1>5, <2>1 DEF Range
<1>8. Len(h[j - 1]) = q - 1
  <2>1. q \in 1 .. Len(h[n]) /\ k[q] = b
    BY <1>2, <1>5, <1>7
  <2>2. \A z \in 0 .. Len(s) : \A a \in 1 .. Len(h[z]) :
          \E l \in 1 .. z : /\ Len(h[l - 1]) = a - 1 /\ Len(h[l]) = a
                            /\ h[l] = Append(h[l - 1], s[l])
                            /\ h[z][a] = s[l]
    BY <1>2, KeptFrom
  <2>3. PICK l \in 1 .. n : Len(h[l - 1]) = q - 1 /\ h[n][q] = s[l]
    BY <1>4, <2>1, <2>2
  <2>4. l = j
    BY <1>2, <1>3, <1>6, <2>1, <2>3 DEF IsInjective
  <2> QED
    BY <2>3, <2>4
<1>9. /\ i \in 0 .. n /\ i - 1 \in 0 .. i /\ i \in 0 .. j - 1 /\ j - 1 \in 0 .. n
      /\ i - 1 \in 0 .. n /\ i \in Nat
  BY <1>3, <1>6
<1>10. \A z \in 0 .. n : \A l \in 0 .. z :
         Len(h[l]) <= Len(h[z]) /\ \A a \in 1 .. Len(h[l]) : h[z][a] = h[l][a]
  <2>1. IsFilterRun(h, s, Chunks)
    BY <1>2
  <2>2. ASSUME NEW z \in 0 .. Len(s), NEW l \in 0 .. z
        PROVE  Len(h[l]) <= Len(h[z]) /\ \A a \in 1 .. Len(h[l]) : h[z][a] = h[l][a]
    <3> HIDE DEF n
    <3> QED
      BY <2>1, KeptStays
  <2> QED
    BY <2>2
<1>11. Len(h[i]) < q /\ \A a \in 1 .. Len(h[i]) : a \in 1 .. Len(r) /\ r[a] = h[i][a]
  <2>1. Len(h[i]) <= Len(h[j - 1])
    BY <1>9, <1>10
  <2>2. Len(h[i]) \in Nat /\ Len(h[i]) < q
    BY <1>3, <1>5, <1>8, <1>9, <2>1
  <2>3. i \in 0 .. n /\ n \in 0 .. n
    BY <1>4, <1>9
  <2>4. \A a \in 1 .. Len(h[i]) : h[n][a] = h[i][a]
    BY <1>10, <2>3
  <2>5. \A a \in 1 .. Len(h[i]) : a \in 1 .. Len(r)
    BY <1>5, <1>7, <2>2
  <2> QED
    BY <1>2, <1>5, <2>2, <2>4, <2>5
<1>12. CASE h[i] = Append(h[i - 1], s[i])
  <2>1. Len(h[i]) \in 1 .. Len(h[i]) /\ h[i][Len(h[i])] = x
    <3>1. h[i - 1] \in Seq(Chunks) /\ s[i] \in Chunks
      BY <1>3, <1>9
    <3> QED
      BY <1>6, <1>12, <3>1
  <2>2. x \in Range(r)
    BY <1>5, <1>11, <2>1 DEF Range
  <2> QED
    BY <2>2 DEF r, k
<1>13. CASE h[i] # Append(h[i - 1], s[i])
  <2>1. h[i] = h[i - 1] /\ OfPaper(h[i - 1], Paper[x]) >= MaxPerPaper
    BY <1>2, <1>6, <1>13
  <2>2. MaxPerPaper \in Nat
    BY RetrievalAssumption DEF RetrievalSettings
  <2>3. Len(h[i]) <= Len(r) /\ h[i] \in Seq(Chunks)
    BY <1>3, <1>5, <1>7, <1>9, <1>11
  <2>4. OfPaper(h[i], Paper[x]) \in Nat /\ OfPaper(r, Paper[x]) \in Nat
        /\ OfPaper(h[i], Paper[x]) <= OfPaper(r, Paper[x])
    BY <1>5, <1>11, <2>3, PaperCount
  <2>5. OfPaper(r, Paper[x]) <= OfPaper(k, Paper[x]) /\ OfPaper(k, Paper[x]) \in Nat
    BY <1>4, <1>5, PaperCount
  <2>6. OfPaper(k, Paper[x]) <= MaxPerPaper
    <3>1. \A z \in 0 .. Len(s) : OfPaper(h[z], Paper[x]) \in 0 .. MaxPerPaper
      BY <1>1, CapHolds
    <3> QED
      BY <1>2, <1>4, <2>2, <3>1
  <2>7. OfPaper(r, Paper[x]) = MaxPerPaper
    BY <2>1, <2>2, <2>4, <2>5, <2>6
  <2> QED
    BY <2>7 DEF r, k
<1> QED
  BY <1>12, <1>13

-----------------------------------------------------------------------------
(* Shaping: what may be passed over. *)

\* Deduplication and the cap give sublists.
LEMMA FilteredTyped ==
    ASSUME NEW s \in Seq(Chunks)
    PROVE  /\ Distinct(s) \in Seq(Chunks) /\ Sublist(Distinct(s), s)
           /\ Capped(s) \in Seq(Chunks) /\ Sublist(Capped(s), s)
<1>1. PICK h : IsDistinctRun(h, s)
  BY DistinctRuns
<1>2. PICK k : IsCappedRun(k, s)
  BY CappedRuns
<1>3. Len(s) \in 0 .. Len(s)
  OBVIOUS
<1>4. Distinct(s) \in Seq(Chunks) /\ Sublist(Distinct(s), s)
  BY <1>1, <1>3, FilterRunTyped, FilterIsSublist DEF IsDistinctRun
<1>5. Capped(s) \in Seq(Chunks) /\ Sublist(Capped(s), s)
  BY <1>2, <1>3, FilterRunTyped, FilterIsSublist DEF IsCappedRun
<1> QED
  BY <1>4, <1>5

\* The chunks that the cap is applied to.
LEMMA Deduplicated ==
    ASSUME NEW s \in Seq(Chunks), IsInjective(s)
    PROVE  \E d \in Seq(Chunks) :
              /\ Shaped(s) = Capped(d) /\ IsInjective(d) /\ Range(d) \subseteq Range(s)
              /\ \A x, y \in Range(d) : Earlier(s, x, y) <=> Earlier(d, x, y)
              /\ \A x \in Range(s) \ Range(d) :
                    \/ Words[x] = {}
                    \/ \E c \in Range(d) : Earlier(s, c, x) /\ Similar(x, c)
<1>1. CASE Deduplicate
  <2> DEFINE d == Distinct(s)
  <2>1. d \in Seq(Chunks) /\ Sublist(d, s)
    BY FilteredTyped
  <2>2. \A x \in Range(s) \ Range(d) :
           \/ Words[x] = {}
           \/ \E c \in Range(d) : Earlier(s, c, x) /\ Similar(x, c)
    BY DroppedIsSaid
  <2>3. Shaped(s) = Capped(d)
    BY <1>1 DEF Shaped
  <2> HIDE DEF d
  <2>4. /\ IsInjective(d) /\ Range(d) \subseteq Range(s)
        /\ \A x, y \in Range(d) : Earlier(s, x, y) <=> Earlier(d, x, y)
    BY <2>1, SublistOrders
  <2> QED
    BY <2>1, <2>2, <2>3, <2>4
<1>2. CASE ~Deduplicate
  BY <1>2 DEF Shaped
<1> QED
  BY <1>1, <1>2

\* The result of shaping: distinct candidates, no more than were wanted.
LEMMA ResultTyped ==
    ASSUME NEW s \in Seq(Chunks), IsInjective(s), NEW m \in Nat
    PROVE  /\ Cut(Shaped(s), m) \in Seq(Chunks) /\ IsInjective(Cut(Shaped(s), m))
           /\ Len(Cut(Shaped(s), m)) <= m
           /\ Range(Cut(Shaped(s), m)) \subseteq Range(s)
<1>1. PICK d \in Seq(Chunks) :
        Shaped(s) = Capped(d) /\ IsInjective(d) /\ Range(d) \subseteq Range(s)
  BY Deduplicated
<1> DEFINE k == Capped(d)
           r == Cut(k, m)
<1>2. k \in Seq(Chunks) /\ Sublist(k, d)
  BY FilteredTyped
<1> HIDE DEF k
<1>3. IsInjective(k) /\ Range(k) \subseteq Range(d)
  BY <1>1, <1>2, SublistOrders
<1>4. r \in Seq(Chunks) /\ Len(r) = (IF m < Len(k) THEN m ELSE Len(k)) /\ Sublist(r, k)
  BY <1>2, CutIsPrefix, CutIsSublist
<1> HIDE DEF r
<1>5. IsInjective(r) /\ Range(r) \subseteq Range(k)
  BY <1>2, <1>3, <1>4, SublistOrders
<1>6. Len(k) \in Nat
  BY <1>2
<1>7. Len(r) <= m
  BY <1>4, <1>6
<1> QED
  BY <1>1, <1>3, <1>4, <1>5, <1>7 DEF r, k

\* Of two candidates in their order, the first is not passed over for the second.
LEMMA ShapedFairly ==
    ASSUME NEW s \in Seq(Chunks), IsInjective(s), NEW m \in Nat,
           NEW a \in Range(s), NEW b \in Range(Cut(Shaped(s), m)), Earlier(s, a, b)
    PROVE  \/ Earlier(Cut(Shaped(s), m), a, b)
           \/ Words[a] = {}
           \/ OfPaper(Cut(Shaped(s), m), Paper[a]) = MaxPerPaper
           \/ \E c \in Range(s) :
                 /\ Earlier(s, c, a) /\ Similar(a, c)
                 /\ \/ c \in Range(Cut(Shaped(s), m))
                    \/ OfPaper(Cut(Shaped(s), m), Paper[c]) = MaxPerPaper
<1>1. PICK d \in Seq(Chunks) :
        /\ Shaped(s) = Capped(d) /\ IsInjective(d) /\ Range(d) \subseteq Range(s)
        /\ \A x, y \in Range(d) : Earlier(s, x, y) <=> Earlier(d, x, y)
        /\ \A x \in Range(s) \ Range(d) :
              \/ Words[x] = {}
              \/ \E c \in Range(d) : Earlier(s, c, x) /\ Similar(x, c)
  BY Deduplicated
<1> DEFINE k == Capped(d)
           r == Cut(k, m)
<1>2. k \in Seq(Chunks) /\ Sublist(k, d)
  BY FilteredTyped
<1>3. IsInjective(k) /\ Range(k) \subseteq Range(d)
      /\ \A x, y \in Range(k) : Earlier(d, x, y) <=> Earlier(k, x, y)
  <2> HIDE DEF k
  <2> QED
    BY <1>1, <1>2, SublistOrders
<1>4. r \in Seq(Chunks) /\ Sublist(r, k)
  <2> HIDE DEF k
  <2> QED
    BY <1>2, CutIsPrefix, CutIsSublist
<1>5. Range(r) \subseteq Range(k)
      /\ \A x, y \in Range(r) : Earlier(k, x, y) <=> Earlier(r, x, y)
  <2> HIDE DEF k, r
  <2> QED
    BY <1>2, <1>3, <1>4, SublistOrders
<1>6. ASSUME NEW x \in Range(d), Earlier(d, x, b)
      PROVE  x \in Range(r) \/ OfPaper(r, Paper[x]) = MaxPerPaper
  BY <1>1, <1>6, CapIsSpentBefore
<1>7. b \in Range(r) /\ b \in Range(k) /\ b \in Range(d) /\ Cut(Shaped(s), m) = r
  BY <1>1, <1>3, <1>5
<1> HIDE DEF r, k
<1>8. CASE a \in Range(d)
  <2>1. Earlier(d, a, b)
    BY <1>1, <1>7, <1>8
  <2>2. CASE a \in Range(r)
    BY <1>3, <1>5, <1>7, <2>1, <2>2
  <2> QED
    BY <1>6, <1>7, <1>8, <2>1, <2>2
<1>9. CASE a \notin Range(d)
  <2>1. CASE Words[a] = {}
    BY <2>1
  <2>2. ASSUME NEW c \in Range(d), Earlier(s, c, a), Similar(a, c)
        PROVE  c \in Range(r) \/ OfPaper(r, Paper[c]) = MaxPerPaper
    <3>1. Earlier(s, c, b)
      <4>1. DOMAIN s = 1 .. Len(s) /\ Len(s) \in Nat
        OBVIOUS
      <4> QED
        BY <2>2, <4>1 DEF Earlier, IsInjective
    <3>2. Earlier(d, c, b)
      BY <1>1, <1>7, <3>1
    <3> QED
      BY <1>6, <3>2
  <2>3. ASSUME NEW c \in Range(d), Earlier(s, c, a), Similar(a, c)
        PROVE  \E e \in Range(s) :
                 /\ Earlier(s, e, a) /\ Similar(a, e)
                 /\ e \in Range(r) \/ OfPaper(r, Paper[e]) = MaxPerPaper
    BY <1>1, <2>2, <2>3
  <2> QED
    BY <1>1, <1>7, <1>9, <2>1, <2>3
<1> QED
  BY <1>8, <1>9

-----------------------------------------------------------------------------
(* Grouping and fusing. *)

\* How deep searching, retrieving and re-ranking may go.
LEMMA Depths ==
    /\ Pool \in Nat /\ TopK \in Nat /\ RerankTop \in Nat
    /\ Pool <= 500 /\ TopK <= 100
<1>1. Pool \in 1 .. 500 /\ TopK \in 1 .. 100 /\ RerankTop \in Nat \ {0}
  BY RetrievalAssumption DEF RetrievalSettings, RerankerSettings
<1> QED
  BY <1>1

\* What a search returns: distinct chunks, at most as many as fusing can take,
\* with scores that never rise.
GoodList(l) ==
    /\ l.ids \in Seq(Chunks) /\ IsInjective(l.ids) /\ Len(l.ids) <= Pool
    /\ \A i \in 1 .. Len(l.ids) : l.scores[i] \in Nat
    /\ \A i, j \in 1 .. Len(l.ids) : i <= j => l.scores[j] <= l.scores[i]

\* a is at least as good as b in list l.
NoWorseIn(l, a, b) == ~Has(l, b) \/ (Has(l, a) /\ RankIn(l, a) <= RankIn(l, b))

\* Ranks and chunks of a list determine each other.
LEMMA RankOf ==
    ASSUME NEW l, GoodList(l)
    PROVE  /\ \A c : Has(l, c) => RankIn(l, c) \in 1 .. Len(l.ids) /\ l.ids[RankIn(l, c)] = c
           /\ \A r \in 1 .. Len(l.ids) : Has(l, l.ids[r]) /\ RankIn(l, l.ids[r]) = r
<1>1. DOMAIN l.ids = 1 .. Len(l.ids) /\ IsInjective(l.ids)
  BY DEF GoodList
<1>2. \A c : Has(l, c) => RankIn(l, c) \in 1 .. Len(l.ids) /\ l.ids[RankIn(l, c)] = c
  BY <1>1 DEF Has, RankIn
<1>3. ASSUME NEW r \in 1 .. Len(l.ids) PROVE Has(l, l.ids[r]) /\ RankIn(l, l.ids[r]) = r
  <2>1. Has(l, l.ids[r])
    BY <1>1 DEF Has
  <2> QED
    BY <1>1, <1>2, <2>1 DEF IsInjective
<1> QED
  BY <1>2, <1>3

\* Grouping: a chunk comes before those that both searches like no better.
LEMMA GroupedOrders ==
    ASSUME NEW kw, NEW vec, GoodList(kw), GoodList(vec)
    PROVE  /\ Grouped(kw, vec) \in Seq(Chunks) /\ IsInjective(Grouped(kw, vec))
           /\ \A i, j \in 1 .. Len(Grouped(kw, vec)) :
                 /\ i # j
                 /\ NoWorseIn(kw, Grouped(kw, vec)[i], Grouped(kw, vec)[j])
                 /\ NoWorseIn(vec, Grouped(kw, vec)[i], Grouped(kw, vec)[j])
                 => i < j
<1> DEFINE T == Range(vec.ids) \ Range(kw.ids)
           o == Only(vec.ids, T)
           g == Grouped(kw, vec)
           n == Len(kw.ids)
           m == Len(o)
<1>1. kw.ids \in Seq(Chunks) /\ vec.ids \in Seq(Chunks) /\ IsInjective(kw.ids) /\ IsInjective(vec.ids)
      /\ DOMAIN kw.ids = 1 .. Len(kw.ids) /\ DOMAIN vec.ids = 1 .. Len(vec.ids)
      /\ Len(kw.ids) \in Nat /\ Len(vec.ids) \in Nat
  BY DEF GoodList
<1>2. o \in Seq(Chunks) /\ Selects(o, vec.ids, T, Len(vec.ids))
  <2> HIDE DEF T
  <2> QED
    BY <1>1, OnlySelects
<1>3. g = kw.ids \o o
  BY DEF Grouped
<1>4. PICK at \in [1 .. Len(o) -> 1 .. Len(vec.ids)] :
        /\ \A a, b \in 1 .. Len(o) : a < b => at[a] < at[b]
        /\ \A a \in 1 .. Len(o) : o[a] = vec.ids[at[a]] /\ o[a] \in T
  BY <1>2 DEF Selects
<1>5. \A a \in 1 .. Len(o) : ~Has(kw, o[a])
  BY <1>1, <1>4 DEF Has, Range
<1>6. \A a \in 1 .. Len(o) : Has(vec, o[a]) /\ RankIn(vec, o[a]) = at[a]
  <2>1. \A r \in 1 .. Len(vec.ids) : Has(vec, vec.ids[r]) /\ RankIn(vec, vec.ids[r]) = r
    BY RankOf
  <2> QED
    BY <1>4, <2>1
<1>7. \A r \in 1 .. n : Has(kw, kw.ids[r]) /\ RankIn(kw, kw.ids[r]) = r
  BY RankOf
<1> HIDE DEF T, o
<1>8. /\ g \in Seq(Chunks) /\ Len(g) = n + m /\ n \in Nat /\ m \in Nat
      /\ \A i \in 1 .. n : g[i] = kw.ids[i]
      /\ \A i \in 1 .. n + m : i > n => i - n \in 1 .. m /\ g[i] = o[i - n]
  <2> HIDE DEF g
  <2>1. o \in Seq(Chunks) /\ m \in Nat
    BY <1>2
  <2> QED
    BY <1>1, <1>3, <2>1, ConcatProperties
<1> HIDE DEF g, n, m
<1>9. \A i, j \in 1 .. n + m : g[i] = g[j] => i = j
  <2> SUFFICES ASSUME NEW i \in 1 .. n + m, NEW j \in 1 .. n + m, g[i] = g[j] PROVE i = j
    OBVIOUS
  <2>1. CASE i <= n /\ j <= n
    <3>1. i \in 1 .. n /\ j \in 1 .. n
      BY <1>8, <2>1
    <3>2. kw.ids[i] = kw.ids[j]
      BY <1>8, <3>1
    <3>3. RankIn(kw, kw.ids[i]) = i /\ RankIn(kw, kw.ids[j]) = j
      BY <1>7, <3>1
    <3> QED
      BY <3>2, <3>3
  <2>2. CASE i > n /\ j > n
    <3>1. i - n \in 1 .. m /\ j - n \in 1 .. m /\ o[i - n] = o[j - n]
      BY <1>8, <2>2
    <3>2. at[i - n] = at[j - n]
      BY <1>6, <3>1 DEF m
    <3>3. at[i - n] \in Int /\ at[j - n] \in Int
      BY <1>1, <1>4, <3>1 DEF m
    <3>4. ~(i - n < j - n) /\ ~(j - n < i - n)
      BY <1>4, <3>1, <3>2, <3>3 DEF m
    <3>5. i \in Int /\ j \in Int /\ n \in Int
      BY <1>8
    <3> QED
      BY <3>4, <3>5
  <2>3. CASE i <= n /\ j > n
    <3>1. i \in 1 .. n /\ j - n \in 1 .. m
      BY <1>8, <2>3
    <3>2. Has(kw, g[i]) /\ ~Has(kw, g[j])
      BY <1>5, <1>7, <1>8, <2>3, <3>1 DEF m
    <3> QED
      BY <3>2
  <2>4. CASE i > n /\ j <= n
    <3>1. j \in 1 .. n /\ i - n \in 1 .. m
      BY <1>8, <2>4
    <3>2. Has(kw, g[j]) /\ ~Has(kw, g[i])
      BY <1>5, <1>7, <1>8, <2>4, <3>1 DEF m
    <3> QED
      BY <3>2
  <2> QED
    BY <1>8, <2>1, <2>2, <2>3, <2>4
<1>10. IsInjective(g)
  BY <1>8, <1>9 DEF IsInjective
<1>11. ASSUME NEW i \in 1 .. n + m, NEW j \in 1 .. n + m, i # j,
              NoWorseIn(kw, g[i], g[j]), NoWorseIn(vec, g[i], g[j])
       PROVE  i < j
  <2>1. CASE j <= n
    <3>1. j \in 1 .. n /\ Has(kw, g[j]) /\ RankIn(kw, g[j]) = j
      BY <1>7, <1>8, <2>1
    <3>2. Has(kw, g[i]) /\ RankIn(kw, g[i]) <= j
      BY <1>11, <3>1 DEF NoWorseIn
    <3>3. ~(i > n)
      BY <1>5, <1>8, <3>2 DEF m
    <3>4. i \in 1 .. n
      BY <1>8, <3>3
    <3>5. RankIn(kw, g[i]) = i
      BY <1>7, <1>8, <3>4
    <3> QED
      BY <1>8, <1>11, <3>2, <3>5
  <2>2. CASE ~(j <= n)
    <3>1. CASE i <= n
      BY <1>8, <2>2, <3>1
    <3>2. CASE ~(i <= n)
      <4>1. /\ i - n \in 1 .. m /\ j - n \in 1 .. m
            /\ g[i] = o[i - n] /\ g[j] = o[j - n]
        BY <1>8, <2>2, <3>2
      <4>2. RankIn(vec, g[i]) = at[i - n] /\ RankIn(vec, g[j]) = at[j - n] /\ Has(vec, g[j])
        BY <1>6, <4>1 DEF m
      <4>3. at[i - n] <= at[j - n]
        BY <1>11, <4>2 DEF NoWorseIn
      <4>4. at[i - n] \in Int /\ at[j - n] \in Int
        BY <1>1, <1>4, <4>1 DEF m
      <4>5. ~(j - n < i - n)
        BY <1>4, <4>1, <4>3, <4>4 DEF m
      <4> QED
        BY <1>8, <1>11, <4>5
    <3> QED
      BY <3>1, <3>2
  <2> QED
    BY <2>1, <2>2
<1> QED
  BY <1>8, <1>10, <1>11 DEF g

\* Division is bounded by multiplication.
LEMMA QuotientOf ==
    ASSUME NEW u \in Nat, NEW p \in Nat, p > 0
    PROVE  /\ u \div p \in Nat
           /\ p * (u \div p) <= u /\ u < p * (u \div p + 1)
<1>1. u = p * (u \div p) + (u % p) /\ u % p \in 0 .. p - 1 /\ u \div p \in Int
  OBVIOUS
<1> QED
  BY <1>1

\* A quotient never falls with its dividend,
LEMMA QuotientRises ==
    ASSUME NEW u \in Nat, NEW v \in Nat, u <= v, NEW p \in Nat, p > 0
    PROVE  u \div p <= v \div p
  BY QuotientOf

\* and never rises with its divisor.
LEMMA QuotientFalls ==
    ASSUME NEW u \in Nat, NEW p \in Nat, NEW q \in Nat, 0 < p, p <= q
    PROVE  u \div q <= u \div p
  BY QuotientOf

\* A common multiple is a natural number.
LEMMA UnitIsNat == Unit \in Nat
<1> DEFINE s == [r \in 1 .. Pool |-> r]
           n == Pool
           step == [i \in 1 .. n |-> [product \in Nat |-> product * (RrfK + s[i])]]
           it == CHOOSE f : f = [t \in SUBSET (1 .. n) |->
                                   IF t = {} THEN 1 ELSE f[t \ {Max(t)}] * (RrfK + s[Max(t)])]
<1>1. n \in Nat /\ DOMAIN s = 1 .. n /\ 1 \in Nat /\ RrfK \in Nat /\ \A i \in 1 .. n : s[i] \in Nat
      /\ Len(s) = n
  BY RetrievalAssumption DEF RetrievalSettings
<1>2. IsStep(step, Nat, n)
      /\ \A i \in 1 .. n, product \in Nat : step[i][product] = product * (RrfK + s[i])
  <2>1. \A i \in 1 .. n, product \in Nat : product * (RrfK + s[i]) \in Nat
    BY <1>1
  <2> QED
    BY <1>1, <2>1 DEF IsStep
<1>3. \A t \in SUBSET (1 .. n) : t # {} => Max(t) \in 1 .. n /\ t \ {Max(t)} \in SUBSET (1 .. n)
  BY <1>1, MaxOfPositions
<1>4. it = [t \in SUBSET (1 .. n) |->
              IF t = {} THEN 1 ELSE it[t \ {Max(t)}] * (RrfK + s[Max(t)])]
  <2>1. PICK f : f \in [SUBSET (1 .. n) -> Nat] /\ Iterates(f, step, 1, Nat, n)
    <3> HIDE DEF step, n, s
    <3> QED
      BY <1>1, <1>2, IterationExists
  <2>2. f = [t \in SUBSET (1 .. n) |->
               IF t = {} THEN 1 ELSE f[t \ {Max(t)}] * (RrfK + s[Max(t)])]
    <3> HIDE DEF step, n, s
    <3> QED
      BY <2>1, <1>2, <1>3 DEF Iterates
  <2> QED
    BY <2>2
<1>5. Unit = it[1 .. n]
  BY <1>1 DEF Unit, FoldLeft, MapThenFoldSet
<1> HIDE DEF step, it, n, s
<1>6. Iterates(it, step, 1, Nat, n)
  BY <1>2, <1>3, <1>4 DEF Iterates
<1>7. PICK h : IsRun(h, step, 1, Nat, n, it[1 .. n])
  BY <1>1, <1>2, <1>6, IterationRuns
<1>8. n \in 0 .. n
  BY <1>1
<1> QED
  BY <1>5, <1>7, <1>8 DEF IsRun

\* What one list adds to a fused score never falls when the list likes the chunk
\* no less.
LEMMA RrfPart ==
    ASSUME NEW l, GoodList(l), NEW a, NEW b, NoWorseIn(l, a, b)
    PROVE  LET Part(c) == IF Has(l, c) THEN Unit \div (RrfK + RankIn(l, c)) ELSE 0
           IN Part(a) \in Nat /\ Part(b) \in Nat /\ Part(b) <= Part(a)
<1>1. Unit \in Nat /\ RrfK \in Nat
  BY UnitIsNat, RetrievalAssumption DEF RetrievalSettings
<1>2. \A c : Has(l, c) => RankIn(l, c) \in Nat /\ RankIn(l, c) > 0
  <2>1. \A c : Has(l, c) => RankIn(l, c) \in 1 .. Len(l.ids)
    BY RankOf
  <2>2. Len(l.ids) \in Nat
    BY DEF GoodList
  <2> QED
    BY <2>1, <2>2
<1>3. \A c : Has(l, c) => RrfK + RankIn(l, c) \in Nat /\ RrfK + RankIn(l, c) > 0
  BY <1>1, <1>2
<1>4. \A c : Has(l, c) => Unit \div (RrfK + RankIn(l, c)) \in Nat
  BY <1>1, <1>3, QuotientOf
<1>5. CASE ~Has(l, b)
  BY <1>4, <1>5
<1>6. CASE Has(l, b)
  <2>1. Has(l, a) /\ RankIn(l, a) <= RankIn(l, b)
    BY <1>6 DEF NoWorseIn
  <2>2. RrfK + RankIn(l, a) <= RrfK + RankIn(l, b)
    BY <1>1, <1>2, <1>6, <2>1
  <2>3. Unit \div (RrfK + RankIn(l, b)) <= Unit \div (RrfK + RankIn(l, a))
    BY <1>1, <1>3, <1>6, <2>1, <2>2, QuotientFalls
  <2> QED
    BY <1>4, <1>6, <2>1, <2>3
<1> QED
  BY <1>5, <1>6

\* The same of a weighted score.
LEMMA WeightedPart ==
    ASSUME NEW l, GoodList(l), NEW w \in Nat, NEW a, NEW b, NoWorseIn(l, a, b)
    PROVE  LET Part(c) == IF Has(l, c) THEN w * Normalised(l, RankIn(l, c)) ELSE 0
           IN Part(a) \in Nat /\ Part(b) \in Nat /\ Part(b) <= Part(a)
<1> DEFINE n == Len(l.ids)
<1>1. n \in Nat /\ (\A i \in 1 .. n : l.scores[i] \in Nat)
      /\ \A i, j \in 1 .. n : i <= j => l.scores[j] <= l.scores[i]
  BY DEF GoodList
<1>2. \A c : Has(l, c) => RankIn(l, c) \in 1 .. n
  BY RankOf
<1> HIDE DEF n
<1>3. ASSUME NEW i \in 1 .. n, NEW j \in 1 .. n, i <= j
      PROVE  /\ Normalised(l, i) \in Nat /\ Normalised(l, j) \in Nat
             /\ Normalised(l, j) <= Normalised(l, i)
  <2> DEFINE low == l.scores[n]
             high == l.scores[1]
             si == l.scores[i]
             sj == l.scores[j]
  <2>1. low \in Nat /\ high \in Nat /\ si \in Nat /\ sj \in Nat
        /\ low <= sj /\ sj <= si /\ si <= high
    <3>1. 1 \in 1 .. n /\ n \in 1 .. n /\ 1 <= i /\ j <= n
      BY <1>1
    <3> QED
      BY <1>1, <1>3, <3>1
  <2>2. \A r \in {i, j} : Normalised(l, r) =
           IF high = low THEN 100 ELSE (100 * (l.scores[r] - low)) \div (high - low)
    BY DEF Normalised, n
  <2> HIDE DEF low, high
  <2>3. CASE high = low
    BY <2>2, <2>3
  <2>4. CASE high # low
    <3>1. high - low \in Nat /\ high - low > 0
          /\ 100 * (si - low) \in Nat /\ 100 * (sj - low) \in Nat
          /\ 100 * (sj - low) <= 100 * (si - low)
      <4> HIDE DEF si, sj
      <4> QED
        BY <2>1, <2>4
    <3>2. Normalised(l, i) = (100 * (si - low)) \div (high - low)
          /\ Normalised(l, j) = (100 * (sj - low)) \div (high - low)
      BY <2>2, <2>4
    <3> HIDE DEF si, sj
    <3>3. (100 * (si - low)) \div (high - low) \in Nat /\ (100 * (sj - low)) \div (high - low) \in Nat
      BY <3>1, QuotientOf
    <3>4. (100 * (sj - low)) \div (high - low) <= (100 * (si - low)) \div (high - low)
      BY <3>1, QuotientRises
    <3> QED
      BY <3>2, <3>3, <3>4
  <2> QED
    BY <2>3, <2>4
<1>4. \A c : Has(l, c) => w * Normalised(l, RankIn(l, c)) \in Nat
  <2>1. \A i \in 1 .. n : i <= i /\ Normalised(l, i) \in Nat
    BY <1>1, <1>3
  <2> QED
    BY <1>2, <2>1
<1>5. CASE ~Has(l, b)
  BY <1>4, <1>5
<1>6. CASE Has(l, b)
  <2>1. Has(l, a) /\ RankIn(l, a) <= RankIn(l, b)
    BY <1>6 DEF NoWorseIn
  <2> DEFINE x == Normalised(l, RankIn(l, a))
             y == Normalised(l, RankIn(l, b))
  <2>2. x \in Nat /\ y \in Nat /\ y <= x
    BY <1>2, <1>3, <1>6, <2>1
  <2>3. w * y <= w * x
    <3> HIDE DEF x, y
    <3> QED
      BY <2>2
  <2> QED
    BY <1>4, <1>6, <2>1, <2>3
<1> QED
  BY <1>5, <1>6

\* Fusing ranks no chunk behind one that both searches like no better.
LEMMA FusedFairly ==
    ASSUME NEW lists, GoodList(lists[1]), GoodList(lists[2]), NEW how
    PROVE  /\ Fused(how, lists) \in Seq(Chunks) /\ IsInjective(Fused(how, lists))
           /\ \A a, b \in Range(Fused(how, lists)) :
                 a # b /\ (\A s \in Searches : NoWorseIn(lists[s], a, b))
                 => Earlier(Fused(how, lists), a, b)
<1> DEFINE g == Grouped(lists[1], lists[2])
           n == Len(g)
           Score(c) == IF how = "rrf" THEN RrfScore(lists, c) ELSE WeightedScore(lists, c)
           value == [i \in DOMAIN g |-> Score(g[i])]
           f == Fused(how, lists)
<1>1. /\ g \in Seq(Chunks) /\ IsInjective(g)
      /\ \A i, j \in 1 .. n :
            /\ i # j
            /\ NoWorseIn(lists[1], g[i], g[j])
            /\ NoWorseIn(lists[2], g[i], g[j])
            => i < j
  BY GroupedOrders
<1>2. f = Sorted(g, value)
  BY DEF Fused
<1>3. ASSUME NEW a, NEW b, NoWorseIn(lists[1], a, b), NoWorseIn(lists[2], a, b)
      PROVE  Score(a) \in Int /\ Score(b) \in Int /\ Score(b) <= Score(a)
  <2>1. CASE how = "rrf"
    <3> DEFINE P(l, c) == IF Has(l, c) THEN Unit \div (RrfK + RankIn(l, c)) ELSE 0
    <3>1. P(lists[1], a) \in Nat /\ P(lists[1], b) \in Nat /\ P(lists[1], b) <= P(lists[1], a)
      BY <1>3, RrfPart
    <3>2. P(lists[2], a) \in Nat /\ P(lists[2], b) \in Nat /\ P(lists[2], b) <= P(lists[2], a)
      BY <1>3, RrfPart
    <3>3. \A c : Score(c) = P(lists[1], c) + P(lists[2], c)
      BY <2>1 DEF RrfScore
    <3> HIDE DEF P, Score
    <3> QED
      BY <3>1, <3>2, <3>3
  <2>2. CASE how # "rrf"
    <3> DEFINE P(l, w, c) == IF Has(l, c) THEN w * Normalised(l, RankIn(l, c)) ELSE 0
    <3>1. Weights[1] \in Nat /\ Weights[2] \in Nat
      BY RetrievalAssumption DEF RetrievalSettings, Searches
    <3>2. P(lists[1], Weights[1], a) \in Nat /\ P(lists[1], Weights[1], b) \in Nat
          /\ P(lists[1], Weights[1], b) <= P(lists[1], Weights[1], a)
      BY <1>3, <3>1, WeightedPart
    <3>3. P(lists[2], Weights[2], a) \in Nat /\ P(lists[2], Weights[2], b) \in Nat
          /\ P(lists[2], Weights[2], b) <= P(lists[2], Weights[2], a)
      BY <1>3, <3>1, WeightedPart
    <3>4. \A c : Score(c) = P(lists[1], Weights[1], c) + P(lists[2], Weights[2], c)
      BY <2>2 DEF WeightedScore
    <3> HIDE DEF P, Score
    <3> QED
      BY <3>2, <3>3, <3>4
  <2> QED
    BY <2>1, <2>2
<1>4. n \in Nat /\ DOMAIN g = 1 .. n
  BY <1>1
<1>5. \A i \in 1 .. n : value[i] = Score(g[i])
  BY <1>4
<1>6. \A i \in 1 .. n : value[i] \in Int
  <2>1. \A c : NoWorseIn(lists[1], c, c) /\ NoWorseIn(lists[2], c, c)
    <3>1. \A l \in {lists[1], lists[2]} : \A c : Has(l, c) => RankIn(l, c) \in Int
      <4>1. \A l : GoodList(l) => \A c : Has(l, c) => RankIn(l, c) \in 1 .. Len(l.ids)
        BY RankOf
      <4>2. \A l : GoodList(l) => Len(l.ids) \in Nat
        BY DEF GoodList
      <4> QED
        BY <4>1, <4>2
    <3> QED
      BY <3>1 DEF NoWorseIn
  <2>2. \A c : Score(c) \in Int
    <3> HIDE DEF Score
    <3> QED
      BY <1>3, <2>1
  <2> HIDE DEF Score, value
  <2> QED
    BY <1>5, <2>2
<1> HIDE DEF value
<1>7. PICK p : /\ IsOrderOf(p, Len(g))
               /\ Sorted(g, value) = [r \in 1 .. Len(g) |-> g[p[r]]]
               /\ \A r, q \in 1 .. Len(g) :
                     p[r] \in Ahead(g, value, p[q]) => r < q
  <2> HIDE DEF g
  <2> QED
    BY <1>1, <1>6, SortedOrders DEF n
<1>8. p \in [1 .. n -> 1 .. n] /\ IsInjective(p)
  BY <1>7 DEF IsOrderOf
<1> HIDE DEF g, n, Score, f
<1>9. f = [r \in 1 .. n |-> g[p[r]]]
  BY <1>2, <1>7 DEF n
<1>10. f \in Seq(Chunks) /\ Len(f) = n /\ \A r \in 1 .. n : f[r] = g[p[r]]
  <2>1. \A r \in 1 .. n : p[r] \in 1 .. n /\ g[p[r]] \in Chunks
    BY <1>1, <1>4, <1>8 DEF n
  <2> QED
    BY <1>4, <1>9, <2>1
<1>11. DOMAIN f = 1 .. n
  BY <1>9
<1>12. IsInjective(f)
  BY <1>1, <1>4, <1>8, <1>10, <1>11 DEF IsInjective
<1>13. ASSUME NEW a \in Range(f), NEW b \in Range(f), a # b,
              \A s \in Searches : NoWorseIn(lists[s], a, b)
       PROVE  Earlier(f, a, b)
  <2>1. PICK r \in 1 .. n, q \in 1 .. n : f[r] = a /\ f[q] = b
    BY <1>11 DEF Range
  <2>2. p[r] \in 1 .. n /\ p[q] \in 1 .. n /\ g[p[r]] = a /\ g[p[q]] = b
    BY <1>8, <1>10, <2>1
  <2>3. NoWorseIn(lists[1], a, b) /\ NoWorseIn(lists[2], a, b)
    BY <1>13 DEF Searches
  <2>4. p[r] # p[q]
    BY <1>13, <2>2
  <2>5. p[r] < p[q]
    BY <1>1, <2>2, <2>3, <2>4
  <2>6. Score(b) <= Score(a) /\ Score(b) \in Int /\ Score(a) \in Int
    BY <1>3, <2>3
  <2>7. value[p[r]] = Score(a) /\ value[p[q]] = Score(b)
    BY <1>5, <2>2
  <2>8. p[r] \in Ahead(g, value, p[q])
    BY <1>4, <2>2, <2>5, <2>6, <2>7 DEF Ahead
  <2>9. r < q
    BY <1>7, <2>8 DEF n
  <2> QED
    BY <1>11, <2>1, <2>9 DEF Earlier
<1> QED
  BY <1>10, <1>12, <1>13 DEF f

-----------------------------------------------------------------------------
(* From the searches to the ranking. *)

\* The lists that the searches may return are such lists.
LEMMA SearchesReturnGoodLists == \A l \in EvenLists \cup FlatLists : GoodList(l)
<1> SUFFICES ASSUME NEW flat \in BOOLEAN, NEW l \in ResultLists(flat) PROVE GoodList(l)
  BY DEF EvenLists, FlatLists
<1>1. Pool \in Nat
  BY Depths
<1>2. PICK s \in {t \in UNION {[1 .. n -> Chunks] : n \in 0 .. Pool} : IsInjective(t)} :
        l = [ids |-> s, scores |-> [i \in DOMAIN s |-> IF flat THEN 1 ELSE Pool + 1 - i]]
  BY DEF ResultLists
<1>3. PICK n \in 0 .. Pool : s \in [1 .. n -> Chunks]
  BY <1>2
<1>4. n \in Nat /\ n <= Pool /\ DOMAIN s = 1 .. n /\ s \in Seq(Chunks) /\ Len(s) = n /\ IsInjective(s)
  BY <1>1, <1>2, <1>3
<1>5. l.ids = s /\ l.scores = [i \in DOMAIN s |-> IF flat THEN 1 ELSE Pool + 1 - i]
  BY <1>2
<1>6. \A i \in 1 .. n : l.scores[i] = IF flat THEN 1 ELSE Pool + 1 - i
  BY <1>4, <1>5
<1>7. \A i \in 1 .. n : (IF flat THEN 1 ELSE Pool + 1 - i) \in Nat
  BY <1>1, <1>4
<1>8. \A i, j \in 1 .. n : i <= j =>
        (IF flat THEN 1 ELSE Pool + 1 - j) <= (IF flat THEN 1 ELSE Pool + 1 - i)
  BY <1>1, <1>4
<1> QED
  BY <1>4, <1>5, <1>6, <1>7, <1>8 DEF GoodList

\* A limit that is given is kept to.
Typed ==
    /\ mode \in {"keyword", "vector", "hybrid"} /\ limit \in 0 .. Pool
    /\ phase \in {"searching", "reranking", "building", "done", "failed"}
    /\ found = [s \in Searches |-> found[s]]
    /\ \A s \in Searches : found[s] # None => GoodList(found[s]) /\ Len(found[s].ids) <= Hits
    /\ shaped \in Seq(Chunks) /\ IsInjective(shaped)
    /\ limit # 0 => Len(shaped) <= limit
    /\ Len(shaped) <= Pool \/ Len(shaped) <= TopK
    /\ ranked \in Seq(Chunks) /\ IsInjective(ranked)
    /\ Len(ranked) <= Pool \/ Len(ranked) <= TopK

\* No chunk at all is a list of distinct chunks.
LEMMA EmptyTyped == <<>> \in Seq(Chunks) /\ IsInjective(<<>>) /\ Len(<<>>) = 0
<1>1. DOMAIN <<>> = {} /\ <<>> \in Seq(Chunks) /\ Len(<<>>) = 0
  OBVIOUS
<1> QED
  BY <1>1 DEF IsInjective

\* A size that is asked for is kept to.
LEMMA SizeIsNat ==
    ASSUME NEW n \in Nat, NEW default \in Nat
    PROVE  Size(n, default) \in Nat /\ (n # 0 => Size(n, default) = n)
  BY DEF Size

\* The result of hybrid retrieval: as many distinct candidates as were wanted.
LEMMA FuseTyped ==
    ASSUME Typed, \A s \in Searches : found[s] # None
    PROVE  /\ Result(Fused(method, found)) \in Seq(Chunks)
           /\ IsInjective(Result(Fused(method, found)))
           /\ limit # 0 => Len(Result(Fused(method, found))) <= limit
           /\ \/ Len(Result(Fused(method, found))) <= Pool
              \/ Len(Result(Fused(method, found))) <= TopK
<1> DEFINE c == Fused(method, found)
<1>1. GoodList(found[1]) /\ GoodList(found[2])
  BY DEF Typed, Searches
<1>2. c \in Seq(Chunks) /\ IsInjective(c)
  BY <1>1, FusedFairly
<1>3. limit \in Nat /\ TopK \in Nat /\ Pool \in Nat /\ limit <= Pool
  BY Depths DEF Typed
<1>4. /\ Size(limit, TopK) \in Nat /\ (limit # 0 => Size(limit, TopK) = limit)
      /\ limit = 0 => Size(limit, TopK) = TopK
  BY <1>3, SizeIsNat DEF Size
<1> HIDE DEF c
<1> DEFINE k == Size(limit, TopK)
<1>5. Result(c) = Cut(Shaped(c), k)
  BY DEF Result
<1> HIDE DEF k
<1>6. Cut(Shaped(c), k) \in Seq(Chunks) /\ IsInjective(Cut(Shaped(c), k)) /\ Len(Cut(Shaped(c), k)) <= k
  BY <1>2, <1>4, ResultTyped DEF k
<1>7. Len(Cut(Shaped(c), k)) \in Nat
  BY <1>6
<1>8. Len(Cut(Shaped(c), k)) <= Pool \/ Len(Cut(Shaped(c), k)) <= TopK
  <2>1. CASE limit = 0
    BY <1>4, <1>6, <2>1 DEF k
  <2>2. CASE limit # 0
    <3>1. k = limit
      BY <1>4, <2>2 DEF k
    <3> QED
      BY <1>3, <1>6, <1>7, <3>1
  <2> QED
    BY <2>1, <2>2
<1> QED
  BY <1>4, <1>5, <1>6, <1>8 DEF c, k

\* A list that is as short as the cut is left whole.
LEMMA CutRange ==
    ASSUME NEW s \in Seq(Chunks), IsInjective(s), NEW m \in Nat
    PROVE  /\ Cut(s, m) \in Seq(Chunks) /\ IsInjective(Cut(s, m))
           /\ Range(Cut(s, m)) \subseteq Range(s) /\ Len(Cut(s, m)) <= Len(s)
           /\ Len(Cut(s, m)) = m \/ Range(Cut(s, m)) = Range(s)
           /\ Len(s) <= m => Range(Cut(s, m)) = Range(s)
<1> DEFINE r == Cut(s, m)
<1>1. /\ r \in Seq(Chunks)
      /\ Len(r) = IF m < Len(s) THEN m ELSE Len(s)
      /\ \A a \in 1 .. Len(r) : r[a] = s[a]
  BY CutIsPrefix
<1>2. Sublist(r, s)
  BY CutIsSublist
<1> HIDE DEF r
<1>3. IsInjective(r) /\ Range(r) \subseteq Range(s)
  BY <1>1, <1>2, SublistOrders
<1>4. DOMAIN r = 1 .. Len(r) /\ DOMAIN s = 1 .. Len(s) /\ Len(s) \in Nat
  BY <1>1
<1>5. ASSUME ~(m < Len(s)) PROVE Range(r) = Range(s)
  BY <1>1, <1>4, <1>5 DEF Range
<1>6. Len(s) <= m => ~(m < Len(s))
  BY <1>4
<1>7. Len(r) <= Len(s)
  BY <1>1, <1>4
<1> QED
  BY <1>1, <1>3, <1>5, <1>6, <1>7 DEF r

\* Sorting by any scores loses and invents nothing.
LEMMA SortedTyped ==
    ASSUME NEW s \in Seq(Chunks), IsInjective(s), NEW value, \A i \in 1 .. Len(s) : value[i] \in Int
    PROVE  /\ Sorted(s, value) \in Seq(Chunks) /\ IsInjective(Sorted(s, value))
           /\ Len(Sorted(s, value)) = Len(s) /\ Range(Sorted(s, value)) = Range(s)
<1> DEFINE f == Sorted(s, value)
           n == Len(s)
<1>1. PICK p : /\ IsOrderOf(p, Len(s))
               /\ Sorted(s, value) = [r \in 1 .. Len(s) |-> s[p[r]]]
               /\ \A r, q \in 1 .. Len(s) :
                     p[r] \in Ahead(s, value, p[q]) => r < q
  <2> HIDE DEF n, f
  <2> QED
    BY SortedOrders
<1>2. /\ p \in [1 .. n -> 1 .. n] /\ IsInjective(p)
      /\ \A i \in 1 .. n : \E r \in 1 .. n : p[r] = i
  BY <1>1 DEF IsOrderOf
<1>3. n \in Nat /\ DOMAIN s = 1 .. n /\ f = [r \in 1 .. n |-> s[p[r]]]
  BY <1>1
<1> HIDE DEF f
<1>4. \A r \in 1 .. n : p[r] \in 1 .. n /\ s[p[r]] \in Chunks
  BY <1>2, <1>3
<1> HIDE DEF n
<1>5. f \in Seq(Chunks) /\ Len(f) = n /\ DOMAIN f = 1 .. n /\ \A r \in 1 .. n : f[r] = s[p[r]]
  BY <1>3, <1>4
<1>6. IsInjective(f)
  BY <1>2, <1>3, <1>5 DEF IsInjective
<1>7. Range(f) = Range(s)
  BY <1>2, <1>3, <1>5 DEF Range
<1> QED
  BY <1>5, <1>6, <1>7 DEF f, n

\* What re-ranking hands over, whatever it made of the order.
IsRanking(r) ==
    /\ r \in Seq(Chunks) /\ IsInjective(r) /\ Range(r) \subseteq Range(shaped)
    /\ Len(r) = Top \/ Range(r) = Range(shaped)
    /\ limit # 0 => Range(r) = Range(shaped)
    /\ Len(r) <= Len(shaped)

\* The best of a list with the same chunks can be handed over,
LEMMA CutIsRanking ==
    ASSUME Typed, NEW s \in Seq(Chunks), IsInjective(s), Range(s) = Range(shaped),
           Len(s) = Len(shaped)
    PROVE  IsRanking(Cut(s, Top))
<1>1. limit \in Nat /\ RerankTop \in Nat
  BY Depths DEF Typed
<1>2. Top \in Nat /\ (limit # 0 => Top = limit)
  BY <1>1, SizeIsNat DEF Top
<1>3. limit # 0 => Len(s) <= Top
  BY <1>2 DEF Typed
<1> HIDE DEF Top
<1>4. /\ Cut(s, Top) \in Seq(Chunks) /\ IsInjective(Cut(s, Top))
      /\ Range(Cut(s, Top)) \subseteq Range(s)
      /\ Len(Cut(s, Top)) = Top \/ Range(Cut(s, Top)) = Range(s)
      /\ Len(s) <= Top => Range(Cut(s, Top)) = Range(s)
      /\ Len(Cut(s, Top)) <= Len(s)
  BY <1>2, CutRange
<1> QED
  BY <1>3, <1>4 DEF IsRanking

\* and that is what both ways through re-ranking do.
LEMMA RerankHandsOver ==
    ASSUME Typed,
           \/ RerankSkipped
           \/ \E n \in 0 .. MostScores : \E scores \in [1 .. n -> 1 .. MostScores] : Rerank(scores)
    PROVE  /\ IsRanking(ranked') /\ shaped' = <<>> /\ phase = "reranking" /\ phase' = "building"
           /\ UNCHANGED <<mode, method, limit, embedded, found, taken, sources, passages, citations>>
<1>1. shaped \in Seq(Chunks) /\ IsInjective(shaped)
  BY DEF Typed
<1>2. CASE RerankSkipped
  <2>1. ranked' = Cut(shaped, Top)
    BY <1>2 DEF RerankSkipped, Build
  <2>2. IsRanking(Cut(shaped, Top))
    BY <1>1, CutIsRanking
  <2> QED
    BY <1>2, <2>1, <2>2 DEF RerankSkipped, Build, request, context
<1>3. ASSUME NEW n \in 0 .. MostScores, NEW scores \in [1 .. n -> 1 .. MostScores], Rerank(scores)
      PROVE  /\ IsRanking(ranked') /\ shaped' = <<>> /\ phase = "reranking" /\ phase' = "building"
             /\ UNCHANGED <<mode, method, limit, embedded, found, taken, sources, passages, citations>>
  <2>1. ranked' = Cut(IF Len(scores) = Len(shaped) THEN Sorted(shaped, scores) ELSE shaped, Top)
    BY <1>3 DEF Rerank, Scored, Build
  <2>2. CASE Len(scores) # Len(shaped)
    BY <1>1, <2>1, <2>2, CutIsRanking, <1>3 DEF Rerank, Scored, Build, request, context
  <2>3. CASE Len(scores) = Len(shaped)
    <3>1. \A i \in 1 .. Len(shaped) : scores[i] \in Int
      <4>1. MostScores \in Nat /\ n \in Nat
        <5>1. MostScores \in Nat
          BY Depths DEF MostScores
        <5> QED
          BY <5>1
      <4>2. Len(scores) = n
        BY <4>1
      <4> QED
        BY <2>3, <4>1, <4>2
    <3>2. PICK s : s = Sorted(shaped, scores)
      OBVIOUS
    <3>3. s \in Seq(Chunks) /\ IsInjective(s) /\ Len(s) = Len(shaped) /\ Range(s) = Range(shaped)
      BY <1>1, <3>1, <3>2, SortedTyped
    <3>4. IsRanking(Cut(s, Top))
      BY <3>3, CutIsRanking
    <3> QED
      BY <1>3, <2>1, <2>3, <3>2, <3>4 DEF Rerank, Scored, Build, request, context
  <2> QED
    BY <2>2, <2>3
<1> QED
  BY <1>2, <1>3

\* Retrieval, re-ranking and building hand on lists of distinct chunks, no longer
\* than the limit of the query where it has one.
THEOREM RetrievalTyped == Spec => []Typed
<1>1. Init => Typed
  <2> SUFFICES ASSUME Init PROVE Typed
    OBVIOUS
  <2>1. limit \in 0 .. Pool /\ mode \in {"keyword", "vector", "hybrid"} /\ phase = "searching"
    BY RetrievalAssumption DEF Init
  <2>2. found = [s \in Searches |-> found[s]] /\ \A s \in Searches : found[s] = None
    BY DEF Init
  <2>3. limit \in Nat /\ Pool \in Nat
    BY <2>1, Depths
  <2>4. shaped = <<>> /\ ranked = <<>>
    BY DEF Init
  <2> QED
    BY <2>1, <2>2, <2>3, <2>4, EmptyTyped DEF Typed
<1>2. Typed /\ [Next]_vars => Typed'
  <2> SUFFICES ASSUME Typed, [Next]_vars PROVE Typed'
    OBVIOUS
  <2>0. limit \in Nat /\ Pool \in Nat /\ TopK \in Nat
    BY Depths DEF Typed
  <2>1. CASE Embed
    BY <2>1 DEF Embed, Typed, request, context, Hits
  <2>2. ASSUME NEW s \in Searches, NEW list \in EvenLists \cup FlatLists, Search(s, list)
        PROVE  Typed'
    <3>1. GoodList(list) /\ Len(list.ids) <= Hits
      BY <2>2, SearchesReturnGoodLists DEF Search
    <3>2. /\ found' = [found EXCEPT ![s] = list]
          /\ UNCHANGED <<mode, method, limit, phase, shaped, ranked>>
      BY <2>2 DEF Search, request, context
    <3>3. Hits' = Hits
      BY <3>2 DEF Hits
    <3>4. found' = [t \in Searches |-> found'[t]]
          /\ \A t \in Searches : found'[t] = IF t = s THEN list ELSE found[t]
      BY <3>2 DEF Typed
    <3>5. \A t \in Searches : found'[t] # None => GoodList(found'[t]) /\ Len(found'[t].ids) <= Hits'
      BY <3>1, <3>3, <3>4 DEF Typed
    <3> QED
      BY <3>2, <3>4, <3>5 DEF Typed
  <2>3. ASSUME NEW s \in Searches, SearchFails(s) PROVE Typed'
    BY <2>3 DEF SearchFails, Typed, request, retrieved, context, Hits
  <2>4. ASSUME NEW s \in Searches, Alone(s) PROVE Typed'
    <3>1. /\ found[s] # None /\ Wanted = {s} /\ shaped' = found[s].ids
          /\ found' = [found EXCEPT ![s] = None] /\ phase' = "reranking"
          /\ UNCHANGED <<mode, method, limit, ranked>>
      BY <2>4 DEF Alone, request, context
    <3>2. GoodList(found[s]) /\ Len(found[s].ids) <= Hits
      BY <3>1 DEF Typed
    <3>3. mode # "hybrid"
      <4>1. mode = "hybrid" => Wanted = Searches
        BY DEF Wanted
      <4> QED
        BY <3>1, <4>1 DEF Searches
    <3>4. shaped' \in Seq(Chunks) /\ IsInjective(shaped')
      BY <3>1, <3>2 DEF GoodList
    <3>5. (limit # 0 => Len(shaped') <= limit) /\ Len(shaped') <= Pool
      BY <3>1, <3>2, <3>3 DEF Hits, Size, GoodList
    <3>6. Hits' = Hits
      BY <3>1 DEF Hits
    <3>7. found' = [t \in Searches |-> found'[t]]
          /\ \A t \in Searches : found'[t] = IF t = s THEN None ELSE found[t]
      BY <3>1 DEF Typed
    <3>8. \A t \in Searches : found'[t] # None => GoodList(found'[t]) /\ Len(found'[t].ids) <= Hits'
      BY <3>6, <3>7 DEF Typed
    <3> QED
      BY <3>1, <3>4, <3>5, <3>7, <3>8 DEF Typed
  <2>5. CASE Fuse
    <3>1. /\ \A s \in Searches : found[s] # None
          /\ shaped' = Result(Fused(method, found))
          /\ found' = [s \in Searches |-> None] /\ phase' = "reranking"
          /\ UNCHANGED <<mode, method, limit, ranked>>
      BY <2>5 DEF Fuse, request, context
    <3>2. shaped' \in Seq(Chunks) /\ IsInjective(shaped') /\ (limit # 0 => Len(shaped') <= limit)
          /\ (Len(shaped') <= Pool \/ Len(shaped') <= TopK)
      BY <3>1, FuseTyped
    <3>3. found' = [s \in Searches |-> found'[s]] /\ \A s \in Searches : found'[s] = None
      BY <3>1
    <3> QED
      BY <3>1, <3>2, <3>3 DEF Typed
  <2>6. CASE \/ RerankSkipped
             \/ \E n \in 0 .. MostScores : \E scores \in [1 .. n -> 1 .. MostScores] : Rerank(scores)
    <3>1. /\ IsRanking(ranked') /\ shaped' = <<>> /\ phase' = "building"
          /\ UNCHANGED <<mode, method, limit, found>>
      BY <2>6, RerankHandsOver
    <3>2. Hits' = Hits
      BY <3>1 DEF Hits
    <3>3. ranked' \in Seq(Chunks) /\ IsInjective(ranked')
          /\ (Len(ranked') <= Pool \/ Len(ranked') <= TopK)
      <4>1. /\ ranked' \in Seq(Chunks) /\ IsInjective(ranked')
            /\ Len(ranked') <= Len(shaped) /\ Len(ranked') \in Nat
        BY <3>1 DEF IsRanking
      <4>2. Len(shaped) \in Nat /\ (Len(shaped) <= Pool \/ Len(shaped) <= TopK)
        BY DEF Typed
      <4> QED
        BY <2>0, <4>1, <4>2
    <3>4. (limit' # 0 => Len(shaped') <= limit') /\ Len(shaped') <= Pool
      BY <2>0, <3>1, EmptyTyped
    <3> QED
      BY <3>1, <3>2, <3>3, <3>4, EmptyTyped DEF Typed
  <2>7. CASE Place
    BY <2>7 DEF Place, Typed, request, retrieved, Hits
  <2>8. CASE Relabel
    BY <2>8 DEF Relabel, Typed, request, retrieved, Hits
  <2>9. CASE UNCHANGED vars
    BY <2>9 DEF vars, Typed, request, retrieved, context, Hits
  <2> QED
    BY <2>1, <2>2, <2>3, <2>4, <2>5, <2>6, <2>7, <2>8, <2>9 DEF Next
<1> QED
  BY <1>1, <1>2, PTL DEF Spec

\* HybridRetriever passes a chunk over for one that both searches like no better
\* only for the reasons it has: the chunk has no words, its paper has all its
\* places, or a similar chunk ahead of it is there, or gave its place to the cap.
THEOREM RetrievalIsFair == Spec => RankedFairly
<1> DEFINE Passed(c) == c \in Range(shaped') \/ OfPaper(shaped', Paper[c]) = MaxPerPaper
<1>1. ASSUME Typed, Next, mode = "hybrid", phase = "searching", phase' = "reranking",
             NEW a \in Range(Fused(method, found)), NEW b \in Range(shaped'),
             a # b, \A s \in Searches : NoWorse(s, a, b)
      PROVE  \/ Earlier(shaped', a, b)
             \/ Words[a] = {}
             \/ OfPaper(shaped', Paper[a]) = MaxPerPaper
             \/ \E c \in Range(Fused(method, found)) :
                   /\ Earlier(Fused(method, found), c, a) /\ Similar(a, c)
                   /\ c \in Range(shaped') \/ OfPaper(shaped', Paper[c]) = MaxPerPaper
  <2>1. Fuse
    <3>1. \A s \in Searches : ~Alone(s)
      <4>1. Wanted = Searches
        BY <1>1 DEF Wanted
      <4> QED
        BY <4>1 DEF Alone, Searches
    <3>2. ~Embed /\ ~Place /\ ~Relabel /\ ~RerankSkipped
          /\ (\A s \in Searches : ~SearchFails(s))
          /\ (\A s \in Searches, l \in EvenLists \cup FlatLists : ~Search(s, l))
          /\ (\A n \in 0 .. MostScores : \A scores \in [1 .. n -> 1 .. MostScores] : ~Rerank(scores))
      BY <1>1 DEF Embed, Place, Relabel, RerankSkipped, SearchFails, Search, Rerank
    <3> QED
      BY <1>1, <3>1, <3>2 DEF Next
  <2> DEFINE f == Fused(method, found)
             m == Size(limit, TopK)
  <2>2. GoodList(found[1]) /\ GoodList(found[2])
    BY <1>1, <2>1 DEF Fuse, Typed, Searches
  <2>3. \A s \in Searches : NoWorseIn(found[s], a, b)
    BY <1>1 DEF NoWorse, NoWorseIn
  <2>4. /\ f \in Seq(Chunks) /\ IsInjective(f)
        /\ \A x, y \in Range(f) :
              x # y /\ (\A s \in Searches : NoWorseIn(found[s], x, y)) => Earlier(f, x, y)
    BY <2>2, FusedFairly
  <2>5. m \in Nat
    <3>1. limit \in Nat /\ TopK \in Nat
      BY <1>1, Depths DEF Typed
    <3> QED
      BY <3>1, SizeIsNat
  <2>6. shaped' = Cut(Shaped(f), m)
    BY <2>1 DEF Fuse, Result
  <2> HIDE DEF f, m
  <2>7. b \in Range(Cut(Shaped(f), m)) /\ b \in Range(f) /\ a \in Range(f)
    <3>1. Range(Cut(Shaped(f), m)) \subseteq Range(f)
      BY <2>4, <2>5, ResultTyped
    <3> QED
      BY <1>1, <2>6, <3>1 DEF f
  <2>8. Earlier(f, a, b)
    BY <1>1, <2>3, <2>4, <2>7
  <2>9. \/ Earlier(Cut(Shaped(f), m), a, b)
        \/ Words[a] = {}
        \/ OfPaper(Cut(Shaped(f), m), Paper[a]) = MaxPerPaper
        \/ \E c \in Range(f) :
              /\ Earlier(f, c, a) /\ Similar(a, c)
              /\ \/ c \in Range(Cut(Shaped(f), m))
                 \/ OfPaper(Cut(Shaped(f), m), Paper[c]) = MaxPerPaper
    BY <2>4, <2>5, <2>7, <2>8, ShapedFairly
  <2> QED
    BY <2>6, <2>9 DEF f
<1>2. Typed /\ [Next]_vars =>
        (mode = "hybrid" /\ phase = "searching" /\ phase' = "reranking" =>
           LET candidates == Fused(method, found)
               PaperIsFull(c) == OfPaper(shaped', Paper[c]) = MaxPerPaper
           IN \A a \in Range(candidates), b \in Range(shaped') :
                 a # b /\ (\A s \in Searches : NoWorse(s, a, b)) =>
                   \/ Earlier(shaped', a, b)
                   \/ Words[a] = {}
                   \/ PaperIsFull(a)
                   \/ \E c \in Range(candidates) :
                         /\ Earlier(candidates, c, a) /\ Similar(a, c)
                         /\ c \in Range(shaped') \/ PaperIsFull(c))
  <2> SUFFICES ASSUME Typed, [Next]_vars, mode = "hybrid", phase = "searching", phase' = "reranking"
      PROVE  LET candidates == Fused(method, found)
                 PaperIsFull(c) == OfPaper(shaped', Paper[c]) = MaxPerPaper
             IN \A a \in Range(candidates), b \in Range(shaped') :
                   a # b /\ (\A s \in Searches : NoWorse(s, a, b)) =>
                     \/ Earlier(shaped', a, b)
                     \/ Words[a] = {}
                     \/ PaperIsFull(a)
                     \/ \E c \in Range(candidates) :
                           /\ Earlier(candidates, c, a) /\ Similar(a, c)
                           /\ c \in Range(shaped') \/ PaperIsFull(c)
    OBVIOUS
  <2>1. Next
    BY DEF vars
  <2> QED
    BY <2>1, <1>1
<1> QED
  BY <1>2, RetrievalTyped, PTL DEF Spec, RankedFairly

\* RerankingService.rerank neither fails nor invents or doubles a chunk; with a
\* limit it loses none, and without one it returns its top.
THEOREM RerankingKeepsWhatItGot == Spec => RerankLosesNothing
<1>1. Typed /\ [Next]_vars =>
        (phase = "reranking" =>
           /\ phase' # "failed"
           /\ phase' = "building" =>
                 /\ IsInjective(ranked') /\ Range(ranked') \subseteq Range(shaped)
                 /\ Len(ranked') = Top \/ Range(ranked') = Range(shaped)
                 /\ limit # 0 => Range(ranked') = Range(shaped))
  <2> SUFFICES ASSUME Typed, [Next]_vars, phase = "reranking"
      PROVE  /\ phase' # "failed"
             /\ phase' = "building" => IsRanking(ranked')
    BY DEF IsRanking
  <2>1. CASE \/ RerankSkipped
             \/ \E n \in 0 .. MostScores : \E scores \in [1 .. n -> 1 .. MostScores] : Rerank(scores)
    BY <2>1, RerankHandsOver
  <2>2. CASE UNCHANGED vars
    BY <2>2 DEF vars
  <2>3. ~Embed /\ ~Place /\ ~Relabel /\ ~Fuse
        /\ (\A s \in Searches : ~SearchFails(s) /\ ~Alone(s))
        /\ (\A s \in Searches, l \in EvenLists \cup FlatLists : ~Search(s, l))
    BY DEF Embed, Place, Relabel, Fuse, SearchFails, Search, Alone
  <2> QED
    BY <2>1, <2>2, <2>3 DEF Next
<1> QED
  BY <1>1, RetrievalTyped, PTL DEF Spec, RerankLosesNothing

-----------------------------------------------------------------------------
(* The context: placing. *)

Passage == [label : Nat, chunk : Chunks]

\* What the passages of a text cost.
CostOf(text) == Sum([i \in DOMAIN text |-> Cost[text[i].chunk]])

\* The cost of a text is a natural number,
LEMMA CostsTyped ==
    ASSUME NEW text \in Seq(Passage)
    PROVE  /\ [i \in DOMAIN text |-> Cost[text[i].chunk]] \in Seq(Nat)
           /\ CostOf(text) \in Nat
<1>1. Cost \in [Chunks -> Nat] /\ DOMAIN text = 1 .. Len(text) /\ Len(text) \in Nat
  BY RetrievalAssumption
<1>2. \A i \in 1 .. Len(text) : Cost[text[i].chunk] \in Nat
  <2>1. \A i \in 1 .. Len(text) : text[i] \in Passage
    BY <1>1
  <2>2. \A p \in Passage : Cost[p.chunk] \in Nat
    BY <1>1 DEF Passage
  <2> QED
    BY <2>1, <2>2
<1>3. [i \in DOMAIN text |-> Cost[text[i].chunk]] \in Seq(Nat)
  BY <1>1, <1>2
<1> QED
  BY <1>3, SumNat DEF CostOf

\* and grows by the cost of the passage that is added.
LEMMA CostOfAppend ==
    ASSUME NEW text \in Seq(Passage), NEW e \in Passage
    PROVE  CostOf(Append(text, e)) = CostOf(text) + Cost[e.chunk]
<1> DEFINE costs == [i \in DOMAIN text |-> Cost[text[i].chunk]]
           more == [i \in DOMAIN Append(text, e) |-> Cost[Append(text, e)[i].chunk]]
           n == Len(text)
<1>1. costs \in Seq(Nat) /\ Cost[e.chunk] \in Nat
  <2>1. Cost[e.chunk] \in Nat
    BY RetrievalAssumption DEF Passage
  <2> QED
    BY <2>1, CostsTyped
<1>2. n \in Nat /\ DOMAIN text = 1 .. n /\ DOMAIN Append(text, e) = 1 .. n + 1
      /\ (\A i \in 1 .. n : Append(text, e)[i] = text[i]) /\ Append(text, e)[n + 1] = e
  BY AppendProperties
<1>3. costs = [i \in 1 .. n |-> Cost[text[i].chunk]]
  BY <1>2
<1>4. more = [i \in 1 .. n + 1 |-> Cost[Append(text, e)[i].chunk]]
  BY <1>2
<1> HIDE DEF n
<1>5. /\ Len(costs) = n /\ Append(costs, Cost[e.chunk]) \in Seq(Nat)
      /\ Len(Append(costs, Cost[e.chunk])) = n + 1
      /\ DOMAIN Append(costs, Cost[e.chunk]) = 1 .. n + 1
      /\ (\A i \in 1 .. n : Append(costs, Cost[e.chunk])[i] = costs[i])
      /\ Append(costs, Cost[e.chunk])[n + 1] = Cost[e.chunk]
  <2>1. Len(costs) = n
    BY <1>1, <1>2, <1>3
  <2> HIDE DEF costs
  <2> QED
    BY <1>1, <2>1, AppendProperties
<1>6. \A i \in 1 .. n + 1 : more[i] = Append(costs, Cost[e.chunk])[i]
  <2> SUFFICES ASSUME NEW i \in 1 .. n + 1 PROVE more[i] = Append(costs, Cost[e.chunk])[i]
    OBVIOUS
  <2>1. CASE i = n + 1
    BY <1>2, <1>4, <1>5, <2>1
  <2>2. CASE i # n + 1
    <3>1. i \in 1 .. n
      BY <1>2, <2>2
    <3>2. more[i] = Cost[text[i].chunk] /\ costs[i] = Cost[text[i].chunk]
      BY <1>2, <1>3, <1>4, <3>1
    <3> HIDE DEF more, costs
    <3> QED
      BY <1>5, <3>1, <3>2
  <2> QED
    BY <2>1, <2>2
<1>7. DOMAIN more = 1 .. n + 1
  BY <1>2
<1>8. more = Append(costs, Cost[e.chunk])
  <2>1. more \in Seq(Nat) /\ Len(more) = n + 1
    <3>1. Append(text, e) \in Seq(Passage)
      OBVIOUS
    <3>2. more \in Seq(Nat)
      BY <3>1, CostsTyped
    <3> HIDE DEF more
    <3> QED
      BY <1>2, <1>7, <3>2
  <2> HIDE DEF more, costs
  <2> QED
    BY <1>5, <1>6, <2>1
<1> HIDE DEF more, costs
<1>9. Sum(Append(costs, Cost[e.chunk])) = Sum(costs) + Cost[e.chunk]
  BY <1>1, SumAppend
<1> QED
  BY <1>8, <1>9 DEF CostOf, more, costs

\* What the builder has put together after some of the chunks: a label for each
\* source, passages under their sources' labels, and no chunk left out for which
\* there still is room.
Assembled(ids) ==
    /\ sources \in Seq({Source(c) : c \in Chunks}) /\ IsInjective(sources)
    /\ passages \in Seq(Passage)
    /\ \A i \in 1 .. Len(passages) :
          /\ passages[i].label \in 1 .. Len(sources)
          /\ sources[passages[i].label] = Source(passages[i].chunk)
    /\ CostOf(passages) <= Budget
    /\ \A i \in 1 .. taken :
          \/ \E j \in 1 .. Len(passages) : passages[j].chunk = ids[i]
          \/ CostOf(passages) + Cost[ids[i]] > Budget

Assembling ==
    /\ phase \in {"searching", "reranking"} => taken = 0 /\ sources = <<>> /\ passages = <<>>
    /\ phase = "building" => taken \in 0 .. Len(ranked) /\ Assembled(ranked)

\* The empty context.
LEMMA NothingAssembled ==
    /\ <<>> \in Seq(Passage) /\ CostOf(<<>>) = 0 /\ Budget \in Nat
    /\ <<>> \in Seq({Source(c) : c \in Chunks}) /\ IsInjective(<<>>) /\ Len(<<>>) = 0
<1>1. <<>> \in Seq(Passage) /\ CostOf(<<>>) = 0
  <2>1. DOMAIN <<>> = {} /\ <<>> \in Seq(Passage)
    OBVIOUS
  <2>2. [i \in DOMAIN <<>> |-> Cost[<<>>[i].chunk]] = <<>>
    BY <2>1
  <2> QED
    BY <2>1, <2>2, SumEmpty DEF CostOf
<1>2. <<>> \in Seq({Source(c) : c \in Chunks}) /\ IsInjective(<<>>) /\ Len(<<>>) = 0
  BY EmptyTyped
<1>3. Budget \in Nat
  BY RetrievalAssumption DEF RetrievalSettings
<1> QED
  BY <1>1, <1>2, <1>3

\* A source keeps its label.
LEMMA LabelOf ==
    ASSUME NEW c \in Chunks, sources \in Seq({Source(d) : d \in Chunks}), IsInjective(sources)
    PROVE  /\ Labels(c) \in Seq({Source(d) : d \in Chunks}) /\ IsInjective(Labels(c))
           /\ Len(sources) <= Len(Labels(c)) /\ Len(sources) \in Nat /\ Len(Labels(c)) \in Nat
           /\ \A i \in 1 .. Len(sources) : Labels(c)[i] = sources[i]
           /\ (CHOOSE i \in DOMAIN Labels(c) : Labels(c)[i] = Source(c)) \in 1 .. Len(Labels(c))
           /\ Labels(c)[CHOOSE i \in DOMAIN Labels(c) : Labels(c)[i] = Source(c)] = Source(c)
<1> DEFINE S == {Source(d) : d \in Chunks}
           l == Labels(c)
<1>1. Source(c) \in S /\ DOMAIN sources = 1 .. Len(sources) /\ Len(sources) \in Nat
  OBVIOUS
<1>2. /\ l \in Seq(S) /\ IsInjective(l) /\ Len(sources) <= Len(l) /\ Len(l) \in Nat
      /\ \A i \in 1 .. Len(sources) : l[i] = sources[i]
      /\ \E i \in 1 .. Len(l) : l[i] = Source(c)
  <2>1. CASE \E i \in DOMAIN sources : sources[i] = Source(c)
    <3>1. l = sources
      BY <2>1 DEF Labels
    <3> HIDE DEF l
    <3> QED
      BY <1>1, <2>1, <3>1
  <2>2. CASE ~\E i \in DOMAIN sources : sources[i] = Source(c)
    <3>1. l = Append(sources, Source(c))
      BY <2>2 DEF Labels
    <3>2. Source(c) \notin ToSet(sources)
      BY <2>2 DEF ToSet
    <3> HIDE DEF l, S
    <3>3. sources \in Seq(S)
      BY DEF S
    <3>4. Append(sources, Source(c)) \in Seq(S) /\ IsInjective(Append(sources, Source(c)))
      BY <1>1, <3>2, <3>3, EntryAdded
    <3>5. /\ Len(Append(sources, Source(c))) = Len(sources) + 1
          /\ Append(sources, Source(c))[Len(sources) + 1] = Source(c)
          /\ \A i \in 1 .. Len(sources) : Append(sources, Source(c))[i] = sources[i]
      BY <1>1, <3>3, AppendProperties
    <3>6. Len(sources) + 1 \in 1 .. Len(sources) + 1
      BY <1>1
    <3> QED
      BY <1>1, <3>1, <3>4, <3>5, <3>6
  <2> QED
    BY <2>1, <2>2
<1> HIDE DEF l, S
<1>3. DOMAIN l = 1 .. Len(l)
  BY <1>2
<1>4. (CHOOSE i \in DOMAIN l : l[i] = Source(c)) \in 1 .. Len(l)
      /\ l[CHOOSE i \in DOMAIN l : l[i] = Source(c)] = Source(c)
  BY <1>2, <1>3
<1> QED
  BY <1>1, <1>2, <1>4 DEF l, S

\* Placing the next chunk.
LEMMA PlaceAssembles ==
    ASSUME Typed, Assembling, Place
    PROVE  Assembling'
<1> DEFINE c == ranked[taken + 1]
           label == CHOOSE i \in DOMAIN Labels(c) : Labels(c)[i] = Source(c)
           e == [label |-> label, chunk |-> c]
           S == {Source(d) : d \in Chunks}
<1>1. /\ phase = "building" /\ phase' = "building" /\ taken' = taken + 1 /\ taken < Len(ranked)
      /\ sources' = Labels(c)
      /\ passages' = IF Used + Cost[c] > Budget THEN passages ELSE Append(passages, e)
      /\ ranked' = ranked
  BY DEF Place
<1>2. taken \in 0 .. Len(ranked) /\ Assembled(ranked) /\ ranked \in Seq(Chunks)
      /\ Len(ranked) \in Nat
  BY <1>1 DEF Assembling, Typed
<1>3. taken + 1 \in 1 .. Len(ranked) /\ c \in Chunks
  BY <1>1, <1>2
<1> HIDE DEF c
<1>4. /\ sources' \in Seq(S) /\ IsInjective(sources')
      /\ Len(sources) <= Len(sources') /\ Len(sources) \in Nat /\ Len(sources') \in Nat
      /\ \A i \in 1 .. Len(sources) : sources'[i] = sources[i]
      /\ label \in 1 .. Len(sources') /\ sources'[label] = Source(c)
  <2>1. sources \in Seq({Source(d) : d \in Chunks}) /\ IsInjective(sources)
    BY <1>2 DEF Assembled
  <2> HIDE DEF S
  <2> QED
    BY <1>1, <1>3, <2>1, LabelOf DEF S
<1> HIDE DEF label
<1>5. e \in Passage /\ e.label = label /\ e.chunk = c
  BY <1>3, <1>4 DEF Passage
<1> HIDE DEF e
<1>6. /\ passages \in Seq(Passage)
      /\ \A i \in 1 .. Len(passages) :
            /\ passages[i].label \in 1 .. Len(sources)
            /\ sources[passages[i].label] = Source(passages[i].chunk)
      /\ CostOf(passages) <= Budget
      /\ \A i \in 1 .. taken :
            \/ \E j \in 1 .. Len(passages) : passages[j].chunk = ranked[i]
            \/ CostOf(passages) + Cost[ranked[i]] > Budget
  BY <1>2 DEF Assembled
<1>7. Used = CostOf(passages) /\ CostOf(passages) \in Nat /\ Cost[c] \in Nat /\ Budget \in Nat
      /\ \A i \in 1 .. Len(ranked) : Cost[ranked[i]] \in Nat
  <2>1. Used = CostOf(passages)
    BY DEF Used, CostOf
  <2>2. \A i \in 1 .. Len(ranked) : ranked[i] \in Chunks
    BY <1>2
  <2> QED
    BY <1>3, <1>6, <2>1, <2>2, CostsTyped, RetrievalAssumption DEF RetrievalSettings
<1>8. \A i \in 1 .. Len(passages) :
         /\ passages[i].label \in 1 .. Len(sources')
         /\ sources'[passages[i].label] = Source(passages[i].chunk)
  BY <1>4, <1>6
<1>9. /\ passages' \in Seq(Passage)
      /\ \A i \in 1 .. Len(passages') :
            /\ passages'[i].label \in 1 .. Len(sources')
            /\ sources'[passages'[i].label] = Source(passages'[i].chunk)
      /\ CostOf(passages') <= Budget
      /\ \A i \in 1 .. taken + 1 :
            \/ \E j \in 1 .. Len(passages') : passages'[j].chunk = ranked[i]
            \/ CostOf(passages') + Cost[ranked[i]] > Budget
  <2>1. \A i \in 1 .. taken + 1 : i = taken + 1 \/ i \in 1 .. taken
    BY <1>2
  <2>2. CASE Used + Cost[c] > Budget
    <3>1. passages' = passages
      BY <1>1, <2>2
    <3>2. CostOf(passages) + Cost[ranked[taken + 1]] > Budget
      BY <1>7, <2>2 DEF c
    <3> QED
      BY <1>6, <1>8, <2>1, <3>1, <3>2
  <2>3. CASE ~(Used + Cost[c] > Budget)
    <3>1. passages' = Append(passages, e)
      BY <1>1, <2>3
    <3>2. /\ Append(passages, e) \in Seq(Passage)
          /\ Len(Append(passages, e)) = Len(passages) + 1 /\ Len(passages) \in Nat
          /\ Append(passages, e)[Len(passages) + 1] = e
          /\ \A i \in 1 .. Len(passages) : Append(passages, e)[i] = passages[i]
      BY <1>5, <1>6, AppendProperties
    <3>3. CostOf(Append(passages, e)) = CostOf(passages) + Cost[c]
      BY <1>5, <1>6, CostOfAppend
    <3>4. CostOf(passages') \in Nat /\ CostOf(passages) <= CostOf(passages') /\ CostOf(passages') <= Budget
      BY <1>7, <2>3, <3>1, <3>3
    <3>5. ASSUME NEW i \in 1 .. Len(passages')
          PROVE  /\ passages'[i].label \in 1 .. Len(sources')
                 /\ sources'[passages'[i].label] = Source(passages'[i].chunk)
      <4>1. CASE i = Len(passages) + 1
        BY <1>4, <1>5, <3>1, <3>2, <4>1
      <4>2. CASE i # Len(passages) + 1
        <5>1. i \in 1 .. Len(passages) /\ passages'[i] = passages[i]
          BY <3>1, <3>2, <4>2
        <5> QED
          BY <1>8, <5>1
      <4> QED
        BY <4>1, <4>2
    <3>6. ASSUME NEW i \in 1 .. taken + 1
          PROVE  \/ \E j \in 1 .. Len(passages') : passages'[j].chunk = ranked[i]
                 \/ CostOf(passages') + Cost[ranked[i]] > Budget
      <4>1. CASE i = taken + 1
        <5>1. Len(passages) + 1 \in 1 .. Len(passages') /\ passages'[Len(passages) + 1].chunk = ranked[i]
          BY <1>5, <3>1, <3>2, <4>1 DEF c
        <5> QED
          BY <5>1
      <4>2. CASE i \in 1 .. taken
        <5>1. i \in 1 .. Len(ranked)
          BY <1>2, <4>2
        <5>2. ASSUME NEW j \in 1 .. Len(passages), passages[j].chunk = ranked[i]
              PROVE  j \in 1 .. Len(passages') /\ passages'[j].chunk = ranked[i]
          BY <3>1, <3>2, <5>2
        <5>3. CostOf(passages) + Cost[ranked[i]] > Budget => CostOf(passages') + Cost[ranked[i]] > Budget
          BY <1>7, <3>4, <5>1
        <5> QED
          BY <1>6, <4>2, <5>2, <5>3
      <4> QED
        BY <2>1, <4>1, <4>2
    <3> QED
      BY <3>1, <3>2, <3>4, <3>5, <3>6
  <2> QED
    BY <2>2, <2>3
<1>10. taken + 1 \in 0 .. Len(ranked)
  BY <1>1, <1>2
<1>11. Assembled(ranked)'
  BY <1>1, <1>4, <1>9 DEF Assembled, CostOf, S, Source
<1> QED
  BY <1>1, <1>10, <1>11 DEF Assembling

-----------------------------------------------------------------------------
(* The context: relabelling. *)

\* Replacing a label leaves the chunks and the other labels alone.
LEMMA ReplacedTyped ==
    ASSUME NEW text \in Seq(Passage), NEW old, NEW new \in Nat
    PROVE  /\ Replaced(text, old, new) \in Seq(Passage)
           /\ Len(Replaced(text, old, new)) = Len(text)
           /\ \A i \in 1 .. Len(text) :
                 /\ Replaced(text, old, new)[i].chunk = text[i].chunk
                 /\ Replaced(text, old, new)[i].label =
                       IF text[i].label = old THEN new ELSE text[i].label
<1> DEFINE r == Replaced(text, old, new)
<1>1. Len(text) \in Nat /\ DOMAIN text = 1 .. Len(text) /\ \A i \in 1 .. Len(text) : text[i] \in Passage
  OBVIOUS
<1>2. r = [i \in 1 .. Len(text) |->
             IF text[i].label = old THEN [text[i] EXCEPT !.label = new] ELSE text[i]]
  BY <1>1 DEF Replaced
<1>3. \A p \in Passage : /\ [p EXCEPT !.label = new] \in Passage
                         /\ [p EXCEPT !.label = new].label = new
                         /\ [p EXCEPT !.label = new].chunk = p.chunk
  BY DEF Passage
<1> HIDE DEF r
<1>4. \A i \in 1 .. Len(text) :
         /\ r[i] \in Passage
         /\ r[i].chunk = text[i].chunk
         /\ r[i].label = IF text[i].label = old THEN new ELSE text[i].label
  BY <1>1, <1>2, <1>3
<1>5. r \in Seq(Passage) /\ Len(r) = Len(text)
  BY <1>1, <1>2, <1>4
<1> QED
  BY <1>4, <1>5 DEF r

\* The context after each replacement.
IsRelabelRun(h) ==
    /\ h \in [0 .. Len(UsedLabels) -> Seq(Passage)]
    /\ h[0] = passages /\ Relabelled(passages) = h[Len(UsedLabels)]
    /\ \A i \in 1 .. Len(UsedLabels) : h[i] = Replaced(h[i - 1], UsedLabels[i], i)

\* Relabelling is such a run.
LEMMA RelabelRuns ==
    ASSUME passages \in Seq(Passage), UsedLabels \in Seq(Nat)
    PROVE  \E h : IsRelabelRun(h)
<1> DEFINE s == [i \in DOMAIN UsedLabels |-> i]
           n == Len(s)
           Op(t, i) == Replaced(t, UsedLabels[i], i)
           step == [i \in 1 .. n |-> [t \in Seq(Passage) |-> Op(t, s[i])]]
           it == CHOOSE f : f = [t \in SUBSET (1 .. n) |->
                                   IF t = {} THEN passages ELSE Op(f[t \ {Max(t)}], s[Max(t)])]
<1>1. n \in Nat /\ DOMAIN s = 1 .. n /\ n = Len(UsedLabels) /\ passages \in Seq(Passage)
      /\ \A i \in 1 .. n : s[i] = i /\ i \in Nat
  OBVIOUS
<1>2. IsStep(step, Seq(Passage), n)
      /\ \A i \in 1 .. n, t \in Seq(Passage) : step[i][t] = Op(t, s[i])
  <2>1. ASSUME NEW i \in 1 .. n, NEW t \in Seq(Passage) PROVE Op(t, s[i]) \in Seq(Passage)
    <3>1. s[i] \in Nat
      BY <1>1
    <3> QED
      BY <3>1, ReplacedTyped
  <2> HIDE DEF Op
  <2> QED
    BY <1>1, <2>1 DEF IsStep
<1>3. \A t \in SUBSET (1 .. n) : t # {} => Max(t) \in 1 .. n /\ t \ {Max(t)} \in SUBSET (1 .. n)
  BY <1>1, MaxOfPositions
<1>4. it = [t \in SUBSET (1 .. n) |->
              IF t = {} THEN passages ELSE Op(it[t \ {Max(t)}], s[Max(t)])]
  <2>1. PICK f : f \in [SUBSET (1 .. n) -> Seq(Passage)]
                 /\ Iterates(f, step, passages, Seq(Passage), n)
    <3> HIDE DEF step, n, Op
    <3> QED
      BY <1>1, <1>2, IterationExists
  <2>2. f = [t \in SUBSET (1 .. n) |->
               IF t = {} THEN passages ELSE Op(f[t \ {Max(t)}], s[Max(t)])]
    <3> HIDE DEF step, n, Op
    <3> QED
      BY <2>1, <1>2, <1>3 DEF Iterates
  <2> QED
    BY <2>2
<1>5. Relabelled(passages) = it[1 .. n]
  BY <1>1 DEF Relabelled, FoldLeft, MapThenFoldSet
<1> HIDE DEF step, it, n, s, Op
<1>6. Iterates(it, step, passages, Seq(Passage), n)
  BY <1>2, <1>3, <1>4 DEF Iterates
<1>7. PICK h : IsRun(h, step, passages, Seq(Passage), n, it[1 .. n])
  BY <1>1, <1>2, <1>6, IterationRuns
<1>8. h \in [0 .. n -> Seq(Passage)] /\ \A i \in 1 .. n : h[i] = Op(h[i - 1], s[i])
  <2>1. \A i \in 1 .. n : h[i - 1] \in Seq(Passage)
    <3>1. \A i \in 1 .. n : i - 1 \in 0 .. n
      BY <1>1
    <3> QED
      BY <1>7, <3>1 DEF IsRun
  <2> QED
    BY <1>1, <1>2, <1>7, <2>1 DEF IsRun
<1>9. \A i \in 1 .. n : h[i] = Replaced(h[i - 1], UsedLabels[i], i)
  BY <1>1, <1>8 DEF Op
<1> QED
  BY <1>1, <1>5, <1>7, <1>8, <1>9 DEF IsRun, IsRelabelRun

\* The labels in use are increasing, so that none is below its new number.
LEMMA UsedLabelsIncrease ==
    ASSUME Assembled(ranked)
    PROVE  /\ UsedLabels \in Seq(Nat) /\ Len(UsedLabels) \in Nat
           /\ \A i \in 1 .. Len(UsedLabels) : UsedLabels[i] \in 1 .. Len(sources) /\ i <= UsedLabels[i]
           /\ \A i, j \in 1 .. Len(UsedLabels) : i < j => UsedLabels[i] < UsedLabels[j]
           /\ \A i \in 1 .. Len(passages) :
                 \E j \in 1 .. Len(UsedLabels) : passages[i].label = UsedLabels[j]
           /\ \A j \in 1 .. Len(UsedLabels) :
                 \E i \in 1 .. Len(passages) : passages[i].label = UsedLabels[j]
<1> DEFINE u == UsedLabels
           k == Len(sources)
           T == {p.label : p \in Range(passages)}
           m == Len(u)
<1>1. /\ k \in Nat /\ DOMAIN sources = 1 .. k
      /\ DOMAIN passages = 1 .. Len(passages)
      /\ \A i \in 1 .. Len(passages) : passages[i].label \in 1 .. k
  BY DEF Assembled
<1>2. T \in SUBSET (1 .. k)
  BY <1>1 DEF Range
<1>3. u = Only([i \in 1 .. k |-> i], T)
  BY <1>1 DEF UsedLabels
<1> HIDE DEF k, u, T
<1>4. u \in Seq(Nat)
  <2>1. [i \in 1 .. k |-> i] \in Seq(Nat)
    BY <1>1
  <2> QED
    BY <1>3, <2>1, OnlySelects
<1>5. Range(u) = T
  BY <1>1, <1>2, <1>3, RangeOfOnly
<1>6. \A i, j \in 1 .. m : i < j => u[i] < u[j]
  <2>1. LET r == Only([i \in 1 .. k |-> i], T)
        IN \A a, b \in 1 .. Len(r) : a < b => r[a] < r[b]
    BY <1>1, OnlyIncreases
  <2> QED
    BY <1>3, <2>1
<1>7. m \in Nat /\ DOMAIN u = 1 .. m /\ \A i \in 1 .. m : u[i] \in 1 .. k
  <2>1. m \in Nat /\ DOMAIN u = 1 .. m
    BY <1>4
  <2>2. \A i \in 1 .. m : u[i] \in Range(u)
    BY <2>1 DEF Range
  <2> QED
    BY <1>2, <1>5, <2>1, <2>2
<1> HIDE DEF m
<1>8. \A i \in 1 .. m : i <= u[i]
  <2> DEFINE G == {i \in 0 .. m : i = 0 \/ i <= u[i]}
  <2>1. 0 \in G
    BY <1>7
  <2>2. ASSUME NEW i \in 1 .. m, i - 1 \in G PROVE i \in G
    <3>1. u[i] \in Int /\ 1 <= u[i] /\ i \in Nat
      BY <1>1, <1>7
    <3>2. CASE i = 1
      BY <3>1, <3>2
    <3>3. CASE i # 1
      <4>1. i - 1 \in 1 .. m /\ i - 1 < i /\ i - 1 # 0
        BY <1>7, <3>3
      <4>2. i - 1 <= u[i - 1] /\ u[i - 1] < u[i] /\ u[i - 1] \in Int
        BY <1>1, <1>6, <1>7, <2>2, <4>1
      <4>3. i <= u[i]
        BY <3>1, <4>2
      <4> QED
        BY <1>7, <4>3
    <3> QED
      BY <3>2, <3>3
  <2>3. 0 .. m \subseteq G
    <3> HIDE DEF G
    <3> QED
      BY <1>7, <2>1, <2>2, UpToInduction
  <2> QED
    BY <1>7, <2>3
<1>9. \A i \in 1 .. Len(passages) : \E j \in 1 .. m : passages[i].label = u[j]
  <2>1. \A i \in 1 .. Len(passages) : passages[i].label \in T
    BY <1>1 DEF T, Range
  <2> QED
    BY <1>5, <1>7, <2>1 DEF Range
<1>10. \A j \in 1 .. m : \E i \in 1 .. Len(passages) : passages[i].label = u[j]
  <2>1. \A j \in 1 .. m : u[j] \in T
    BY <1>5, <1>7 DEF Range
  <2>2. \A x \in T : \E i \in 1 .. Len(passages) : passages[i].label = x
    BY <1>1 DEF T, Range
  <2> QED
    BY <2>1, <2>2
<1> QED
  BY <1>4, <1>6, <1>7, <1>8, <1>9, <1>10 DEF u, k, m

\* One replacement after the other gives each used label its number, and no
\* passage is renamed twice: the labels still to come are all larger.
LEMMA RelabelledIs ==
    ASSUME Assembled(ranked)
    PROVE  /\ Relabelled(passages) \in Seq(Passage)
           /\ Len(Relabelled(passages)) = Len(passages)
           /\ \A i \in 1 .. Len(passages) :
                 /\ Relabelled(passages)[i].chunk = passages[i].chunk
                 /\ \A j \in 1 .. Len(UsedLabels) :
                       passages[i].label = UsedLabels[j] => Relabelled(passages)[i].label = j
<1> DEFINE u == UsedLabels
           m == Len(UsedLabels)
<1>1. /\ u \in Seq(Nat) /\ m \in Nat
      /\ \A i \in 1 .. m : u[i] \in Nat /\ i <= u[i]
      /\ \A i, j \in 1 .. m : i < j => u[i] < u[j]
  <2>1. Len(sources) \in Nat
    BY DEF Assembled
  <2> QED
    BY <2>1, UsedLabelsIncrease
<1>2. passages \in Seq(Passage)
  BY DEF Assembled
<1>3. PICK h : IsRelabelRun(h)
  BY <1>1, <1>2, RelabelRuns
<1>4. /\ h \in [0 .. m -> Seq(Passage)] /\ h[0] = passages /\ Relabelled(passages) = h[m]
      /\ \A k \in 1 .. m : h[k] = Replaced(h[k - 1], u[k], k)
  BY <1>3 DEF IsRelabelRun
<1> HIDE DEF u, m
<1> DEFINE Good(k) ==
             /\ Len(h[k]) = Len(passages)
             /\ \A i \in 1 .. Len(passages) :
                   /\ h[k][i].chunk = passages[i].chunk
                   /\ \A j \in 1 .. m : passages[i].label = u[j] =>
                         h[k][i].label = IF j <= k THEN j ELSE u[j]
           G == {k \in 0 .. m : Good(k)}
<1>5. 0 \in G
  <2>1. \A j \in 1 .. m : ~(j <= 0)
    OBVIOUS
  <2> QED
    BY <1>1, <1>4, <2>1
<1>6. ASSUME NEW k \in 1 .. m, k - 1 \in G PROVE k \in G
  <2>0. k - 1 \in 0 .. m /\ k \in 0 .. m /\ k \in Nat
    BY <1>1
  <2>1. k - 1 \in 0 .. m /\ k \in 0 .. m /\ k \in Nat /\ h[k - 1] \in Seq(Passage) /\ Good(k - 1)
    <3> HIDE DEF Good
    <3> QED
      BY <1>4, <1>6, <2>0
  <2>2. /\ Len(h[k]) = Len(h[k - 1])
        /\ \A i \in 1 .. Len(h[k - 1]) :
              /\ h[k][i].chunk = h[k - 1][i].chunk
              /\ h[k][i].label = IF h[k - 1][i].label = u[k] THEN k ELSE h[k - 1][i].label
    <3>1. h[k] = Replaced(h[k - 1], u[k], k)
      BY <1>4
    <3> HIDE DEF Good, G
    <3> QED
      BY <2>1, <3>1, ReplacedTyped
  <2>3. ASSUME NEW i \in 1 .. Len(passages), NEW j \in 1 .. m, passages[i].label = u[j]
        PROVE  h[k][i].label = IF j <= k THEN j ELSE u[j]
    <3>1. h[k - 1][i].label = IF j <= k - 1 THEN j ELSE u[j]
      BY <2>1, <2>3
    <3>2. h[k][i].label = IF h[k - 1][i].label = u[k] THEN k ELSE h[k - 1][i].label
      BY <2>1, <2>2
    <3> HIDE DEF Good, G
    <3>3. j \in Nat /\ u[j] \in Nat /\ u[k] \in Nat /\ k <= u[k]
      BY <1>1
    <3>4. CASE j < k
      <4>1. j <= k - 1 /\ j <= k /\ j # u[k]
        BY <2>1, <3>3, <3>4
      <4> QED
        BY <3>1, <3>2, <4>1
    <3>5. CASE j = k
      <4>1. ~(j <= k - 1) /\ j <= k
        BY <2>1, <3>5
      <4> QED
        BY <3>1, <3>2, <3>5, <4>1
    <3>6. CASE k < j
      <4>1. ~(j <= k - 1) /\ ~(j <= k) /\ u[k] < u[j]
        BY <1>1, <2>1, <3>3, <3>6
      <4>2. u[j] # u[k]
        BY <3>3, <4>1
      <4> QED
        BY <3>1, <3>2, <4>1, <4>2
    <3> QED
      BY <2>1, <3>3, <3>4, <3>5, <3>6
  <2>4. Good(k)
    BY <2>1, <2>2, <2>3
  <2> QED
    BY <2>1, <2>4
<1>7. 0 .. m \subseteq G
  <2> HIDE DEF G
  <2> QED
    BY <1>1, <1>5, <1>6, UpToInduction
<1>8. m \in 0 .. m /\ Good(m) /\ h[m] \in Seq(Passage)
  <2>1. m \in 0 .. m
    BY <1>1
  <2> QED
    BY <1>4, <1>7, <2>1
<1>9. \A j \in 1 .. m : j <= m
  BY <1>1
<1> QED
  BY <1>4, <1>8, <1>9 DEF u, m

\* The finished context and its citations.
LEMMA RelabelIsFaithful ==
    ASSUME Typed, Assembling, Relabel
    PROVE  ContextIsFaithful'
<1> DEFINE u == UsedLabels
           m == Len(UsedLabels)
           r == Relabelled(passages)
           n == Len(passages)
<1>1. /\ phase = "building" /\ taken = Len(ranked)
      /\ citations' = [i \in DOMAIN u |-> [source |-> sources[u[i]], chunks |-> CitedBy(u[i])]]
      /\ passages' = r /\ ranked' = ranked
  BY DEF Relabel
<1>2. Assembled(ranked) /\ ranked \in Seq(Chunks)
  BY <1>1 DEF Assembling, Typed
<1>3. /\ u \in Seq(Nat) /\ m \in Nat /\ DOMAIN u = 1 .. m
      /\ \A i \in 1 .. n : \E j \in 1 .. m : passages[i].label = u[j]
      /\ \A j \in 1 .. m : \E i \in 1 .. n : passages[i].label = u[j]
  <2>1. /\ UsedLabels \in Seq(Nat) /\ Len(UsedLabels) \in Nat
        /\ \A i \in 1 .. Len(passages) :
              \E j \in 1 .. Len(UsedLabels) : passages[i].label = UsedLabels[j]
        /\ \A j \in 1 .. Len(UsedLabels) :
              \E i \in 1 .. Len(passages) : passages[i].label = UsedLabels[j]
    BY <1>2, UsedLabelsIncrease
  <2>2. DOMAIN UsedLabels = 1 .. Len(UsedLabels)
    BY <2>1
  <2> QED
    BY <2>1, <2>2
<1>4. /\ r \in Seq(Passage) /\ Len(r) = n
      /\ \A i \in 1 .. n :
            /\ r[i].chunk = passages[i].chunk
            /\ \A j \in 1 .. m : passages[i].label = u[j] => r[i].label = j
  BY <1>2, RelabelledIs
<1>5. /\ passages \in Seq(Passage) /\ DOMAIN passages = 1 .. n /\ n \in Nat
      /\ \A i \in 1 .. n : sources[passages[i].label] = Source(passages[i].chunk)
      /\ CostOf(passages) <= Budget
      /\ \A i \in 1 .. Len(ranked) :
            \/ \E j \in 1 .. n : passages[j].chunk = ranked[i]
            \/ CostOf(passages) + Cost[ranked[i]] > Budget
  BY <1>1, <1>2 DEF Assembled
<1> HIDE DEF u, m, r, n
<1>6. DOMAIN r = 1 .. n /\ DOMAIN citations' = 1 .. m
      /\ \A j \in 1 .. m : /\ citations'[j].source = sources[u[j]]
                           /\ citations'[j].chunks = CitedBy(u[j])
  BY <1>1, <1>3, <1>4 DEF n
<1>7. ASSUME NEW i \in 1 .. n, NEW j \in 1 .. m, passages[i].label = u[j]
      PROVE  passages[i].chunk \in Range(CitedBy(u[j]))
  <2> DEFINE T == {p \in Range(passages) : p.label = u[j]}
             mine == Only(passages, T)
  <2>1. passages[i] \in T
    BY <1>5, <1>7 DEF Range
  <2>2. CitedBy(u[j]) = [a \in DOMAIN mine |-> mine[a].chunk]
    BY DEF CitedBy
  <2> HIDE DEF T
  <2>3. mine \in Seq(Passage) /\ Selects(mine, passages, T, Len(passages))
    BY <1>5, OnlySelects
  <2> HIDE DEF mine
  <2>4. PICK a \in 1 .. Len(mine) : mine[a] = passages[i]
    BY <2>1, <2>3 DEF Selects, n
  <2>5. DOMAIN mine = 1 .. Len(mine)
    BY <2>3
  <2> QED
    BY <2>2, <2>4, <2>5 DEF Range
<1>8. ASSUME NEW p \in Range(r)
      PROVE  /\ p.label \in DOMAIN citations'
             /\ citations'[p.label].source = Source(p.chunk)
             /\ p.chunk \in Range(citations'[p.label].chunks)
  <2>1. PICK i \in 1 .. n : p = r[i]
    BY <1>6 DEF Range
  <2>2. PICK j \in 1 .. m : passages[i].label = u[j]
    BY <1>3
  <2>3. p.label = j /\ p.chunk = passages[i].chunk
    BY <1>4, <2>1, <2>2
  <2>4. citations'[j].source = Source(p.chunk)
    BY <1>5, <1>6, <2>2, <2>3
  <2>5. p.chunk \in Range(CitedBy(u[j]))
    BY <1>7, <2>2, <2>3
  <2> QED
    BY <1>6, <2>3, <2>4, <2>5
<1>9. ASSUME NEW j \in 1 .. m PROVE \E p \in Range(r) : p.label = j
  <2>1. PICK i \in 1 .. n : passages[i].label = u[j]
    BY <1>3
  <2>2. r[i].label = j /\ r[i] \in Range(r)
    BY <1>4, <1>6, <2>1 DEF Range
  <2> QED
    BY <2>2
<1>10. Used' = CostOf(passages)
  <2>1. [i \in DOMAIN r |-> Cost[r[i].chunk]] = [i \in DOMAIN passages |-> Cost[passages[i].chunk]]
    <3>1. \A i \in 1 .. n : Cost[r[i].chunk] = Cost[passages[i].chunk]
      BY <1>4
    <3> QED
      BY <1>5, <1>6, <3>1
  <2>2. Used' = Sum([i \in DOMAIN r |-> Cost[r[i].chunk]])
    BY <1>1 DEF Used
  <2> QED
    BY <2>1, <2>2 DEF CostOf
<1>11. ASSUME NEW c \in Range(ranked), CostOf(passages) + Cost[c] <= Budget
       PROVE  \E p \in Range(r) : p.chunk = c
  <2>1. PICK i \in 1 .. Len(ranked) : c = ranked[i]
    BY <1>2 DEF Range
  <2>2. CostOf(passages) \in Nat /\ Cost[c] \in Nat /\ Budget \in Nat
    <3>1. c \in Chunks
      BY <1>2, <2>1
    <3> QED
      BY <1>5, <3>1, CostsTyped, RetrievalAssumption DEF RetrievalSettings
  <2>3. ~(CostOf(passages) + Cost[c] > Budget)
    BY <1>11, <2>2
  <2>4. PICK j \in 1 .. n : passages[j].chunk = c
    BY <1>5, <2>1, <2>3
  <2>5. r[j].chunk = c /\ r[j] \in Range(r)
    BY <1>4, <1>6, <2>4 DEF Range
  <2> QED
    BY <2>5
<1>12. /\ \A p \in Range(passages') :
             /\ p.label \in DOMAIN citations'
             /\ citations'[p.label].source = Source(p.chunk)
             /\ p.chunk \in Range(citations'[p.label].chunks)
       /\ \A i \in DOMAIN citations' : \E p \in Range(passages') : p.label = i
       /\ Used' <= Budget
       /\ \A c \in Range(ranked') :
             Used' + Cost[c] <= Budget => \E p \in Range(passages') : p.chunk = c
  BY <1>1, <1>5, <1>6, <1>8, <1>9, <1>10, <1>11
<1> QED
  BY <1>12 DEF ContextIsFaithful, Source

\* While ContextBuilder.build places chunks it stays in the budget, and leaves out
\* no chunk for which there is room.
THEOREM ContextIsAssembled == Spec => []Assembling
<1>1. Init => Assembling
  BY DEF Init, Assembling
<1>2. Typed /\ Assembling /\ [Next]_vars => Assembling'
  <2> SUFFICES ASSUME Typed, Assembling, [Next]_vars PROVE Assembling'
    OBVIOUS
  <2>1. CASE Place
    BY <2>1, PlaceAssembles
  <2>2. CASE \/ RerankSkipped
             \/ \E n \in 0 .. MostScores : \E scores \in [1 .. n -> 1 .. MostScores] : Rerank(scores)
    <3>1. /\ phase = "reranking" /\ phase' = "building" /\ IsRanking(ranked')
          /\ UNCHANGED <<taken, sources, passages>>
      BY <2>2, RerankHandsOver
    <3>2. taken' = 0 /\ sources' = <<>> /\ passages' = <<>>
      BY <3>1 DEF Assembling
    <3>3. Assembled(ranked)'
      <4>1. /\ sources' \in Seq({Source(c) : c \in Chunks}) /\ IsInjective(sources')
            /\ passages' \in Seq(Passage) /\ Len(passages') = 0
            /\ CostOf(passages') <= Budget
        BY <3>2, NothingAssembled
      <4> QED
        BY <3>2, <4>1 DEF Assembled, CostOf, Source
    <3>4. 0 \in 0 .. Len(ranked')
      BY <3>1 DEF IsRanking
    <3> QED
      BY <3>1, <3>2, <3>3, <3>4 DEF Assembling
  <2>3. CASE Relabel
    BY <2>3 DEF Relabel, Assembling
  <2>4. CASE /\ phase = "searching" /\ phase' \in {"searching", "reranking", "failed"}
             /\ UNCHANGED <<taken, sources, passages>>
    BY <2>4 DEF Assembling
  <2>5. CASE Embed \/ Fuse
    BY <2>4, <2>5 DEF Embed, Fuse, context
  <2>6. ASSUME NEW s \in Searches,
               \/ \E l \in EvenLists \cup FlatLists : Search(s, l)
               \/ SearchFails(s) \/ Alone(s)
        PROVE  Assembling'
    BY <2>4, <2>6 DEF Search, SearchFails, Alone, context
  <2>7. CASE UNCHANGED vars
    BY <2>7 DEF vars, Assembling, Assembled, context, CostOf
  <2> QED
    BY <2>1, <2>2, <2>3, <2>5, <2>6, <2>7 DEF Next
<1> QED
  BY <1>1, <1>2, RetrievalTyped, PTL DEF Spec

\* In the context that ContextBuilder.build returns each label names the source its
\* passage is from and cites that passage, no label lacks a passage, the budget is kept,
\* and no chunk is left out for which there is room.
THEOREM ContextStaysFaithful == Spec => []ContextIsFaithful
<1>1. Init => ContextIsFaithful
  BY DEF Init, ContextIsFaithful
<1>2. Typed /\ Assembling /\ ContextIsFaithful /\ [Next]_vars => ContextIsFaithful'
  <2> SUFFICES ASSUME Typed, Assembling, ContextIsFaithful, [Next]_vars PROVE ContextIsFaithful'
    OBVIOUS
  <2>1. CASE Relabel
    BY <2>1, RelabelIsFaithful
  <2>2. CASE UNCHANGED vars
    BY <2>2 DEF vars, context, ContextIsFaithful, Used
  <2>3. ASSUME phase' # "done" PROVE ContextIsFaithful'
    BY <2>3 DEF ContextIsFaithful
  <2>4. CASE Embed \/ Fuse \/ RerankSkipped \/ Place
    <3>1. phase' # "done"
      BY <2>4 DEF Embed, Fuse, RerankSkipped, Place, Build
    <3> QED
      BY <2>3, <3>1
  <2>5. ASSUME NEW s \in Searches,
               \/ \E l \in EvenLists \cup FlatLists : Search(s, l)
               \/ SearchFails(s) \/ Alone(s)
        PROVE  ContextIsFaithful'
    <3>1. phase' # "done"
      BY <2>5 DEF Search, SearchFails, Alone
    <3> QED
      BY <2>3, <3>1
  <2>6. ASSUME NEW n \in 0 .. MostScores, NEW scores \in [1 .. n -> 1 .. MostScores], Rerank(scores)
        PROVE  ContextIsFaithful'
    <3>1. phase' # "done"
      BY <2>6 DEF Rerank, Scored, Build
    <3> QED
      BY <2>3, <3>1
  <2> QED
    BY <2>1, <2>2, <2>4, <2>5, <2>6 DEF Next
<1> QED
  BY <1>1, <1>2, RetrievalTyped, ContextIsAssembled, PTL DEF Spec

-----------------------------------------------------------------------------
(* Metrics: discounted gain. *)

\* The running totals of a discounted gain.
IsGainRun(h, t) ==
    /\ h \in [0 .. Deepest -> Nat]
    /\ h[0] = 0 /\ DCG(t) = h[Deepest]
    /\ \A i \in 1 .. Deepest : h[i] = IF i \in t THEN h[i - 1] + Gain[i] ELSE h[i - 1]

\* Summing the gains is such a run.
LEMMA GainRuns ==
    ASSUME NEW t
    PROVE  \E h : IsGainRun(h, t)
<1> DEFINE s == [i \in 1 .. Deepest |-> i]
           n == Deepest
           Op(sum, i) == IF i \in t THEN sum + Gain[i] ELSE sum
           step == [i \in 1 .. n |-> [sum \in Nat |-> Op(sum, s[i])]]
           it == CHOOSE f : f = [u \in SUBSET (1 .. n) |->
                                   IF u = {} THEN 0 ELSE Op(f[u \ {Max(u)}], s[Max(u)])]
<1>1. n \in Nat /\ DOMAIN s = 1 .. n /\ 0 \in Nat /\ Len(s) = n
      /\ \A i \in 1 .. n : s[i] = i /\ Gain[i] \in Nat
  BY EvaluationAssumption
<1>2. IsStep(step, Nat, n)
      /\ \A i \in 1 .. n, sum \in Nat : step[i][sum] = Op(sum, s[i])
  <2>1. \A i \in 1 .. n, sum \in Nat : Op(sum, s[i]) \in Nat
    BY <1>1
  <2> HIDE DEF Op
  <2> QED
    BY <1>1, <2>1 DEF IsStep
<1>3. \A u \in SUBSET (1 .. n) : u # {} => Max(u) \in 1 .. n /\ u \ {Max(u)} \in SUBSET (1 .. n)
  BY <1>1, MaxOfPositions
<1>4. it = [u \in SUBSET (1 .. n) |->
              IF u = {} THEN 0 ELSE Op(it[u \ {Max(u)}], s[Max(u)])]
  <2>1. PICK f : f \in [SUBSET (1 .. n) -> Nat] /\ Iterates(f, step, 0, Nat, n)
    <3> HIDE DEF step, n, Op, s
    <3> QED
      BY <1>1, <1>2, IterationExists
  <2>2. f = [u \in SUBSET (1 .. n) |->
               IF u = {} THEN 0 ELSE Op(f[u \ {Max(u)}], s[Max(u)])]
    <3> HIDE DEF step, n, Op, s
    <3> QED
      BY <2>1, <1>2, <1>3 DEF Iterates
  <2> QED
    BY <2>2
<1>5. DCG(t) = it[1 .. n]
  BY <1>1 DEF DCG, FoldLeft, MapThenFoldSet
<1> HIDE DEF step, it, n, s, Op
<1>6. Iterates(it, step, 0, Nat, n)
  BY <1>2, <1>3, <1>4 DEF Iterates
<1>7. PICK h : IsRun(h, step, 0, Nat, n, it[1 .. n])
  BY <1>1, <1>2, <1>6, IterationRuns
<1>8. h \in [0 .. n -> Nat] /\ \A i \in 1 .. n : h[i] = Op(h[i - 1], s[i])
  <2>1. \A i \in 1 .. n : h[i - 1] \in Nat
    <3>1. \A i \in 1 .. n : i - 1 \in 0 .. n
      BY <1>1
    <3> QED
      BY <1>7, <3>1 DEF IsRun
  <2> QED
    BY <1>1, <1>2, <1>7, <2>1 DEF IsRun
<1>9. \A i \in 1 .. n : h[i] = IF i \in t THEN h[i - 1] + Gain[i] ELSE h[i - 1]
  BY <1>1, <1>8 DEF Op
<1> QED
  BY <1>5, <1>7, <1>8, <1>9 DEF IsRun, IsGainRun, n

\* The totals over all places.
LEMMA FullGainRises ==
    ASSUME NEW p, IsGainRun(p, 1 .. Deepest), NEW i \in 0 .. Deepest, NEW j \in 0 .. Deepest, i < j
    PROVE  p[i] < p[j] /\ p[i] \in Nat /\ p[j] \in Nat
<1>1. /\ Deepest \in Nat /\ \A k \in 0 .. Deepest : p[k] \in Nat
      /\ \A k \in 1 .. Deepest : k - 1 \in 0 .. Deepest /\ k \in 0 .. Deepest
                              /\ Gain[k] \in Nat \ {0} /\ p[k] = p[k - 1] + Gain[k]
  <2>1. Deepest \in Nat /\ Gain \in [1 .. Deepest -> Nat \ {0}]
    BY EvaluationAssumption
  <2> QED
    BY <2>1 DEF IsGainRun
<1> DEFINE G == {k \in 0 .. Deepest : i < k => p[i] < p[k]}
<1>2. 0 \in G
  BY <1>1
<1>3. ASSUME NEW k \in 1 .. Deepest, k - 1 \in G PROVE k \in G
  <2>1. p[k - 1] < p[k] /\ p[k - 1] \in Nat /\ p[k] \in Nat /\ p[i] \in Nat
    <3>1. p[k - 1] \in Nat /\ p[k] \in Nat /\ p[i] \in Nat
      BY <1>1
    <3>2. Gain[k] \in Nat \ {0} /\ p[k] = p[k - 1] + Gain[k]
      BY <1>1
    <3> QED
      BY <3>1, <3>2
  <2>2. CASE i < k - 1
    <3>1. p[i] < p[k - 1]
      BY <1>3, <2>2
    <3> QED
      BY <1>1, <2>1, <3>1
  <2>3. CASE i = k - 1
    BY <1>1, <2>1, <2>3
  <2>4. CASE ~(i < k)
    BY <1>1, <2>4
  <2> QED
    BY <1>1, <2>2, <2>3, <2>4
<1>4. 0 .. Deepest \subseteq G
  <2> HIDE DEF G
  <2> QED
    BY <1>1, <1>2, <1>3, UpToInduction
<1> QED
  BY <1>1, <1>4

\* What the first places gain.
LEMMA FirstGains ==
    ASSUME NEW p, IsGainRun(p, 1 .. Deepest), NEW m \in 0 .. Deepest
    PROVE  DCG(1 .. m) = p[m]
<1>1. PICK h : IsGainRun(h, 1 .. m)
  BY GainRuns
<1>2. /\ Deepest \in Nat /\ m \in Nat
      /\ DCG(1 .. m) = h[Deepest] /\ h[0] = 0 /\ p[0] = 0
      /\ \A k \in 1 .. Deepest : h[k] = IF k <= m THEN h[k - 1] + Gain[k] ELSE h[k - 1]
      /\ \A k \in 1 .. Deepest : p[k] = p[k - 1] + Gain[k]
  <2>1. Deepest \in Nat /\ m \in Nat
    BY EvaluationAssumption
  <2> QED
    BY <1>1, <2>1 DEF IsGainRun
<1> DEFINE G == {k \in 0 .. Deepest : h[k] = IF k <= m THEN p[k] ELSE p[m]}
<1>3. 0 \in G
  BY <1>2
<1>4. ASSUME NEW k \in 1 .. Deepest, k - 1 \in G PROVE k \in G
  <2>1. h[k - 1] = (IF k - 1 <= m THEN p[k - 1] ELSE p[m]) /\ k \in 0 .. Deepest /\ k \in Nat
    BY <1>2, <1>4
  <2>2. CASE k <= m
    <3>1. k - 1 <= m
      BY <1>2, <2>1, <2>2
    <3> QED
      BY <1>2, <2>1, <2>2, <3>1
  <2>3. CASE k = m + 1
    <3>1. k - 1 <= m /\ ~(k <= m) /\ k - 1 = m
      BY <1>2, <2>1, <2>3
    <3> QED
      BY <1>2, <2>1, <3>1
  <2>4. CASE ~(k <= m) /\ k # m + 1
    <3>1. ~(k - 1 <= m)
      BY <1>2, <2>1, <2>4
    <3> QED
      BY <1>2, <2>1, <2>4, <3>1
  <2> QED
    BY <2>2, <2>3, <2>4
<1>5. 0 .. Deepest \subseteq G
  <2> HIDE DEF G
  <2> QED
    BY <1>2, <1>3, <1>4, UpToInduction
<1>6. Deepest \in 0 .. Deepest
  BY <1>2
<1>7. CASE Deepest <= m
  <2>1. Deepest = m
    BY <1>2, <1>7
  <2> QED
    BY <1>2, <1>5, <1>6, <2>1
<1>8. CASE ~(Deepest <= m)
  BY <1>2, <1>5, <1>6, <1>8
<1> QED
  BY <1>7, <1>8

\* The places of t among the first i.
FirstOf(t, i) == {x \in 1 .. i : x \in t}

\* As many places gain most when they are the first ones, and only then.
LEMMA FirstPlacesGainMost ==
    ASSUME NEW t, NEW h, IsGainRun(h, t), NEW p, IsGainRun(p, 1 .. Deepest), NEW i \in 0 .. Deepest
    PROVE  /\ IsFiniteSet(FirstOf(t, i)) /\ Cardinality(FirstOf(t, i)) \in 0 .. i
           /\ h[i] <= p[Cardinality(FirstOf(t, i))]
           /\ h[i] = p[Cardinality(FirstOf(t, i))] =>
                FirstOf(t, i) = 1 .. Cardinality(FirstOf(t, i))
<1> DEFINE a(k) == Cardinality(FirstOf(t, k))
           Good(k) == /\ IsFiniteSet(FirstOf(t, k)) /\ a(k) \in 0 .. k
                      /\ h[k] <= p[a(k)]
                      /\ h[k] = p[a(k)] => FirstOf(t, k) = 1 .. a(k)
           G == {k \in 0 .. Deepest : Good(k)}
<1>1. Deepest \in Nat
  BY EvaluationAssumption
<1>2. /\ \A k \in 0 .. Deepest : p[k] \in Nat /\ h[k] \in Nat
      /\ h[0] = 0 /\ p[0] = 0
      /\ \A k \in 1 .. Deepest : h[k] = IF k \in t THEN h[k - 1] + Gain[k] ELSE h[k - 1]
      /\ \A k \in 1 .. Deepest : p[k] = p[k - 1] + Gain[k]
  BY DEF IsGainRun
<1>3. /\ \A k \in 1 .. Deepest : Gain[k] \in Nat \ {0}
      /\ \A k, l \in 1 .. Deepest : k < l => Gain[l] < Gain[k]
  BY EvaluationAssumption
<1>4. 0 \in G
  <2>1. 1 .. 0 = {} /\ FirstOf(t, 0) = {}
    BY DEF FirstOf
  <2>2. IsFiniteSet({}) /\ Cardinality({}) = 0
    BY FS_EmptySet
  <2>3. a(0) = 0 /\ IsFiniteSet(FirstOf(t, 0))
    BY <2>1, <2>2
  <2>4. Good(0)
    <3>1. a(0) \in 0 .. 0 /\ h[0] <= p[a(0)]
      <4> HIDE DEF a
      <4> QED
        BY <1>2, <2>3
    <3>2. FirstOf(t, 0) = 1 .. a(0)
      BY <2>1, <2>3
    <3> QED
      BY <2>3, <3>1, <3>2
  <2> QED
    BY <1>1, <2>4
<1>5. ASSUME NEW k \in 1 .. Deepest, k - 1 \in G PROVE k \in G
  <2>1. k - 1 \in 0 .. Deepest /\ k \in 0 .. Deepest /\ k \in Nat /\ k - 1 \in Nat
    BY <1>1
  <2>2. Good(k - 1)
    BY <1>5
  <2>3. h[k] \in Nat /\ h[k - 1] \in Nat /\ a(k - 1) \in 0 .. k - 1 /\ p[a(k - 1)] \in Nat
    <3>1. a(k - 1) \in 0 .. k - 1
      BY <2>2
    <3> HIDE DEF a
    <3>2. a(k - 1) \in 0 .. Deepest
      BY <1>1, <2>1, <3>1
    <3> QED
      BY <1>2, <2>1, <3>1, <3>2
  <2>4. CASE k \notin t
    <3>1. FirstOf(t, k) = FirstOf(t, k - 1)
      BY <2>1, <2>4 DEF FirstOf
    <3>2. h[k] = h[k - 1]
      BY <1>2, <2>4
    <3>3. a(k) = a(k - 1)
      BY <3>1
    <3>4. a(k) \in 0 .. k
      <4> HIDE DEF a
      <4> QED
        BY <2>1, <2>3, <3>3
    <3>5. Good(k)
      BY <2>2, <3>1, <3>2, <3>4
    <3> QED
      BY <2>1, <3>5
  <2>5. CASE k \in t
    <3>1. FirstOf(t, k) = FirstOf(t, k - 1) \cup {k} /\ k \notin FirstOf(t, k - 1)
      BY <2>1, <2>5 DEF FirstOf
    <3>2. IsFiniteSet(FirstOf(t, k)) /\ a(k) = a(k - 1) + 1
      BY <2>2, <3>1, FS_AddElement
    <3>3. h[k] = h[k - 1] + Gain[k]
      BY <1>2, <2>5
    <3>4. h[k - 1] <= p[a(k - 1)] /\ (h[k - 1] = p[a(k - 1)] => FirstOf(t, k - 1) = 1 .. a(k - 1))
      BY <2>2
    <3> HIDE DEF a
    <3>5. a(k) \in 1 .. k /\ a(k) \in 1 .. Deepest /\ a(k) - 1 = a(k - 1)
      BY <1>1, <2>1, <2>3, <3>2
    <3>6. p[a(k)] = p[a(k - 1)] + Gain[a(k)]
      BY <1>2, <3>5
    <3>7. Gain[k] \in Nat /\ Gain[a(k)] \in Nat /\ Gain[k] <= Gain[a(k)]
          /\ (a(k) # k => Gain[k] < Gain[a(k)])
      <4>1. a(k) # k => a(k) < k
        BY <2>1, <3>5
      <4>2. Gain[k] \in Nat /\ Gain[a(k)] \in Nat
        BY <1>3, <3>5
      <4>3. a(k) # k => Gain[k] < Gain[a(k)]
        BY <1>3, <3>5, <4>1
      <4> QED
        BY <4>2, <4>3
    <3>8. h[k] <= p[a(k)]
      BY <2>3, <3>3, <3>4, <3>6, <3>7
    <3>9. ASSUME h[k] = p[a(k)] PROVE FirstOf(t, k) = 1 .. a(k)
      <4>1. a(k) = k /\ h[k - 1] = p[a(k - 1)]
        BY <2>3, <3>3, <3>4, <3>6, <3>7, <3>9
      <4>2. FirstOf(t, k - 1) = 1 .. k - 1
        BY <3>4, <3>5, <4>1
      <4>3. 1 .. k = (1 .. k - 1) \cup {k}
        BY <2>1
      <4> QED
        BY <3>1, <4>1, <4>2, <4>3
    <3>10. a(k) \in 0 .. k
      BY <3>5
    <3>11. Good(k)
      BY <3>2, <3>8, <3>9, <3>10
    <3> QED
      BY <2>1, <3>11
  <2> QED
    BY <2>4, <2>5
<1>6. 0 .. Deepest \subseteq G
  <2> HIDE DEF G
  <2> QED
    BY <1>1, <1>4, <1>5, UpToInduction
<1> QED
  BY <1>6

\* So a full nDCG means that the first places are the hits.
LEMMA BestGain ==
    ASSUME NEW t \in SUBSET (1 .. Deepest), NEW m \in 1 .. Deepest, Cardinality(t) <= m
    PROVE  /\ DCG(t) \in Nat /\ DCG(1 .. m) \in Nat /\ DCG(1 .. m) > 0
           /\ DCG(t) <= DCG(1 .. m)
           /\ DCG(t) = DCG(1 .. m) => t = 1 .. m
<1>1. Deepest \in Nat /\ Deepest \in 0 .. Deepest /\ 0 \in 0 .. Deepest /\ m \in 0 .. Deepest /\ 0 < m /\ m \in Nat
  BY EvaluationAssumption
<1>2. PICK h : IsGainRun(h, t)
  BY GainRuns
<1>3. PICK p : IsGainRun(p, 1 .. Deepest)
  BY GainRuns
<1>4. DCG(t) = h[Deepest] /\ h[Deepest] \in Nat /\ p[0] = 0 /\ \A i \in 0 .. Deepest : p[i] \in Nat
  BY <1>1, <1>2, <1>3 DEF IsGainRun
<1>5. DCG(1 .. m) = p[m] /\ p[m] \in Nat /\ p[m] > 0
  <2>1. DCG(1 .. m) = p[m]
    BY <1>1, <1>3, FirstGains
  <2>2. p[0] < p[m]
    BY <1>1, <1>3, FullGainRises
  <2> QED
    BY <1>1, <1>4, <2>1, <2>2
<1>6. FirstOf(t, Deepest) = t
  BY DEF FirstOf
<1> DEFINE a == Cardinality(t)
<1>7. a \in 0 .. Deepest /\ h[Deepest] <= p[a] /\ (h[Deepest] = p[a] => t = 1 .. a)
  <2>1. /\ Cardinality(FirstOf(t, Deepest)) \in 0 .. Deepest
        /\ h[Deepest] <= p[Cardinality(FirstOf(t, Deepest))]
        /\ h[Deepest] = p[Cardinality(FirstOf(t, Deepest))] =>
             FirstOf(t, Deepest) = 1 .. Cardinality(FirstOf(t, Deepest))
    BY <1>1, <1>2, <1>3, FirstPlacesGainMost
  <2> QED
    BY <1>6, <2>1
<1> HIDE DEF a
<1>8. a <= m /\ p[a] \in Nat
  BY <1>4, <1>7 DEF a
<1>9. CASE a = m
  BY <1>4, <1>5, <1>7, <1>9
<1>10. CASE a # m
  <2>1. a < m
    BY <1>1, <1>7, <1>8, <1>10
  <2>2. p[a] < p[m]
    BY <1>1, <1>3, <1>7, <2>1, FullGainRises
  <2> QED
    BY <1>4, <1>5, <1>7, <1>8, <2>2
<1> QED
  BY <1>9, <1>10

-----------------------------------------------------------------------------
(* Metrics: the ranking of papers. *)

PaperIds == {Paper[c] : c \in Chunks}

\* The ranking of papers after each chunk.
IsPaperRun(h, s) ==
    /\ h \in [0 .. Len(s) -> Seq(PaperIds)]
    /\ h[0] = <<>> /\ PaperRanking(s) = h[Len(s)]
    /\ \A i \in 1 .. Len(s) :
          h[i] = IF Paper[s[i]] \in Range(h[i - 1]) THEN h[i - 1]
                 ELSE Append(h[i - 1], Paper[s[i]])

\* Ranking the papers is such a run.
LEMMA PaperRuns ==
    ASSUME NEW s \in Seq(Chunks)
    PROVE  \E h : IsPaperRun(h, s)
<1> DEFINE n == Len(s)
           Op(seen, c) == IF Paper[c] \in Range(seen) THEN seen ELSE Append(seen, Paper[c])
           step == [i \in 1 .. n |-> [seen \in Seq(PaperIds) |-> Op(seen, s[i])]]
           it == CHOOSE f : f = [t \in SUBSET (1 .. n) |->
                                   IF t = {} THEN <<>> ELSE Op(f[t \ {Max(t)}], s[Max(t)])]
<1>1. n \in Nat /\ DOMAIN s = 1 .. n /\ <<>> \in Seq(PaperIds)
  OBVIOUS
<1>2. IsStep(step, Seq(PaperIds), n)
      /\ \A i \in 1 .. n, seen \in Seq(PaperIds) : step[i][seen] = Op(seen, s[i])
  <2>1. ASSUME NEW i \in 1 .. n, NEW seen \in Seq(PaperIds) PROVE Op(seen, s[i]) \in Seq(PaperIds)
    <3>1. Paper[s[i]] \in PaperIds
      BY <1>1 DEF PaperIds
    <3> QED
      BY <3>1
  <2> HIDE DEF Op
  <2> QED
    BY <1>1, <2>1 DEF IsStep
<1>3. \A t \in SUBSET (1 .. n) : t # {} => Max(t) \in 1 .. n /\ t \ {Max(t)} \in SUBSET (1 .. n)
  BY <1>1, MaxOfPositions
<1>4. it = [t \in SUBSET (1 .. n) |->
              IF t = {} THEN <<>> ELSE Op(it[t \ {Max(t)}], s[Max(t)])]
  <2>1. PICK f : f \in [SUBSET (1 .. n) -> Seq(PaperIds)]
                 /\ Iterates(f, step, <<>>, Seq(PaperIds), n)
    <3> HIDE DEF step, n, Op
    <3> QED
      BY <1>1, <1>2, IterationExists
  <2>2. f = [t \in SUBSET (1 .. n) |->
               IF t = {} THEN <<>> ELSE Op(f[t \ {Max(t)}], s[Max(t)])]
    <3> HIDE DEF step, n, Op
    <3> QED
      BY <2>1, <1>2, <1>3 DEF Iterates
  <2> QED
    BY <2>2
<1>5. PaperRanking(s) = it[1 .. n]
  BY <1>1 DEF PaperRanking, FoldLeft, MapThenFoldSet
<1> HIDE DEF step, it, n, Op
<1>6. Iterates(it, step, <<>>, Seq(PaperIds), n)
  BY <1>2, <1>3, <1>4 DEF Iterates
<1>7. PICK h : IsRun(h, step, <<>>, Seq(PaperIds), n, it[1 .. n])
  BY <1>1, <1>2, <1>6, IterationRuns
<1>8. h \in [0 .. n -> Seq(PaperIds)] /\ \A i \in 1 .. n : h[i] = Op(h[i - 1], s[i])
  <2>1. \A i \in 1 .. n : h[i - 1] \in Seq(PaperIds)
    <3>1. \A i \in 1 .. n : i - 1 \in 0 .. n
      BY <1>1
    <3> QED
      BY <1>7, <3>1 DEF IsRun
  <2> QED
    BY <1>1, <1>2, <1>7, <2>1 DEF IsRun
<1> QED
  BY <1>5, <1>7, <1>8 DEF IsRun, n, Op, IsPaperRun

\* r holds each paper of the first k chunks once: at tells where its first one is.
FirstPlaces(r, s, k) ==
    /\ r \in Seq(PaperIds) /\ IsInjective(r) /\ Len(r) <= k
    /\ \E at \in [1 .. Len(r) -> 1 .. k] :
          /\ \A a, b \in 1 .. Len(r) : a < b => at[a] < at[b]
          /\ \A a \in 1 .. Len(r) : r[a] = Paper[s[at[a]]]
          /\ \A j \in 1 .. k : \E a \in 1 .. Len(r) : r[a] = Paper[s[j]] /\ at[a] <= j

\* The next chunk keeps it so.
LEMMA OneMoreChunk ==
    ASSUME NEW s \in Seq(Chunks), NEW k \in 1 .. Len(s), NEW r, FirstPlaces(r, s, k - 1)
    PROVE  FirstPlaces(IF Paper[s[k]] \in Range(r) THEN r ELSE Append(r, Paper[s[k]]), s, k)
<1> DEFINE n == Len(r)
           x == Paper[s[k]]
<1>1. /\ r \in Seq(PaperIds) /\ IsInjective(r) /\ n <= k - 1 /\ n \in Nat /\ DOMAIN r = 1 .. n
      /\ k \in Nat /\ k > 0 /\ s[k] \in Chunks
  BY DEF FirstPlaces
<1>2. PICK at \in [1 .. n -> 1 .. k - 1] :
          /\ \A a, b \in 1 .. n : a < b => at[a] < at[b]
          /\ \A a \in 1 .. n : r[a] = Paper[s[at[a]]]
          /\ \A j \in 1 .. k - 1 : \E a \in 1 .. n : r[a] = Paper[s[j]] /\ at[a] <= j
  BY DEF FirstPlaces
<1>3. \A a \in 1 .. n : at[a] \in 1 .. k /\ at[a] <= k - 1 /\ at[a] \in Nat
  BY <1>1, <1>2
<1>4. \A j \in 1 .. k : j = k \/ j \in 1 .. k - 1
  BY <1>1
<1> HIDE DEF n
<1>5. CASE x \in Range(r)
  <2>1. at \in [1 .. n -> 1 .. k]
    BY <1>2, <1>3
  <2>2. PICK e \in 1 .. n : r[e] = x
    BY <1>1, <1>5 DEF Range
  <2>3. \A j \in 1 .. k : \E a \in 1 .. n : r[a] = Paper[s[j]] /\ at[a] <= j
    <3>1. r[e] = Paper[s[k]] /\ at[e] <= k
      BY <1>1, <1>3, <2>2
    <3> QED
      BY <1>2, <1>4, <3>1
  <2>4. FirstPlaces(r, s, k)
    <3>1. n <= k
      BY <1>1
    <3>2. \E f \in [1 .. n -> 1 .. k] :
             /\ \A a, b \in 1 .. n : a < b => f[a] < f[b]
             /\ \A a \in 1 .. n : r[a] = Paper[s[f[a]]]
             /\ \A j \in 1 .. k : \E a \in 1 .. n : r[a] = Paper[s[j]] /\ f[a] <= j
      BY <1>2, <2>1, <2>3
    <3> QED
      BY <1>1, <3>1, <3>2 DEF FirstPlaces, n
  <2> QED
    BY <1>5, <2>4
<1>6. CASE x \notin Range(r)
  <2> DEFINE q == Append(r, x)
             to == [a \in 1 .. n + 1 |-> IF a <= n THEN at[a] ELSE k]
  <2>1. x \in PaperIds /\ x \notin ToSet(r)
    BY <1>1, <1>6 DEF PaperIds, ToSet, Range
  <2>2. q \in Seq(PaperIds) /\ IsInjective(q)
    <3> HIDE DEF x
    <3> QED
      BY <1>1, <2>1, EntryAdded
  <2>3. Len(q) = n + 1 /\ q[n + 1] = x /\ \A a \in 1 .. n : q[a] = r[a]
    <3> HIDE DEF x
    <3> QED
      BY <1>1, <2>1, AppendProperties DEF n
  <2> HIDE DEF q
  <2>4. to \in [1 .. n + 1 -> 1 .. k]
    BY <1>1, <1>3
  <2>5. \A a \in 1 .. n : to[a] = at[a] /\ a \in 1 .. n + 1
    BY <1>1
  <2>6. to[n + 1] = k /\ n + 1 \in 1 .. n + 1
    BY <1>1
  <2>7. \A a \in 1 .. n + 1 : a = n + 1 \/ a \in 1 .. n
    BY <1>1
  <2> HIDE DEF to
  <2>8. ASSUME NEW a \in 1 .. n + 1, NEW b \in 1 .. n + 1, a < b PROVE to[a] < to[b]
    <3>1. a \in 1 .. n
      BY <1>1, <2>7, <2>8
    <3>2. CASE b = n + 1
      BY <1>1, <1>3, <2>5, <2>6, <3>1, <3>2
    <3>3. CASE b \in 1 .. n
      BY <1>2, <2>5, <2>8, <3>1, <3>3
    <3> QED
      BY <2>7, <3>2, <3>3
  <2>9. \A a \in 1 .. n + 1 : q[a] = Paper[s[to[a]]]
    BY <1>2, <2>3, <2>5, <2>6, <2>7
  <2>10. \A j \in 1 .. k : \E a \in 1 .. n + 1 : q[a] = Paper[s[j]] /\ to[a] <= j
    <3> SUFFICES ASSUME NEW j \in 1 .. k PROVE \E a \in 1 .. n + 1 : q[a] = Paper[s[j]] /\ to[a] <= j
      OBVIOUS
    <3>1. CASE j = k
      BY <1>1, <2>3, <2>6, <3>1
    <3>2. CASE j \in 1 .. k - 1
      BY <1>2, <2>3, <2>5, <3>2
    <3> QED
      BY <1>4, <3>1, <3>2
  <2>11. n + 1 <= k
    BY <1>1 DEF n
  <2>12. FirstPlaces(q, s, k)
    <3>1. \E f \in [1 .. n + 1 -> 1 .. k] :
             /\ \A a, b \in 1 .. n + 1 : a < b => f[a] < f[b]
             /\ \A a \in 1 .. n + 1 : q[a] = Paper[s[f[a]]]
             /\ \A j \in 1 .. k : \E a \in 1 .. n + 1 : q[a] = Paper[s[j]] /\ f[a] <= j
      BY <2>4, <2>8, <2>9, <2>10
    <3>2. Len(q) = n + 1
      BY <2>3
    <3> QED
      BY <2>2, <2>11, <3>1, <3>2 DEF FirstPlaces
  <2> QED
    BY <1>6, <2>12 DEF q
<1> QED
  BY <1>5, <1>6

\* Papers are ranked by their first chunks.
LEMMA RankingOfPapers ==
    ASSUME NEW s \in Seq(Chunks), IsInjective(s)
    PROVE  /\ PaperRanking(s) \in Seq(PaperIds) /\ IsInjective(PaperRanking(s))
           /\ Len(PaperRanking(s)) <= Len(s)
           /\ \A p, q \in Range(PaperRanking(s)) :
                 Earlier(PaperRanking(s), p, q) <=>
                     \E c \in Range(s) :
                        /\ Paper[c] = p
                        /\ \A d \in Range(s) : Paper[d] = q => Earlier(s, c, d)
<1> DEFINE n == Len(s)
           r == PaperRanking(s)
           m == Len(r)
<1>1. PICK h : IsPaperRun(h, s)
  BY PaperRuns
<1>2. n \in Nat /\ DOMAIN s = 1 .. n /\ r = h[n] /\ h[0] = <<>>
      /\ \A i \in 1 .. n : h[i] = IF Paper[s[i]] \in Range(h[i - 1]) THEN h[i - 1]
                                  ELSE Append(h[i - 1], Paper[s[i]])
  BY <1>1 DEF IsPaperRun
<1> DEFINE G == {k \in 0 .. n : FirstPlaces(h[k], s, k)}
<1>3. 0 \in G
  <2>1. <<>> \in Seq(PaperIds) /\ Len(<<>>) = 0 /\ DOMAIN <<>> = {} /\ 1 .. 0 = {}
    OBVIOUS
  <2>2. IsInjective(<<>>)
    BY EmptyTyped
  <2>3. <<>> \in [1 .. 0 -> 1 .. 0]
    BY <2>1
  <2>4. ASSUME NEW e, e = <<>> PROVE FirstPlaces(e, s, 0)
    <3>1. e \in Seq(PaperIds) /\ Len(e) = 0 /\ IsInjective(e) /\ e \in [1 .. 0 -> 1 .. 0]
      BY <2>1, <2>2, <2>3, <2>4
    <3>2. \A j : ~(j \in 1 .. 0)
      BY <2>1
    <3>3. \E f \in [1 .. 0 -> 1 .. 0] :
             /\ \A a, b \in 1 .. 0 : a < b => f[a] < f[b]
             /\ \A a \in 1 .. 0 : e[a] = Paper[s[f[a]]]
             /\ \A j \in 1 .. 0 : \E a \in 1 .. 0 : e[a] = Paper[s[j]] /\ f[a] <= j
      BY <3>1, <3>2
    <3>4. Len(e) <= 0
      BY <3>1
    <3> QED
      BY <3>1, <3>3, <3>4 DEF FirstPlaces
  <2> QED
    BY <1>2, <2>4
<1>4. ASSUME NEW k \in 1 .. n, k - 1 \in G PROVE k \in G
  <2>1. FirstPlaces(h[k - 1], s, k - 1)
    BY <1>4
  <2>2. FirstPlaces(IF Paper[s[k]] \in Range(h[k - 1]) THEN h[k - 1]
                    ELSE Append(h[k - 1], Paper[s[k]]), s, k)
    BY <2>1, OneMoreChunk
  <2>3. FirstPlaces(h[k], s, k)
    BY <1>2, <2>2
  <2> QED
    BY <1>2, <2>3
<1>5. FirstPlaces(r, s, n)
  <2>1. 0 .. n \subseteq G
    <3> HIDE DEF G
    <3> QED
      BY <1>2, <1>3, <1>4, UpToInduction
  <2>2. n \in 0 .. n
    BY <1>2
  <2> QED
    BY <1>2, <2>1, <2>2
<1> HIDE DEF r, n
<1>6. r \in Seq(PaperIds) /\ IsInjective(r) /\ m <= n /\ m \in Nat /\ DOMAIN r = 1 .. m
  BY <1>5 DEF FirstPlaces
<1>7. PICK at \in [1 .. m -> 1 .. n] :
          /\ \A a, b \in 1 .. m : a < b => at[a] < at[b]
          /\ \A a \in 1 .. m : r[a] = Paper[s[at[a]]]
          /\ \A j \in 1 .. n : \E a \in 1 .. m : r[a] = Paper[s[j]] /\ at[a] <= j
  BY <1>5 DEF FirstPlaces
<1> HIDE DEF m
<1>8. ASSUME NEW a \in 1 .. m, NEW j \in 1 .. n, Paper[s[j]] = r[a] PROVE at[a] <= j
  <2>1. PICK b \in 1 .. m : r[b] = Paper[s[j]] /\ at[b] <= j
    BY <1>7
  <2>2. a = b
    BY <1>6, <1>8, <2>1 DEF IsInjective
  <2> QED
    BY <2>1, <2>2
<1>9. \A a \in 1 .. m : at[a] \in 1 .. n /\ at[a] \in Int
  BY <1>2, <1>7
<1>10. ASSUME NEW p \in Range(r), NEW q \in Range(r), Earlier(r, p, q)
       PROVE  \E c \in Range(s) : /\ Paper[c] = p
                                  /\ \A d \in Range(s) : Paper[d] = q => Earlier(s, c, d)
  <2>1. PICK i \in 1 .. m, j \in 1 .. m : i < j /\ r[i] = p /\ r[j] = q
    BY <1>6, <1>10 DEF Earlier
  <2>2. s[at[i]] \in Range(s) /\ Paper[s[at[i]]] = p
    BY <1>2, <1>7, <1>9, <2>1 DEF Range
  <2>3. ASSUME NEW d \in Range(s), Paper[d] = q PROVE Earlier(s, s[at[i]], d)
    <3>1. PICK y \in 1 .. n : d = s[y]
      BY <1>2 DEF Range
    <3>2. at[j] <= y /\ at[i] < at[j]
      BY <1>7, <1>8, <2>1, <2>3, <3>1
    <3>3. at[i] < y
      BY <1>2, <1>9, <3>2
    <3> QED
      BY <1>2, <1>9, <3>1, <3>3 DEF Earlier
  <2> QED
    BY <2>2, <2>3
<1>11. ASSUME NEW p \in Range(r), NEW q \in Range(r), NEW c \in Range(s), Paper[c] = p,
              \A d \in Range(s) : Paper[d] = q => Earlier(s, c, d)
       PROVE  Earlier(r, p, q)
  <2>1. PICK i \in 1 .. m, j \in 1 .. m : r[i] = p /\ r[j] = q
    BY <1>6 DEF Range
  <2>2. PICK x \in 1 .. n : c = s[x]
    BY <1>2 DEF Range
  <2>3. s[at[j]] \in Range(s) /\ Paper[s[at[j]]] = q
    BY <1>2, <1>7, <1>9, <2>1 DEF Range
  <2>4. PICK v \in 1 .. n, w \in 1 .. n : v < w /\ s[v] = c /\ s[w] = s[at[j]]
    BY <1>2, <1>11, <2>3 DEF Earlier
  <2>5. v = x /\ w = at[j]
    BY <1>2, <1>9, <2>2, <2>4 DEF IsInjective
  <2>6. at[i] <= x
    BY <1>8, <1>11, <2>1, <2>2
  <2>7. at[i] < at[j]
    BY <1>2, <1>9, <2>4, <2>5, <2>6
  <2>8. CASE i < j
    BY <1>6, <2>1, <2>8 DEF Earlier
  <2>9. CASE i = j
    BY <1>9, <2>7, <2>9
  <2>10. CASE j < i
    <3>1. at[j] < at[i]
      BY <1>7, <2>10
    <3> QED
      BY <1>9, <2>7, <3>1
  <2> QED
    BY <1>6, <2>8, <2>9, <2>10
<1> QED
  BY <1>6, <1>10, <1>11 DEF r, m, n

-----------------------------------------------------------------------------
(* Metrics: what the scores mean. *)

\* Scores are shares of a whole in ten thousandths.
Whole == 10000
Shares == 0 .. 10000
Share(a, b) == (10000 * a) \div b

\* A part is a share of its whole, and the full share only when it is all of it.
LEMMA ShareOf ==
    ASSUME NEW a \in Nat, NEW b \in Nat, b > 0, a <= b
    PROVE  /\ Share(a, b) \in Shares
           /\ Share(a, b) = Whole <=> a = b
<1> DEFINE q == (10000 * a) \div b
<1>1. 10000 * a \in Nat
  BY SMT
<1>2. q \in Nat /\ b * q <= 10000 * a /\ 10000 * a < b * (q + 1)
  BY <1>1, QuotientOf, SMT
<1> HIDE DEF q
<1>3. ~(q > 10000)
  <2> SUFFICES ASSUME q > 10000 PROVE FALSE
    OBVIOUS
  <2>1. b * q >= b * 10001
    BY <1>2, SMT
  <2> QED
    BY <1>2, <2>1, SMT
<1>4. q = 10000 => a = b
  BY <1>2, SMT
<1>5. a = b => q = 10000
  <2> SUFFICES ASSUME a = b PROVE q = 10000
    OBVIOUS
  <2>1. CASE q < 10000
    <3>1. b * (q + 1) <= b * 10000
      BY <1>2, <2>1, SMT
    <3> QED
      BY <1>2, <3>1, SMT
  <2> QED
    BY <1>2, <1>3, <2>1, SMT
<1>6. q \in 0 .. 10000
  BY <1>2, <1>3, SMT
<1> QED
  BY <1>4, <1>5, <1>6, SMT DEF q, Share, Shares, Whole

\* A larger part is no smaller share.
LEMMA ShareRises ==
    ASSUME NEW a \in Nat, NEW c \in Nat, a <= c, NEW b \in Nat, b > 0
    PROVE  Share(a, b) <= Share(c, b)
<1>1. 10000 * a \in Nat /\ 10000 * c \in Nat /\ 10000 * a <= 10000 * c
  BY SMT
<1>2. (10000 * a) \div b <= (10000 * c) \div b
  BY <1>1, QuotientRises, SMT
<1> QED
  BY <1>2 DEF Share

\* All and nothing are shares.
LEMMA WholeOrNothing == 0 \in Shares /\ Whole \in Shares /\ 0 <= Whole /\ 0 <= 0 /\ Whole <= Whole
  BY SMT DEF Shares, Whole

\* The share of one place is something.
LEMMA SharePositive ==
    ASSUME NEW b \in Nat, b > 0, b <= 500
    PROVE  Whole \div b > 0
<1>1. 10000 \in Nat
  BY SMT
<1>2. 10000 \div b \in Nat /\ 10000 < b * (10000 \div b + 1)
  BY <1>1, QuotientOf, SMT
<1>3. 10000 \div b # 0
  <2> SUFFICES ASSUME 10000 \div b = 0 PROVE FALSE
    OBVIOUS
  <2>1. 10000 < b * (0 + 1)
    BY <1>2, SMT
  <2> QED
    BY <2>1, SMT
<1> QED
  BY <1>2, <1>3, SMT DEF Whole

\* Among some positions there is a first one.
LEMMA SmallestPosition ==
    ASSUME NEW n \in Nat, NEW t \in SUBSET (1 .. n), t # {}
    PROVE  /\ (CHOOSE i \in t : \A j \in t : i <= j) \in t
<1> DEFINE HasMin(u) == \E x \in u : \A y \in u : x <= y
           T == {m \in 0 .. n : \A u \in SUBSET (1 .. m) : u # {} => HasMin(u)}
<1>1. 0 \in T
  <2>1. \A u \in SUBSET (1 .. 0) : u = {}
    OBVIOUS
  <2>2. 0 \in 0 .. n
    OBVIOUS
  <2> HIDE DEF HasMin
  <2> QED
    BY <2>1, <2>2
<1>2. ASSUME NEW m \in 1 .. n, m - 1 \in T PROVE m \in T
  <2> SUFFICES ASSUME NEW u \in SUBSET (1 .. m), u # {} PROVE HasMin(u)
    OBVIOUS
  <2>1. CASE u = {m}
    BY <2>1
  <2>2. CASE u # {m}
    <3>1. u \ {m} \in SUBSET (1 .. m - 1) /\ u \ {m} # {}
      BY <2>2
    <3>2. PICK x \in u \ {m} : \A y \in u \ {m} : x <= y
      BY <1>2, <3>1
    <3>3. x <= m
      BY <3>1, <3>2
    <3> QED
      BY <3>2, <3>3
  <2> QED
    BY <2>1, <2>2
<1>3. 0 .. n \subseteq T
  <2> HIDE DEF T
  <2> QED
    BY <1>1, <1>2, UpToInduction
<1>4. HasMin(t)
  BY <1>3
<1> QED
  BY <1>4

\* Hits are places of the ranking, one for a relevant paper at most.
LEMMA HitsTyped ==
    ASSUME NEW r \in Seq(PaperIds), IsInjective(r), NEW relevant \in RelevantSets, NEW k \in Nat
    PROVE  /\ HitsAt(r, relevant, k) \in SUBSET (1 .. Len(r))
           /\ HitsAt(r, relevant, k) \in SUBSET (1 .. k)
           /\ IsFiniteSet(HitsAt(r, relevant, k)) /\ Cardinality(HitsAt(r, relevant, k)) \in Nat
           /\ Cardinality(HitsAt(r, relevant, k)) <= k
           /\ Cardinality(HitsAt(r, relevant, k)) <= Cardinality(relevant)
           /\ Cardinality(relevant) \in Nat /\ Cardinality(relevant) > 0
<1> DEFINE H == HitsAt(r, relevant, k)
<1>1. DOMAIN r = 1 .. Len(r) /\ Len(r) \in Nat
  OBVIOUS
<1>2. H \in SUBSET (1 .. Len(r)) /\ H \in SUBSET (1 .. k) /\ \A i \in H : r[i] \in relevant
  BY <1>1 DEF HitsAt
<1>3. IsFiniteSet(relevant)
  <2>1. IsFiniteSet(Chunks) /\ DOMAIN Paper = Chunks
    BY RetrievalAssumption
  <2> DEFINE f == [c \in Chunks |-> Paper[c]]
  <2>2. f \in Surjection(Chunks, Range(Paper))
    BY <2>1 DEF Surjection, Range
  <2>3. IsFiniteSet(Range(Paper))
    <3> HIDE DEF f
    <3> QED
      BY <2>1, <2>2, FS_Surjection
  <2>4. relevant \in SUBSET Range(Paper)
    BY DEF RelevantSets
  <2> QED
    BY <2>3, <2>4, FS_Subset
<1>4. Cardinality(relevant) \in Nat /\ Cardinality(relevant) > 0
  <2>1. Cardinality(relevant) \in Nat /\ relevant # {}
    BY <1>3, FS_CardinalityType DEF RelevantSets
  <2>2. Cardinality(relevant) # 0
    BY <1>3, <2>1, FS_EmptySet
  <2> QED
    BY <2>1, <2>2
<1> HIDE DEF H
<1>5. IsFiniteSet(1 .. k) /\ Cardinality(1 .. k) = k
  <2>1. 1 \in Int /\ k \in Int /\ 1 .. k = IF k > 0 THEN 1 .. k ELSE {}
    OBVIOUS
  <2> QED
    BY <2>1, FS_Interval
<1>6. IsFiniteSet(H) /\ Cardinality(H) \in Nat /\ Cardinality(H) <= k
  BY <1>2, <1>5, FS_Subset, FS_CardinalityType
<1>7. Cardinality(H) <= Cardinality(relevant)
  <2> DEFINE f == [i \in H |-> r[i]]
  <2>1. f \in Injection(H, relevant)
    BY <1>1, <1>2 DEF Injection, IsInjective
  <2> HIDE DEF f
  <2> QED
    BY <1>3, <2>1, FS_Injection
<1> QED
  BY <1>2, <1>4, <1>6, <1>7 DEF H

\* Depths are places of a ranking.
LEMMA DepthTyped == \A k \in KValues : k \in Nat /\ k > 0 /\ k \in 1 .. Deepest
<1>1. Deepest \in Nat /\ KValues \subseteq 1 .. Deepest
  BY EvaluationAssumption
<1> QED
  BY <1>1

\* The first places of a ranking that a depth and a set of relevant papers allow.
Places(relevant, k) == IF Cardinality(relevant) < k THEN Cardinality(relevant) ELSE k

\* Each score at a depth is a share, and nDCG is full when the first places are hits.
LEMMA ScoresAtDepth ==
    ASSUME NEW r \in Seq(PaperIds), IsInjective(r), NEW relevant \in RelevantSets,
           NEW k \in KValues
    PROVE  /\ Precision(r, relevant, k) \in Shares
           /\ Recall(r, relevant, k) \in Shares
           /\ HitRate(r, relevant, k) \in Shares
           /\ NDCG(r, relevant, k) \in Shares
           /\ NDCG(r, relevant, k) = Whole <=>
                HitsAt(r, relevant, k) = 1 .. Places(relevant, k)
<1> DEFINE H == HitsAt(r, relevant, k)
           c == Cardinality(relevant)
           m == Places(relevant, k)
<1>1. k \in Nat /\ k > 0 /\ k \in 1 .. Deepest /\ Deepest \in Nat
  BY DepthTyped, EvaluationAssumption
<1>2. /\ H \in SUBSET (1 .. k) /\ Cardinality(H) \in Nat /\ Cardinality(H) <= k
      /\ Cardinality(H) <= c /\ c \in Nat /\ c > 0
  BY <1>1, HitsTyped
<1> HIDE DEF H, c
<1>3. m = (IF c < k THEN c ELSE k) /\ m \in 1 .. Deepest /\ Cardinality(H) <= m
  BY <1>1, <1>2 DEF Places, c
<1>4. H \in SUBSET (1 .. Deepest)
  BY <1>1, <1>2
<1> HIDE DEF m
<1>5. Precision(r, relevant, k) \in Shares
  <2>1. Precision(r, relevant, k) = Share(Cardinality(H), k)
    BY DEF Precision, Share, H
  <2> QED
    BY <1>1, <1>2, <2>1, ShareOf
<1>6. Recall(r, relevant, k) \in Shares
  <2>1. Recall(r, relevant, k) = Share(Cardinality(H), c)
    BY DEF Recall, Share, H, c
  <2> QED
    BY <1>2, <2>1, ShareOf
<1>7. HitRate(r, relevant, k) \in Shares
  BY WholeOrNothing DEF HitRate, Whole
<1>8. /\ DCG(H) \in Nat /\ DCG(1 .. m) \in Nat /\ DCG(1 .. m) > 0
      /\ DCG(H) <= DCG(1 .. m)
      /\ DCG(H) = DCG(1 .. m) => H = 1 .. m
  BY <1>3, <1>4, BestGain
<1>9. Ideal(relevant, k) = DCG(1 .. m)
  BY <1>3 DEF Ideal, c
<1>10. NDCG(r, relevant, k) = Share(DCG(H), DCG(1 .. m))
  BY <1>9 DEF NDCG, H, Share
<1>11. /\ Share(DCG(H), DCG(1 .. m)) \in Shares
       /\ Share(DCG(H), DCG(1 .. m)) = Whole <=> DCG(H) = DCG(1 .. m)
  BY <1>8, ShareOf
<1>12. DCG(H) = DCG(1 .. m) <=> H = 1 .. m
  BY <1>8
<1> QED
  BY <1>5, <1>6, <1>7, <1>10, <1>11, <1>12 DEF H, m

\* What the scores of a ranking mean.
LEMMA ScoresMean ==
    ASSUME NEW r \in Seq(PaperIds), IsInjective(r), Len(r) <= 500, NEW relevant \in RelevantSets
    PROVE  LET score == Scores(r, relevant)
           IN /\ FoundAny(r, relevant) <=> score.mrr > 0
              /\ \A k \in KValues :
                    /\ \A value \in Range(score.at[k]) : value \in Shares
                    /\ score.at[k].ndcg = Whole <=>
                          \A i \in 1 .. k : i <= Cardinality(relevant) =>
                              i \in DOMAIN r /\ r[i] \in relevant
                    /\ \A j \in KValues : j <= k =>
                          /\ score.at[j].recall <= score.at[k].recall
                          /\ score.at[j].hit <= score.at[k].hit
<1> DEFINE score == Scores(r, relevant)
           H(k) == HitsAt(r, relevant, k)
           c == Cardinality(relevant)
<1>1. DOMAIN r = 1 .. Len(r) /\ Len(r) \in Nat
  OBVIOUS
<1>2. FoundAny(r, relevant) <=> ReciprocalRank(r, relevant) > 0
  <2> DEFINE hits == HitsAt(r, relevant, Len(r))
             first == CHOOSE i \in hits : \A j \in hits : i <= j
  <2>1. hits = {i \in 1 .. Len(r) : r[i] \in relevant}
    BY <1>1 DEF HitsAt
  <2>2. FoundAny(r, relevant) <=> hits # {}
    BY <1>1, <2>1 DEF FoundAny, Range
  <2>3. ReciprocalRank(r, relevant) = IF hits = {} THEN 0 ELSE Whole \div first
    BY DEF ReciprocalRank, Whole
  <2>4. ASSUME hits # {} PROVE Whole \div first > 0
    <3>1. first \in hits
      <4>1. hits \in SUBSET (1 .. Len(r))
        BY <2>1
      <4> HIDE DEF hits
      <4> QED
        BY <1>1, <2>4, <4>1, SmallestPosition
    <3>2. first \in 1 .. Len(r)
      <4> HIDE DEF first
      <4> QED
        BY <2>1, <3>1
    <3> HIDE DEF first, hits
    <3>3. first \in Nat /\ first > 0 /\ first <= 500
      BY <1>1, <3>2
    <3> QED
      BY <3>3, SharePositive
  <2> HIDE DEF hits, first
  <2>5. CASE hits = {}
    BY <2>2, <2>3, <2>5
  <2>6. CASE hits # {}
    BY <2>2, <2>3, <2>4, <2>6
  <2> QED
    BY <2>5, <2>6
<1>3. score.mrr = ReciprocalRank(r, relevant)
  BY DEF Scores
<1>4. \A k \in KValues : score.at[k] =
        [precision |-> Precision(r, relevant, k), recall |-> Recall(r, relevant, k),
         ndcg |-> NDCG(r, relevant, k), hit |-> HitRate(r, relevant, k)]
  BY DEF Scores
<1>5. ASSUME NEW k \in KValues
      PROVE  /\ score.at[k].recall = Recall(r, relevant, k)
             /\ score.at[k].ndcg = NDCG(r, relevant, k)
             /\ score.at[k].hit = HitRate(r, relevant, k)
             /\ Range(score.at[k]) = {Precision(r, relevant, k), Recall(r, relevant, k),
                                      NDCG(r, relevant, k), HitRate(r, relevant, k)}
  <2>1. \A P, R, N, T, x :
           x = [precision |-> P, recall |-> R, ndcg |-> N, hit |-> T] =>
              /\ x.recall = R /\ x.ndcg = N /\ x.hit = T
              /\ Range(x) = {P, R, N, T}
    BY DEF Range
  <2>2. PICK x : x = score.at[k]
    OBVIOUS
  <2>3. x = [precision |-> Precision(r, relevant, k), recall |-> Recall(r, relevant, k),
             ndcg |-> NDCG(r, relevant, k), hit |-> HitRate(r, relevant, k)]
    BY <1>4, <2>2
  <2> HIDE DEF score
  <2>4. /\ x.recall = Recall(r, relevant, k) /\ x.ndcg = NDCG(r, relevant, k)
        /\ x.hit = HitRate(r, relevant, k)
        /\ Range(x) = {Precision(r, relevant, k), Recall(r, relevant, k),
                       NDCG(r, relevant, k), HitRate(r, relevant, k)}
    BY <2>1, <2>3
  <2> QED
    BY <2>2, <2>4
<1> HIDE DEF score
<1>6. ASSUME NEW k \in KValues PROVE \A value \in Range(score.at[k]) : value \in Shares
  <2>1. /\ Precision(r, relevant, k) \in Shares /\ Recall(r, relevant, k) \in Shares
        /\ HitRate(r, relevant, k) \in Shares /\ NDCG(r, relevant, k) \in Shares
    BY ScoresAtDepth
  <2>2. Range(score.at[k]) = {Precision(r, relevant, k), Recall(r, relevant, k),
                              NDCG(r, relevant, k), HitRate(r, relevant, k)}
    BY <1>5
  <2> QED
    BY <2>1, <2>2
<1>7. ASSUME NEW k \in KValues
      PROVE  score.at[k].ndcg = Whole <=>
               \A i \in 1 .. k : i <= c => i \in DOMAIN r /\ r[i] \in relevant
  <2> DEFINE m == Places(relevant, k)
  <2>1. score.at[k].ndcg = NDCG(r, relevant, k)
    BY <1>5
  <2>2. NDCG(r, relevant, k) = Whole <=> H(k) = 1 .. m
    BY ScoresAtDepth
  <2>3. /\ k \in Nat /\ c \in Nat /\ H(k) \in SUBSET (1 .. k)
        /\ IsFiniteSet(H(k)) /\ Cardinality(H(k)) <= m /\ Cardinality(H(k)) \in Nat
    <3>1. k \in Nat
      BY DepthTyped
    <3>2. /\ H(k) \in SUBSET (1 .. k) /\ IsFiniteSet(H(k)) /\ Cardinality(H(k)) \in Nat
          /\ Cardinality(H(k)) <= k /\ Cardinality(H(k)) <= c /\ c \in Nat
      BY <3>1, HitsTyped
    <3> HIDE DEF H, c
    <3> QED
      BY <3>1, <3>2 DEF Places, c
  <2>4. m \in Nat /\ \A i \in 1 .. k : i <= c <=> i \in 1 .. m
    <3> HIDE DEF H
    <3>1. m = IF c < k THEN c ELSE k
      BY DEF Places
    <3> HIDE DEF c, m
    <3> QED
      BY <2>3, <3>1
  <2>5. 1 .. m \in SUBSET (1 .. k)
    <3>1. m = IF c < k THEN c ELSE k
      BY DEF Places
    <3> HIDE DEF H, c, m
    <3> QED
      BY <2>3, <3>1
  <2>6. \A i \in 1 .. k : i \in H(k) <=> i \in DOMAIN r /\ r[i] \in relevant
    BY <1>1, <2>3 DEF HitsAt
  <2> HIDE DEF H, c, m
  <2>7. ASSUME 1 .. m \in SUBSET H(k) PROVE H(k) = 1 .. m
    <3>1. Cardinality(1 .. m) = m /\ IsFiniteSet(1 .. m)
      <4>1. 1 \in Int /\ m \in Int /\ 1 .. m = IF m > 0 THEN 1 .. m ELSE {}
        BY <2>4
      <4> QED
        BY <2>4, <4>1, FS_Interval
    <3>2. m <= Cardinality(H(k))
      <4>1. Cardinality(1 .. m) <= Cardinality(H(k))
        BY <2>3, <2>7, FS_Subset
      <4> QED
        BY <3>1, <4>1
    <3>3. Cardinality(H(k)) = Cardinality(1 .. m)
      BY <2>3, <2>4, <3>1, <3>2
    <3> QED
      BY <2>3, <2>7, <3>3, FS_Subset
  <2>8. H(k) = 1 .. m <=> \A i \in 1 .. k : i <= c => i \in DOMAIN r /\ r[i] \in relevant
    <3>1. ASSUME H(k) = 1 .. m PROVE \A i \in 1 .. k : i <= c => i \in DOMAIN r /\ r[i] \in relevant
      BY <2>4, <2>6, <3>1
    <3>2. ASSUME \A i \in 1 .. k : i <= c => i \in DOMAIN r /\ r[i] \in relevant
          PROVE  1 .. m \in SUBSET H(k)
      BY <2>4, <2>5, <2>6, <3>2
    <3> QED
      BY <2>7, <3>1, <3>2
  <2> QED
    BY <2>1, <2>2, <2>8 DEF H, c, m
<1>8. ASSUME NEW k \in KValues, NEW j \in KValues, j <= k
      PROVE  score.at[j].recall <= score.at[k].recall /\ score.at[j].hit <= score.at[k].hit
  <2>1. j \in Nat /\ k \in Nat
    BY DepthTyped
  <2>2. H(j) \in SUBSET H(k)
    BY <1>1, <1>8, <2>1 DEF HitsAt
  <2>3. /\ IsFiniteSet(H(k)) /\ Cardinality(H(k)) \in Nat /\ Cardinality(H(j)) \in Nat
        /\ c \in Nat /\ c > 0
    BY <2>1, HitsTyped
  <2> HIDE DEF H, c
  <2>4. Cardinality(H(j)) <= Cardinality(H(k))
    BY <2>2, <2>3, FS_Subset
  <2>5. Share(Cardinality(H(j)), c) <= Share(Cardinality(H(k)), c)
    BY <2>3, <2>4, ShareRises
  <2>6. score.at[j].recall <= score.at[k].recall
    <3>1. /\ score.at[j].recall = Share(Cardinality(H(j)), c)
          /\ score.at[k].recall = Share(Cardinality(H(k)), c)
      BY <1>5 DEF Recall, Share, H, c
    <3> QED
      BY <2>5, <3>1
  <2>7. score.at[j].hit <= score.at[k].hit
    <3>1. score.at[j].hit = (IF H(j) = {} THEN 0 ELSE Whole)
          /\ score.at[k].hit = (IF H(k) = {} THEN 0 ELSE Whole)
      BY <1>5 DEF HitRate, H, Whole
    <3> QED
      BY <2>2, <3>1, WholeOrNothing
  <2> QED
    BY <2>6, <2>7
<1>9. FoundAny(r, relevant) <=> score.mrr > 0
  BY <1>2, <1>3
<1>10. /\ FoundAny(r, relevant) <=> score.mrr > 0
       /\ \A k \in KValues :
             /\ \A value \in Range(score.at[k]) : value \in Shares
             /\ score.at[k].ndcg = Whole <=>
                   \A i \in 1 .. k : i <= Cardinality(relevant) =>
                       i \in DOMAIN r /\ r[i] \in relevant
             /\ \A j \in KValues : j <= k =>
                   /\ score.at[j].recall <= score.at[k].recall
                   /\ score.at[j].hit <= score.at[k].hit
  BY <1>6, <1>7, <1>8, <1>9
<1> QED
  BY <1>10 DEF score

\* evaluate_query ranks papers by their first chunks; each score is a share, MRR is
\* positive when a relevant paper is found at all, and nDCG is full exactly when the first
\* places hold relevant papers as far as there are any.
THEOREM MetricsAreMeant == Spec => []ScoresMeanWhatTheySay
<1>1. Typed => ScoresMeanWhatTheySay
  <2> SUFFICES ASSUME Typed
      PROVE  LET papers == PaperRanking(ranked)
             IN /\ \A p, q \in Range(papers) :
                      Earlier(papers, p, q) <=>
                          \E c \in Range(ranked) :
                             /\ Paper[c] = p
                             /\ \A d \in Range(ranked) : Paper[d] = q => Earlier(ranked, c, d)
                /\ \A relevant \in RelevantSets :
                      LET score == Scores(papers, relevant)
                      IN /\ FoundAny(papers, relevant) <=> score.mrr > 0
                         /\ \A k \in KValues :
                               /\ \A value \in Range(score.at[k]) : value \in Shares
                               /\ score.at[k].ndcg = Whole <=>
                                     \A i \in 1..k : i <= Cardinality(relevant) =>
                                         i \in DOMAIN papers /\ papers[i] \in relevant
                               /\ \A j \in KValues : j <= k =>
                                     /\ score.at[j].recall <= score.at[k].recall
                                     /\ score.at[j].hit <= score.at[k].hit
    BY DEF ScoresMeanWhatTheySay, Shares, Whole
  <2> DEFINE papers == PaperRanking(ranked)
  <2>1. ranked \in Seq(Chunks) /\ IsInjective(ranked) /\ Len(ranked) \in Nat
        /\ (Len(ranked) <= Pool \/ Len(ranked) <= TopK)
    BY DEF Typed
  <2>2. Len(ranked) <= 500
    BY <2>1, Depths
  <2>3. /\ papers \in Seq(PaperIds) /\ IsInjective(papers) /\ Len(papers) <= Len(ranked)
        /\ \A p, q \in Range(papers) :
              Earlier(papers, p, q) <=>
                  \E c \in Range(ranked) :
                     /\ Paper[c] = p
                     /\ \A d \in Range(ranked) : Paper[d] = q => Earlier(ranked, c, d)
    BY <2>1, RankingOfPapers
  <2> HIDE DEF papers
  <2>4. Len(papers) <= 500
    <3>1. Len(papers) \in Nat
      BY <2>3
    <3> QED
      BY <2>1, <2>2, <2>3, <3>1
  <2>5. \A relevant \in RelevantSets :
           LET score == Scores(papers, relevant)
           IN /\ FoundAny(papers, relevant) <=> score.mrr > 0
              /\ \A k \in KValues :
                    /\ \A value \in Range(score.at[k]) : value \in Shares
                    /\ score.at[k].ndcg = Whole <=>
                          \A i \in 1..k : i <= Cardinality(relevant) =>
                              i \in DOMAIN papers /\ papers[i] \in relevant
                    /\ \A j \in KValues : j <= k =>
                          /\ score.at[j].recall <= score.at[k].recall
                          /\ score.at[j].hit <= score.at[k].hit
    BY <2>3, <2>4, ScoresMean
  <2> QED
    BY <2>3, <2>5 DEF papers
<1> QED
  BY <1>1, RetrievalTyped, PTL

=============================================================================
