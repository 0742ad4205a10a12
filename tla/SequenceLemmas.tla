--------------------------- MODULE SequenceLemmas ---------------------------
(***************************************************************************)
(* Induction, what a fold over a sequence computes, and sequences without  *)
(* repetition. The induction theorems of the library take a predicate,     *)
(* which the provers cannot instantiate; here a predicate is the set of    *)
(* the numbers that have it, and a step function stands for the operator   *)
(* of a fold.                                                              *)
(***************************************************************************)
EXTENDS Lists, SequenceTheorems, WellFoundedInduction, TLAPS

LEMMA NatSetInduction ==
    ASSUME NEW T, 0 \in T, \A n \in Nat : n \in T => n + 1 \in T
    PROVE  Nat \subseteq T
<1> DEFINE R == OpToRel(<, Nat)
           U == Nat \ T
<1>1. IsWellFoundedOn(R, Nat)
  BY NatLessThanWellFounded
<1>2. ASSUME U # {} PROVE FALSE
  <2>1. PICK x \in U : \A y \in U : ~ (<<y, x>> \in R)
    <3>1. U \subseteq Nat
      OBVIOUS
    <3> HIDE DEF U, R
    <3> QED
      BY <1>1, <1>2, <3>1, WFMin
  <2>2. x \in Nat /\ x # 0
    OBVIOUS
  <2>3. x - 1 \in U
    BY <2>2
  <2>4. <<x - 1, x>> \in R
    BY <2>2, <2>3 DEF OpToRel
  <2> QED
    BY <2>1, <2>3, <2>4
<1> QED
  BY <1>2

\* The same up to a bound.
LEMMA UpToInduction ==
    ASSUME NEW n \in Nat, NEW T, 0 \in T, \A i \in 1 .. n : i - 1 \in T => i \in T
    PROVE  0 .. n \subseteq T
<1> DEFINE U == {i \in Nat : i > n \/ i \in T}
<1>1. 0 \in U /\ \A i \in Nat : i \in U => i + 1 \in U
  OBVIOUS
<1>2. Nat \subseteq U
  <2> HIDE DEF U
  <2> QED
    BY <1>1, NatSetInduction
<1> QED
  BY <1>2

LEMMA MaxOfPositions ==
    ASSUME NEW n \in Nat, NEW t \in SUBSET (1 .. n), t # {}
    PROVE  Max(t) \in t /\ \A i \in t : i <= Max(t)
<1> DEFINE HasMax(u) == \E x \in u : \A y \in u : x >= y
           T == {m \in Nat : \A u \in SUBSET (1 .. m) : u # {} => HasMax(u)}
<1>1. 0 \in T
  <2>1. 1 .. 0 = {}
    OBVIOUS
  <2> QED
    BY <2>1
<1>2. ASSUME NEW m \in Nat, m \in T PROVE m + 1 \in T
  <2> SUFFICES ASSUME NEW u \in SUBSET (1 .. m + 1), u # {} PROVE HasMax(u)
    OBVIOUS
  <2>1. CASE m + 1 \in u
    BY <2>1
  <2>2. CASE m + 1 \notin u
    <3>1. u \in SUBSET (1 .. m)
      BY <2>2
    <3> QED
      BY <3>1, <1>2
  <2> QED
    BY <2>1, <2>2
<1>3. n \in T
  <2> HIDE DEF T
  <2> QED
    BY <1>1, <1>2, NatSetInduction
<1>4. HasMax(t)
  BY <1>3
<1> QED
  BY <1>4 DEF Max

-----------------------------------------------------------------------------
(* Folds. *)

\* What the fold does at each position of a sequence of length n: a function on
\* the accumulators S.
IsStep(step, S, n) == step \in [1 .. n -> [S -> S]]

\* it folds any set of positions, the largest last: FoldLeft of SequencesExt.
Iterates(it, step, b, S, n) ==
    /\ it[{}] = b
    /\ \A t \in SUBSET (1 .. n) :
          t # {} /\ it[t \ {Max(t)}] \in S => it[t] = step[Max(t)][it[t \ {Max(t)}]]

\* The accumulators from the base b to the result.
IsRun(h, step, b, S, n, result) ==
    /\ h \in [0 .. n -> S]
    /\ h[0] = b /\ h[n] = result
    /\ \A i \in 1 .. n : h[i] = step[i][h[i - 1]]

LEMMA IterationExists ==
    ASSUME NEW n \in Nat, NEW S, NEW b \in S, NEW step, IsStep(step, S, n)
    PROVE  \E it : it \in [SUBSET (1 .. n) -> S] /\ Iterates(it, step, b, S, n)
<1> DEFINE Good(it, k) ==
             /\ it \in [SUBSET (1 .. k) -> S]
             /\ it[{}] = b
             /\ \A t \in SUBSET (1 .. k) :
                   t # {} => it[t] = step[Max(t)][it[t \ {Max(t)}]]
           T == {k \in 0 .. n : \E it : Good(it, k)}
<1>1. 0 \in T
  <2>1. SUBSET (1 .. 0) = {{}}
    OBVIOUS
  <2>2. Good([t \in {{}} |-> b], 0)
    BY <2>1
  <2> HIDE DEF Good
  <2> QED
    BY <2>2
<1>2. ASSUME NEW k \in 1 .. n, k - 1 \in T PROVE k \in T
  <2>1. PICK it : Good(it, k - 1)
    BY <1>2
  <2> DEFINE new == [t \in SUBSET (1 .. k) |-> IF k \in t THEN step[k][it[t \ {k}]] ELSE it[t]]
  <2>2. \A t \in SUBSET (1 .. k) : t \ {k} \in SUBSET (1 .. k - 1)
    OBVIOUS
  <2>3. new \in [SUBSET (1 .. k) -> S]
    <3> SUFFICES ASSUME NEW t \in SUBSET (1 .. k)
                 PROVE  (IF k \in t THEN step[k][it[t \ {k}]] ELSE it[t]) \in S
      OBVIOUS
    <3>1. it[t \ {k}] \in S
      BY <2>1, <2>2
    <3>2. step[k] \in [S -> S]
      BY DEF IsStep
    <3>3. k \notin t => t = t \ {k}
      OBVIOUS
    <3> QED
      BY <3>1, <3>2, <3>3
  <2>4. new[{}] = b
    BY <2>1
  <2>5. ASSUME NEW t \in SUBSET (1 .. k), t # {}
        PROVE  new[t] = step[Max(t)][new[t \ {Max(t)}]]
    <3> HIDE DEF T
    <3>1. CASE k \in t
      <4>1. Max(t) \in t /\ \A i \in t : i <= Max(t)
        <5>1. k \in Nat
          OBVIOUS
        <5> HIDE DEF new, Good
        <5> QED
          BY <5>1, <2>5, MaxOfPositions
      <4>2. Max(t) = k
        <5> HIDE DEF new, Good
        <5>1. Max(t) \in 1 .. k /\ k <= Max(t)
          BY <3>1, <4>1
        <5> QED
          BY <5>1
      <4>3. new[t \ {k}] = it[t \ {k}]
        OBVIOUS
      <4> QED
        BY <3>1, <4>2, <4>3
    <3>2. CASE k \notin t
      <4>1. t \in SUBSET (1 .. k - 1)
        BY <2>2, <3>2
      <4>2. Max(t) \in t
        <5>1. k - 1 \in Nat
          OBVIOUS
        <5> HIDE DEF new, Good
        <5> QED
          BY <2>5, <4>1, <5>1, MaxOfPositions
      <4>3. new[t] = it[t] /\ new[t \ {Max(t)}] = it[t \ {Max(t)}]
        BY <3>2
      <4> QED
        BY <2>1, <2>5, <4>1, <4>3
    <3> QED
      BY <3>1, <3>2
  <2>6. Good(new, k)
    <3> HIDE DEF new
    <3> QED
      BY <2>3, <2>4, <2>5
  <2> HIDE DEF new, Good
  <2> QED
    BY <2>6
<1>3. n \in T
  <2> HIDE DEF T
  <2> QED
    BY <1>1, <1>2, UpToInduction
<1> QED
  BY <1>3 DEF Iterates

LEMMA IterationRuns ==
    ASSUME NEW n \in Nat, NEW S, NEW b \in S, NEW step, IsStep(step, S, n),
           NEW it, Iterates(it, step, b, S, n)
    PROVE  \E h : IsRun(h, step, b, S, n, it[1 .. n])
<1> DEFINE h == [i \in 0 .. n |-> it[1 .. i]]
           T == {i \in 0 .. n : h[i] \in S}
<1>1. h[0] = b
  <2>1. 1 .. 0 = {}
    OBVIOUS
  <2> QED
    BY <2>1 DEF Iterates
<1>2. ASSUME NEW i \in 1 .. n, h[i - 1] \in S PROVE h[i] \in S /\ h[i] = step[i][h[i - 1]]
  <2>1. 1 .. i \in SUBSET (1 .. n) /\ 1 .. i # {}
    OBVIOUS
  <2>2. Max(1 .. i) = i
    <3>1. 1 .. i \in SUBSET (1 .. i) /\ i \in Nat /\ i \in 1 .. i
      OBVIOUS
    <3>2. Max(1 .. i) \in 1 .. i /\ \A j \in 1 .. i : j <= Max(1 .. i)
      <4> HIDE DEF h
      <4> QED
        BY <2>1, <3>1, MaxOfPositions
    <3> QED
      BY <3>1, <3>2
  <2>3. (1 .. i) \ {i} = 1 .. (i - 1)
    OBVIOUS
  <2>4. h[i] = it[1 .. i] /\ h[i - 1] = it[1 .. (i - 1)]
    OBVIOUS
  <2>5. h[i] = step[i][h[i - 1]]
    <3> HIDE DEF h
    <3> QED
      BY <1>2, <2>1, <2>2, <2>3, <2>4 DEF Iterates
  <2>6. step[i] \in [S -> S]
    BY DEF IsStep
  <2> HIDE DEF h
  <2> QED
    BY <1>2, <2>5, <2>6
<1>3. 0 .. n \subseteq T
  <2>1. 0 \in T
    BY <1>1
  <2>2. ASSUME NEW i \in 1 .. n, i - 1 \in T PROVE i \in T
    <3>1. h[i] \in S
      BY <1>2, <2>2
    <3> QED
      BY <3>1
  <2> HIDE DEF h, T
  <2> QED
    BY <2>1, <2>2, UpToInduction
<1>4. h \in [0 .. n -> S]
  BY <1>3
<1>5. ASSUME NEW i \in 1 .. n PROVE h[i] = step[i][h[i - 1]]
  <2>1. h[i - 1] \in S
    BY <1>3
  <2> HIDE DEF h, T
  <2> QED
    BY <2>1, <1>2
<1>6. h[n] = it[1 .. n]
  OBVIOUS
<1> HIDE DEF h
<1> QED
  BY <1>1, <1>4, <1>5, <1>6 DEF IsRun

-----------------------------------------------------------------------------
(* Pieces of a sequence, and sequences without repetition. *)

LEMMA PieceOf ==
    ASSUME NEW S, NEW s \in Seq(S), NEW m \in Int, NEW n \in Int, 1 <= m, n <= Len(s)
    PROVE  /\ SubSeq(s, m, n) \in Seq(S)
           /\ Len(SubSeq(s, m, n)) = IF m <= n THEN n - m + 1 ELSE 0
           /\ \A i \in 1 .. Len(SubSeq(s, m, n)) : SubSeq(s, m, n)[i] = s[m + i - 1]
<1>1. \A i \in m .. n : s[i] \in S
  OBVIOUS
<1> QED
  BY <1>1, SubSeqProperties

LEMMA WithoutPosition ==
    ASSUME NEW S, NEW s \in Seq(S), NEW p \in 1 .. Len(s)
    PROVE  /\ RemoveAt(s, p) \in Seq(S) /\ Len(RemoveAt(s, p)) = Len(s) - 1
           /\ \A i \in 1 .. Len(s) - 1 :
                RemoveAt(s, p)[i] = IF i < p THEN s[i] ELSE s[i + 1]
<1> DEFINE u == SubSeq(s, 1, p - 1)
           v == SubSeq(s, p + 1, Len(s))
<1>1. Len(s) \in Nat /\ p \in Int /\ p - 1 \in Int /\ p + 1 \in Int /\ 1 <= p /\ p <= Len(s)
  OBVIOUS
<1>2. /\ u \in Seq(S) /\ Len(u) = p - 1
      /\ \A i \in 1 .. p - 1 : u[i] = s[i]
  BY <1>1, PieceOf
<1>3. /\ v \in Seq(S)
      /\ Len(v) = IF p + 1 <= Len(s) THEN Len(s) - (p + 1) + 1 ELSE 0
      /\ \A i \in 1 .. Len(v) : v[i] = s[(p + 1) + i - 1]
  BY <1>1, PieceOf
<1> HIDE DEF u, v
<1>4. Len(v) = Len(s) - p /\ \A i \in 1 .. Len(s) - p : v[i] = s[p + i]
  BY <1>1, <1>3
<1>5. /\ u \o v \in Seq(S) /\ Len(u \o v) = Len(u) + Len(v)
      /\ \A i \in 1 .. Len(u) + Len(v) :
           (u \o v)[i] = IF i <= Len(u) THEN u[i] ELSE v[i - Len(u)]
  BY <1>2, <1>3, ConcatProperties
<1>6. RemoveAt(s, p) = u \o v
  BY DEF RemoveAt, u, v
<1>7. Len(u) + Len(v) = Len(s) - 1
  BY <1>1, <1>2, <1>4
<1>8. ASSUME NEW i \in 1 .. Len(s) - 1
      PROVE  (u \o v)[i] = IF i < p THEN s[i] ELSE s[i + 1]
  <2>0. /\ i <= p - 1 => (u \o v)[i] = u[i]
        /\ ~(i <= p - 1) => (u \o v)[i] = v[i - (p - 1)]
    BY <1>2, <1>5, <1>7
  <2>1. CASE i < p
    BY <1>1, <1>2, <2>0, <2>1
  <2>2. CASE ~(i < p)
    <3>1. i - (p - 1) \in 1 .. Len(s) - p /\ p + (i - (p - 1)) = i + 1
      BY <1>1, <2>2
    <3> HIDE DEF u
    <3>2. v[i - (p - 1)] = s[i + 1]
      BY <1>4, <3>1
    <3>3. ~(i <= p - 1) /\ ~(i < p)
      BY <1>1, <2>2
    <3> QED
      BY <2>0, <3>2, <3>3
  <2> QED
    BY <2>1, <2>2
<1> QED
  BY <1>1, <1>5, <1>6, <1>7, <1>8

LEMMA EntryAdded ==
    ASSUME NEW S, NEW s \in Seq(S), IsInjective(s), NEW e \in S, e \notin ToSet(s)
    PROVE  /\ Append(s, e) \in Seq(S) /\ IsInjective(Append(s, e))
           /\ ToSet(Append(s, e)) = ToSet(s) \cup {e}
<1> DEFINE a == Append(s, e)
<1>1. /\ DOMAIN s = 1 .. Len(s) /\ DOMAIN a = 1 .. Len(s) + 1 /\ Len(s) \in Nat
      /\ a[Len(s) + 1] = e /\ \A i \in 1 .. Len(s) : a[i] = s[i]
  OBVIOUS
<1>2. a \in Seq(S)
  OBVIOUS
<1> HIDE DEF a
<1>3. \A i \in DOMAIN a : i \in DOMAIN s \/ i = Len(s) + 1
  BY <1>1
<1> QED
  BY <1>1, <1>2, <1>3 DEF IsInjective, ToSet, a

LEMMA FirstEntryTaken ==
    ASSUME NEW S, NEW s \in Seq(S), IsInjective(s), s # <<>>
    PROVE  /\ Tail(s) \in Seq(S) /\ IsInjective(Tail(s))
           /\ ToSet(Tail(s)) = ToSet(s) \ {Head(s)}
<1> DEFINE a == Tail(s)
<1>1. /\ DOMAIN s = 1 .. Len(s) /\ DOMAIN a = 1 .. Len(s) - 1 /\ Len(s) \in Nat \ {0}
      /\ Head(s) = s[1] /\ \A i \in 1 .. Len(s) - 1 : a[i] = s[i + 1]
  OBVIOUS
<1>2. a \in Seq(S)
  OBVIOUS
<1> HIDE DEF a
<1>3. IsInjective(a)
  BY <1>1 DEF IsInjective
<1>4. \A i \in DOMAIN s : i = 1 \/ (i - 1 \in DOMAIN a /\ a[i - 1] = s[i])
  BY <1>1
<1>5. \A i \in DOMAIN a : i + 1 \in DOMAIN s /\ i + 1 # 1 /\ 1 \in DOMAIN s
  BY <1>1
<1>6. \A x \in ToSet(a) : x \in ToSet(s) /\ x # s[1]
  BY <1>1, <1>5 DEF ToSet, IsInjective
<1>7. \A x \in ToSet(s) : x # s[1] => x \in ToSet(a)
  BY <1>4 DEF ToSet
<1> QED
  BY <1>1, <1>2, <1>3, <1>6, <1>7 DEF a

LEMMA EntryRemoved ==
    ASSUME NEW S, NEW s \in Seq(S), IsInjective(s), NEW e
    PROVE  /\ RemoveFirst(s, e) \in Seq(S) /\ IsInjective(RemoveFirst(s, e))
           /\ ToSet(RemoveFirst(s, e)) = ToSet(s) \ {e}
<1>1. DOMAIN s = 1 .. Len(s) /\ Len(s) \in Nat
  OBVIOUS
<1>2. CASE ~ \E i \in 1 .. Len(s) : s[i] = e
  BY <1>1, <1>2 DEF RemoveFirst, ToSet
<1>3. ASSUME NEW p \in 1 .. Len(s), s[p] = e
      PROVE  /\ RemoveFirst(s, e) \in Seq(S) /\ IsInjective(RemoveFirst(s, e))
             /\ ToSet(RemoveFirst(s, e)) = ToSet(s) \ {e}
  <2>1. {i \in 1 .. Len(s) : s[i] = e} = {p}
    BY <1>1, <1>3 DEF IsInjective
  <2>2. Min({p}) = p
    BY <1>1 DEF Min
  <2>3. RemoveFirst(s, e) = RemoveAt(s, p)
    BY <1>3, <2>1, <2>2 DEF RemoveFirst, SelectInSeq
  <2> DEFINE a == RemoveAt(s, p)
  <2>4. /\ a \in Seq(S) /\ Len(a) = Len(s) - 1 /\ DOMAIN a = 1 .. Len(s) - 1
        /\ \A i \in 1 .. Len(s) - 1 : a[i] = IF i < p THEN s[i] ELSE s[i + 1]
    BY WithoutPosition
  <2> HIDE DEF a
  <2>5. \A i \in DOMAIN a : \E j \in DOMAIN s : a[i] = s[j] /\ j # p
    BY <1>1, <2>4
  <2>6. \A j \in DOMAIN s : j # p => \E i \in DOMAIN a : a[i] = s[j]
    <3> TAKE j \in DOMAIN s
    <3>1. CASE j < p
      BY <1>1, <2>4, <3>1
    <3>2. CASE j > p
      <4>1. j - 1 \in DOMAIN a /\ a[j - 1] = s[j]
        BY <1>1, <2>4, <3>2
      <4> QED
        BY <4>1
    <3> QED
      BY <1>1, <3>1, <3>2
  <2>7. IsInjective(a)
    <3> SUFFICES ASSUME NEW i \in DOMAIN a, NEW j \in DOMAIN a, i < j PROVE a[i] # a[j]
      BY <2>4 DEF IsInjective
    <3> DEFINE In(k) == IF k < p THEN k ELSE k + 1
    <3>1. /\ In(i) \in DOMAIN s /\ In(j) \in DOMAIN s /\ In(i) # In(j)
          /\ a[i] = s[In(i)] /\ a[j] = s[In(j)]
      BY <1>1, <2>4
    <3> QED
      BY <1>1, <3>1 DEF IsInjective
  <2>8. ToSet(a) = ToSet(s) \ {e}
    BY <1>1, <1>3, <2>5, <2>6 DEF ToSet, IsInjective
  <2> QED
    BY <2>3, <2>4, <2>7, <2>8 DEF a
<1> QED
  BY <1>2, <1>3

-----------------------------------------------------------------------------
(* The filter of Lists. *)

\* What it has kept after each element.
IsOnlyRun(h, s, T, S) ==
    /\ h \in [0 .. Len(s) -> Seq(S)]
    /\ h[0] = <<>> /\ Only(s, T) = h[Len(s)]
    /\ \A i \in 1 .. Len(s) :
          h[i] = IF s[i] \in T THEN Append(h[i - 1], s[i]) ELSE h[i - 1]

LEMMA OnlyRuns ==
    ASSUME NEW S, NEW s \in Seq(S), NEW T
    PROVE  \E h : IsOnlyRun(h, s, T, S)
<1> DEFINE n == Len(s)
           Op(kept, x) == IF x \in T THEN Append(kept, x) ELSE kept
           step == [i \in 1 .. n |-> [kept \in Seq(S) |-> Op(kept, s[i])]]
           it == CHOOSE f : f = [t \in SUBSET (1 .. n) |->
                                   IF t = {} THEN <<>> ELSE Op(f[t \ {Max(t)}], s[Max(t)])]
<1>1. n \in Nat /\ DOMAIN s = 1 .. n /\ <<>> \in Seq(S)
  OBVIOUS
<1>2. IsStep(step, Seq(S), n) /\ \A i \in 1 .. n, kept \in Seq(S) : step[i][kept] = Op(kept, s[i])
  BY <1>1 DEF IsStep
<1>3. \A t \in SUBSET (1 .. n) : t # {} => Max(t) \in 1 .. n /\ t \ {Max(t)} \in SUBSET (1 .. n)
  BY <1>1, MaxOfPositions
<1>4. it = [t \in SUBSET (1 .. n) |->
              IF t = {} THEN <<>> ELSE Op(it[t \ {Max(t)}], s[Max(t)])]
  <2>1. PICK f : f \in [SUBSET (1 .. n) -> Seq(S)] /\ Iterates(f, step, <<>>, Seq(S), n)
    <3> HIDE DEF step, n, Op
    <3> QED
      BY <1>1, <1>2, IterationExists
  <2>2. f = [t \in SUBSET (1 .. n) |->
               IF t = {} THEN <<>> ELSE Op(f[t \ {Max(t)}], s[Max(t)])]
    <3> HIDE DEF step, n, Op
    <3> QED
      BY <2>1, <1>2, <1>3 DEF Iterates
  <2> QED
    BY <2>2
<1>5. Only(s, T) = it[1 .. n]
  BY <1>1 DEF Only, FoldLeft, MapThenFoldSet
<1> HIDE DEF step, it, n, Op
<1>6. Iterates(it, step, <<>>, Seq(S), n)
  BY <1>2, <1>3, <1>4 DEF Iterates
<1>7. PICK h : IsRun(h, step, <<>>, Seq(S), n, it[1 .. n])
  BY <1>1, <1>2, <1>6, IterationRuns
<1>8. h \in [0 .. n -> Seq(S)] /\ \A i \in 1 .. n : h[i] = Op(h[i - 1], s[i])
  <2>1. \A i \in 1 .. n : h[i - 1] \in Seq(S)
    BY <1>1, <1>7 DEF IsRun
  <2> QED
    BY <1>1, <1>2, <1>7, <2>1 DEF IsRun
<1> QED
  BY <1>5, <1>7, <1>8 DEF IsRun, n, Op, IsOnlyRun

\* r holds the members of the first n elements of s, in their order: at tells
\* where each one comes from.
Selects(r, s, T, n) ==
    \E at \in [1 .. Len(r) -> 1 .. n] :
        /\ \A a, b \in 1 .. Len(r) : a < b => at[a] < at[b]
        /\ \A a \in 1 .. Len(r) : r[a] = s[at[a]] /\ r[a] \in T
        /\ \A j \in 1 .. n : s[j] \in T => \E a \in 1 .. Len(r) : at[a] = j

LEMMA SelectsOneMore ==
    ASSUME NEW S, NEW s \in Seq(S), NEW T, NEW n \in 1 .. Len(s), NEW r \in Seq(S),
           Selects(r, s, T, n - 1)
    PROVE  Selects(IF s[n] \in T THEN Append(r, s[n]) ELSE r, s, T, n)
<1>1. PICK at \in [1 .. Len(r) -> 1 .. n - 1] :
        /\ \A a, b \in 1 .. Len(r) : a < b => at[a] < at[b]
        /\ \A a \in 1 .. Len(r) : r[a] = s[at[a]] /\ r[a] \in T
        /\ \A j \in 1 .. n - 1 : s[j] \in T => \E a \in 1 .. Len(r) : at[a] = j
  BY DEF Selects
<1>2. Len(r) \in Nat /\ n \in Nat /\ \A j \in 1 .. n : j = n \/ j \in 1 .. n - 1
  OBVIOUS
<1>3. CASE s[n] \notin T
  <2>1. at \in [1 .. Len(r) -> 1 .. n]
    BY <1>2
  <2>2. Selects(r, s, T, n)
    BY <1>1, <1>2, <1>3, <2>1 DEF Selects
  <2> QED
    BY <1>3, <2>2
<1>4. CASE s[n] \in T
  <2> DEFINE q == Append(r, s[n])
             new == [a \in 1 .. Len(q) |-> IF a = Len(q) THEN n ELSE at[a]]
  <2>1. /\ Len(q) = Len(r) + 1 /\ q[Len(q)] = s[n] /\ \A a \in 1 .. Len(r) : q[a] = r[a]
        /\ \A a \in 1 .. Len(q) : a = Len(q) \/ a \in 1 .. Len(r)
    OBVIOUS
  <2>2. \A a \in 1 .. Len(r) : a # Len(q) /\ a \in 1 .. Len(q) /\ new[a] = at[a]
    BY <1>2, <2>1
  <2>3. Len(q) \in 1 .. Len(q) /\ new[Len(q)] = n
    BY <1>2, <2>1
  <2>4. new \in [1 .. Len(q) -> 1 .. n]
    BY <1>1, <1>2, <2>1
  <2> HIDE DEF q, new
  <2>5. ASSUME NEW a \in 1 .. Len(q), NEW b \in 1 .. Len(q), a < b PROVE new[a] < new[b]
    <3>1. a \in 1 .. Len(r)
      BY <1>2, <2>1, <2>5
    <3>2. CASE b = Len(q)
      BY <1>1, <1>2, <2>2, <2>3, <3>1, <3>2
    <3>3. CASE b # Len(q)
      <4>1. b \in 1 .. Len(r)
        BY <2>1, <3>3
      <4> QED
        BY <1>1, <2>2, <2>5, <3>1, <4>1
    <3> QED
      BY <3>2, <3>3
  <2>6. ASSUME NEW a \in 1 .. Len(q) PROVE q[a] = s[new[a]] /\ q[a] \in T
    BY <1>1, <1>4, <2>1, <2>2, <2>3
  <2>7. ASSUME NEW j \in 1 .. n, s[j] \in T PROVE \E a \in 1 .. Len(q) : new[a] = j
    <3>1. CASE j = n
      BY <2>3, <3>1
    <3>2. CASE j # n
      <4>1. PICK a \in 1 .. Len(r) : at[a] = j
        BY <1>1, <1>2, <2>7, <3>2
      <4> QED
        BY <2>2, <4>1
    <3> QED
      BY <3>1, <3>2
  <2>8. Selects(q, s, T, n)
    BY <2>4, <2>5, <2>6, <2>7 DEF Selects
  <2> QED
    BY <1>4, <2>8 DEF q
<1> QED
  BY <1>3, <1>4

\* The filter keeps exactly the members, in their order.
LEMMA OnlySelects ==
    ASSUME NEW S, NEW s \in Seq(S), NEW T
    PROVE  Only(s, T) \in Seq(S) /\ Selects(Only(s, T), s, T, Len(s))
<1>0. PICK h : IsOnlyRun(h, s, T, S)
  BY OnlyRuns
<1>1. /\ h \in [0 .. Len(s) -> Seq(S)]
      /\ h[0] = <<>> /\ Only(s, T) = h[Len(s)]
      /\ \A i \in 1 .. Len(s) :
            h[i] = IF s[i] \in T THEN Append(h[i - 1], s[i]) ELSE h[i - 1]
  BY <1>0 DEF IsOnlyRun
<1> DEFINE G == {i \in 0 .. Len(s) : Selects(h[i], s, T, i)}
<1>2. Len(s) \in Nat
  OBVIOUS
<1>3. 0 \in G
  <2>1. Selects(<<>>, s, T, 0)
    <3>1. Len(<<>>) = 0 /\ 1 .. 0 = {} /\ <<>> \in [1 .. 0 -> 1 .. 0]
      OBVIOUS
    <3> QED
      BY <3>1 DEF Selects
  <2> QED
    BY <1>1, <1>2, <2>1
<1>4. ASSUME NEW i \in 1 .. Len(s), i - 1 \in G PROVE i \in G
  <2>1. h[i - 1] \in Seq(S) /\ Selects(h[i - 1], s, T, i - 1)
    <3>1. i - 1 \in 0 .. Len(s)
      BY <1>2
    <3> QED
      BY <1>1, <1>4, <3>1
  <2>2. Selects(h[i], s, T, i)
    BY <1>1, <2>1, SelectsOneMore
  <2> QED
    BY <2>2
<1>5. Len(s) \in G
  <2> HIDE DEF G
  <2>1. 0 .. Len(s) \subseteq G
    BY <1>2, <1>3, <1>4, UpToInduction
  <2> QED
    BY <1>2, <2>1
<1>6. Only(s, T) \in Seq(S)
  BY <1>1, <1>2
<1> QED
  BY <1>1, <1>5, <1>6

\* Nothing is left out of a list of members.
LEMMA OnlyMembers ==
    ASSUME NEW S, NEW s \in Seq(S), NEW T, \A i \in 1 .. Len(s) : s[i] \in T
    PROVE  Only(s, T) = s
<1>0. PICK h : IsOnlyRun(h, s, T, S)
  BY OnlyRuns
<1>1. /\ h \in [0 .. Len(s) -> Seq(S)]
      /\ h[0] = <<>> /\ Only(s, T) = h[Len(s)]
      /\ \A i \in 1 .. Len(s) :
            h[i] = IF s[i] \in T THEN Append(h[i - 1], s[i]) ELSE h[i - 1]
  BY <1>0 DEF IsOnlyRun
<1> DEFINE G == {i \in 0 .. Len(s) : h[i] = SubSeq(s, 1, i)}
<1>2. Len(s) \in Nat
  OBVIOUS
<1>3. 0 \in G
  BY <1>1, <1>2
<1>4. ASSUME NEW i \in 1 .. Len(s), i - 1 \in G PROVE i \in G
  <2>1. h[i] = Append(SubSeq(s, 1, i - 1), s[i])
    BY <1>1, <1>4
  <2>2. Append(SubSeq(s, 1, i - 1), s[i]) = SubSeq(s, 1, i)
    <3>1. 1 \in 1 .. Len(s) /\ i \in 1 .. Len(s)
      BY <1>2
    <3>2. SubSeq(s, 1, i) = SubSeq(s, 1, i - 1) \o <<s[i]>>
      BY <3>1, SubSeqRecursiveSecond
    <3>3. SubSeq(s, 1, i - 1) \in Seq(S) /\ s[i] \in S
      BY <1>2, PieceOf
    <3> QED
      BY <3>2, <3>3, AppendIsConcat
  <2> QED
    BY <2>1, <2>2
<1>5. Len(s) \in G
  <2> HIDE DEF G
  <2>1. 0 .. Len(s) \subseteq G
    BY <1>2, <1>3, <1>4, UpToInduction
  <2> QED
    BY <1>2, <2>1
<1>6. SubSeq(s, 1, Len(s)) = s
  OBVIOUS
<1> QED
  BY <1>1, <1>5, <1>6

\* The numbers that the filter keeps.
LEMMA RangeOfOnly ==
    ASSUME NEW n \in Nat, NEW T \in SUBSET (1 .. n)
    PROVE  Range(Only([i \in 1 .. n |-> i], T)) = T
<1> DEFINE s == [i \in 1 .. n |-> i]
           r == Only(s, T)
<1>1. s \in Seq(1 .. n) /\ Len(s) = n /\ \A i \in 1 .. n : s[i] = i
  OBVIOUS
<1>2. r \in Seq(1 .. n) /\ Selects(r, s, T, n)
  <2> HIDE DEF s
  <2> QED
    BY <1>1, OnlySelects
<1> HIDE DEF s, r
<1>3. PICK at \in [1 .. Len(r) -> 1 .. n] :
        /\ \A a \in 1 .. Len(r) : r[a] = s[at[a]] /\ r[a] \in T
        /\ \A j \in 1 .. n : s[j] \in T => \E a \in 1 .. Len(r) : at[a] = j
  BY <1>2 DEF Selects
<1>4. DOMAIN r = 1 .. Len(r)
  BY <1>2
<1>5. \A j \in T : \E a \in 1 .. Len(r) : r[a] = j
  BY <1>1, <1>3
<1>6. Range(r) \subseteq T
  BY <1>3, <1>4 DEF Range
<1>7. T \subseteq Range(r)
  BY <1>4, <1>5 DEF Range
<1> QED
  BY <1>6, <1>7 DEF r, s

\* The filter of numbers keeps their order.
LEMMA OnlyIncreases ==
    ASSUME NEW n \in Nat, NEW T
    PROVE  LET r == Only([i \in 1 .. n |-> i], T)
           IN \A a, b \in 1 .. Len(r) : a < b => r[a] < r[b]
<1> DEFINE s == [i \in 1 .. n |-> i]
           r == Only(s, T)
<1>1. s \in Seq(1 .. n) /\ Len(s) = n /\ \A i \in 1 .. n : s[i] = i
  OBVIOUS
<1>2. r \in Seq(1 .. n) /\ Selects(r, s, T, n)
  <2> HIDE DEF s
  <2> QED
    BY <1>1, OnlySelects
<1> HIDE DEF s, r
<1>3. PICK at \in [1 .. Len(r) -> 1 .. n] :
        /\ \A a, b \in 1 .. Len(r) : a < b => at[a] < at[b]
        /\ \A a \in 1 .. Len(r) : r[a] = s[at[a]] /\ r[a] \in T
  BY <1>2 DEF Selects
<1>4. \A a \in 1 .. Len(r) : r[a] = at[a]
  BY <1>1, <1>3
<1>5. \A a, b \in 1 .. Len(r) : a < b => r[a] < r[b]
  BY <1>3, <1>4
<1> QED
  BY <1>5 DEF r, s

-----------------------------------------------------------------------------
(* The members of a sequence, and the largest of some numbers. *)

LEMMA RangeOfAppend ==
    ASSUME NEW S, NEW s \in Seq(S), NEW e \in S
    PROVE  Range(Append(s, e)) = Range(s) \cup {e}
<1>1. /\ DOMAIN Append(s, e) = 1 .. Len(s) + 1 /\ DOMAIN s = 1 .. Len(s) /\ Len(s) \in Nat
      /\ Append(s, e)[Len(s) + 1] = e /\ \A i \in 1 .. Len(s) : Append(s, e)[i] = s[i]
  OBVIOUS
<1>2. \A i \in 1 .. Len(s) + 1 : i \in 1 .. Len(s) \/ i = Len(s) + 1
  BY <1>1
<1> QED
  BY <1>1, <1>2 DEF Range

LEMMA RangeOfTail ==
    ASSUME NEW S, NEW s \in Seq(S), s # <<>>
    PROVE  Range(s) = {Head(s)} \cup Range(Tail(s))
<1>1. /\ DOMAIN s = 1 .. Len(s) /\ DOMAIN Tail(s) = 1 .. Len(s) - 1 /\ Len(s) \in Nat \ {0}
      /\ Head(s) = s[1] /\ \A i \in 1 .. Len(s) - 1 : Tail(s)[i] = s[i + 1]
  OBVIOUS
<1>2. \A i \in 1 .. Len(s) : i = 1 \/ (i - 1 \in 1 .. Len(s) - 1 /\ (i - 1) + 1 = i)
  BY <1>1
<1>3. \A i \in 1 .. Len(s) - 1 : i + 1 \in 1 .. Len(s)
  BY <1>1
<1>4. Range(s) \subseteq {Head(s)} \cup Range(Tail(s))
  <2>1. ASSUME NEW i \in 1 .. Len(s)
        PROVE  s[i] = Head(s) \/ \E j \in 1 .. Len(s) - 1 : Tail(s)[j] = s[i]
    BY <1>1, <1>2
  <2>2. \A x \in Range(s) : \E i \in 1 .. Len(s) : s[i] = x
    BY <1>1 DEF Range
  <2>3. \A j \in 1 .. Len(s) - 1 : Tail(s)[j] \in Range(Tail(s))
    BY <1>1 DEF Range
  <2> QED
    BY <2>1, <2>2, <2>3
<1>5. {Head(s)} \cup Range(Tail(s)) \subseteq Range(s)
  BY <1>1, <1>3 DEF Range
<1> QED
  BY <1>4, <1>5

LEMMA RangeOfFront ==
    ASSUME NEW S, NEW s \in Seq(S), s # <<>>
    PROVE  Front(s) \in Seq(S) /\ Last(s) \in S /\ Range(s) = Range(Front(s)) \cup {Last(s)}
<1> DEFINE f == Front(s)
<1>1. DOMAIN s = 1 .. Len(s) /\ Len(s) \in Nat \ {0} /\ Last(s) = s[Len(s)]
      /\ Len(s) \in Int /\ Len(s) - 1 \in Int
  BY DEF Last
<1>2. /\ f \in Seq(S) /\ Len(f) = IF 1 <= Len(s) - 1 THEN Len(s) - 1 - 1 + 1 ELSE 0
      /\ \A i \in 1 .. Len(f) : f[i] = s[1 + i - 1]
  BY <1>1, PieceOf DEF Front
<1> HIDE DEF f
<1>3. PICK n \in Nat \ {0} : n = Len(s)
  BY <1>1
<1>4. Len(f) = n - 1 /\ DOMAIN f = 1 .. n - 1 /\ \A i \in 1 .. n - 1 : f[i] = s[i]
  <2>1. Len(f) = n - 1
    BY <1>2, <1>3
  <2>2. \A i \in 1 .. n - 1 : 1 + i - 1 = i
    OBVIOUS
  <2> QED
    BY <1>2, <2>1, <2>2
<1>5. \A i \in 1 .. n : i = n \/ i \in 1 .. n - 1
  OBVIOUS
<1>8. n \in 1 .. n /\ \A i \in 1 .. n - 1 : i \in 1 .. n
  OBVIOUS
<1>6. Range(s) = Range(f) \cup {Last(s)}
  <2>1. \A i \in 1 .. n : s[i] = Last(s) \/ \E j \in 1 .. n - 1 : f[j] = s[i]
    BY <1>1, <1>3, <1>4, <1>5
  <2>2. \A x \in Range(s) : \E i \in 1 .. n : s[i] = x
    BY <1>1, <1>3 DEF Range
  <2>3. \A j \in 1 .. n - 1 : f[j] \in Range(f) /\ f[j] \in Range(s)
    BY <1>1, <1>3, <1>4, <1>8 DEF Range
  <2>4. \A x \in Range(f) : \E j \in 1 .. n - 1 : f[j] = x
    BY <1>4 DEF Range
  <2>5. Last(s) \in Range(s)
    BY <1>1, <1>3, <1>8 DEF Range
  <2> QED
    BY <2>1, <2>2, <2>3, <2>4, <2>5
<1>7. Last(s) \in S
  BY <1>1
<1> QED
  BY <1>2, <1>6, <1>7 DEF f

LEMMA RangeOfConcat ==
    ASSUME NEW S, NEW s \in Seq(S), NEW t \in Seq(S)
    PROVE  Range(s \o t) = Range(s) \cup Range(t)
<1> DEFINE n == Len(s)
           m == Len(t)
           u == s \o t
<1>1. /\ u \in Seq(S) /\ Len(u) = n + m /\ n \in Nat /\ m \in Nat
      /\ \A i \in 1 .. n + m : u[i] = IF i <= n THEN s[i] ELSE t[i - n]
      /\ DOMAIN u = 1 .. n + m /\ DOMAIN s = 1 .. n /\ DOMAIN t = 1 .. m
  BY ConcatProperties
<1> HIDE DEF n, m, u
<1>2. \A i \in 1 .. n + m : (i <= n /\ i \in 1 .. n) \/ (~(i <= n) /\ i - n \in 1 .. m)
  BY <1>1
<1>3. Range(u) \subseteq Range(s) \cup Range(t)
  BY <1>1, <1>2 DEF Range
<1>4. \A i \in 1 .. n : i \in 1 .. n + m /\ u[i] = s[i]
  BY <1>1
<1>5. \A i \in 1 .. m : n + i \in 1 .. n + m /\ u[n + i] = t[i]
  <2> TAKE i \in 1 .. m
  <2>1. n + i \in 1 .. n + m /\ ~(n + i <= n) /\ (n + i) - n = i
    BY <1>1
  <2> QED
    BY <1>1, <2>1
<1>6. Range(s) \cup Range(t) \subseteq Range(u)
  <2>1. \A x \in Range(s) : \E i \in 1 .. n + m : u[i] = x
    BY <1>1, <1>4 DEF Range
  <2>2. \A x \in Range(t) : \E i \in 1 .. n + m : u[i] = x
    <3>1. \A i \in 1 .. m : \E k \in 1 .. n + m : u[k] = t[i]
      BY <1>5
    <3> QED
      BY <1>1, <3>1 DEF Range
  <2> QED
    BY <1>1, <2>1, <2>2 DEF Range
<1> QED
  BY <1>3, <1>6 DEF u

Increasing(s) == \A i, j \in 1 .. Len(s) : i < j => s[i] < s[j]

LEMMA TailIncreases ==
    ASSUME NEW S, NEW s \in Seq(S), s # <<>>, Increasing(s)
    PROVE  Increasing(Tail(s)) /\ \A x \in Range(Tail(s)) : Head(s) < x
<1>1. /\ DOMAIN Tail(s) = 1 .. Len(s) - 1 /\ Len(s) \in Nat \ {0}
      /\ Len(Tail(s)) = Len(s) - 1
      /\ Head(s) = s[1] /\ \A i \in 1 .. Len(s) - 1 : Tail(s)[i] = s[i + 1]
  OBVIOUS
<1>2. \A i \in 1 .. Len(s) - 1 : i + 1 \in 1 .. Len(s) /\ 1 < i + 1
  BY <1>1
<1>3. 1 \in 1 .. Len(s)
  BY <1>1
<1>4. Increasing(Tail(s))
  <2> SUFFICES ASSUME NEW i \in 1 .. Len(s) - 1, NEW j \in 1 .. Len(s) - 1, i < j
               PROVE  Tail(s)[i] < Tail(s)[j]
    BY <1>1 DEF Increasing
  <2>1. i + 1 < j + 1
    OBVIOUS
  <2> QED
    BY <1>1, <1>2, <2>1 DEF Increasing
<1>5. \A i \in 1 .. Len(s) - 1 : Head(s) < Tail(s)[i]
  BY <1>1, <1>2, <1>3 DEF Increasing
<1> QED
  BY <1>1, <1>4, <1>5 DEF Range

\* The largest of some numbers.
LEMMA LargestNumber ==
    ASSUME NEW m \in Nat, NEW S \in SUBSET (0 .. m), S # {}
    PROVE  /\ (CHOOSE n \in S : \A k \in S : k <= n) \in S
           /\ \A k \in S : k <= CHOOSE n \in S : \A j \in S : j <= n
<1>1. \E n \in S : \A k \in S : k <= n
  <2>1. CASE S \subseteq {0}
    <3>1. S = {0}
      BY <2>1
    <3> QED
      BY <3>1
  <2>2. CASE ~(S \subseteq {0})
    <3>1. S \ {0} \in SUBSET (1 .. m) /\ S \ {0} # {}
      BY <2>2
    <3>2. Max(S \ {0}) \in S \ {0} /\ \A k \in S \ {0} : k <= Max(S \ {0})
      BY <3>1, MaxOfPositions
    <3>3. PICK x \in S : x # 0 /\ \A k \in S \ {0} : k <= x
      BY <3>2
    <3>4. \A k \in S : k <= x
      BY <3>3
    <3> QED
      BY <3>4
  <2> QED
    BY <2>1, <2>2
<1> QED
  BY <1>1

-----------------------------------------------------------------------------
(* The concatenation of sequences. *)

\* The concatenations of the first sequences of seqs.
IsFlattening(h, seqs, S) ==
    /\ h \in [0 .. Len(seqs) -> Seq(S)]
    /\ h[0] = <<>> /\ FlattenSeq(seqs) = h[Len(seqs)]
    /\ \A i \in 1 .. Len(seqs) : h[i] = h[i - 1] \o seqs[i]

LEMMA Flattens ==
    ASSUME NEW S, NEW seqs \in Seq(Seq(S))
    PROVE  \E h : IsFlattening(h, seqs, S)
<1> DEFINE n == Len(seqs)
           step == [i \in 1 .. n |-> [x \in Seq(S) |-> x \o seqs[i]]]
           flat == CHOOSE f : f = [i \in 1 .. n |-> IF i = 1 THEN seqs[i] ELSE f[i - 1] \o seqs[i]]
<1>1. n \in Nat /\ <<>> \in Seq(S) /\ \A i \in 1 .. n : seqs[i] \in Seq(S)
  OBVIOUS
<1>2. IsStep(step, Seq(S), n) /\ \A i \in 1 .. n, x \in Seq(S) : step[i][x] = x \o seqs[i]
  BY <1>1 DEF IsStep
<1>3. PICK h : IsRun(h, step, <<>>, Seq(S), n, h[n])
  <2> HIDE DEF step, n
  <2>1. PICK it : Iterates(it, step, <<>>, Seq(S), n)
    BY <1>1, <1>2, IterationExists
  <2>2. PICK g : IsRun(g, step, <<>>, Seq(S), n, it[1 .. n])
    BY <1>1, <1>2, <2>1, IterationRuns
  <2>3. IsRun(g, step, <<>>, Seq(S), n, g[n])
    BY <2>2 DEF IsRun
  <2> QED
    BY <2>3
<1> HIDE DEF step, n
<1>4. /\ h \in [0 .. n -> Seq(S)] /\ h[0] = <<>>
      /\ \A i \in 1 .. n : h[i] = h[i - 1] \o seqs[i]
  <2>1. \A i \in 1 .. n : h[i - 1] \in Seq(S)
    BY <1>1, <1>3 DEF IsRun
  <2> QED
    BY <1>1, <1>2, <1>3, <2>1 DEF IsRun
<1>5. flat = [i \in 1 .. n |-> IF i = 1 THEN seqs[i] ELSE flat[i - 1] \o seqs[i]]
  <2> DEFINE f == [i \in 1 .. n |-> h[i]]
  <2>1. f = [i \in 1 .. n |-> IF i = 1 THEN seqs[i] ELSE f[i - 1] \o seqs[i]]
    <3> SUFFICES ASSUME NEW i \in 1 .. n
                 PROVE  f[i] = IF i = 1 THEN seqs[i] ELSE f[i - 1] \o seqs[i]
      OBVIOUS
    <3>1. CASE i = 1
      <4>1. i - 1 = 0 /\ seqs[i] \in Seq(S)
        BY <1>1, <3>1
      <4>2. h[i] = <<>> \o seqs[i]
        BY <1>4, <4>1
      <4>3. <<>> \o seqs[i] = seqs[i]
        BY <4>1
      <4> QED
        BY <3>1, <4>2, <4>3
    <3>2. CASE i # 1
      <4>1. i - 1 \in 1 .. n
        BY <1>1, <3>2
      <4> QED
        BY <1>4, <3>2, <4>1
    <3> QED
      BY <3>1, <3>2
  <2> HIDE DEF f, n
  <2> QED
    BY <2>1
<1> HIDE DEF flat
<1>6. \A i \in 1 .. n : flat[i] = h[i]
  <2> DEFINE G == {i \in 0 .. n : i = 0 \/ flat[i] = h[i]}
  <2>1. ASSUME NEW i \in 1 .. n, i - 1 \in G PROVE i \in G
    <3>1. CASE i = 1
      <4>1. i - 1 = 0 /\ seqs[i] \in Seq(S)
        BY <1>1, <3>1
      <4>2. h[i] = <<>> \o seqs[i]
        BY <1>4, <4>1
      <4>3. <<>> \o seqs[i] = seqs[i]
        BY <4>1
      <4> QED
        BY <1>5, <3>1, <4>2, <4>3
    <3>2. CASE i # 1
      <4>1. i - 1 \in 1 .. n /\ flat[i - 1] = h[i - 1]
        BY <1>1, <2>1, <3>2
      <4>2. flat[i] = flat[i - 1] \o seqs[i]
        BY <1>5, <3>2
      <4>3. h[i] = h[i - 1] \o seqs[i]
        BY <1>4
      <4>4. flat[i] = h[i]
        BY <4>1, <4>2, <4>3
      <4> QED
        BY <1>1, <4>4
    <3> QED
      BY <3>1, <3>2
  <2>2. 0 \in G
    BY <1>1
  <2>3. 0 .. n \subseteq G
    <3> HIDE DEF G
    <3> QED
      BY <1>1, <2>1, <2>2, UpToInduction
  <2> QED
    BY <2>3
<1>7. FlattenSeq(seqs) = h[n]
  <2>1. CASE n = 0
    <3>1. seqs = <<>>
      BY <2>1 DEF n
    <3> QED
      BY <1>4, <2>1, <3>1 DEF FlattenSeq, n
  <2>2. CASE n # 0
    <3>1. n \in 1 .. n
      BY <1>1, <2>2
    <3>2. FlattenSeq(seqs) = flat[n]
      BY <2>2 DEF FlattenSeq, flat, n
    <3> QED
      BY <1>6, <3>1, <3>2
  <2> QED
    BY <2>1, <2>2
<1> QED
  BY <1>4, <1>7 DEF IsFlattening, n

LEMMA FlattenTyped ==
    ASSUME NEW S, NEW seqs \in Seq(Seq(S))
    PROVE  FlattenSeq(seqs) \in Seq(S)
<1>1. PICK h : IsFlattening(h, seqs, S)
  BY Flattens
<1>2. Len(seqs) \in 0 .. Len(seqs)
  OBVIOUS
<1> QED
  BY <1>1, <1>2 DEF IsFlattening

-----------------------------------------------------------------------------
(* The sum of Lists. *)

\* The running totals of a sum.
IsSumRun(h, s) ==
    /\ h \in [0 .. Len(s) -> Nat]
    /\ h[0] = 0 /\ Sum(s) = h[Len(s)]
    /\ \A i \in 1 .. Len(s) : h[i] = h[i - 1] + s[i]

LEMMA SumRuns ==
    ASSUME NEW s \in Seq(Nat)
    PROVE  \E h : IsSumRun(h, s)
<1> DEFINE n == Len(s)
           step == [i \in 1 .. n |-> [total \in Nat |-> total + s[i]]]
           it == CHOOSE f : f = [t \in SUBSET (1 .. n) |->
                                   IF t = {} THEN 0 ELSE f[t \ {Max(t)}] + s[Max(t)]]
<1>1. n \in Nat /\ DOMAIN s = 1 .. n /\ 0 \in Nat
  OBVIOUS
<1>2. IsStep(step, Nat, n) /\ \A i \in 1 .. n, total \in Nat : step[i][total] = total + s[i]
  BY <1>1 DEF IsStep
<1>3. \A t \in SUBSET (1 .. n) : t # {} => Max(t) \in 1 .. n /\ t \ {Max(t)} \in SUBSET (1 .. n)
  BY <1>1, MaxOfPositions
<1>4. it = [t \in SUBSET (1 .. n) |->
              IF t = {} THEN 0 ELSE it[t \ {Max(t)}] + s[Max(t)]]
  <2>1. PICK f : f \in [SUBSET (1 .. n) -> Nat] /\ Iterates(f, step, 0, Nat, n)
    <3> HIDE DEF step, n
    <3> QED
      BY <1>1, <1>2, IterationExists
  <2>2. f = [t \in SUBSET (1 .. n) |->
               IF t = {} THEN 0 ELSE f[t \ {Max(t)}] + s[Max(t)]]
    <3> HIDE DEF step, n
    <3> QED
      BY <2>1, <1>2, <1>3 DEF Iterates
  <2> QED
    BY <2>2
<1>5. Sum(s) = it[1 .. n]
  BY <1>1 DEF Sum, FoldLeft, MapThenFoldSet
<1> HIDE DEF step, it, n
<1>6. Iterates(it, step, 0, Nat, n)
  BY <1>2, <1>3, <1>4 DEF Iterates
<1>7. PICK h : IsRun(h, step, 0, Nat, n, it[1 .. n])
  BY <1>1, <1>2, <1>6, IterationRuns
<1>8. h \in [0 .. n -> Nat] /\ \A i \in 1 .. n : h[i] = h[i - 1] + s[i]
  <2>1. \A i \in 1 .. n : h[i - 1] \in Nat
    BY <1>1, <1>7 DEF IsRun
  <2> QED
    BY <1>1, <1>2, <1>7, <2>1 DEF IsRun
<1> QED
  BY <1>5, <1>7, <1>8 DEF IsRun, n, IsSumRun

LEMMA SumNat ==
    ASSUME NEW s \in Seq(Nat)
    PROVE  Sum(s) \in Nat
<1>1. PICK h : IsSumRun(h, s)
  BY SumRuns
<1>2. Len(s) \in 0 .. Len(s)
  OBVIOUS
<1> QED
  BY <1>1, <1>2 DEF IsSumRun

LEMMA SumEmpty == Sum(<<>>) = 0
<1>1. <<>> \in Seq(Nat) /\ Len(<<>>) = 0
  OBVIOUS
<1>2. PICK h : IsSumRun(h, <<>>)
  BY <1>1, SumRuns
<1> QED
  BY <1>1, <1>2 DEF IsSumRun

LEMMA SumOne ==
    ASSUME NEW c \in Nat
    PROVE  Sum(<<c>>) = c
<1>1. <<c>> \in Seq(Nat) /\ Len(<<c>>) = 1 /\ <<c>>[1] = c
  OBVIOUS
<1>2. PICK h : IsSumRun(h, <<c>>)
  BY <1>1, SumRuns
<1>3. h[1] = h[0] + c /\ h[0] = 0 /\ Sum(<<c>>) = h[1]
  <2>1. 1 \in 1 .. Len(<<c>>) /\ 1 - 1 = 0
    BY <1>1
  <2> QED
    BY <1>1, <1>2, <2>1 DEF IsSumRun
<1> QED
  BY <1>3

LEMMA SumConcat ==
    ASSUME NEW s \in Seq(Nat), NEW t \in Seq(Nat)
    PROVE  Sum(s \o t) = Sum(s) + Sum(t)
<1> DEFINE u == s \o t
           n == Len(s)
           m == Len(t)
<1>1. /\ u \in Seq(Nat) /\ Len(u) = n + m /\ n \in Nat /\ m \in Nat
      /\ \A i \in 1 .. n + m : u[i] = IF i <= n THEN s[i] ELSE t[i - n]
  BY ConcatProperties
<1>2. PICK g : IsSumRun(g, u)
  BY <1>1, SumRuns
<1>3. PICK h : IsSumRun(h, s)
  BY SumRuns
<1>4. PICK k : IsSumRun(k, t)
  BY SumRuns
<1> HIDE DEF u
<1>5. /\ g[0] = 0 /\ Sum(u) = g[n + m]
      /\ \A i \in 1 .. n + m : g[i] = g[i - 1] + u[i]
  BY <1>1, <1>2 DEF IsSumRun
<1>6. /\ h[0] = 0 /\ Sum(s) = h[n] /\ h \in [0 .. n -> Nat]
      /\ \A i \in 1 .. n : h[i] = h[i - 1] + s[i]
  BY <1>3 DEF IsSumRun
<1>7. /\ k[0] = 0 /\ Sum(t) = k[m] /\ k \in [0 .. m -> Nat]
      /\ \A i \in 1 .. m : k[i] = k[i - 1] + t[i]
  BY <1>4 DEF IsSumRun
<1> HIDE DEF n, m
<1>8. g[n] = h[n]
  <2> DEFINE G == {i \in 0 .. n : g[i] = h[i]}
  <2>1. 0 \in G
    BY <1>1, <1>5, <1>6
  <2>2. ASSUME NEW i \in 1 .. n, i - 1 \in G PROVE i \in G
    <3>1. i \in 1 .. n + m /\ i <= n /\ i \in 0 .. n
      BY <1>1
    <3>2. u[i] = s[i]
      BY <1>1, <3>1
    <3> QED
      BY <1>5, <1>6, <2>2, <3>1, <3>2
  <2>3. 0 .. n \subseteq G
    <3> HIDE DEF G
    <3> QED
      BY <1>1, <2>1, <2>2, UpToInduction
  <2> QED
    BY <1>1, <2>3
<1>9. g[n + m] = h[n] + k[m]
  <2> DEFINE G == {i \in 0 .. m : g[n + i] = h[n] + k[i]}
  <2>1. h[n] \in Nat
    BY <1>1, <1>6
  <2>2. 0 \in G
    <3>1. n + 0 = n /\ h[n] + 0 = h[n]
      BY <1>1, <2>1
    <3> QED
      BY <1>1, <1>7, <1>8, <3>1
  <2>3. ASSUME NEW i \in 1 .. m, i - 1 \in G PROVE i \in G
    <3>1. n + i \in 1 .. n + m /\ ~(n + i <= n) /\ (n + i) - n = i /\ i \in 0 .. m
          /\ (n + i) - 1 = n + (i - 1) /\ i - 1 \in 0 .. m
      BY <1>1
    <3>2. u[n + i] = t[i]
      BY <1>1, <3>1
    <3>3. g[n + i] = g[n + (i - 1)] + t[i]
      BY <1>5, <3>1, <3>2
    <3>4. k[i] = k[i - 1] + t[i] /\ k[i - 1] \in Nat
      BY <1>7, <3>1
    <3> t[i] \in Nat
      BY DEF m
    <3>5. g[n + (i - 1)] = h[n] + k[i - 1]
      BY <2>3
    <3>6. PICK x \in Nat, y \in Nat, z \in Nat : x = h[n] /\ y = k[i - 1] /\ z = t[i]
      BY <2>1, <3>4
    <3>7. g[n + i] = (x + y) + z /\ k[i] = y + z
      BY <3>3, <3>4, <3>5, <3>6
    <3>9. (x + y) + z = x + (y + z)
      OBVIOUS
    <3>10. h[n] + k[i] = x + (y + z)
      BY <3>6, <3>7
    <3>8. g[n + i] = h[n] + k[i]
      BY <3>7, <3>9, <3>10
    <3> QED
      BY <3>1, <3>8
  <2>4. 0 .. m \subseteq G
    <3> HIDE DEF G
    <3> QED
      BY <1>1, <2>2, <2>3, UpToInduction
  <2> QED
    BY <1>1, <2>4
<1> QED
  BY <1>5, <1>6, <1>7, <1>9 DEF u

LEMMA SumAppend ==
    ASSUME NEW s \in Seq(Nat), NEW c \in Nat
    PROVE  Sum(Append(s, c)) = Sum(s) + c
<1>1. Append(s, c) = s \o <<c>> /\ <<c>> \in Seq(Nat)
  BY AppendIsConcat
<1> QED
  BY <1>1, SumConcat, SumOne

=============================================================================
