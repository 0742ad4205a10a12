--------------------------- MODULE ChunkingProofs ---------------------------
(***************************************************************************)
(* Theorems of Chunking, and their proofs. TypeInv says which units make a *)
(* chunk: it holds because each step of packing, of carrying the overlap   *)
(* and of merging looks at the size of what it puts together (Fitting,     *)
(* Packed). Accounted follows every unit from its section through packing  *)
(* into a chunk, and every chunk through _consolidate. Ordered says that   *)
(* packing goes through the text in its order, and that a chunk and the    *)
(* next of its section share the overlap but would not fit together        *)
(* (Joined); with what _consolidate last put into the result (Judged), and *)
(* the arithmetic of the estimate, no two of them are ever merged.         *)
(***************************************************************************)
EXTENDS Chunking, SequenceLemmas, TLAPS

-----------------------------------------------------------------------------
(* Tokens. *)

LEMMA TokensNat ==
    ASSUME NEW c \in Nat
    PROVE  Tokens(c) \in Nat
<1>1. c \div 100 \in Nat
  OBVIOUS
<1> QED
  BY <1>1 DEF Tokens

\* The estimate is within half a token, and so does not reverse an order.
LEMMA TokensNear ==
    ASSUME NEW c \in Nat
    PROVE  /\ c > 50 => 100 * Tokens(c) <= c + 50
           /\ 100 * Tokens(c) >= c - 50
           /\ c <= 50 => Tokens(c) <= 1
<1>1. PICK q \in Nat, r \in 0 .. 99 :
        c = 100 * q + r /\ q = c \div 100 /\ r = c % 100
  <2>1. c \div 100 \in Nat /\ c % 100 \in 0 .. 99 /\ c = 100 * (c \div 100) + (c % 100)
    OBVIOUS
  <2> QED
    BY <2>1
<1> DEFINE n == IF r > 50 \/ (r = 50 /\ q % 2 = 1) THEN q + 1 ELSE q
<1>2. Tokens(c) = IF n = 0 THEN 1 ELSE n
  BY <1>1 DEF Tokens
<1>3. /\ n \in Nat /\ 100 * n <= c + 50 /\ 100 * n >= c - 50
      /\ c <= 50 => n <= 1
      /\ c > 50 => n # 0
  BY <1>1
<1> HIDE DEF n
<1> QED
  BY <1>2, <1>3

LEMMA TokensMonotone ==
    ASSUME NEW c \in Nat, NEW d \in Nat, c <= d
    PROVE  Tokens(c) <= Tokens(d)
<1>1. PICK q \in Nat, r \in 0 .. 99 :
        c = 100 * q + r /\ q = c \div 100 /\ r = c % 100
  <2>1. c \div 100 \in Nat /\ c % 100 \in 0 .. 99 /\ c = 100 * (c \div 100) + (c % 100)
    OBVIOUS
  <2> QED
    BY <2>1
<1>2. PICK p \in Nat, o \in 0 .. 99 :
        d = 100 * p + o /\ p = d \div 100 /\ o = d % 100
  <2>1. d \div 100 \in Nat /\ d % 100 \in 0 .. 99 /\ d = 100 * (d \div 100) + (d % 100)
    OBVIOUS
  <2> QED
    BY <2>1
<1>3. q < p \/ (q = p /\ r <= o)
  BY <1>1, <1>2
<1> QED
  BY <1>1, <1>2, <1>3 DEF Tokens

-----------------------------------------------------------------------------
(* Units. *)

\* The words of a unit that fits in a chunk, or is one word.
UnitWords == {w \in Seq(Nat) : Tokens(Sum(w)) <= MaxTokens \/ Len(w) = 1}

\* One more word, as _split_oversized_sentence puts it.
Put(pieces, w) ==
    IF pieces = <<>> \/ Tokens(Sum(Last(pieces)) + w) > MaxTokens
    THEN Append(pieces, <<w>>)
    ELSE [pieces EXCEPT ![Len(pieces)] = Append(@, w)]

LEMMA PutTyped ==
    ASSUME NEW pieces \in Seq(UnitWords), NEW w \in Nat
    PROVE  Put(pieces, w) \in Seq(UnitWords)
<1>1. CASE pieces = <<>> \/ Tokens(Sum(Last(pieces)) + w) > MaxTokens
  <2>1. <<w>> \in Seq(Nat) /\ Len(<<w>>) = 1
    OBVIOUS
  <2>2. <<w>> \in UnitWords
    BY <2>1 DEF UnitWords
  <2> QED
    BY <1>1, <2>2 DEF Put
<1>2. CASE ~(pieces = <<>> \/ Tokens(Sum(Last(pieces)) + w) > MaxTokens)
  <2> DEFINE last == pieces[Len(pieces)]
             longer == Append(last, w)
  <2>1. Len(pieces) \in 1 .. Len(pieces) /\ last \in UnitWords /\ Last(pieces) = last
    BY <1>2 DEF Last
  <2>2. last \in Seq(Nat)
    BY <2>1 DEF UnitWords
  <2>3. longer \in Seq(Nat) /\ Sum(longer) = Sum(last) + w
    BY <2>2, SumAppend
  <2>4. Sum(last) \in Nat
    BY <2>2, SumNat
  <2>5. Tokens(Sum(last) + w) \in Nat
    BY <2>4, TokensNat
  <2>6. ~(Tokens(Sum(last) + w) > MaxTokens)
    BY <1>2, <2>1
  <2>7. longer \in UnitWords
    <3>1. Tokens(Sum(longer)) <= MaxTokens
      BY <2>3, <2>5, <2>6, ChunkingAssumption DEF ChunkingSettings
    <3> QED
      BY <2>3, <3>1 DEF UnitWords
  <2>8. Put(pieces, w) = [pieces EXCEPT ![Len(pieces)] = longer]
    BY <1>2, <2>1 DEF Put
  <2> HIDE DEF last, longer
  <2> QED
    BY <2>1, <2>7, <2>8
<1> QED
  BY <1>1, <1>2

LEMMA PiecesTyped ==
    ASSUME NEW words \in Seq(Nat)
    PROVE  Pieces(words) \in Seq(UnitWords)
<1> DEFINE n == Len(words)
           S == Seq(UnitWords)
           step == [i \in 1 .. n |-> [pieces \in S |-> Put(pieces, words[i])]]
           it == CHOOSE f : f = [t \in SUBSET (1 .. n) |->
                                   IF t = {} THEN <<>> ELSE Put(f[t \ {Max(t)}], words[Max(t)])]
<1>1. n \in Nat /\ DOMAIN words = 1 .. n /\ <<>> \in S
  OBVIOUS
<1>2. IsStep(step, S, n)
  BY <1>1, PutTyped DEF IsStep
<1>3. \A i \in 1 .. n, pieces \in S : step[i][pieces] = Put(pieces, words[i])
  OBVIOUS
<1>4. \A t \in SUBSET (1 .. n) : t # {} => Max(t) \in 1 .. n /\ t \ {Max(t)} \in SUBSET (1 .. n)
  BY <1>1, MaxOfPositions
<1>5. it = [t \in SUBSET (1 .. n) |->
              IF t = {} THEN <<>> ELSE Put(it[t \ {Max(t)}], words[Max(t)])]
  <2>1. PICK f : f \in [SUBSET (1 .. n) -> S] /\ Iterates(f, step, <<>>, S, n)
    <3> HIDE DEF step, n, S
    <3> QED
      BY <1>1, <1>2, IterationExists
  <2>2. f = [t \in SUBSET (1 .. n) |->
               IF t = {} THEN <<>> ELSE Put(f[t \ {Max(t)}], words[Max(t)])]
    <3> HIDE DEF step, n, S
    <3> QED
      BY <2>1, <1>3, <1>4 DEF Iterates
  <2> QED
    BY <2>2
<1>6. Pieces(words) = it[1 .. n]
  BY <1>1 DEF Pieces, FoldLeft, MapThenFoldSet, Put
<1> HIDE DEF step, it, n, S
<1>7. Iterates(it, step, <<>>, S, n)
  BY <1>3, <1>4, <1>5 DEF Iterates
<1>8. PICK h : IsRun(h, step, <<>>, S, n, it[1 .. n])
  BY <1>1, <1>2, <1>7, IterationRuns
<1>9. it[1 .. n] \in S
  BY <1>1, <1>8 DEF IsRun
<1> QED
  BY <1>6, <1>9 DEF S

\* A paragraph, as the sections hold it.
Paragraph == [line : Nat, sentences : Seq(Seq(Nat))]

LEMMA TextsTyped ==
    ASSUME NEW p \in Paragraph
    PROVE  Texts(p) \in Seq(UnitWords)
<1> DEFINE whole == FlattenSeq(p.sentences)
           Cut(sentence) ==
             IF Tokens(Sum(sentence)) <= MaxTokens THEN <<sentence>> ELSE Pieces(sentence)
           cuts == [i \in DOMAIN p.sentences |-> Cut(p.sentences[i])]
<1>1. p.sentences \in Seq(Seq(Nat))
  BY DEF Paragraph
<1>2. CASE Tokens(Sum(whole)) <= MaxTokens
  <2>1. whole \in Seq(Nat)
    BY <1>1, FlattenTyped
  <2>2. whole \in UnitWords
    BY <1>2, <2>1 DEF UnitWords
  <2>3. Texts(p) = <<whole>>
    BY <1>2 DEF Texts
  <2> HIDE DEF whole
  <2> QED
    BY <2>2, <2>3
<1>3. CASE ~(Tokens(Sum(whole)) <= MaxTokens)
  <2>1. ASSUME NEW i \in DOMAIN p.sentences PROVE cuts[i] \in Seq(UnitWords)
    <3>1. p.sentences[i] \in Seq(Nat) /\ cuts[i] = Cut(p.sentences[i])
      BY <1>1
    <3>2. CASE Tokens(Sum(p.sentences[i])) <= MaxTokens
      <4>1. p.sentences[i] \in UnitWords
        BY <3>1, <3>2 DEF UnitWords
      <4> QED
        BY <3>1, <3>2, <4>1
    <3>3. CASE ~(Tokens(Sum(p.sentences[i])) <= MaxTokens)
      BY <3>1, <3>3, PiecesTyped
    <3> QED
      BY <3>2, <3>3
  <2>2. cuts \in Seq(Seq(UnitWords))
    <3>1. DOMAIN p.sentences = 1 .. Len(p.sentences) /\ Len(p.sentences) \in Nat
      BY <1>1
    <3>2. \A i \in 1 .. Len(p.sentences) : cuts[i] \in Seq(UnitWords)
      BY <2>1, <3>1
    <3>3. cuts \in [1 .. Len(p.sentences) -> Seq(UnitWords)]
      BY <3>1, <3>2
    <3> HIDE DEF cuts
    <3> QED
      BY <3>1, <3>3
  <2>3. Texts(p) = FlattenSeq(cuts)
    BY <1>3 DEF Texts
  <2> HIDE DEF cuts
  <2> QED
    BY <2>2, <2>3, FlattenTyped
<1> QED
  BY <1>2, <1>3

\* A unit fits in a chunk, or is one word.
SomeUnit == [line : Nat, part : Nat, cost : Nat, words : Nat]
Fitting == {u \in SomeUnit : Tokens(u.cost) <= MaxTokens \/ u.words = 1}

\* The units of one paragraph.
UnitsOf(p) == [j \in DOMAIN Texts(p) |-> Unit(p, j)]

LEMMA UnitsOfTyped ==
    ASSUME NEW p \in Paragraph
    PROVE  /\ UnitsOf(p) \in Seq(Fitting)
           /\ \A j \in DOMAIN UnitsOf(p) : UnitsOf(p)[j].line = p.line /\ UnitsOf(p)[j].part = j
<1>1. Texts(p) \in Seq(UnitWords)
  BY TextsTyped
<1>2. ASSUME NEW j \in DOMAIN Texts(p)
      PROVE  Unit(p, j) \in Fitting /\ Unit(p, j).line = p.line /\ Unit(p, j).part = j
  <2>1. PICK words \in Seq(Nat) : words = Texts(p)[j] /\ words \in UnitWords
    BY <1>1 DEF UnitWords
  <2>2. PICK cost \in Nat, many \in Nat : cost = Sum(words) /\ many = Len(words)
    BY SumNat
  <2>3. Unit(p, j) = [line |-> p.line, part |-> j, cost |-> cost, words |-> many]
    BY <2>1, <2>2 DEF Unit
  <2>4. p.line \in Nat /\ j \in Nat
    BY <1>1 DEF Paragraph
  <2>5. Tokens(cost) <= MaxTokens \/ many = 1
    BY <2>1, <2>2 DEF UnitWords
  <2> QED
    BY <2>3, <2>4, <2>5 DEF Fitting, SomeUnit
<1>3. DOMAIN Texts(p) = 1 .. Len(Texts(p)) /\ Len(Texts(p)) \in Nat
  BY <1>1
<1>4. UnitsOf(p) \in [1 .. Len(Texts(p)) -> Fitting]
  BY <1>2, <1>3 DEF UnitsOf
<1>5. UnitsOf(p) \in Seq(Fitting)
  BY <1>3, <1>4
<1> QED
  BY <1>2, <1>5 DEF UnitsOf

LEMMA UnitsTyped ==
    ASSUME NEW s, s.body \in Seq(Paragraph)
    PROVE  Units(s) \in Seq(Fitting)
<1> DEFINE all == [i \in DOMAIN s.body |-> UnitsOf(s.body[i])]
<1>1. DOMAIN s.body = 1 .. Len(s.body) /\ Len(s.body) \in Nat
  OBVIOUS
<1>2. \A i \in DOMAIN s.body : UnitsOf(s.body[i]) \in Seq(Fitting)
  BY UnitsOfTyped
<1>3. all \in [1 .. Len(s.body) -> Seq(Fitting)]
  BY <1>1, <1>2
<1>4. Units(s) = FlattenSeq(all)
  BY DEF Units, UnitsOf
<1> HIDE DEF all
<1>5. all \in Seq(Seq(Fitting))
  BY <1>1, <1>3
<1> QED
  BY <1>4, <1>5, FlattenTyped

-----------------------------------------------------------------------------
(* Lists of units. *)

LEMMA CostsTyped ==
    ASSUME NEW us \in Seq(SomeUnit)
    PROVE  /\ [i \in DOMAIN us |-> us[i].cost] \in Seq(Nat)
           /\ Len([i \in DOMAIN us |-> us[i].cost]) = Len(us)
           /\ Counts(us) \in Seq(Nat) /\ Len(Counts(us)) = Len(us)
           /\ Cost(us) \in Nat /\ Count(us) \in Nat
<1>1. DOMAIN us = 1 .. Len(us) /\ Len(us) \in Nat
  OBVIOUS
<1>2. \A i \in DOMAIN us : us[i].cost \in Nat
  <2>1. \A i \in 1 .. Len(us) : us[i] \in SomeUnit
    OBVIOUS
  <2> QED
    BY <1>1, <2>1 DEF SomeUnit
<1>3. /\ [i \in DOMAIN us |-> us[i].cost] \in Seq(Nat)
      /\ Len([i \in DOMAIN us |-> us[i].cost]) = Len(us)
  BY <1>1, <1>2
<1>4. \A i \in DOMAIN us : Tokens(us[i].cost) \in Nat
  BY <1>2, TokensNat
<1>5. Counts(us) \in Seq(Nat) /\ Len(Counts(us)) = Len(us)
  BY <1>1, <1>4 DEF Counts
<1>6. Cost(us) \in Nat
  BY <1>3, SumNat DEF Cost
<1>7. Count(us) \in Nat
  BY <1>6, TokensNat DEF Count
<1> QED
  BY <1>3, <1>5, <1>6, <1>7

LEMMA CostConcat ==
    ASSUME NEW us \in Seq(SomeUnit), NEW vs \in Seq(SomeUnit)
    PROVE  /\ us \o vs \in Seq(SomeUnit) /\ Cost(us \o vs) = Cost(us) + Cost(vs)
           /\ Sum(Counts(us \o vs)) = Sum(Counts(us)) + Sum(Counts(vs))
<1> DEFINE n == Len(us)
           m == Len(vs)
           both == us \o vs
           a == [i \in DOMAIN us |-> us[i].cost]
           b == [i \in DOMAIN vs |-> vs[i].cost]
           c == [i \in DOMAIN both |-> both[i].cost]
<1>1. /\ both \in Seq(SomeUnit) /\ Len(both) = n + m /\ n \in Nat /\ m \in Nat
      /\ \A i \in 1 .. n + m : both[i] = IF i <= n THEN us[i] ELSE vs[i - n]
  BY ConcatProperties
<1>2. /\ a \in Seq(Nat) /\ Len(a) = n /\ b \in Seq(Nat) /\ Len(b) = m
      /\ c \in Seq(Nat) /\ Len(c) = n + m
  BY <1>1, CostsTyped
<1>3. /\ Counts(us) \in Seq(Nat) /\ Len(Counts(us)) = n
      /\ Counts(vs) \in Seq(Nat) /\ Len(Counts(vs)) = m
      /\ Counts(both) \in Seq(Nat) /\ Len(Counts(both)) = n + m
  BY <1>1, CostsTyped
<1>6. DOMAIN us = 1 .. n /\ DOMAIN vs = 1 .. m /\ DOMAIN both = 1 .. n + m
  BY <1>1
<1>7. \A i \in 1 .. n : a[i] = us[i].cost /\ Counts(us)[i] = Tokens(us[i].cost)
  BY <1>6 DEF Counts
<1>8. \A i \in 1 .. m : b[i] = vs[i].cost /\ Counts(vs)[i] = Tokens(vs[i].cost)
  BY <1>6 DEF Counts
<1>9. \A i \in 1 .. n + m : c[i] = both[i].cost /\ Counts(both)[i] = Tokens(both[i].cost)
  BY <1>6 DEF Counts
<1>12. Cost(us) = Sum(a) /\ Cost(vs) = Sum(b) /\ Cost(both) = Sum(c)
  BY DEF Cost
<1> HIDE DEF n, m, both, a, b, c
<1>4. /\ a \o b \in Seq(Nat) /\ Len(a \o b) = n + m
      /\ \A i \in 1 .. n + m : (a \o b)[i] = IF i <= n THEN a[i] ELSE b[i - n]
  <2>1. /\ a \o b \in Seq(Nat) /\ Len(a \o b) = Len(a) + Len(b)
        /\ \A i \in 1 .. Len(a) + Len(b) :
              (a \o b)[i] = IF i <= Len(a) THEN a[i] ELSE b[i - Len(a)]
    BY <1>2, ConcatProperties
  <2> QED
    BY <1>2, <2>1
<1>5. LET x == Counts(us)
          y == Counts(vs)
      IN /\ x \o y \in Seq(Nat) /\ Len(x \o y) = n + m
         /\ \A i \in 1 .. n + m : (x \o y)[i] = IF i <= n THEN x[i] ELSE y[i - n]
  <2>1. LET x == Counts(us)
            y == Counts(vs)
        IN /\ x \o y \in Seq(Nat) /\ Len(x \o y) = Len(x) + Len(y)
           /\ \A i \in 1 .. Len(x) + Len(y) :
                 (x \o y)[i] = IF i <= Len(x) THEN x[i] ELSE y[i - Len(x)]
    BY <1>3, ConcatProperties
  <2> QED
    BY <1>3, <2>1
<1>10. ASSUME NEW i \in 1 .. n + m
       PROVE  c[i] = (a \o b)[i] /\ Counts(both)[i] = (Counts(us) \o Counts(vs))[i]
  <2>1. CASE i <= n
    <3>1. i \in 1 .. n
      BY <1>1, <2>1
    <3>2. both[i] = us[i]
      BY <1>1, <2>1
    <3>3. (a \o b)[i] = a[i] /\ (Counts(us) \o Counts(vs))[i] = Counts(us)[i]
      BY <1>4, <1>5, <2>1
    <3> QED
      BY <1>7, <1>9, <3>1, <3>2, <3>3
  <2>2. CASE ~(i <= n)
    <3>1. i - n \in 1 .. m
      BY <1>1, <2>2
    <3>2. both[i] = vs[i - n]
      BY <1>1, <2>2
    <3>3. (a \o b)[i] = b[i - n] /\ (Counts(us) \o Counts(vs))[i] = Counts(vs)[i - n]
      BY <1>4, <1>5, <2>2
    <3> QED
      BY <1>8, <1>9, <3>1, <3>2, <3>3
  <2> QED
    BY <2>1, <2>2
<1>11. c = a \o b /\ Counts(both) = Counts(us) \o Counts(vs)
  BY <1>2, <1>3, <1>4, <1>5, <1>10, SeqEqual
<1> QED
  BY <1>1, <1>2, <1>3, <1>11, <1>12, SumConcat DEF both

LEMMA CostOne ==
    ASSUME NEW u \in SomeUnit
    PROVE  Cost(<<u>>) = u.cost /\ Sum(Counts(<<u>>)) = Tokens(u.cost)
<1>1. u.cost \in Nat
  BY DEF SomeUnit
<1>2. DOMAIN <<u>> = 1 .. 1 /\ <<u>>[1] = u
  OBVIOUS
<1>3. [i \in DOMAIN <<u>> |-> <<u>>[i].cost] = <<u.cost>>
  BY <1>2
<1>4. Counts(<<u>>) = <<Tokens(u.cost)>>
  BY <1>2 DEF Counts
<1> QED
  BY <1>1, <1>3, <1>4, SumOne, TokensNat DEF Cost

LEMMA CostAppend ==
    ASSUME NEW us \in Seq(SomeUnit), NEW u \in SomeUnit
    PROVE  Cost(Append(us, u)) = Cost(us) + u.cost
<1>1. <<u>> \in Seq(SomeUnit) /\ Append(us, u) = us \o <<u>>
  BY AppendIsConcat
<1> QED
  BY <1>1, CostConcat, CostOne

\* The last n units.
LEMMA LastOnes ==
    ASSUME NEW S, NEW us \in Seq(S), NEW n \in 0 .. Len(us)
    PROVE  /\ Last_(us, n) \in Seq(S) /\ Len(Last_(us, n)) = n
           /\ \A i \in 1 .. n : Last_(us, n)[i] = us[Len(us) - n + i]
<1>1. Len(us) \in Nat /\ Len(us) - n + 1 \in Int /\ 1 <= Len(us) - n + 1 /\ Len(us) <= Len(us)
      /\ Len(us) \in Int
  OBVIOUS
<1>2. /\ Last_(us, n) \in Seq(S)
      /\ Len(Last_(us, n)) = IF Len(us) - n + 1 <= Len(us)
                             THEN Len(us) - (Len(us) - n + 1) + 1 ELSE 0
      /\ \A i \in 1 .. Len(Last_(us, n)) : Last_(us, n)[i] = us[(Len(us) - n + 1) + i - 1]
  BY <1>1, PieceOf DEF Last_
<1>3. Len(Last_(us, n)) = n
  BY <1>1, <1>2
<1>4. \A i \in 1 .. n : (Len(us) - n + 1) + i - 1 = Len(us) - n + i
  BY <1>1
<1> QED
  BY <1>2, <1>3, <1>4

LEMMA OverlapNat == EffectiveOverlap \in Nat
<1>1. MaxTokens \in Nat /\ Overlap \in Nat
  BY ChunkingAssumption DEF ChunkingSettings
<1>2. MaxTokens \div 2 \in Nat
  BY <1>1
<1> QED
  BY <1>1, <1>2 DEF EffectiveOverlap

LEMMA CarriedBounds ==
    ASSUME NEW us \in Seq(SomeUnit), us # <<>>
    PROVE  /\ Carried(us) \in 0 .. Len(us)
           /\ Carried(us) > 1 => Sum(Counts(Last_(us, Carried(us)))) <= EffectiveOverlap
<1> DEFINE fits == {n \in 1 .. Len(us) : n = 1 \/ Sum(Counts(Last_(us, n))) <= EffectiveOverlap}
           most == CHOOSE n \in fits : \A m \in fits : m <= n
<1>1. Len(us) \in Nat /\ Len(us) # 0
  OBVIOUS
<1>2. 1 \in fits /\ fits \in SUBSET (0 .. Len(us))
  BY <1>1
<1>3. most \in fits
  <2> HIDE DEF fits
  <2> QED
    BY <1>1, <1>2, LargestNumber
<1>4. Carried(us) = IF EffectiveOverlap = 0 THEN 0 ELSE most
  BY DEF Carried
<1>5. most \in 1 .. Len(us) /\ (most = 1 \/ Sum(Counts(Last_(us, most))) <= EffectiveOverlap)
  BY <1>3
<1> HIDE DEF most, fits
<1> QED
  BY <1>1, <1>4, <1>5

\* The overlap that a unit leaves room for.
LEMMA SeedBounds ==
    ASSUME NEW us \in Seq(SomeUnit), us # <<>>, NEW u \in SomeUnit
    PROVE  \E n \in 0 .. Carried(us) :
              /\ Seed(us, u) = Last_(us, n)
              /\ n = 0 \/ Count(Last_(us, n) \o <<u>>) <= MaxTokens
<1> DEFINE fits == {n \in 0 .. Carried(us) : n = 0 \/ Count(Last_(us, n) \o <<u>>) <= MaxTokens}
           most == CHOOSE n \in fits : \A m \in fits : m <= n
<1>1. Carried(us) \in Nat
  BY CarriedBounds
<1>2. 0 \in fits /\ fits \in SUBSET (0 .. Carried(us))
  BY <1>1
<1>3. most \in fits
  <2> HIDE DEF fits
  <2> QED
    BY <1>1, <1>2, LargestNumber
<1>4. Seed(us, u) = Last_(us, most)
  BY DEF Seed
<1>5. most \in 0 .. Carried(us) /\ (most = 0 \/ Count(Last_(us, most) \o <<u>>) <= MaxTokens)
  BY <1>3
<1> HIDE DEF most, fits
<1> QED
  BY <1>4, <1>5

\* There is a first largest chunk.
LEMMA LargestExists ==
    ASSUME NEW cs, chunks = cs, NEW S, cs \in Seq(S), cs # <<>>,
           \A i \in DOMAIN cs : Count(cs[i].units) \in Nat
    PROVE  \E i \in DOMAIN cs : Largest = cs[i]
<1> DEFINE size(i) == Count(cs[i].units)
           Leads(i, k) == /\ \A j \in 1 .. k : size(j) <= size(i)
                          /\ \A j \in 1 .. (i - 1) : size(j) < size(i)
           G == {k \in 0 .. Len(cs) : k = 0 \/ \E i \in 1 .. k : Leads(i, k)}
<1>1. Len(cs) \in Nat /\ Len(cs) # 0 /\ DOMAIN cs = 1 .. Len(cs)
  OBVIOUS
<1>2. \A i \in 1 .. Len(cs) : size(i) \in Nat
  BY <1>1
<1>7. Largest = cs[CHOOSE i \in DOMAIN cs : /\ \A j \in DOMAIN cs : size(j) <= size(i)
                                            /\ \A j \in 1 .. (i - 1) : size(j) < size(i)]
  BY DEF Largest
<1> HIDE DEF size
<1>3. ASSUME NEW k \in 1 .. Len(cs), k - 1 \in G PROVE k \in G
  <2>1. CASE k = 1
    <3>1. Leads(1, k)
      BY <1>1, <1>2, <2>1
    <3> QED
      BY <2>1, <3>1
  <2>2. CASE k # 1
    <3>1. PICK i \in 1 .. k - 1 : Leads(i, k - 1)
      BY <1>3, <2>2
    <3>2. i \in 1 .. k /\ k \in 1 .. k /\ \A j \in 1 .. k : j = k \/ j \in 1 .. k - 1
      OBVIOUS
    <3>3. size(i) \in Nat /\ size(k) \in Nat /\ \A j \in 1 .. k - 1 : size(j) \in Nat
      BY <1>2
    <3>4. CASE size(k) <= size(i)
      <4>1. Leads(i, k)
        BY <3>1, <3>2, <3>4
      <4> QED
        BY <3>2, <4>1
    <3>5. CASE ~(size(k) <= size(i))
      <4>1. Leads(k, k)
        BY <3>1, <3>2, <3>3, <3>5
      <4> QED
        BY <3>2, <4>1
    <3> QED
      BY <3>4, <3>5
  <2> QED
    BY <2>1, <2>2
<1>4. 0 .. Len(cs) \subseteq G
  <2>1. 0 \in G
    BY <1>1
  <2> HIDE DEF G
  <2> QED
    BY <1>1, <1>3, <2>1, UpToInduction
<1>5. PICK i \in 1 .. Len(cs) : Leads(i, Len(cs))
  BY <1>1, <1>4
<1> QED
  BY <1>1, <1>5, <1>7

-----------------------------------------------------------------------------
(* Types, and what fits in a chunk. *)

Titles == {line.title : line \in Lines} \cup {None}
Headings == {Heading(line) : line \in Lines}

Region == [heading : Titles, kind : {h.kind : h \in Headings} \cup {"title"},
           level : {h.level : h \in Headings} \cup {1}, parent : Titles, body : Seq(Paragraph)]

\* Units that make a chunk.
Packed == {us \in Seq(Fitting) : /\ us # <<>>
                                 /\ Fits(us) \/ (Len(us) = 1 /\ us[1].words = 1)}

Passage == [units : Packed, name : Titles \X Titles, secs : SUBSET Nat]

Reading ==
    /\ length \in Nat /\ current \in Headings \cup {None} /\ parent \in Titles
    /\ body \in Seq(Paragraph) /\ sections \in Seq(Region)

Packing ==
    /\ todo \in Seq(DOMAIN sections) /\ units \in Seq(Fitting)
    /\ pending \in Packed \cup {<<>>} /\ chunks \in Seq(Passage)
    /\ units # <<>> \/ pending # <<>> => todo # <<>>

Judging == rest \in Seq(Passage) /\ merged \in Seq(Passage)

\* What a phase has not come to is empty.
Untouched ==
    /\ phase \in {"reading", "packing", "judging", "done"}
    /\ phase = "reading" => todo = <<>> /\ units = <<>> /\ pending = <<>> /\ chunks = <<>>
    /\ phase \in {"reading", "packing"} => rest = <<>> /\ merged = <<>>

TypeInv == Reading /\ Packing /\ Judging /\ Untouched

LEMMA FittingIsUnit == Seq(Fitting) \subseteq Seq(SomeUnit)
<1>1. Fitting \subseteq SomeUnit
  BY DEF Fitting
<1> QED
  BY <1>1

LEMMA RegionTyped ==
    ASSUME NEW c \in Headings \cup {None}, NEW p \in Titles, NEW b \in Seq(Paragraph)
    PROVE  Section(c, p, b) \in Region
<1>1. CASE c = None
  BY <1>1 DEF Section, Region, Titles
<1>2. CASE c # None
  <2>1. PICK line \in Lines : c = Heading(line)
    BY <1>2 DEF Headings
  <2>2. c.text = line.title
    BY <2>1 DEF Heading
  <2>3. c.text \in Titles /\ c \in Headings
    BY <1>2, <2>2 DEF Titles
  <2> HIDE DEF Headings
  <2> QED
    BY <1>2, <2>3 DEF Section, Region
<1> QED
  BY <1>1, <1>2

LEMMA FlushedTyped ==
    ASSUME Reading
    PROVE  Flushed(sections, current, parent, body) \in Seq(Region)
<1>1. Section(current, parent, body) \in Region
  BY RegionTyped DEF Reading
<1> QED
  BY <1>1 DEF Flushed, Reading

LEMMA NameTyped ==
    ASSUME NEW s \in Region
    PROVE  Name(s) \in Titles \X Titles
BY DEF Name, Region, Titles

\* The chunk of a section.
LEMMA ChunkTyped ==
    ASSUME TypeInv, NEW us \in Packed, todo # <<>>
    PROVE  Chunk(us) \in Passage
<1>1. Head(todo) \in DOMAIN sections /\ sections \in Seq(Region)
  BY DEF TypeInv, Packing, Reading
<1>2. Name(sections[Head(todo)]) \in Titles \X Titles /\ {Head(todo)} \in SUBSET Nat
  BY <1>1, NameTyped
<1> QED
  BY <1>2 DEF Chunk, Passage

\* A unit alone makes a chunk.
LEMMA OneUnitPacked ==
    ASSUME NEW u \in Fitting
    PROVE  <<u>> \in Packed
<1>1. u \in SomeUnit /\ (Tokens(u.cost) <= MaxTokens \/ u.words = 1)
  BY DEF Fitting
<1>2. Cost(<<u>>) = u.cost
  BY <1>1, CostOne
<1>3. <<u>> \in Seq(Fitting) /\ <<u>> # <<>> /\ Len(<<u>>) = 1 /\ <<u>>[1] = u
  OBVIOUS
<1> QED
  BY <1>1, <1>2, <1>3 DEF Packed, Fits, Count

LEMMA FittingPacked ==
    ASSUME NEW us \in Seq(Fitting), us # <<>>, Fits(us)
    PROVE  us \in Packed
BY DEF Packed

LEMMA PackedIsFitting ==
    ASSUME NEW us \in Packed
    PROVE  us \in Seq(Fitting) /\ us # <<>>
BY DEF Packed

LEMMA InitTyped == Init => TypeInv
<1> SUFFICES ASSUME Init PROVE TypeInv
  OBVIOUS
<1>0. None \in Titles
  BY DEF Titles
<1>1. Reading
  BY <1>0 DEF Init, Reading
<1>2. Packing /\ Judging /\ Untouched
  BY DEF Init, Packing, Judging, Untouched
<1> QED
  BY <1>1, <1>2 DEF TypeInv

LEMMA NextTyped ==
    ASSUME TypeInv, [Next]_vars
    PROVE  TypeInv'
<1> USE DEF TypeInv
<1>1. ASSUME NEW line \in Lines, ReadText(line) PROVE TypeInv'
  <2>1. [line |-> length, sentences |-> line.sentences] \in Paragraph
    BY <1>1, ChunkingAssumption DEF Paragraph, Reading
  <2>2. Reading'
    BY <1>1, <2>1 DEF ReadText, Reading
  <2>3. Packing' /\ Judging' /\ Untouched'
    BY <1>1 DEF ReadText, packing, judging, Packing, Judging, Untouched
  <2> QED
    BY <2>2, <2>3
<1>2. ASSUME NEW line \in Lines, ReadHeading(line) PROVE TypeInv'
  <2>1. sections' \in Seq(Region)
    BY <1>2, FlushedTyped DEF ReadHeading
  <2>2. current' \in Headings
    BY <1>2 DEF ReadHeading, Headings
  <2>3. parent' \in Titles
    <3>1. parent' = Enclosing(Heading(line), current, parent)
      BY <1>2 DEF ReadHeading
    <3>2. current # None => current.text \in Titles
      <4> SUFFICES ASSUME current # None PROVE current.text \in Titles
        OBVIOUS
      <4>1. PICK other \in Lines : current = Heading(other)
        BY DEF Headings, Reading
      <4>2. current.text = other.title
        BY <4>1 DEF Heading
      <4> QED
        BY <4>2 DEF Titles
    <3>3. None \in Titles /\ parent \in Titles
      BY DEF Titles, Reading
    <3> QED
      BY <3>1, <3>2, <3>3 DEF Enclosing
  <2>4. Reading'
    BY <1>2, <2>1, <2>2, <2>3 DEF ReadHeading, Reading
  <2>5. Packing' /\ Judging' /\ Untouched'
    BY <1>2 DEF ReadHeading, packing, judging, Packing, Judging, Untouched
  <2> QED
    BY <2>4, <2>5
<1>3. CASE EndOfText
  <2>1. sections' \in Seq(Region)
    BY <1>3, FlushedTyped DEF EndOfText
  <2>2. Reading'
    BY <1>3, <2>1 DEF EndOfText, Reading
  <2>3. todo' \in Seq(DOMAIN sections')
    <3> DEFINE numbers == [i \in DOMAIN sections' |-> i]
               kept == {i \in DOMAIN sections' : Keep(sections'[i])}
    <3>1. DOMAIN sections' = 1 .. Len(sections') /\ Len(sections') \in Nat
      BY <2>1
    <3>2. numbers \in [1 .. Len(sections') -> DOMAIN sections']
      BY <3>1
    <3>3. numbers \in Seq(DOMAIN sections')
      BY <3>1, <3>2
    <3>4. todo' = Only(numbers, kept)
      BY <1>3 DEF EndOfText
    <3> HIDE DEF numbers, kept
    <3> QED
      BY <3>3, <3>4, OnlySelects
  <2>4. Packing' /\ Judging' /\ Untouched'
    BY <1>3, <2>3 DEF EndOfText, judging, Packing, Judging, Untouched
  <2> QED
    BY <2>2, <2>4
<1>4. CASE StartSection
  <2>1. Head(todo) \in DOMAIN sections /\ Tail(todo) \in Seq(DOMAIN sections)
    BY <1>4 DEF StartSection, Packing
  <2>2. sections[Head(todo)] \in Region
    BY <2>1 DEF Reading
  <2>3. units' \in Seq(Fitting)
    <3>1. sections[Head(todo)].body \in Seq(Paragraph)
      BY <2>2 DEF Region
    <3> QED
      BY <1>4, <3>1, UnitsTyped DEF StartSection
  <2>4. Reading' /\ Judging' /\ Untouched'
    BY <1>4 DEF StartSection, reading, judging, Reading, Judging, Untouched
  <2>5. Packing'
    BY <1>4, <2>1, <2>3 DEF StartSection, reading, Packing
  <2> QED
    BY <2>4, <2>5
<1>5. CASE AddUnit
  <2>1. Head(units) \in Fitting /\ Tail(units) \in Seq(Fitting) /\ todo # <<>>
    BY <1>5 DEF AddUnit, Packing
  <2>2. pending \in Seq(Fitting)
    <3>1. <<>> \in Seq(Fitting)
      OBVIOUS
    <3> QED
      BY <3>1, PackedIsFitting DEF Packing
  <2>3. pending' \in Packed
    <3>1. CASE pending = <<>>
      <4>1. pending' = <<Head(units)>>
        BY <1>5, <3>1 DEF AddUnit
      <4> QED
        BY <2>1, <4>1, OneUnitPacked
    <3>2. CASE pending # <<>>
      <4> DEFINE more == Append(pending, Head(units))
      <4>1. more \in Seq(Fitting) /\ more # <<>>
        <5>1. PICK u \in Fitting : u = Head(units)
          BY <2>1
        <5>2. Append(pending, u) \in Seq(Fitting) /\ Append(pending, u) # <<>>
          BY <2>2, <5>1, AppendProperties
        <5> QED
          BY <5>1, <5>2
      <4>2. Count(more) \in Nat /\ ~(Count(more) > MaxTokens)
        BY <1>5, <3>2, <4>1, CostsTyped, FittingIsUnit DEF AddUnit, Overflows
      <4>3. Fits(more)
        BY <4>2, ChunkingAssumption DEF Fits, ChunkingSettings
      <4>4. pending' = more
        BY <1>5 DEF AddUnit
      <4> HIDE DEF more
      <4> QED
        BY <4>1, <4>3, <4>4, FittingPacked
    <3> QED
      BY <3>1, <3>2
  <2>4. Reading' /\ Judging' /\ Untouched'
    BY <1>5 DEF AddUnit, reading, judging, Reading, Judging, Untouched
  <2>5. Packing'
    BY <1>5, <2>1, <2>3 DEF AddUnit, reading, Packing
  <2> QED
    BY <2>4, <2>5
<1>6. CASE EmitAndCarry
  <2>1. Head(units) \in Fitting /\ Tail(units) \in Seq(Fitting) /\ todo # <<>>
    BY <1>6 DEF EmitAndCarry, Packing
  <2>2. pending \in Packed /\ pending \in Seq(Fitting) /\ pending # <<>>
    BY <1>6, PackedIsFitting DEF EmitAndCarry, Overflows, Packing
  <2>3. chunks' \in Seq(Passage)
    <3>1. Chunk(pending) \in Passage
      BY <2>1, <2>2, ChunkTyped
    <3> QED
      BY <1>6, <3>1 DEF EmitAndCarry, Packing
  <2>4. pending' \in Packed
    <3> DEFINE u == Head(units)
    <3>1. u \in Fitting /\ u \in SomeUnit /\ pending \in Seq(SomeUnit)
      BY <2>1, <2>2, FittingIsUnit DEF Fitting
    <3>2. pending' = Append(Seed(pending, u), u)
      BY <1>6 DEF EmitAndCarry
    <3> HIDE DEF u
    <3>3. PICK n \in 0 .. Carried(pending) :
            /\ Seed(pending, u) = Last_(pending, n)
            /\ n = 0 \/ Count(Last_(pending, n) \o <<u>>) <= MaxTokens
      BY <2>2, <3>1, SeedBounds
    <3>4. n \in 0 .. Len(pending)
      BY <2>2, <3>1, CarriedBounds
    <3>5. Last_(pending, n) \in Seq(Fitting) /\ Len(Last_(pending, n)) = n
      BY <2>2, <3>4, LastOnes
    <3>6. pending' = Last_(pending, n) \o <<u>>
      BY <3>1, <3>2, <3>3, <3>5, AppendIsConcat
    <3>7. CASE n = 0
      <4>1. Last_(pending, n) = <<>>
        BY <3>5, <3>7
      <4>2. pending' = <<u>>
        BY <3>1, <3>2, <3>3, <4>1
      <4> QED
        BY <3>1, <4>2, OneUnitPacked
    <3>8. CASE n # 0
      <4>1. Fits(pending')
        BY <3>3, <3>6, <3>8 DEF Fits
      <4>2. pending' \in Seq(Fitting) /\ pending' # <<>>
        BY <3>1, <3>2, <3>3, <3>5
      <4> QED
        BY <4>1, <4>2, FittingPacked
    <3> QED
      BY <3>7, <3>8
  <2>5. Reading' /\ Judging' /\ Untouched'
    BY <1>6 DEF EmitAndCarry, reading, judging, Reading, Judging, Untouched
  <2>6. Packing'
    BY <1>6, <2>1, <2>3, <2>4 DEF EmitAndCarry, reading, Packing
  <2> QED
    BY <2>5, <2>6
<1>7. CASE EmitLast
  <2>1. todo # <<>> /\ Tail(todo) \in Seq(DOMAIN sections) /\ pending \in Packed
    BY <1>7 DEF EmitLast, Packing
  <2>2. Chunk(pending) \in Passage
    BY <2>1, ChunkTyped
  <2>3. chunks' \in Seq(Passage)
    <3> DEFINE all == Append(chunks, Chunk(pending))
    <3>1. all \in Seq(Passage)
      BY <2>2 DEF Packing
    <3>2. chunks' = IF Len(all) >= MaxChunks THEN SubSeq(all, 1, MaxChunks) ELSE all
      BY <1>7 DEF EmitLast
    <3>3. Len(all) >= MaxChunks => SubSeq(all, 1, MaxChunks) \in Seq(Passage)
      <4> HIDE DEF all
      <4>1. MaxChunks \in Int
        BY ChunkingAssumption DEF ChunkingSettings
      <4> QED
        BY <3>1, <4>1, PieceOf
    <3> HIDE DEF all
    <3> QED
      BY <3>1, <3>2, <3>3
  <2>4. todo' \in Seq(DOMAIN sections)
    <3>1. <<>> \in Seq(DOMAIN sections)
      OBVIOUS
    <3>2. todo' \in {<<>>, Tail(todo)}
      BY <1>7 DEF EmitLast
    <3> QED
      BY <2>1, <3>1, <3>2
  <2>5. Reading' /\ Judging' /\ Untouched'
    BY <1>7 DEF EmitLast, reading, judging, Reading, Judging, Untouched
  <2>6. Packing'
    BY <1>7, <2>3, <2>4 DEF EmitLast, reading, Packing
  <2> QED
    BY <2>5, <2>6
<1>8. CASE EndOfPacking
  BY <1>8 DEF EndOfPacking, reading, packing, Reading, Packing, Judging, Untouched
<1>9. CASE Judge
  <2> DEFINE c == Head(rest)
             both == Union(Last(merged), c)
  <2>1. c \in Passage /\ Tail(rest) \in Seq(Passage)
    BY <1>9 DEF Judge, Judging
  <2>2. Append(merged, c) \in Seq(Passage)
    BY <2>1 DEF Judging
  <2>3. ASSUME Merges(c) PROVE Append(Front(merged), both) \in Seq(Passage)
    <3>1. PICK last \in Passage : Last(merged) = last
      BY <2>3 DEF Merges, Judging, Last
    <3>2. last.units \in Packed /\ c.units \in Packed /\ last.units # <<>>
          /\ last.units \in Seq(Fitting) /\ c.units \in Seq(Fitting)
      BY <2>1, <3>1, PackedIsFitting DEF Passage
    <3>3. both = [units |-> last.units \o c.units, name |-> last.name,
                  secs |-> last.secs \cup c.secs]
      BY <3>1 DEF Union
    <3>4. Fits(last.units \o c.units)
      <4>1. Fits(both.units)
        BY <2>3 DEF Merges, Fits
      <4>2. both.units = last.units \o c.units
        BY <3>1 DEF Union
      <4> QED
        BY <4>1, <4>2
    <3> HIDE DEF c, both
    <3>5. last.units \o c.units \in Seq(Fitting) /\ last.units \o c.units # <<>>
      BY <3>2
    <3>6. last.units \o c.units \in Packed
      BY <3>4, <3>5, FittingPacked
    <3>7. both \in Passage
      BY <2>1, <3>1, <3>3, <3>6 DEF Passage
    <3>8. Front(merged) \in Seq(Passage)
      <4>1. merged \in Seq(Passage) /\ Len(merged) \in Nat
        BY DEF Judging
      <4>2. SubSeq(merged, 1, Len(merged) - 1) \in Seq(Passage)
        BY <4>1, PieceOf
      <4> QED
        BY <4>2 DEF Front
    <3> QED
      BY <3>7, <3>8
  <2>4. \/ merged' \in {Append(merged, c), merged}
        \/ Merges(c) /\ merged' = Append(Front(merged), both)
    BY <1>9 DEF Judge
  <2>5. merged' \in Seq(Passage)
    <3> HIDE DEF c, both
    <3> QED
      BY <2>2, <2>3, <2>4 DEF Judging
  <2>6. Judging'
    BY <1>9, <2>1, <2>5 DEF Judge, Judging
  <2>7. Reading' /\ Packing' /\ Untouched'
    BY <1>9 DEF Judge, reading, packing, Reading, Packing, Untouched
  <2> QED
    BY <2>6, <2>7
<1>10. CASE Return
  <2>1. merged' \in Seq(Passage)
    <3>1. CASE chunks # <<>>
      <4>1. \A i \in DOMAIN chunks : chunks[i] \in Passage
        BY DEF Packing
      <4>2. \A i \in DOMAIN chunks : Count(chunks[i].units) \in Nat
        BY <4>1, CostsTyped, FittingIsUnit DEF Passage, Packed
      <4>3. Largest \in Passage
        BY <3>1, <4>1, <4>2, LargestExists DEF Packing
      <4> QED
        BY <1>10, <4>3 DEF Return, Judging
    <3>2. CASE chunks = <<>>
      BY <1>10, <3>2 DEF Return, Judging
    <3> QED
      BY <3>1, <3>2
  <2> QED
    BY <1>10, <2>1 DEF Return, reading, packing, Reading, Packing, Judging, Untouched
<1>11. CASE UNCHANGED vars
  BY <1>11 DEF vars, reading, packing, judging, Reading, Packing, Judging, Untouched
<1> QED
  BY <1>1, <1>2, <1>3, <1>4, <1>5, <1>6, <1>7, <1>8, <1>9, <1>10, <1>11 DEF Next

\* What each variable holds in each phase; a chunk is units that fit together,
\* or one word.
THEOREM Typed == Spec => []TypeInv
<1>1. Init => TypeInv
  BY InitTyped
<1>2. TypeInv /\ [Next]_vars => TypeInv'
  BY NextTyped
<1> QED
  BY <1>1, <1>2, PTL DEF Spec

\* No chunk that packing, its overlap or merging makes is over the limit of the
\* embedding model, except one that is a single word.
THEOREM ChunksAreSmallEnough == Spec => []ChunksFit
<1>1. TypeInv => ChunksFit
  <2> SUFFICES ASSUME TypeInv, NEW c \in Range(chunks) \cup Range(merged)
               PROVE  Fits(c.units) \/ (Len(c.units) = 1 /\ c.units[1].words = 1)
    BY DEF ChunksFit
  <2>1. \A i \in DOMAIN chunks : chunks[i] \in Passage
    BY DEF TypeInv, Packing
  <2>2. \A i \in DOMAIN merged : merged[i] \in Passage
    BY DEF TypeInv, Judging
  <2>3. c \in Passage
    BY <2>1, <2>2 DEF Range
  <2> QED
    BY <2>3 DEF Passage, Packed
<1> QED
  BY <1>1, Typed, PTL

-----------------------------------------------------------------------------
(* No unit is lost but to the cap and the noise floor. *)

LEMMA InAppend ==
    ASSUME NEW S, NEW cs \in Seq(S), NEW c \in S, NEW u
    PROVE  In(u, Append(cs, c)) <=> In(u, cs) \/ u \in Range(c.units)
BY RangeOfAppend DEF In

\* A unit of a kept section waits with its section, is being packed or is in a
\* chunk; or the cap was reached, and with it packing ended.
InPacking ==
    \A s \in DOMAIN sections : Keep(sections[s]) =>
        \A u \in Range(Units(sections[s])) :
            \/ In(u, chunks)
            \/ s \in Range(todo) /\ units = <<>> /\ pending = <<>>
            \/ s \in Range(Tail(todo)) /\ todo # <<>>
            \/ u \in Range(units) \/ u \in Range(pending)
            \/ todo = <<>> /\ Len(chunks) = MaxChunks

Noise(c) == /\ Count(c.units) < NOISE_FLOOR_TOKENS
            /\ ~Alone(c) \/ Count(c.units) < ABSOLUTE_MIN_TOKENS

\* A unit of a chunk waits with its chunk, is in the result or in noise.
InJudging ==
    \A c \in Range(chunks) : \A u \in Range(c.units) :
        c \in Range(rest) \/ In(u, merged) \/ Noise(c)

Accounted ==
    /\ phase # "reading" => InPacking
    /\ phase \in {"judging", "done"} => InJudging /\ todo = <<>>
    /\ phase = "done" => rest = <<>>

LEMMA NextAccounted ==
    ASSUME TypeInv, TypeInv', Accounted, [Next]_vars
    PROVE  Accounted'
<1>1. ASSUME NEW line \in Lines, ReadText(line) PROVE Accounted'
  BY <1>1 DEF ReadText, Accounted
<1>2. ASSUME NEW line \in Lines, ReadHeading(line) PROVE Accounted'
  BY <1>2 DEF ReadHeading, Accounted
<1>3. CASE EndOfText
  <2> DEFINE kept == {i \in DOMAIN sections' : Keep(sections'[i])}
             numbers == [i \in DOMAIN sections' |-> i]
  <2>1. sections' \in Seq(Region)
    BY DEF TypeInv, Reading
  <2>2. DOMAIN sections' = 1 .. Len(sections') /\ Len(sections') \in Nat
    BY <2>1
  <2>3. kept \in SUBSET (1 .. Len(sections')) /\ numbers = [i \in 1 .. Len(sections') |-> i]
    BY <2>2
  <2>4. todo' = Only(numbers, kept)
    BY <1>3 DEF EndOfText
  <2>5. Range(todo') = kept
    <3> HIDE DEF kept, numbers
    <3> QED
      BY <2>2, <2>3, <2>4, RangeOfOnly
  <2>6. units' = <<>> /\ pending' = <<>>
    BY <1>3 DEF EndOfText, TypeInv, Untouched
  <2>7. InPacking'
    BY <2>5, <2>6 DEF InPacking
  <2> QED
    BY <1>3, <2>7 DEF EndOfText, Accounted
<1>4. CASE StartSection
  <2>1. sections' = sections /\ chunks' = chunks /\ pending' = <<>> /\ units = <<>>
        /\ units' = Units(sections[Head(todo)]) /\ todo # <<>>
        /\ (units' = <<>> => todo' = Tail(todo)) /\ (units' # <<>> => todo' = todo)
        /\ pending = <<>>
    BY <1>4 DEF StartSection, reading
  <2>2. Range(todo) = {Head(todo)} \cup Range(Tail(todo))
    BY <2>1, RangeOfTail DEF TypeInv, Packing
  <2>3. InPacking
    BY <1>4 DEF StartSection, Accounted
  <2>4. Range(<<>>) = {}
    BY DEF Range
  <2>5. ASSUME NEW s \in DOMAIN sections, Keep(sections[s]), NEW u \in Range(Units(sections[s]))
        PROVE  \/ In(u, chunks)
               \/ s \in Range(todo') /\ units' = <<>> /\ pending' = <<>>
               \/ s \in Range(Tail(todo')) /\ todo' # <<>>
               \/ u \in Range(units') \/ u \in Range(pending')
               \/ todo' = <<>> /\ Len(chunks) = MaxChunks
    <3>1. In(u, chunks) \/ s \in Range(todo)
      BY <2>1, <2>2, <2>3, <2>4, <2>5 DEF InPacking
    <3>2. CASE s = Head(todo)
      BY <2>1, <2>5, <3>2
    <3>3. CASE s # Head(todo) /\ units' = <<>>
      BY <2>1, <2>2, <3>1, <3>3
    <3>4. CASE s # Head(todo) /\ units' # <<>>
      BY <2>1, <2>2, <3>1, <3>4
    <3> QED
      BY <3>2, <3>3, <3>4
  <2>6. InPacking'
    BY <2>1, <2>5 DEF InPacking
  <2> QED
    BY <1>4, <2>6 DEF StartSection, Accounted
<1>5. CASE AddUnit
  <2>1. sections' = sections /\ chunks' = chunks /\ todo' = todo /\ units # <<>>
        /\ pending' = Append(pending, Head(units)) /\ units' = Tail(units)
    BY <1>5 DEF AddUnit, reading
  <2>2. units \in Seq(Fitting) /\ pending \in Seq(Fitting) /\ Head(units) \in Fitting
    <3>1. pending \in Packed \cup {<<>>} /\ units \in Seq(Fitting)
      BY DEF TypeInv, Packing
    <3>2. <<>> \in Seq(Fitting)
      OBVIOUS
    <3>3. pending \in Seq(Fitting)
      BY <3>1, <3>2, PackedIsFitting
    <3>4. Head(units) \in Fitting
      BY <2>1, <3>1
    <3> QED
      BY <3>1, <3>3, <3>4
  <2>3. /\ Range(units) = {Head(units)} \cup Range(units')
        /\ Range(pending') = Range(pending) \cup {Head(units)}
    BY <2>1, <2>2, RangeOfTail, RangeOfAppend
  <2>4. InPacking
    BY <1>5 DEF AddUnit, Accounted
  <2>5. InPacking'
    BY <2>1, <2>3, <2>4 DEF InPacking
  <2> QED
    BY <1>5, <2>5 DEF AddUnit, Accounted
<1>6. CASE EmitAndCarry
  <2>1. sections' = sections /\ todo' = todo /\ units # <<>> /\ pending # <<>>
        /\ chunks' = Append(chunks, Chunk(pending))
        /\ pending' = Append(Seed(pending, Head(units)), Head(units)) /\ units' = Tail(units)
    BY <1>6 DEF EmitAndCarry, Overflows, reading
  <2>2. units \in Seq(Fitting) /\ pending \in Seq(Fitting) /\ Head(units) \in Fitting
        /\ pending \in Packed /\ todo # <<>>
    <3>1. pending \in Packed /\ todo # <<>> /\ units \in Seq(Fitting)
      BY <2>1 DEF TypeInv, Packing
    <3>3. pending \in Seq(Fitting)
      BY <3>1, PackedIsFitting
    <3>2. Head(units) \in Fitting
      BY <2>1, <3>1
    <3> QED
      BY <3>1, <3>2, PackedIsFitting
  <2>3. Range(units) = {Head(units)} \cup Range(units')
    BY <2>1, <2>2, RangeOfTail
  <2>4. Head(units) \in Range(pending')
    <3> DEFINE u == Head(units)
    <3>1. pending \in Seq(SomeUnit) /\ u \in SomeUnit
      BY <2>2, FittingIsUnit DEF Fitting
    <3>2. PICK n \in 0 .. Len(pending) : Seed(pending, u) = Last_(pending, n)
      <4> HIDE DEF u
      <4>1. PICK n \in 0 .. Carried(pending) : Seed(pending, u) = Last_(pending, n)
        BY <2>1, <3>1, SeedBounds
      <4>2. n \in 0 .. Len(pending)
        BY <2>1, <3>1, CarriedBounds
      <4> QED
        BY <4>1, <4>2
    <3>3. Seed(pending, u) \in Seq(SomeUnit)
      BY <3>1, <3>2, LastOnes
    <3> HIDE DEF u
    <3>4. u \in Range(Append(Seed(pending, u), u))
      BY <3>1, <3>3, RangeOfAppend
    <3> QED
      BY <2>1, <3>4 DEF u
  <2>5. \A u : In(u, chunks') <=> In(u, chunks) \/ u \in Range(pending)
    <3>1. chunks \in Seq(Passage) /\ Chunk(pending) \in Passage /\ Chunk(pending).units = pending
      BY <2>2, ChunkTyped DEF TypeInv, Packing, Chunk
    <3> QED
      BY <2>1, <3>1, InAppend
  <2>6. InPacking
    BY <1>6 DEF EmitAndCarry, Accounted
  <2>7. InPacking'
    BY <2>1, <2>2, <2>3, <2>4, <2>5, <2>6 DEF InPacking
  <2> QED
    BY <1>6, <2>7 DEF EmitAndCarry, Accounted
<1>7. CASE EmitLast
  <2> DEFINE all == Append(chunks, Chunk(pending))
  <2>1. /\ sections' = sections /\ units = <<>> /\ units' = <<>> /\ pending' = <<>>
        /\ pending # <<>>
        /\ Len(all) >= MaxChunks => chunks' = SubSeq(all, 1, MaxChunks) /\ todo' = <<>>
        /\ ~(Len(all) >= MaxChunks) => chunks' = all /\ todo' = Tail(todo)
    BY <1>7 DEF EmitLast, reading
  <2>2. pending \in Packed /\ todo # <<>>
    BY <2>1 DEF TypeInv, Packing
  <2>3. chunks \in Seq(Passage) /\ Chunk(pending) \in Passage /\ Chunk(pending).units = pending
    BY <2>2, ChunkTyped DEF TypeInv, Packing, Chunk
  <2>4. InPacking
    BY <1>7 DEF EmitLast, Accounted
  <2>5. Range(<<>>) = {}
    BY DEF Range
  <2>6. CASE Len(all) >= MaxChunks
    <3>1. Len(chunks') = MaxChunks
      <4>1. all \in Seq(Passage)
        BY <2>3
      <4>2. MaxChunks \in Nat \ {0}
        BY ChunkingAssumption DEF ChunkingSettings
      <4> HIDE DEF all
      <4>3. Len(SubSeq(all, 1, MaxChunks)) = MaxChunks
        BY <4>1, <4>2, <2>6, PieceOf
      <4> QED
        BY <2>1, <2>6, <4>3
    <3>2. InPacking'
      BY <2>1, <2>6, <3>1 DEF InPacking
    <3> QED
      BY <1>7, <3>2 DEF EmitLast, Accounted
  <2>7. CASE ~(Len(all) >= MaxChunks)
    <3>1. \A u : In(u, chunks') <=> In(u, chunks) \/ u \in Range(pending)
      BY <2>1, <2>3, <2>7, InAppend
    <3>2. todo' = Tail(todo)
      BY <2>1, <2>7
    <3>3. InPacking'
      BY <2>1, <2>2, <2>4, <2>5, <3>1, <3>2 DEF InPacking
    <3> QED
      BY <1>7, <3>3 DEF EmitLast, Accounted
  <2> QED
    BY <2>6, <2>7
<1>8. CASE EndOfPacking
  <2>1. InPacking' /\ InJudging'
    BY <1>8 DEF EndOfPacking, Accounted, InPacking, InJudging, reading, packing
  <2> QED
    BY <1>8, <2>1 DEF EndOfPacking, Accounted, packing
<1>9. CASE Judge
  <2> DEFINE c == Head(rest)
             both == Union(Last(merged), c)
  <2>1. sections' = sections /\ todo' = todo /\ units' = units /\ pending' = pending
        /\ chunks' = chunks /\ rest # <<>> /\ rest' = Tail(rest)
        /\ phase = "judging" /\ phase' = phase
    BY <1>9 DEF Judge, reading, packing
  <2>2. InPacking' /\ todo' = <<>>
    BY <2>1 DEF Accounted, InPacking
  <2>3. rest \in Seq(Passage) /\ merged \in Seq(Passage) /\ c \in Passage
    BY <2>1 DEF TypeInv, Judging
  <2>4. Range(rest) = {c} \cup Range(rest')
    BY <2>1, <2>3, RangeOfTail
  <2>5. ASSUME merged' = Append(merged, c)
        PROVE  \A u : In(u, merged') <=> In(u, merged) \/ u \in Range(c.units)
    <3> HIDE DEF c
    <3> QED
      BY <2>3, <2>5, InAppend
  <2>6. ASSUME Merges(c), merged' = Append(Front(merged), both)
        PROVE  \A u : In(u, merged) \/ u \in Range(c.units) => In(u, merged')
    <3>1. merged # <<>>
      BY <2>6 DEF Merges
    <3>2. Front(merged) \in Seq(Passage) /\ Last(merged) \in Passage
          /\ Range(merged) = Range(Front(merged)) \cup {Last(merged)}
      BY <2>3, <3>1, RangeOfFront
    <3>3. both.units = Last(merged).units \o c.units
      BY DEF Union
    <3>4. Last(merged).units \in Seq(Fitting) /\ c.units \in Seq(Fitting)
      BY <2>3, <3>2, PackedIsFitting DEF Passage
    <3> HIDE DEF c, both
    <3>5. Range(both.units) = Range(Last(merged).units) \cup Range(c.units)
      BY <3>3, <3>4, RangeOfConcat
    <3>6. \A u : In(u, merged') <=> In(u, Front(merged)) \/ u \in Range(both.units)
      <4> DEFINE S == Passage \cup {both}
      <4>1. Front(merged) \in Seq(S) /\ both \in S
        BY <3>2
      <4> HIDE DEF S
      <4> QED
        BY <2>6, <4>1, InAppend
    <3>7. \A u : In(u, merged) <=> In(u, Front(merged)) \/ u \in Range(Last(merged).units)
      BY <3>2 DEF In
    <3> QED
      BY <3>5, <3>6, <3>7
  <2>7. \/ merged' = Append(merged, c)
        \/ merged' = merged /\ ~KeepsSmall(c)
        \/ Merges(c) /\ merged' = Append(Front(merged), both)
    BY <1>9 DEF Judge
  <2>8. ~KeepsSmall(c) => Noise(c)
    <3>1. Count(c.units) \in Nat
      BY <2>3, PackedIsFitting, FittingIsUnit, CostsTyped DEF Passage
    <3> QED
      BY <3>1 DEF KeepsSmall, Noise, ABSOLUTE_MIN_TOKENS, NOISE_FLOOR_TOKENS
  <2>9. InJudging
    BY <2>1 DEF Accounted
  <2>10. /\ \A u : In(u, merged) => In(u, merged')
         /\ (\A u \in Range(c.units) : In(u, merged')) \/ Noise(c)
    <3> HIDE DEF c, both
    <3> QED
      BY <2>5, <2>6, <2>7, <2>8
  <2>11. \A k : Noise(k)' <=> Noise(k)
    BY <2>1 DEF Noise, Alone
  <2>12. InJudging'
    <3> HIDE DEF c, both
    <3> SUFFICES ASSUME NEW k \in Range(chunks), NEW u \in Range(k.units)
                 PROVE  k \in Range(rest') \/ In(u, merged') \/ Noise(k)
      BY <2>1, <2>11 DEF InJudging
    <3> QED
      BY <2>4, <2>9, <2>10 DEF InJudging
  <2> QED
    BY <2>1, <2>2, <2>12 DEF Accounted
<1>10. CASE Return
  <2>1. sections' = sections /\ todo' = todo /\ units' = units /\ pending' = pending
        /\ chunks' = chunks /\ rest = <<>> /\ rest' = rest /\ phase = "judging" /\ phase' = "done"
        /\ (merged # <<>> => merged' = merged)
    BY <1>10 DEF Return, reading, packing
  <2>2. InPacking' /\ todo' = <<>>
    BY <2>1 DEF Accounted, InPacking
  <2>3. \A u : In(u, merged) => In(u, merged')
    <3>1. \A u : ~In(u, <<>>)
      BY DEF In, Range
    <3> QED
      BY <2>1, <3>1
  <2>4. InJudging
    BY <2>1 DEF Accounted
  <2>5. \A k : Noise(k)' <=> Noise(k)
    BY <2>1 DEF Noise, Alone
  <2>6. InJudging'
    BY <2>1, <2>3, <2>4, <2>5 DEF InJudging
  <2> QED
    BY <2>1, <2>2, <2>6 DEF Accounted
<1>11. CASE UNCHANGED vars
  <2>1. \A k : Noise(k)' <=> Noise(k)
    BY <1>11 DEF Noise, Alone, vars, packing
  <2>2. (InPacking' <=> InPacking) /\ (InJudging' <=> InJudging)
    BY <1>11, <2>1 DEF InPacking, InJudging, vars, reading, packing, judging
  <2> QED
    BY <1>11, <2>2 DEF Accounted, vars, packing, judging
<1> QED
  BY <1>1, <1>2, <1>3, <1>4, <1>5, <1>6, <1>7, <1>8, <1>9, <1>10, <1>11 DEF Next

\* Each unit of a kept section ends up in the result, unless the cap on chunks
\* was reached or its chunk was noise.
THEOREM NothingElseIsLost == Spec => []LostToCapOrNoise
<1>1. Init => Accounted
  BY DEF Init, Accounted
<1>2. TypeInv /\ TypeInv' /\ Accounted /\ [Next]_vars => Accounted'
  BY NextAccounted
<1>3. TypeInv /\ Accounted => LostToCapOrNoise
  <2> SUFFICES ASSUME TypeInv, Accounted, phase = "done",
                      NEW s \in DOMAIN sections, Keep(sections[s]),
                      NEW u \in Range(Units(sections[s]))
               PROVE  \/ In(u, merged) \/ Len(chunks) = MaxChunks
                      \/ \E c \in Range(chunks) : In(u, <<c>>) /\ Noise(c)
    BY DEF LostToCapOrNoise, Noise
  <2>1. todo = <<>> /\ rest = <<>> /\ units = <<>> /\ pending = <<>>
    BY DEF Accounted, TypeInv, Packing
  <2>2. Range(<<>>) = {}
    BY DEF Range
  <2>3. In(u, chunks) \/ Len(chunks) = MaxChunks
    BY <2>1, <2>2 DEF Accounted, InPacking
  <2>4. \A c : u \in Range(c.units) => In(u, <<c>>)
    BY DEF In, Range
  <2>5. ASSUME NEW c \in Range(chunks), u \in Range(c.units)
        PROVE  In(u, merged) \/ Noise(c)
    BY <2>1, <2>2, <2>5 DEF Accounted, InJudging
  <2> QED
    BY <2>3, <2>4, <2>5 DEF In
<1> QED
  BY <1>1, <1>2, <1>3, Typed, PTL DEF Spec

-----------------------------------------------------------------------------
(* Units keep the order of the text. *)

Strict(us) == \A i, j \in 1 .. Len(us) : i < j => Before(us[i], us[j])

LEMMA StrictConcat ==
    ASSUME NEW us \in Seq(SomeUnit), NEW vs \in Seq(SomeUnit), Strict(us), Strict(vs),
           \A i \in 1 .. Len(us), j \in 1 .. Len(vs) : Before(us[i], vs[j])
    PROVE  Strict(us \o vs)
<1> DEFINE n == Len(us)
           m == Len(vs)
           both == us \o vs
<1>1. /\ both \in Seq(SomeUnit) /\ Len(both) = n + m /\ n \in Nat /\ m \in Nat
      /\ \A i \in 1 .. n + m : both[i] = IF i <= n THEN us[i] ELSE vs[i - n]
  BY ConcatProperties
<1> HIDE DEF both
<1> SUFFICES ASSUME NEW i \in 1 .. n + m, NEW j \in 1 .. n + m, i < j
             PROVE  Before(both[i], both[j])
  BY <1>1 DEF Strict, both
<1> HIDE DEF n, m
<1>2. CASE j <= n
  <2>1. i \in 1 .. n /\ j \in 1 .. n /\ both[i] = us[i] /\ both[j] = us[j]
    BY <1>1, <1>2
  <2> QED
    BY <2>1 DEF Strict, n
<1>3. CASE ~(j <= n) /\ i <= n
  <2>1. i \in 1 .. n /\ j - n \in 1 .. m /\ both[i] = us[i] /\ both[j] = vs[j - n]
    BY <1>1, <1>3
  <2> QED
    BY <2>1 DEF n, m
<1>4. CASE ~(j <= n) /\ ~(i <= n)
  <2>1. /\ i - n \in 1 .. m /\ j - n \in 1 .. m /\ both[i] = vs[i - n] /\ both[j] = vs[j - n]
        /\ i - n < j - n
    BY <1>1, <1>4
  <2> QED
    BY <2>1 DEF Strict, m
<1> QED
  BY <1>2, <1>3, <1>4

\* What stands in a row in a list in order is in order.
LEMMA StrictPiece ==
    ASSUME NEW q, Strict(q), NEW r, NEW d \in Nat, Len(r) \in Nat,
           Len(q) \in Nat, Len(r) + d <= Len(q), \A i \in 1 .. Len(r) : r[i] = q[i + d]
    PROVE  Strict(r)
<1> SUFFICES ASSUME NEW i \in 1 .. Len(r), NEW j \in 1 .. Len(r), i < j
             PROVE  Before(r[i], r[j])
  BY DEF Strict
<1>1. i + d \in 1 .. Len(q) /\ j + d \in 1 .. Len(q) /\ i + d < j + d
  OBVIOUS
<1> QED
  BY <1>1 DEF Strict

\* The paragraphs of a section, in the order of the text.
LinesInOrder(b) == \A i, j \in 1 .. Len(b) : i < j => b[i].line < b[j].line

LEMMA UnitsOrdered ==
    ASSUME NEW s, s.body \in Seq(Paragraph), LinesInOrder(s.body)
    PROVE  Strict(Units(s))
<1> DEFINE b == s.body
           n == Len(b)
           all == [i \in DOMAIN b |-> UnitsOf(b[i])]
<1>1. b \in Seq(Paragraph) /\ DOMAIN b = 1 .. n /\ n \in Nat
      /\ \A i \in 1 .. n : b[i] \in Paragraph
  OBVIOUS
<1>2. \A i \in 1 .. n : UnitsOf(b[i]) \in Seq(SomeUnit)
  BY <1>1, UnitsOfTyped, FittingIsUnit
<1>3. all \in Seq(Seq(SomeUnit)) /\ Len(all) = n /\ \A i \in 1 .. n : all[i] = UnitsOf(b[i])
  <2>1. all \in [1 .. n -> Seq(SomeUnit)]
    BY <1>1, <1>2
  <2> HIDE DEF b
  <2>2. \A i \in 1 .. n : all[i] = UnitsOf(b[i])
    BY <1>1
  <2> HIDE DEF all, n
  <2> QED
    BY <1>1, <2>1, <2>2
<1>4. Units(s) = FlattenSeq(all)
  BY DEF Units, UnitsOf
<1>5. LinesInOrder(b)
  OBVIOUS
<1> HIDE DEF all, b
<1>6. PICK h : IsFlattening(h, all, SomeUnit)
  BY <1>3, Flattens
<1>7. /\ h \in [0 .. n -> Seq(SomeUnit)] /\ h[0] = <<>> /\ FlattenSeq(all) = h[n]
      /\ \A i \in 1 .. n : h[i] = h[i - 1] \o UnitsOf(b[i])
  BY <1>3, <1>6 DEF IsFlattening
<1> HIDE DEF n
<1> DEFINE Below(x, i) == \E k \in 1 .. i : x.line = b[k].line
           G == {i \in 0 .. n : Strict(h[i]) /\ \A a \in 1 .. Len(h[i]) : Below(h[i][a], i)}
<1>8. 0 \in G
  <2>1. Len(h[0]) = 0 /\ 1 .. 0 = {}
    BY <1>7
  <2> QED
    BY <1>1, <2>1 DEF Strict
<1>9. ASSUME NEW i \in 1 .. n, i - 1 \in G PROVE i \in G
  <2> DEFINE x == h[i - 1]
             y == UnitsOf(b[i])
  <2>1. i - 1 \in 0 .. n /\ i \in 0 .. n /\ i \in Nat
    BY <1>1
  <2>2. x \in Seq(SomeUnit) /\ Strict(x) /\ \A a \in 1 .. Len(x) : Below(x[a], i - 1)
    BY <1>7, <1>9, <2>1
  <2>3. /\ y \in Seq(SomeUnit)
        /\ \A c \in 1 .. Len(y) : y[c].line = b[i].line /\ y[c].part = c
    <3>1. y \in Seq(SomeUnit) /\ DOMAIN y = 1 .. Len(y)
      BY <1>2
    <3> QED
      BY <1>1, <3>1, UnitsOfTyped
  <2>4. h[i] = x \o y
    BY <1>7
  <2>5. Strict(y)
    <3> HIDE DEF y
    <3> QED
      BY <2>3 DEF Strict, Before
  <2>6. ASSUME NEW a \in 1 .. Len(x), NEW c \in 1 .. Len(y) PROVE Before(x[a], y[c])
    <3>1. PICK k \in 1 .. i - 1 : x[a].line = b[k].line
      BY <2>2
    <3>2. k \in 1 .. n /\ k < i
      BY <1>1
    <3>3. b[k].line < b[i].line
      BY <1>5, <3>2 DEF LinesInOrder, n
    <3> QED
      BY <2>3, <3>1, <3>3 DEF Before
  <2> HIDE DEF x, y
  <2>7. /\ Len(x \o y) = Len(x) + Len(y) /\ Len(x) \in Nat /\ Len(y) \in Nat
        /\ \A a \in 1 .. Len(x) + Len(y) : (x \o y)[a] = IF a <= Len(x) THEN x[a] ELSE y[a - Len(x)]
    BY <2>2, <2>3, ConcatProperties
  <2>8. Strict(x \o y)
    BY <2>2, <2>3, <2>5, <2>6, StrictConcat
  <2>9. ASSUME NEW a \in 1 .. Len(x) + Len(y) PROVE Below((x \o y)[a], i)
    <3>1. CASE a <= Len(x)
      <4>1. (x \o y)[a] = x[a] /\ a \in 1 .. Len(x)
        BY <2>7, <3>1
      <4>2. PICK k \in 1 .. i - 1 : x[a].line = b[k].line
        BY <2>2, <4>1
      <4>3. k \in 1 .. i
        BY <2>1
      <4> QED
        BY <4>1, <4>2, <4>3
    <3>2. CASE ~(a <= Len(x))
      <4>1. (x \o y)[a] = y[a - Len(x)] /\ a - Len(x) \in 1 .. Len(y) /\ i \in 1 .. i
        BY <2>7, <3>2
      <4> QED
        BY <2>3, <4>1
    <3> QED
      BY <3>1, <3>2
  <2> QED
    BY <2>1, <2>4, <2>7, <2>8, <2>9
<1>10. n \in G
  <2> HIDE DEF G
  <2>1. 0 .. n \subseteq G
    BY <1>1, <1>8, <1>9, UpToInduction
  <2> QED
    BY <1>1, <2>1
<1> QED
  BY <1>4, <1>7, <1>10

-----------------------------------------------------------------------------
(* Successive chunks of a section. *)

\* What OverlapIsTail says of two of them.
Shares(a, b) ==
    \E n \in 0..(Len(b) - 1) :
       /\ n <= Len(a) /\ Last_(a, n) = SubSeq(b, 1, n)
       /\ n > 1 => Sum(Counts(SubSeq(b, 1, n))) <= EffectiveOverlap
       /\ n < Len(a) /\ \A k \in (n + 1)..Len(b) : Before(Last(a), b[k])

\* They share an overlap, and would not fit in one chunk.
Joined(a, b) == Shares(a, b) /\ Cost(a) + Cost(b) \in Nat /\ Tokens(Cost(a) + Cost(b)) > MaxTokens

LEMMA LimitNat == MaxTokens \in Nat /\ MaxTokens >= 32
BY ChunkingAssumption DEF ChunkingSettings

LEMMA JoinedMore ==
    ASSUME NEW a \in Seq(SomeUnit), NEW b \in Seq(SomeUnit), NEW u \in SomeUnit,
           Joined(a, b), Before(Last(a), u)
    PROVE  Joined(a, Append(b, u))
<1> DEFINE c == Append(b, u)
<1>1. PICK n \in 0..(Len(b) - 1) :
       /\ n <= Len(a) /\ Last_(a, n) = SubSeq(b, 1, n)
       /\ n > 1 => Sum(Counts(SubSeq(b, 1, n))) <= EffectiveOverlap
       /\ n < Len(a) /\ \A k \in (n + 1)..Len(b) : Before(Last(a), b[k])
  BY DEF Joined, Shares
<1>2. /\ c \in Seq(SomeUnit) /\ Len(c) = Len(b) + 1 /\ Len(b) \in Nat
      /\ c[Len(b) + 1] = u /\ \A i \in 1 .. Len(b) : c[i] = b[i]
  BY AppendProperties
<1>3. SubSeq(c, 1, n) = SubSeq(b, 1, n)
  <2>1. n <= Len(b) /\ n <= Len(b) + 1 /\ n \in Nat
    BY <1>2
  <2> HIDE DEF c
  <2>2. SubSeq(b, 1, n) \in Seq(SomeUnit) /\ Len(SubSeq(b, 1, n)) = n
        /\ \A i \in 1 .. n : SubSeq(b, 1, n)[i] = b[i]
    <3>1. /\ SubSeq(b, 1, n) \in Seq(SomeUnit)
          /\ Len(SubSeq(b, 1, n)) = IF 1 <= n THEN n - 1 + 1 ELSE 0
          /\ \A i \in 1 .. Len(SubSeq(b, 1, n)) : SubSeq(b, 1, n)[i] = b[1 + i - 1]
      BY <1>2, <2>1, PieceOf
    <3>2. Len(SubSeq(b, 1, n)) = n
      BY <2>1, <3>1
    <3> QED
      BY <2>1, <3>1, <3>2
  <2>3. SubSeq(c, 1, n) \in Seq(SomeUnit) /\ Len(SubSeq(c, 1, n)) = n
        /\ \A i \in 1 .. n : SubSeq(c, 1, n)[i] = c[i]
    <3>1. /\ SubSeq(c, 1, n) \in Seq(SomeUnit)
          /\ Len(SubSeq(c, 1, n)) = IF 1 <= n THEN n - 1 + 1 ELSE 0
          /\ \A i \in 1 .. Len(SubSeq(c, 1, n)) : SubSeq(c, 1, n)[i] = c[1 + i - 1]
      BY <1>2, <2>1, PieceOf
    <3>2. Len(SubSeq(c, 1, n)) = n
      BY <2>1, <3>1
    <3> QED
      BY <2>1, <3>1, <3>2
  <2>4. \A i \in 1 .. n : SubSeq(c, 1, n)[i] = SubSeq(b, 1, n)[i]
    BY <1>2, <2>1, <2>2, <2>3
  <2> QED
    BY <2>2, <2>3, <2>4, SeqEqual
<1>4. \A k \in (n + 1) .. Len(c) : Before(Last(a), c[k])
  <2> TAKE k \in (n + 1) .. Len(c)
  <2>1. CASE k = Len(b) + 1
    BY <1>2, <2>1
  <2>2. CASE k # Len(b) + 1
    <3>1. k \in (n + 1) .. Len(b) /\ k \in 1 .. Len(b)
      BY <1>2, <2>2
    <3> QED
      BY <1>1, <1>2, <3>1
  <2> QED
    BY <2>1, <2>2
<1>5. n \in 0 .. (Len(c) - 1)
  BY <1>2
<1>6. Shares(a, c)
  <2> HIDE DEF c
  <2> QED
    BY <1>1, <1>3, <1>4, <1>5 DEF Shares
<1>7. Cost(a) \in Nat /\ Cost(b) \in Nat /\ u.cost \in Nat /\ Cost(c) = Cost(b) + u.cost
  BY CostsTyped, CostAppend DEF SomeUnit
<1>8. Tokens(Cost(a) + Cost(b)) <= Tokens(Cost(a) + Cost(c))
  <2>1. Cost(a) + Cost(b) \in Nat /\ Cost(a) + Cost(c) \in Nat
        /\ Cost(a) + Cost(b) <= Cost(a) + Cost(c)
    BY <1>7
  <2> QED
    BY <2>1, TokensMonotone
<1>9. Cost(a) + Cost(c) \in Nat /\ Cost(a) + Cost(b) \in Nat
  BY <1>7
<1>10. Tokens(Cost(a) + Cost(b)) \in Nat /\ Tokens(Cost(a) + Cost(c)) \in Nat /\ MaxTokens \in Nat
  BY <1>9, TokensNat, LimitNat
<1>11. Tokens(Cost(a) + Cost(b)) > MaxTokens
  BY DEF Joined
<1>12. Tokens(Cost(a) + Cost(c)) > MaxTokens
  BY <1>8, <1>10, <1>11
<1> QED
  BY <1>6, <1>9, <1>12 DEF Joined

\* A shorter overlap is smaller.
LEMMA OverlapShort ==
    ASSUME NEW us \in Seq(SomeUnit), us # <<>>, NEW n \in 0 .. Carried(us), n > 1
    PROVE  Sum(Counts(Last_(us, n))) <= EffectiveOverlap
<1>1. PICK c \in Nat : c = Carried(us) /\ c <= Len(us) /\ n <= c /\ n \in Nat
  BY CarriedBounds
<1>2. Sum(Counts(Last_(us, c))) <= EffectiveOverlap /\ EffectiveOverlap \in Nat
  BY <1>1, CarriedBounds, OverlapNat
<1>3. PICK l \in Nat : l = Len(us)
  OBVIOUS
<1> DEFINE first == SubSeq(us, l - c + 1, l - n)
<1>4. Last_(us, c) = first \o Last_(us, n)
  <2>1. /\ l - c + 1 \in 1 .. Len(us) + 1 /\ l - n \in (l - c + 1) - 1 .. Len(us)
        /\ l \in l - n .. Len(us)
    BY <1>1, <1>3
  <2>2. SubSeq(us, l - c + 1, l - n) \o SubSeq(us, (l - n) + 1, l) = SubSeq(us, l - c + 1, l)
    BY <2>1, ConcatAdjacentSubSeq
  <2> QED
    BY <1>3, <2>2 DEF Last_
<1>5. first \in Seq(SomeUnit) /\ Last_(us, n) \in Seq(SomeUnit)
  <2>1. /\ l - c + 1 \in Int /\ l - n \in Int /\ 1 <= l - c + 1 /\ l - n <= Len(us)
        /\ n \in 0 .. Len(us)
    BY <1>1, <1>3
  <2> QED
    BY <2>1, PieceOf, LastOnes
<1> HIDE DEF first
<1>6. Sum(Counts(Last_(us, c))) = Sum(Counts(first)) + Sum(Counts(Last_(us, n)))
  BY <1>4, <1>5, CostConcat
<1>7. Sum(Counts(first)) \in Nat /\ Sum(Counts(Last_(us, n))) \in Nat
  BY <1>5, CostsTyped, SumNat
<1> QED
  BY <1>2, <1>6, <1>7

LEMMA JoinedSeed ==
    ASSUME NEW us \in Seq(SomeUnit), us # <<>>, NEW u \in SomeUnit,
           Count(Append(us, u)) > MaxTokens, Before(Last(us), u)
    PROVE  Joined(us, Append(Seed(us, u), u))
<1>1. PICK n \in 0 .. Carried(us) :
        /\ Seed(us, u) = Last_(us, n)
        /\ n = 0 \/ Count(Last_(us, n) \o <<u>>) <= MaxTokens
  BY SeedBounds
<1> DEFINE t == Last_(us, n)
           b == Append(t, u)
<1>2. n \in 0 .. Len(us) /\ n \in Nat
  BY CarriedBounds
<1>3. t \in Seq(SomeUnit) /\ Len(t) = n
  BY <1>2, LastOnes
<1>4. Append(us, u) = us \o <<u>> /\ Append(t, u) = t \o <<u>>
  BY <1>3, AppendIsConcat
<1>5. n < Len(us)
  <2>1. CASE n = Len(us)
    <3>1. t = us
      <4>1. Len(us) - n + 1 = 1
        BY <1>2, <2>1
      <4>2. t = SubSeq(us, 1, Len(us))
        BY <4>1 DEF Last_
      <4> QED
        BY <4>2, SubSeqFull
    <3>2. Len(us) # 0
      OBVIOUS
    <3>3. Count(us \o <<u>>) <= MaxTokens
      BY <1>1, <2>1, <3>1, <3>2
    <3>4. Append(us, u) \in Seq(SomeUnit)
      OBVIOUS
    <3>5. Count(Append(us, u)) \in Nat /\ MaxTokens \in Nat
      BY <3>4, CostsTyped, LimitNat
    <3> QED
      BY <1>4, <3>3, <3>5
  <2>2. CASE n # Len(us)
    BY <1>2, <2>2
  <2> QED
    BY <2>1, <2>2
<1> HIDE DEF t
<1>6. /\ b \in Seq(SomeUnit) /\ Len(b) = n + 1
      /\ b[n + 1] = u /\ \A i \in 1 .. n : b[i] = t[i]
  BY <1>3, AppendProperties
<1> HIDE DEF b
<1>7. SubSeq(b, 1, n) = t
  <2>1. n <= Len(b) /\ n \in Int
    BY <1>2, <1>6
  <2>2. /\ SubSeq(b, 1, n) \in Seq(SomeUnit)
        /\ Len(SubSeq(b, 1, n)) = IF 1 <= n THEN n - 1 + 1 ELSE 0
        /\ \A i \in 1 .. Len(SubSeq(b, 1, n)) : SubSeq(b, 1, n)[i] = b[1 + i - 1]
    BY <1>6, <2>1, PieceOf
  <2>3. Len(SubSeq(b, 1, n)) = n
    BY <1>2, <2>2
  <2>4. \A i \in 1 .. n : 1 + i - 1 = i
    BY <1>2
  <2>5. \A i \in 1 .. n : SubSeq(b, 1, n)[i] = t[i]
    BY <1>6, <2>2, <2>3, <2>4
  <2> QED
    BY <1>3, <2>2, <2>3, <2>5, SeqEqual
<1>8. n > 1 => Sum(Counts(t)) <= EffectiveOverlap
  BY <1>1, OverlapShort DEF t
<1>9. Shares(us, b)
  <2>1. n \in 0 .. (Len(b) - 1) /\ n <= Len(us)
    BY <1>2, <1>6
  <2>2. \A k \in (n + 1) .. Len(b) : Before(Last(us), b[k])
    <3>1. \A k \in (n + 1) .. Len(b) : k = n + 1
      BY <1>2, <1>6
    <3> QED
      BY <1>6, <3>1
  <2>3. Last_(us, n) = SubSeq(b, 1, n)
    BY <1>7 DEF t
  <2> QED
    BY <1>5, <1>7, <1>8, <2>1, <2>2, <2>3 DEF Shares
<1>10. Cost(us) \in Nat /\ Cost(t) \in Nat /\ u.cost \in Nat
       /\ Cost(b) = Cost(t) + u.cost /\ Cost(Append(us, u)) = Cost(us) + u.cost
  BY <1>3, CostsTyped, CostAppend DEF SomeUnit, b
<1>11. Cost(us) + Cost(b) \in Nat /\ Cost(us) + u.cost \in Nat
       /\ Cost(us) + u.cost <= Cost(us) + Cost(b)
  BY <1>10
<1>12. Tokens(Cost(us) + u.cost) <= Tokens(Cost(us) + Cost(b))
  BY <1>11, TokensMonotone
<1>13. Tokens(Cost(us) + u.cost) > MaxTokens
  BY <1>10 DEF Count
<1>14. Tokens(Cost(us) + u.cost) \in Nat /\ Tokens(Cost(us) + Cost(b)) \in Nat /\ MaxTokens \in Nat
  BY <1>11, TokensNat, LimitNat
<1>15. Joined(us, b)
  BY <1>9, <1>11, <1>12, <1>13, <1>14 DEF Joined
<1> QED
  BY <1>1, <1>15 DEF b, t

-----------------------------------------------------------------------------
(* Packing goes through the text in its order. *)

\* Each chunk is of one section, and they follow the sections.
SecsUp(cs) ==
    /\ \A i \in 1 .. Len(cs) : \E n \in Nat : cs[i].secs = {n}
    /\ \A i, j \in 1 .. Len(cs) : i < j => \A m \in cs[i].secs, n \in cs[j].secs : m <= n

PairsJoined(cs) ==
    \A i \in 1 .. (Len(cs) - 1) :
        cs[i].secs = cs[i + 1].secs => Joined(cs[i].units, cs[i + 1].units)

BodyInOrder ==
    /\ LinesInOrder(body) /\ \A i \in 1 .. Len(body) : body[i].line < length
    /\ \A s \in 1 .. Len(sections) : LinesInOrder(sections[s].body)

\* The sections that are still to be packed come after those of the chunks.
After(cs, started) ==
    \A i \in 1 .. Len(cs), s \in Range(todo) : \A m \in cs[i].secs :
        m <= s /\ ((started /\ s = Head(todo)) \/ m < s)

\* The chunk being packed goes on where the former one ended.
Current ==
    pending # <<>> /\ chunks # <<>> /\ Last(chunks).secs = {Head(todo)} =>
        /\ Joined(Last(chunks).units, pending)
        /\ \A u \in Range(units) : Before(Last(Last(chunks).units), u)

Ordered ==
    /\ BodyInOrder /\ Increasing(todo)
    /\ SecsUp(chunks) /\ After(chunks, pending # <<>>) /\ PairsJoined(chunks)
    /\ Strict(pending \o units) /\ Current

\* The first chunks.
LEMMA FirstChunks ==
    ASSUME NEW cs \in Seq(Passage), NEW k \in Nat, k <= Len(cs), SecsUp(cs), PairsJoined(cs)
    PROVE  SecsUp(SubSeq(cs, 1, k)) /\ PairsJoined(SubSeq(cs, 1, k))
<1> DEFINE f == SubSeq(cs, 1, k)
<1>1. /\ f \in Seq(Passage) /\ Len(f) = IF 1 <= k THEN k - 1 + 1 ELSE 0
      /\ \A i \in 1 .. Len(f) : f[i] = cs[1 + i - 1]
  BY PieceOf
<1> HIDE DEF f
<1>2. Len(f) = k /\ Len(cs) \in Nat
  BY <1>1
<1>3. \A i \in 1 .. k : f[i] = cs[i] /\ i \in 1 .. Len(cs)
  BY <1>1, <1>2
<1>4. \A i \in 1 .. k - 1 : i \in 1 .. k /\ i + 1 \in 1 .. k /\ i \in 1 .. Len(cs) - 1
  BY <1>2
<1>5. SecsUp(f)
  BY <1>2, <1>3 DEF SecsUp
<1>6. PairsJoined(f)
  BY <1>2, <1>3, <1>4 DEF PairsJoined
<1> QED
  BY <1>5, <1>6 DEF f

\* A chunk is emitted.
LEMMA OneMoreChunk ==
    ASSUME TypeInv, Ordered, pending # <<>>
    PROVE  LET all == Append(chunks, Chunk(pending))
           IN SecsUp(all) /\ PairsJoined(all) /\ After(all, TRUE)
<1> DEFINE c == Chunk(pending)
           all == Append(chunks, c)
           n == Len(chunks)
<1>1. todo # <<>> /\ todo \in Seq(DOMAIN sections) /\ pending \in Packed /\ chunks \in Seq(Passage)
  BY DEF TypeInv, Packing
<1>2. c \in Passage /\ c.units = pending /\ c.secs = {Head(todo)}
  BY <1>1, ChunkTyped DEF Chunk
<1>3. Head(todo) \in Nat
  BY <1>2 DEF Passage
<1> HIDE DEF c
<1>4. /\ all \in Seq(Passage) /\ Len(all) = n + 1 /\ n \in Nat
      /\ all[n + 1] = c /\ \A i \in 1 .. n : all[i] = chunks[i]
  BY <1>1, <1>2, AppendProperties
<1>5. \A i \in 1 .. n + 1 : i \in 1 .. n \/ i = n + 1
  BY <1>4
<1>6. /\ Range(todo) = {Head(todo)} \cup Range(Tail(todo))
      /\ \A s \in Range(Tail(todo)) : Head(todo) < s
  BY <1>1, RangeOfTail, TailIncreases DEF Ordered
<1> HIDE DEF all, n
<1>7. \A i \in 1 .. n, s \in Range(todo) :
         \A m \in chunks[i].secs : m <= s /\ (s = Head(todo) \/ m < s)
  BY DEF Ordered, After, n
<1>8. After(all, TRUE)
  <2>1. ASSUME NEW s \in Range(todo) PROVE Head(todo) <= s /\ (s = Head(todo) \/ Head(todo) < s)
    <3>1. CASE s = Head(todo)
      BY <1>3, <3>1
    <3>2. CASE s # Head(todo)
      <4>1. Head(todo) < s
        BY <1>6, <3>2
      <4>2. s \in Nat
        <5>1. s \in DOMAIN sections
          BY <1>1 DEF Range
        <5> QED
          BY <5>1 DEF TypeInv, Reading
      <4> QED
        BY <1>3, <4>1, <4>2
    <3> QED
      BY <3>1, <3>2
  <2> QED
    BY <1>2, <1>4, <1>5, <1>7, <2>1 DEF After
<1>9. SecsUp(all)
  <2>1. ASSUME NEW i \in 1 .. n + 1 PROVE \E k \in Nat : all[i].secs = {k}
    BY <1>2, <1>3, <1>4, <1>5 DEF Ordered, SecsUp, n
  <2>2. ASSUME NEW i \in 1 .. n + 1, NEW j \in 1 .. n + 1, i < j,
               NEW m \in all[i].secs, NEW k \in all[j].secs
        PROVE  m <= k
    <3>1. i \in 1 .. n /\ all[i] = chunks[i]
      BY <1>4, <2>2
    <3>2. CASE j = n + 1
      <4>1. k = Head(todo) /\ Head(todo) \in Range(todo)
        BY <1>2, <1>4, <1>6, <2>2, <3>2
      <4> QED
        BY <1>7, <2>2, <3>1, <4>1
    <3>3. CASE j # n + 1
      <4>1. j \in 1 .. n /\ all[j] = chunks[j]
        BY <1>4, <3>3
      <4> QED
        BY <2>2, <3>1, <4>1 DEF Ordered, SecsUp, n
    <3> QED
      BY <3>2, <3>3
  <2> QED
    BY <1>4, <2>1, <2>2 DEF SecsUp
<1>10. PairsJoined(all)
  <2> SUFFICES ASSUME NEW i \in 1 .. n, all[i].secs = all[i + 1].secs
               PROVE  Joined(all[i].units, all[i + 1].units)
    <3>1. Len(all) - 1 = n
      BY <1>4
    <3> QED
      BY <3>1 DEF PairsJoined
  <2>1. all[i] = chunks[i]
    BY <1>4
  <2>2. CASE i = n
    <3>1. chunks # <<>> /\ Last(chunks) = chunks[n] /\ all[i + 1] = c
      BY <1>1, <1>4, <2>2 DEF Last, n
    <3> QED
      BY <1>2, <2>1, <2>2, <3>1 DEF Ordered, Current
  <2>3. CASE i # n
    <3>1. i \in 1 .. n - 1 /\ i + 1 \in 1 .. n /\ all[i + 1] = chunks[i + 1]
      BY <1>4, <2>3
    <3> QED
      BY <2>1, <3>1 DEF Ordered, PairsJoined, n
  <2> QED
    BY <2>2, <2>3
<1> QED
  BY <1>8, <1>9, <1>10 DEF all, c

LEMMA InitOrdered == Init => Ordered
<1> SUFFICES ASSUME Init PROVE Ordered
  OBVIOUS
<1>1. /\ body = <<>> /\ sections = <<>> /\ todo = <<>> /\ chunks = <<>> /\ pending = <<>>
      /\ units = <<>> /\ Len(<<>>) = 0 /\ <<>> \o <<>> = <<>> /\ 1 .. 0 = {} /\ 1 .. (0 - 1) = {}
  BY DEF Init
<1>2. BodyInOrder /\ Increasing(todo) /\ SecsUp(chunks) /\ PairsJoined(chunks)
  BY <1>1 DEF BodyInOrder, LinesInOrder, Increasing, SecsUp, PairsJoined
<1>3. After(chunks, pending # <<>>) /\ Current
  BY <1>1 DEF After, Current
<1>4. Strict(pending \o units)
  BY <1>1 DEF Strict
<1> QED
  BY <1>2, <1>3, <1>4 DEF Ordered

\* What a step that leaves packing alone keeps.
PackingInOrder ==
    /\ Increasing(todo)
    /\ SecsUp(chunks) /\ After(chunks, pending # <<>>) /\ PairsJoined(chunks)
    /\ Strict(pending \o units) /\ Current

LEMMA PackingUnchanged ==
    ASSUME PackingInOrder, UNCHANGED packing
    PROVE  PackingInOrder'
BY DEF PackingInOrder, After, Current, packing

LEMMA ReadingOrdered ==
    ASSUME TypeInv, BodyInOrder, Next
    PROVE  BodyInOrder'
<1>1. ASSUME NEW line \in Lines, ReadText(line) PROVE BodyInOrder'
  <2> DEFINE p == [line |-> length, sentences |-> line.sentences]
  <2>1. body' = Append(body, p) /\ length' = length + 1 /\ sections' = sections
    BY <1>1 DEF ReadText
  <2>2. length \in Nat /\ body \in Seq(Paragraph) /\ p \in Paragraph /\ p.line = length
    BY ChunkingAssumption DEF TypeInv, Reading, Paragraph
  <2> HIDE DEF p
  <2>3. /\ Len(body') = Len(body) + 1 /\ Len(body) \in Nat
        /\ body'[Len(body) + 1] = p /\ \A i \in 1 .. Len(body) : body'[i] = body[i]
        /\ \A i \in 1 .. Len(body) : body[i].line \in Nat
    <3>1. \A i \in 1 .. Len(body) : body[i] \in Paragraph
      BY <2>2
    <3>2. \A i \in 1 .. Len(body) : body[i].line \in Nat
      BY <3>1 DEF Paragraph
    <3> QED
      BY <2>1, <2>2, <3>2, AppendProperties
  <2>4. \A i \in 1 .. Len(body) + 1 : i \in 1 .. Len(body) \/ i = Len(body) + 1
    BY <2>3
  <2>5. \A i \in 1 .. Len(body) : body[i].line < length /\ body[i].line < length + 1
    BY <2>2, <2>3 DEF BodyInOrder
  <2>6. LinesInOrder(body')
    <3> SUFFICES ASSUME NEW i \in 1 .. Len(body) + 1, NEW j \in 1 .. Len(body) + 1, i < j
                 PROVE  body'[i].line < body'[j].line
      BY <2>3 DEF LinesInOrder
    <3>1. i \in 1 .. Len(body)
      BY <2>3
    <3>2. CASE j = Len(body) + 1
      BY <2>2, <2>3, <2>5, <3>1, <3>2
    <3>3. CASE j # Len(body) + 1
      <4>1. j \in 1 .. Len(body)
        BY <2>4, <3>3
      <4> QED
        BY <2>3, <3>1, <4>1 DEF BodyInOrder, LinesInOrder
    <3> QED
      BY <3>2, <3>3
  <2>7. \A i \in 1 .. Len(body') : body'[i].line < length'
    BY <2>1, <2>2, <2>3, <2>4, <2>5
  <2> QED
    BY <2>1, <2>6, <2>7 DEF BodyInOrder
<1>2. LET all == Flushed(sections, current, parent, body)
      IN \A s \in 1 .. Len(all) : LinesInOrder(all[s].body)
  <2> DEFINE new == Section(current, parent, body)
             all == Append(sections, new)
  <2>1. sections \in Seq(Region) /\ new \in Region
    BY RegionTyped DEF TypeInv, Reading
  <2>2. new.body = body
    BY DEF Section
  <2> HIDE DEF new
  <2>3. /\ Len(all) = Len(sections) + 1 /\ Len(sections) \in Nat
        /\ all[Len(sections) + 1] = new /\ \A s \in 1 .. Len(sections) : all[s] = sections[s]
    BY <2>1, AppendProperties
  <2>4. \A s \in 1 .. Len(sections) + 1 : s \in 1 .. Len(sections) \/ s = Len(sections) + 1
    BY <2>3
  <2> HIDE DEF all
  <2>5. \A s \in 1 .. Len(all) : LinesInOrder(all[s].body)
    BY <2>2, <2>3, <2>4 DEF BodyInOrder
  <2>6. Flushed(sections, current, parent, body) \in {sections, all}
    BY DEF Flushed, all, new
  <2>7. \A s \in 1 .. Len(sections) : LinesInOrder(sections[s].body)
    BY DEF BodyInOrder
  <2> QED
    BY <2>5, <2>6, <2>7
<1>3. ASSUME NEW line \in Lines, ReadHeading(line) PROVE BodyInOrder'
  <2>1. body' = <<>> /\ sections' = Flushed(sections, current, parent, body)
        /\ Len(<<>>) = 0 /\ 1 .. 0 = {}
    BY <1>3 DEF ReadHeading
  <2>2. LinesInOrder(body') /\ \A i \in 1 .. Len(body') : body'[i].line < length'
    BY <2>1 DEF LinesInOrder
  <2> QED
    BY <1>2, <2>1, <2>2 DEF BodyInOrder
<1>4. CASE EndOfText
  BY <1>2, <1>4 DEF EndOfText, BodyInOrder
<1>5. ASSUME UNCHANGED reading PROVE BodyInOrder'
  BY <1>5 DEF reading, BodyInOrder
<1> QED
  BY <1>1, <1>3, <1>4, <1>5 DEF Next, StartSection, AddUnit, EmitAndCarry, EmitLast,
     EndOfPacking, Judge, Return

LEMMA PackingOrdered ==
    ASSUME TypeInv, TypeInv', BodyInOrder, PackingInOrder, Next
    PROVE  PackingInOrder'
<1>0. Ordered
  BY DEF Ordered, PackingInOrder
<1>1. ASSUME UNCHANGED packing PROVE PackingInOrder'
  BY <1>1, PackingUnchanged
<1>2. CASE EndOfText
  <2>1. /\ units' = <<>> /\ pending' = <<>> /\ chunks' = <<>>
        /\ todo' = Only([i \in DOMAIN sections' |-> i],
                        {i \in DOMAIN sections' : Keep(sections'[i])})
    BY <1>2 DEF EndOfText, TypeInv, Untouched
  <2>2. DOMAIN sections' = 1 .. Len(sections') /\ Len(sections') \in Nat
    BY DEF TypeInv, Reading
  <2>3. Increasing(todo')
    BY <2>1, <2>2, OnlyIncreases DEF Increasing
  <2>4. Len(<<>>) = 0 /\ <<>> \o <<>> = <<>> /\ 1 .. 0 = {} /\ 1 .. (0 - 1) = {}
    OBVIOUS
  <2>5. SecsUp(chunks') /\ PairsJoined(chunks') /\ Strict(pending' \o units')
    BY <2>1, <2>4 DEF SecsUp, PairsJoined, Strict
  <2>6. After(chunks, pending # <<>>)' /\ Current'
    BY <2>1, <2>4 DEF After, Current
  <2> QED
    BY <2>3, <2>5, <2>6 DEF PackingInOrder
<1>3. CASE StartSection
  <2>1. /\ pending = <<>> /\ pending' = <<>> /\ chunks' = chunks /\ todo # <<>>
        /\ units' = Units(sections[Head(todo)]) /\ todo' \in {todo, Tail(todo)}
    BY <1>3 DEF StartSection
  <2>2. todo \in Seq(DOMAIN sections) /\ Head(todo) \in 1 .. Len(sections)
        /\ sections[Head(todo)] \in Region
    BY <2>1 DEF TypeInv, Packing, Reading
  <2>3. Strict(units') /\ units' \in Seq(Fitting)
    <3>1. sections[Head(todo)].body \in Seq(Paragraph)
      BY <2>2 DEF Region
    <3>2. LinesInOrder(sections[Head(todo)].body)
      BY <2>2 DEF BodyInOrder
    <3>3. units' \in Seq(Fitting)
      BY DEF TypeInv, Packing
    <3> QED
      BY <2>1, <3>1, <3>2, <3>3, UnitsOrdered
  <2>4. pending' \o units' = units'
    BY <2>1, <2>3
  <2>5. Increasing(Tail(todo)) /\ Range(Tail(todo)) \subseteq Range(todo)
    BY <2>1, <2>2, TailIncreases, RangeOfTail DEF PackingInOrder
  <2>6. Increasing(todo') /\ Range(todo') \subseteq Range(todo)
    BY <2>1, <2>5 DEF PackingInOrder
  <2>7. After(chunks, pending # <<>>)'
    BY <2>1, <2>6 DEF PackingInOrder, After
  <2> QED
    BY <2>1, <2>3, <2>4, <2>6, <2>7 DEF PackingInOrder, Current
<1>4. CASE AddUnit
  <2> DEFINE u == Head(units)
  <2>1. /\ units # <<>> /\ pending' = Append(pending, u) /\ units' = Tail(units)
        /\ todo' = todo /\ chunks' = chunks
    BY <1>4 DEF AddUnit
  <2>2. units \in Seq(SomeUnit) /\ pending \in Seq(SomeUnit) /\ u \in SomeUnit
    <3>1. pending \in Packed \cup {<<>>} /\ units \in Seq(Fitting)
      BY DEF TypeInv, Packing
    <3>2. <<>> \in Seq(Fitting)
      OBVIOUS
    <3>3. pending \in Seq(Fitting)
      BY <3>1, <3>2, PackedIsFitting
    <3>4. units \in Seq(SomeUnit)
      BY <3>1, FittingIsUnit
    <3> QED
      BY <2>1, <3>3, <3>4, FittingIsUnit
  <2>3. Range(units) = {u} \cup Range(units')
    BY <2>1, <2>2, RangeOfTail
  <2>4. Strict(pending' \o units')
    <3> DEFINE q == pending \o units
               r == pending' \o units'
               n == Len(pending)
               m == Len(units)
    <3>1. /\ q \in Seq(SomeUnit) /\ Len(q) = n + m /\ n \in Nat /\ m \in Nat \ {0}
          /\ \A i \in 1 .. n + m : q[i] = IF i <= n THEN pending[i] ELSE units[i - n]
      BY <2>1, <2>2, ConcatProperties
    <3>2. /\ pending' \in Seq(SomeUnit) /\ Len(pending') = n + 1 /\ pending'[n + 1] = u
          /\ \A i \in 1 .. n : pending'[i] = pending[i]
      BY <2>1, <2>2, AppendProperties
    <3>3. /\ units' \in Seq(SomeUnit) /\ Len(units') = m - 1 /\ u = units[1]
          /\ \A i \in 1 .. m - 1 : units'[i] = units[i + 1]
      BY <2>1, <2>2
    <3>4. /\ r \in Seq(SomeUnit) /\ Len(r) = (n + 1) + (m - 1)
          /\ \A i \in 1 .. (n + 1) + (m - 1) :
                r[i] = IF i <= n + 1 THEN pending'[i] ELSE units'[i - (n + 1)]
      <4>1. /\ r \in Seq(SomeUnit) /\ Len(r) = Len(pending') + Len(units')
            /\ \A i \in 1 .. Len(pending') + Len(units') :
                  r[i] = IF i <= Len(pending') THEN pending'[i] ELSE units'[i - Len(pending')]
        BY <3>2, <3>3, ConcatProperties
      <4> HIDE DEF r, n, m
      <4> QED
        BY <3>2, <3>3, <4>1
    <3> HIDE DEF q, r, n, m, u
    <3>5. ASSUME NEW i \in 1 .. n + m PROVE r[i] = q[i]
      <4>1. i \in 1 .. (n + 1) + (m - 1)
        BY <3>1
      <4>2. CASE i <= n
        <5>1. r[i] = pending'[i] /\ i \in 1 .. n /\ q[i] = pending[i]
          BY <3>1, <3>4, <4>1, <4>2
        <5> QED
          BY <3>2, <5>1
      <4>3. CASE i = n + 1
        <5>1. r[i] = u /\ q[i] = units[i - n] /\ i - n = 1
          BY <3>1, <3>2, <3>4, <4>1, <4>3
        <5> QED
          BY <3>3, <5>1
      <4>4. CASE ~(i <= n) /\ i # n + 1
        <5>1. ~(i <= n + 1) /\ i - (n + 1) \in 1 .. m - 1 /\ (i - (n + 1)) + 1 = i - n
          BY <3>1, <4>4
        <5>2. r[i] = units'[i - (n + 1)] /\ q[i] = units[i - n]
          BY <3>1, <3>4, <4>1, <4>4, <5>1
        <5> QED
          BY <3>3, <5>1, <5>2
      <4> QED
        BY <3>1, <4>2, <4>3, <4>4
    <3>6. Len(r) = n + m
      BY <3>1, <3>4
    <3>7. r = q
      BY <3>1, <3>4, <3>5, <3>6, SeqEqual
    <3> QED
      BY <3>7 DEF q, r, PackingInOrder
  <2>5. After(chunks, pending # <<>>)'
    <3>1. pending' # <<>>
      BY <2>1, <2>2
    <3> HIDE DEF u
    <3> QED
      BY <2>1, <3>1 DEF PackingInOrder, After
  <2>6. Current'
    <3> SUFFICES ASSUME chunks # <<>>, Last(chunks).secs = {Head(todo)}
                 PROVE  /\ Joined(Last(chunks).units, pending')
                        /\ \A v \in Range(units') : Before(Last(Last(chunks).units), v)
      BY <2>1 DEF Current
    <3>1. CASE pending = <<>>
      <4> DEFINE n == Len(chunks)
      <4>1. chunks \in Seq(Passage) /\ n \in 1 .. n /\ Last(chunks) = chunks[n]
        BY DEF TypeInv, Packing, Last
      <4>2. todo # <<>> /\ todo \in Seq(DOMAIN sections)
        BY <2>1 DEF TypeInv, Packing
      <4>3. Head(todo) \in Range(todo)
        BY <4>2, RangeOfTail
      <4>4. Head(todo) < Head(todo)
        BY <3>1, <4>1, <4>3 DEF PackingInOrder, After
      <4>5. Head(todo) \in Nat
        <5>1. Head(todo) \in DOMAIN sections
          BY <4>2
        <5> QED
          BY <5>1 DEF TypeInv, Reading
      <4> QED
        BY <4>4, <4>5
    <3>2. CASE pending # <<>>
      <4>1. /\ Joined(Last(chunks).units, pending)
            /\ \A v \in Range(units) : Before(Last(Last(chunks).units), v)
        BY <3>2 DEF PackingInOrder, Current
      <4>2. Last(chunks).units \in Seq(SomeUnit)
        <5>1. Last(chunks) \in Passage
          BY RangeOfFront DEF TypeInv, Packing
        <5> QED
          BY <5>1, PackedIsFitting, FittingIsUnit DEF Passage
      <4> HIDE DEF u
      <4> QED
        BY <2>1, <2>2, <2>3, <4>1, <4>2, JoinedMore
    <3> QED
      BY <3>1, <3>2
  <2> QED
    BY <2>1, <2>4, <2>5, <2>6 DEF PackingInOrder
<1>5. CASE EmitAndCarry
  <2> DEFINE u == Head(units)
             c == Chunk(pending)
  <2>1. /\ units # <<>> /\ pending # <<>> /\ chunks' = Append(chunks, c)
        /\ pending' = Append(Seed(pending, u), u) /\ units' = Tail(units) /\ todo' = todo
        /\ Count(Append(pending, u)) > MaxTokens
    BY <1>5 DEF EmitAndCarry, Overflows
  <2>2. units \in Seq(SomeUnit) /\ pending \in Seq(SomeUnit) /\ u \in SomeUnit
    <3>1. pending \in Packed /\ units \in Seq(Fitting)
      BY <2>1 DEF TypeInv, Packing
    <3>2. units \in Seq(SomeUnit)
      BY <3>1, FittingIsUnit
    <3> QED
      BY <2>1, <3>1, <3>2, PackedIsFitting, FittingIsUnit
  <2>3. PICK n \in 0 .. Len(pending) : Seed(pending, u) = Last_(pending, n)
    <3> HIDE DEF u
    <3>1. PICK n \in 0 .. Carried(pending) : Seed(pending, u) = Last_(pending, n)
      BY <2>1, <2>2, SeedBounds
    <3>2. n \in 0 .. Len(pending)
      BY <2>1, <2>2, CarriedBounds
    <3> QED
      BY <3>1, <3>2
  <2> DEFINE q == pending \o units
             r == pending' \o units'
             l == Len(pending)
             m == Len(units)
  <2>4. /\ q \in Seq(SomeUnit) /\ Len(q) = l + m /\ l \in Nat \ {0} /\ m \in Nat \ {0}
        /\ \A i \in 1 .. l + m : q[i] = IF i <= l THEN pending[i] ELSE units[i - l]
    BY <2>1, <2>2, ConcatProperties
  <2>5. /\ units' \in Seq(SomeUnit) /\ Len(units') = m - 1 /\ u = units[1]
        /\ \A i \in 1 .. m - 1 : units'[i] = units[i + 1]
    BY <2>1, <2>2
  <2>6. Last(pending) = q[l] /\ \A i \in 1 .. m : units[i] = q[l + i]
    <3>1. Last(pending) = pending[l] /\ l \in 1 .. l + m
      BY <2>4 DEF Last
    <3> HIDE DEF q, m, l
    <3>2. \A i \in 1 .. m : l + i \in 1 .. l + m /\ ~(l + i <= l) /\ (l + i) - l = i
      BY <2>4
    <3> QED
      BY <2>4, <3>1, <3>2
  <2>7. \A i \in 1 .. m : Before(Last(pending), units[i])
    <3> HIDE DEF q, m, l
    <3>1. \A i \in 1 .. m : l + i \in 1 .. Len(q) /\ l < l + i /\ l \in 1 .. Len(q)
      BY <2>4
    <3>2. Strict(q)
      BY DEF PackingInOrder, q
    <3> QED
      BY <2>6, <3>1, <3>2 DEF Strict
  <2>8. Before(Last(pending), u) /\ \A v \in Range(units') : Before(Last(pending), v)
    <3>1. \A v \in Range(units) : Before(Last(pending), v)
      BY <2>2, <2>7 DEF Range
    <3>2. Range(units) = {u} \cup Range(units')
      BY <2>1, <2>2, RangeOfTail
    <3> QED
      BY <3>1, <3>2
  <2>9. Strict(r)
    <3> DEFINE t == Last_(pending, n)
    <3>1. t \in Seq(SomeUnit) /\ Len(t) = n /\ \A i \in 1 .. n : t[i] = pending[l - n + i]
      BY <2>2, LastOnes
    <3>2. /\ pending' \in Seq(SomeUnit) /\ Len(pending') = n + 1 /\ pending'[n + 1] = u
          /\ \A i \in 1 .. n : pending'[i] = t[i]
      <4>1. pending' = Append(t, u)
        BY <2>1, <2>3
      <4>2. /\ Append(t, u) \in Seq(SomeUnit) /\ Len(Append(t, u)) = Len(t) + 1
            /\ Append(t, u)[Len(t) + 1] = u /\ \A i \in 1 .. Len(t) : Append(t, u)[i] = t[i]
        <5> HIDE DEF t, u
        <5> QED
          BY <2>2, <3>1, AppendProperties
      <4> HIDE DEF t, u
      <4> QED
        BY <3>1, <4>1, <4>2
    <3>3. /\ r \in Seq(SomeUnit) /\ Len(r) = (n + 1) + (m - 1)
          /\ \A i \in 1 .. (n + 1) + (m - 1) :
                r[i] = IF i <= n + 1 THEN pending'[i] ELSE units'[i - (n + 1)]
      <4>1. /\ r \in Seq(SomeUnit) /\ Len(r) = Len(pending') + Len(units')
            /\ \A i \in 1 .. Len(pending') + Len(units') :
                  r[i] = IF i <= Len(pending') THEN pending'[i] ELSE units'[i - Len(pending')]
        BY <2>5, <3>2, ConcatProperties
      <4> HIDE DEF r, m
      <4> QED
        BY <2>5, <3>2, <4>1
    <3> HIDE DEF q, r, l, m, t, u
    <3>4. n \in Nat /\ n <= l /\ l - n \in Nat
      BY <2>4 DEF l
    <3>5. ASSUME NEW i \in 1 .. (n + 1) + (m - 1) PROVE r[i] = q[i + (l - n)]
      <4>0. i + (l - n) \in 1 .. l + m
        BY <2>4, <3>4
      <4>1. CASE i <= n
        <5>1. i \in 1 .. n /\ i <= n + 1 /\ i + (l - n) <= l /\ l - n + i = i + (l - n)
          BY <2>4, <3>4, <4>1
        <5>2. r[i] = pending'[i] /\ q[i + (l - n)] = pending[i + (l - n)]
          BY <2>4, <3>3, <4>0, <5>1
        <5> QED
          BY <3>1, <3>2, <5>1, <5>2
      <4>2. CASE i = n + 1
        <5>1. i <= n + 1 /\ i + (l - n) = l + 1 /\ ~(l + 1 <= l) /\ (l + 1) - l = 1
              /\ l + 1 \in 1 .. l + m
          BY <2>4, <3>4, <4>2
        <5>2. r[i] = u /\ q[l + 1] = units[1]
          BY <2>4, <3>2, <3>3, <4>2, <5>1
        <5> QED
          BY <2>5, <5>1, <5>2
      <4>3. CASE ~(i <= n + 1)
        <5>1. i - (n + 1) \in 1 .. m - 1 /\ ~(i + (l - n) <= l)
              /\ (i + (l - n)) - l = (i - (n + 1)) + 1
          BY <2>4, <3>4, <4>3
        <5>2. r[i] = units'[i - (n + 1)] /\ q[i + (l - n)] = units[(i + (l - n)) - l]
          BY <2>4, <3>3, <4>0, <4>3, <5>1
        <5> QED
          BY <2>5, <5>1, <5>2
      <4> QED
        BY <3>4, <4>1, <4>2, <4>3
    <3>6. Len(r) = n + m /\ Len(r) \in Nat /\ Len(q) \in Nat /\ Len(r) + (l - n) <= Len(q)
          /\ \A i \in 1 .. Len(r) : r[i] = q[i + (l - n)]
      <4>1. Len(r) = n + m /\ (n + 1) + (m - 1) = n + m
        BY <2>4, <3>3, <3>4
      <4>2. (n + m) + (l - n) = l + m
        BY <2>4, <3>4
      <4>3. \A i \in 1 .. Len(r) : r[i] = q[i + (l - n)]
        BY <3>5, <4>1
      <4>4. Len(q) = l + m /\ l \in Nat /\ m \in Nat
        BY <2>4
      <4>5. Len(r) \in Nat /\ Len(q) \in Nat
        BY <3>4, <4>1, <4>4
      <4>6. Len(r) + (l - n) <= Len(q)
        BY <4>1, <4>2, <4>4
      <4> QED
        BY <4>1, <4>3, <4>5, <4>6
    <3>7. Strict(q)
      BY DEF q, PackingInOrder
    <3> QED
      BY <3>4, <3>6, <3>7, StrictPiece
  <2>10. SecsUp(chunks') /\ PairsJoined(chunks') /\ After(chunks, TRUE)'
    BY <1>0, <2>1, OneMoreChunk DEF After
  <2>11. After(chunks, pending # <<>>)'
    <3>1. pending' # <<>>
      <4>1. Seed(pending, u) \in Seq(SomeUnit)
        BY <2>2, <2>3, LastOnes
      <4> HIDE DEF u
      <4> QED
        BY <2>1, <2>2, <4>1
    <3> QED
      BY <2>10, <3>1
  <2>12. Current'
    <3>1. chunks \in Seq(Passage) /\ c \in Passage /\ c.units = pending
      <4>1. pending \in Packed /\ todo # <<>>
        BY <2>1 DEF TypeInv, Packing
      <4> QED
        BY <4>1, ChunkTyped DEF Chunk, TypeInv, Packing
    <3>2. Last(chunks') = c
      <4> HIDE DEF c
      <4>1. Len(chunks') = Len(chunks) + 1 /\ chunks'[Len(chunks) + 1] = c
        BY <2>1, <3>1, AppendProperties
      <4> QED
        BY <4>1 DEF Last
    <3>3. Joined(pending, pending')
      <4> HIDE DEF u
      <4> QED
        BY <2>1, <2>2, <2>8, JoinedSeed
    <3> HIDE DEF c
    <3> QED
      BY <2>8, <3>1, <3>2, <3>3 DEF Current
  <2> QED
    BY <2>1, <2>9, <2>10, <2>11, <2>12 DEF PackingInOrder
<1>6. CASE EmitLast
  <2> DEFINE all == Append(chunks, Chunk(pending))
  <2>1. /\ pending # <<>> /\ units = <<>> /\ units' = <<>> /\ pending' = <<>>
        /\ \/ Len(all) >= MaxChunks /\ chunks' = SubSeq(all, 1, MaxChunks) /\ todo' = <<>>
           \/ chunks' = all /\ todo' = Tail(todo)
    BY <1>6 DEF EmitLast
  <2>2. /\ todo # <<>> /\ todo \in Seq(DOMAIN sections) /\ chunks \in Seq(Passage)
        /\ Chunk(pending) \in Passage
    <3>1. pending \in Packed /\ todo # <<>>
      BY <2>1 DEF TypeInv, Packing
    <3> QED
      BY <3>1, ChunkTyped DEF TypeInv, Packing
  <2>3. all \in Seq(Passage)
    BY <2>2
  <2>4. SecsUp(all) /\ PairsJoined(all) /\ After(all, TRUE)
    BY <1>0, <2>1, OneMoreChunk
  <2>5. <<>> \o <<>> = <<>> /\ Len(<<>>) = 0 /\ 1 .. 0 = {}
    OBVIOUS
  <2>6. Strict(pending' \o units') /\ Current'
    BY <2>1, <2>5 DEF Strict, Current
  <2> HIDE DEF all
  <2>7. CASE Len(all) >= MaxChunks /\ chunks' = SubSeq(all, 1, MaxChunks) /\ todo' = <<>>
    <3>1. SecsUp(chunks') /\ PairsJoined(chunks')
      <4>1. MaxChunks \in Nat /\ MaxChunks <= Len(all)
        BY <2>3, <2>7, ChunkingAssumption DEF ChunkingSettings
      <4> QED
        BY <2>3, <2>4, <2>7, <4>1, FirstChunks
    <3>2. Increasing(todo')
      BY <2>5, <2>7 DEF Increasing
    <3>3. Range(todo') = {}
      BY <2>7 DEF Range
    <3>4. After(chunks, pending # <<>>)'
      BY <3>3 DEF After
    <3> QED
      BY <2>6, <3>1, <3>2, <3>4 DEF PackingInOrder
  <2>8. CASE chunks' = all /\ todo' = Tail(todo)
    <3>1. Increasing(Tail(todo)) /\ \A x \in Range(Tail(todo)) : Head(todo) < x
      BY <2>2, TailIncreases DEF PackingInOrder
    <3>2. Range(todo') \subseteq Range(todo)
      BY <2>2, <2>8, RangeOfTail
    <3>3. Head(todo) \in Nat
      <4>1. Head(todo) \in DOMAIN sections
        BY <2>2
      <4> QED
        BY <4>1 DEF TypeInv, Reading
    <3>4. \A x \in Range(todo') : x # Head(todo)
      BY <2>8, <3>1, <3>3
    <3>5. After(chunks, pending # <<>>)'
      BY <2>4, <2>8, <3>2, <3>4 DEF After
    <3> QED
      BY <2>4, <2>6, <2>8, <3>1, <3>5 DEF PackingInOrder
  <2> QED
    BY <2>1, <2>7, <2>8
<1> QED
  BY <1>1, <1>2, <1>3, <1>4, <1>5, <1>6 DEF Next, ReadText, ReadHeading, EndOfPacking, Judge, Return

LEMMA NextOrdered ==
    ASSUME TypeInv, TypeInv', Ordered, [Next]_vars
    PROVE  Ordered'
<1>1. CASE Next
  <2>1. BodyInOrder' /\ PackingInOrder'
    BY <1>1, ReadingOrdered, PackingOrdered DEF Ordered, PackingInOrder
  <2> QED
    BY <2>1 DEF Ordered, PackingInOrder
<1>2. CASE UNCHANGED vars
  <2>1. PackingInOrder'
    BY <1>2, PackingUnchanged DEF vars, Ordered, PackingInOrder
  <2>2. BodyInOrder'
    BY <1>2 DEF vars, reading, Ordered, BodyInOrder
  <2> QED
    BY <2>1, <2>2 DEF Ordered, PackingInOrder
<1> QED
  BY <1>1, <1>2

\* Sections, chunks and units follow the text, and each chunk continues the one
\* before it.
THEOREM InOrder == Spec => []Ordered
<1>1. TypeInv /\ TypeInv' /\ Ordered /\ [Next]_vars => Ordered'
  BY NextOrdered
<1> QED
  BY <1>1, InitOrdered, Typed, PTL DEF Spec

\* Successive chunks of a section share the end of the one and the start of the
\* other, within the overlap, and the next goes on where the former ended.
THEOREM OverlapIsKept == Spec => []OverlapIsTail
<1>1. Ordered => OverlapIsTail
  BY DEF Ordered, PairsJoined, Joined, Shares, OverlapIsTail
<1> QED
  BY <1>1, InOrder, PTL

-----------------------------------------------------------------------------
(* A merge never joins two chunks of one section. *)

LEMMA TooMuch ==
    ASSUME NEW c \in Nat, Tokens(c) > MaxTokens
    PROVE  c >= 100 * MaxTokens + 50
<1>1. Tokens(c) \in Nat /\ MaxTokens \in Nat /\ MaxTokens >= 32
  BY TokensNat, LimitNat
<1>2. (c > 50 => 100 * Tokens(c) <= c + 50) /\ (c <= 50 => Tokens(c) <= 1)
  BY TokensNear
<1> QED
  BY <1>1, <1>2

LEMMA FewTokens ==
    ASSUME NEW c \in Nat, NEW n \in Nat, Tokens(c) <= n
    PROVE  c <= 100 * n + 50
<1>1. Tokens(c) \in Nat
  BY TokensNat
<1>2. 100 * Tokens(c) >= c - 50
  BY TokensNear
<1> QED
  BY <1>1, <1>2

\* The last judged chunk that is not noise went into the last of the result.
Covers(cs, last, e, d) ==
    /\ Cost(cs[e].units) <= Cost(last.units)
    /\ \A n \in last.secs, m \in cs[e].secs : n <= m
    /\ \A i \in e + 1 .. d : Count(cs[i].units) < NOISE_FLOOR_TOKENS

Judged ==
    phase = "judging" =>
        LET d == Len(chunks) - Len(rest)
        IN /\ d >= 0 /\ \A i \in 1 .. Len(rest) : rest[i] = chunks[d + i]
           /\ merged # <<>> => \E e \in 1 .. d : Covers(chunks, Last(merged), e, d)

\* The costs of chunks, of the last of the result, and of a merge.
LEMMA CostsOfChunks ==
    ASSUME TypeInv
    PROVE  /\ \A i \in 1 .. Len(chunks) :
                 /\ chunks[i] \in Passage /\ chunks[i].units \in Seq(SomeUnit)
                 /\ Cost(chunks[i].units) \in Nat /\ Count(chunks[i].units) \in Nat
           /\ \A i \in 1 .. Len(chunks) : merged # <<>> =>
                 /\ Last(merged).units \in Seq(SomeUnit) /\ Cost(Last(merged).units) \in Nat
                 /\ Cost(Union(Last(merged), chunks[i]).units)
                      = Cost(Last(merged).units) + Cost(chunks[i].units)
<1>1. ASSUME NEW c \in Passage
      PROVE  c.units \in Seq(SomeUnit) /\ Cost(c.units) \in Nat /\ Count(c.units) \in Nat
  <2>1. c.units \in Seq(SomeUnit)
    BY PackedIsFitting, FittingIsUnit DEF Passage
  <2> QED
    BY <2>1, CostsTyped
<1>2. \A i \in 1 .. Len(chunks) : chunks[i] \in Passage
  BY DEF TypeInv, Packing
<1>3. merged # <<>> => Last(merged) \in Passage
  BY RangeOfFront DEF TypeInv, Judging
<1>4. ASSUME NEW i \in 1 .. Len(chunks), merged # <<>>
      PROVE  Cost(Union(Last(merged), chunks[i]).units)
               = Cost(Last(merged).units) + Cost(chunks[i].units)
  <2>1. Union(Last(merged), chunks[i]).units = Last(merged).units \o chunks[i].units
    BY DEF Union
  <2>2. Last(merged).units \in Seq(SomeUnit) /\ chunks[i].units \in Seq(SomeUnit)
    BY <1>1, <1>2, <1>3, <1>4
  <2> QED
    BY <2>1, <2>2, CostConcat
<1> QED
  BY <1>1, <1>2, <1>3, <1>4

LEMMA NextJudged ==
    ASSUME TypeInv, Ordered, Judged, [Next]_vars
    PROVE  Judged'
<1>1. CASE EndOfPacking
  <2>1. rest' = chunks /\ chunks' = chunks /\ merged' = merged /\ merged = <<>>
    BY <1>1 DEF EndOfPacking, packing, TypeInv, Untouched
  <2>2. Len(chunks) \in Nat
    BY DEF TypeInv, Packing
  <2>3. Len(chunks') - Len(rest') = 0 /\ \A i \in 1 .. Len(rest') : 0 + i = i
    BY <2>1, <2>2
  <2> QED
    BY <2>1, <2>3 DEF Judged
<1>2. CASE Judge
  <2> DEFINE c == Head(rest)
             both == Union(Last(merged), c)
  <2>1. /\ rest # <<>> /\ rest' = Tail(rest) /\ chunks' = chunks /\ phase = "judging"
    BY <1>2 DEF Judge, packing
  <2>2. PICK d \in Nat :
          /\ d = Len(chunks) - Len(rest) /\ \A i \in 1 .. Len(rest) : rest[i] = chunks[d + i]
          /\ merged # <<>> => \E e \in 1 .. d : Covers(chunks, Last(merged), e, d)
          /\ Len(rest) \in Nat \ {0} /\ Len(chunks) \in Nat /\ d + Len(rest) = Len(chunks)
    <3> DEFINE k == Len(chunks) - Len(rest)
    <3>1. Len(rest) \in Nat \ {0} /\ Len(chunks) \in Nat
      BY <2>1 DEF TypeInv, Judging, Packing
    <3>2. k >= 0 /\ (\A i \in 1 .. Len(rest) : rest[i] = chunks[k + i])
          /\ (merged # <<>> => \E e \in 1 .. k : Covers(chunks, Last(merged), e, k))
      BY <2>1 DEF Judged
    <3>3. k \in Nat /\ k + Len(rest) = Len(chunks)
      BY <3>1, <3>2
    <3> QED
      BY <3>1, <3>2, <3>3
  <2>3. /\ Len(chunks') - Len(rest') = d + 1
        /\ \A i \in 1 .. Len(rest') : rest'[i] = chunks'[(d + 1) + i]
    <3>1. Len(rest') = Len(rest) - 1 /\ \A i \in 1 .. Len(rest) - 1 : rest'[i] = rest[i + 1]
      BY <2>1 DEF TypeInv, Judging
    <3>2. \A i \in 1 .. Len(rest) - 1 : i + 1 \in 1 .. Len(rest) /\ d + (i + 1) = (d + 1) + i
      BY <2>2
    <3>3. Len(chunks) - (Len(rest) - 1) = d + 1
      BY <2>2
    <3> QED
      BY <2>1, <2>2, <3>1, <3>2, <3>3
  <2>4. c = chunks[d + 1] /\ d + 1 \in 1 .. Len(chunks)
    <3>1. c = rest[1]
      BY <2>1 DEF TypeInv, Judging
    <3>2. 1 \in 1 .. Len(rest) /\ d + 1 \in 1 .. Len(chunks)
      BY <2>2
    <3> QED
      BY <2>2, <3>1, <3>2
  <2>5. PICK n \in Nat : c.secs = {n}
    BY <2>4 DEF Ordered, SecsUp
  <2>6. /\ c.units \in Seq(SomeUnit) /\ Cost(c.units) \in Nat /\ Count(c.units) \in Nat
        /\ c \in Passage
        /\ merged # <<>> => /\ Last(merged).units \in Seq(SomeUnit)
                            /\ Cost(Last(merged).units) \in Nat
                            /\ Cost(both.units) = Cost(Last(merged).units) + Cost(c.units)
    <3> QED
      BY <2>4, CostsOfChunks
  <2>7. \/ merged' = Append(merged, c)
        \/ merged' = merged /\ ~KeepsSmall(c)
        \/ Merges(c) /\ merged' = Append(Front(merged), both)
    BY <1>2 DEF Judge
  <2>12. merged # <<>> => Front(merged) \in Seq(Passage)
    BY RangeOfFront DEF TypeInv, Judging
  <2>13. merged \in Seq(Passage)
    BY DEF TypeInv, Judging
  <2> HIDE DEF c, both
  <2>11. ASSUME NEW e \in 1 .. d + 1, Covers(chunks', Last(merged'), e, d + 1) \/ merged' = <<>>
         PROVE  Judged'
    <3>0. d + 1 \in Int /\ Len(chunks') - Len(rest') = d + 1
      BY <2>2, <2>3
    <3>1. PICK k \in Int : k = d + 1 /\ k = Len(chunks') - Len(rest')
      BY <3>0
    <3>2. /\ k >= 0 /\ \A i \in 1 .. Len(rest') : rest'[i] = chunks'[k + i]
          /\ e \in 1 .. k /\ (Covers(chunks', Last(merged'), e, k) \/ merged' = <<>>)
      BY <2>2, <2>3, <2>11, <3>1
    <3> QED
      BY <3>1, <3>2 DEF Judged
  <2>8. CASE merged' = Append(merged, c)
    <3>1. Last(merged') = c
      <4>1. Len(merged') = Len(merged) + 1 /\ merged'[Len(merged) + 1] = c
        BY <2>6, <2>8, <2>13, AppendProperties
      <4> QED
        BY <4>1 DEF Last
    <3>2. Covers(chunks', Last(merged'), d + 1, d + 1)
      <4>1. \A i \in (d + 1) + 1 .. d + 1 : FALSE
        BY <2>2
      <4>2. chunks'[d + 1] = c
        BY <2>1, <2>4
      <4> QED
        BY <2>5, <2>6, <3>1, <4>1, <4>2 DEF Covers
    <3>3. d + 1 \in 1 .. d + 1
      BY <2>2
    <3> QED
      BY <2>11, <3>2, <3>3
  <2>9. CASE merged' = merged /\ ~KeepsSmall(c)
    <3>1. Count(c.units) < NOISE_FLOOR_TOKENS
      BY <2>6, <2>9 DEF KeepsSmall, NOISE_FLOOR_TOKENS, ABSOLUTE_MIN_TOKENS
    <3>2. ASSUME NEW e \in 1 .. d, Covers(chunks, Last(merged), e, d)
          PROVE  Covers(chunks', Last(merged'), e, d + 1) /\ e \in 1 .. d + 1
      <4>1. \A i \in e + 1 .. d + 1 : i = d + 1 \/ i \in e + 1 .. d
        BY <2>2
      <4>2. \A i \in e + 1 .. d + 1 : Count(chunks[i].units) < NOISE_FLOOR_TOKENS
        BY <2>4, <3>1, <3>2, <4>1 DEF Covers
      <4>3. e \in 1 .. d + 1
        BY <2>2
      <4> QED
        BY <2>1, <2>9, <3>2, <4>2, <4>3 DEF Covers
    <3>3. CASE merged # <<>>
      BY <2>2, <2>11, <3>2, <3>3
    <3>4. CASE merged = <<>>
      <4>1. d + 1 \in 1 .. d + 1
        BY <2>2
      <4> QED
        BY <2>9, <2>11, <3>4, <4>1
    <3> QED
      BY <3>3, <3>4
  <2>10. CASE Merges(c) /\ merged' = Append(Front(merged), both)
    <3>1. merged # <<>>
      BY <2>10 DEF Merges
    <3>2. Last(merged') = both
      <4> DEFINE S == Passage \cup {both}
      <4>1. Front(merged) \in Seq(S) /\ both \in S
        BY <2>12, <3>1
      <4> HIDE DEF S
      <4>2. Len(merged') = Len(Front(merged)) + 1 /\ merged'[Len(Front(merged)) + 1] = both
        BY <2>10, <4>1, AppendProperties
      <4> QED
        BY <4>2 DEF Last
    <3>3. PICK e \in 1 .. d : Covers(chunks, Last(merged), e, d)
      BY <2>2, <3>1
    <3>4. PICK m \in Nat : chunks[e].secs = {m}
      <4>1. e \in 1 .. Len(chunks)
        BY <2>2
      <4> QED
        BY <4>1 DEF Ordered, SecsUp
    <3>5. m <= n
      <4>1. e \in 1 .. Len(chunks) /\ e < d + 1
        BY <2>2
      <4> QED
        BY <2>4, <2>5, <3>4, <4>1 DEF Ordered, SecsUp
    <3>6. Last(merged).secs \subseteq Nat /\ \A k \in Last(merged).secs : k <= m
      <4>1. Last(merged) \in Passage
        BY <2>13, <3>1, RangeOfFront
      <4> QED
        BY <3>3, <3>4, <4>1 DEF Covers, Passage
    <3>7. \A k \in both.secs : k <= n
      <4>1. both.secs = Last(merged).secs \cup {n}
        BY <2>5 DEF both, Union
      <4> QED
        BY <3>5, <3>6, <4>1
    <3>8. Cost(c.units) <= Cost(both.units)
      BY <2>6, <3>1
    <3>9. Covers(chunks', Last(merged'), d + 1, d + 1)
      <4>1. \A i \in (d + 1) + 1 .. d + 1 : FALSE
        BY <2>2
      <4>2. chunks'[d + 1] = c
        BY <2>1, <2>4
      <4> QED
        BY <2>5, <3>2, <3>7, <3>8, <4>1, <4>2 DEF Covers
    <3>10. d + 1 \in 1 .. d + 1
      BY <2>2
    <3> QED
      BY <2>11, <3>9, <3>10
  <2> QED
    BY <2>7, <2>8, <2>9, <2>10
<1>3. CASE UNCHANGED vars
  BY <1>3 DEF vars, packing, judging, Judged, Covers
<1>4. ASSUME NEW line \in Lines, ReadText(line) \/ ReadHeading(line) PROVE Judged'
  BY <1>4 DEF ReadText, ReadHeading, Judged
<1>5. CASE EndOfText \/ StartSection \/ AddUnit \/ EmitAndCarry \/ EmitLast \/ Return
  BY <1>5 DEF EndOfText, StartSection, AddUnit, EmitAndCarry, EmitLast, Return, Judged
<1> QED
  BY <1>1, <1>2, <1>3, <1>4, <1>5 DEF Next

\* Two chunks of one section that follow each other would not fit together,
\* and a noisy one between two others is too small to have kept them apart.
LEMMA NeighboursDoNotMerge ==
    ASSUME TypeInv, Ordered, Judged, phase = "judging", rest # <<>>, Merges(Head(rest))
    PROVE  Last(merged).secs \cap Head(rest).secs = {}
<1> DEFINE d == Len(chunks) - Len(rest)
           c == Head(rest)
           cost(i) == Cost(chunks[i].units)
<1>1. /\ d \in Nat /\ \A i \in 1 .. Len(rest) : rest[i] = chunks[d + i]
      /\ Len(rest) \in Nat \ {0} /\ Len(chunks) \in Nat /\ d + Len(rest) = Len(chunks)
  <2>1. Len(rest) \in Nat \ {0} /\ Len(chunks) \in Nat
    BY DEF TypeInv, Judging, Packing
  <2>2. d >= 0 /\ (\A i \in 1 .. Len(rest) : rest[i] = chunks[d + i])
    BY DEF Judged
  <2>3. d \in Nat /\ d + Len(rest) = Len(chunks)
    BY <2>1, <2>2
  <2> QED
    BY <2>1, <2>2, <2>3
<1>2. merged # <<>> /\ Count(Union(Last(merged), c).units) <= MaxTokens
  BY DEF Merges
<1>3. PICK e \in 1 .. d : Covers(chunks, Last(merged), e, d)
  BY <1>2 DEF Judged
<1>4. c = chunks[d + 1] /\ d + 1 \in 1 .. Len(chunks)
  <2>1. c = rest[1]
    BY DEF TypeInv, Judging
  <2> HIDE DEF d
  <2>2. 1 \in 1 .. Len(rest) /\ d + 1 \in 1 .. Len(chunks)
    BY <1>1
  <2> QED
    BY <1>1, <2>1, <2>2
<1> HIDE DEF d, c
<1> SUFFICES ASSUME NEW n \in Last(merged).secs, n \in c.secs PROVE FALSE
  BY DEF c
<1>5. n \in Nat /\ c.secs = {n}
  BY <1>4 DEF Ordered, SecsUp
<1>6. ASSUME NEW i \in e .. d + 1 PROVE chunks[i].secs = {n} /\ i \in 1 .. Len(chunks)
  <2>1. e \in 1 .. Len(chunks) /\ i \in 1 .. Len(chunks)
    BY <1>1, <1>4
  <2>2. PICK m \in Nat, k \in Nat : chunks[e].secs = {m} /\ chunks[i].secs = {k}
    BY <2>1 DEF Ordered, SecsUp
  <2>3. n <= m
    BY <1>3, <2>2 DEF Covers
  <2>4. m <= k /\ k <= n
    <3>1. i = e => m = k
      BY <2>2
    <3>2. i # e => m <= k
      <4>1. i # e => e < i
        OBVIOUS
      <4> QED
        BY <2>1, <2>2, <4>1 DEF Ordered, SecsUp
    <3>3. i = d + 1 => k = n
      BY <1>4, <1>5, <2>2
    <3>4. i # d + 1 => k <= n
      <4>1. i # d + 1 => i < d + 1
        BY <1>1
      <4> QED
        BY <1>4, <1>5, <2>1, <2>2, <4>1 DEF Ordered, SecsUp
    <3> QED
      BY <1>5, <2>2, <3>1, <3>2, <3>3, <3>4
  <2> QED
    BY <1>5, <2>1, <2>2, <2>3, <2>4
<1>7. \A i \in 1 .. Len(chunks) : cost(i) \in Nat /\ Count(chunks[i].units) = Tokens(cost(i))
  BY CostsOfChunks DEF Count
<1>8. ASSUME NEW i \in e .. d PROVE cost(i) + cost(i + 1) >= 100 * MaxTokens + 50
  <2>1. i \in e .. d + 1 /\ i + 1 \in e .. d + 1
    BY <1>1
  <2>2. chunks[i].secs = chunks[i + 1].secs /\ i \in 1 .. Len(chunks) /\ i + 1 \in 1 .. Len(chunks)
    BY <1>6, <2>1
  <2>3. i \in 1 .. Len(chunks) - 1
    BY <1>1, <2>2
  <2>4. Tokens(cost(i) + cost(i + 1)) > MaxTokens
    BY <2>2, <2>3 DEF Ordered, PairsJoined, Joined
  <2>5. cost(i) + cost(i + 1) \in Nat
    BY <1>7, <2>2
  <2> HIDE DEF cost
  <2> QED
    BY <2>4, <2>5, TooMuch
<1>9. ASSUME NEW i \in e + 1 .. d PROVE cost(i) <= 1150
  <2>1. i \in 1 .. Len(chunks)
    BY <1>1
  <2>2. Tokens(cost(i)) < 12 /\ cost(i) \in Nat
    BY <1>3, <1>7, <2>1 DEF Covers, NOISE_FLOOR_TOKENS
  <2> HIDE DEF cost
  <2>3. Tokens(cost(i)) \in Nat
    BY <2>2, TokensNat
  <2>4. Tokens(cost(i)) <= 11
    BY <2>2, <2>3
  <2> QED
    BY <2>2, <2>4, FewTokens
<1>10. cost(e) + cost(d + 1) <= 100 * MaxTokens + 50
  <2> DEFINE l == Cost(Last(merged).units)
  <2>1. e \in 1 .. Len(chunks)
    BY <1>1
  <2>2. l \in Nat /\ cost(e) <= l /\ Cost(Union(Last(merged), c).units) = l + cost(d + 1)
    BY <1>2, <1>3, <1>4, CostsOfChunks DEF Covers
  <2>3. Tokens(l + cost(d + 1)) <= MaxTokens
    BY <1>2, <2>2 DEF Count
  <2>4. cost(e) \in Nat /\ cost(d + 1) \in Nat
    BY <1>4, <1>7, <2>1
  <2> HIDE DEF l, cost
  <2>5. l + cost(d + 1) \in Nat /\ MaxTokens \in Nat
    BY <2>2, <2>4, LimitNat
  <2>6. l + cost(d + 1) <= 100 * MaxTokens + 50
    BY <2>3, <2>5, FewTokens
  <2> QED
    BY <2>2, <2>4, <2>5, <2>6
<1>11. CASE e = d
  <2>1. Tokens(cost(d) + cost(d + 1)) > MaxTokens
    <3>1. d \in e .. d + 1 /\ d + 1 \in e .. d + 1 /\ d \in 1 .. Len(chunks) - 1
      BY <1>1, <1>4, <1>11
    <3>2. chunks[d].secs = chunks[d + 1].secs
      BY <1>6, <3>1
    <3> QED
      BY <3>1, <3>2 DEF Ordered, PairsJoined, Joined
  <2> DEFINE l == Cost(Last(merged).units)
  <2>2. l \in Nat /\ cost(d) <= l /\ Cost(Union(Last(merged), c).units) = l + cost(d + 1)
    BY <1>2, <1>3, <1>4, <1>11, CostsOfChunks DEF Covers
  <2>3. Tokens(l + cost(d + 1)) <= MaxTokens
    BY <1>2, <2>2 DEF Count
  <2>4. cost(d) \in Nat /\ cost(d + 1) \in Nat
    BY <1>1, <1>4, <1>7, <1>11
  <2> HIDE DEF l, cost
  <2>5. cost(d) + cost(d + 1) \in Nat /\ l + cost(d + 1) \in Nat
        /\ cost(d) + cost(d + 1) <= l + cost(d + 1)
    BY <2>2, <2>4
  <2>6. Tokens(cost(d) + cost(d + 1)) <= Tokens(l + cost(d + 1))
    BY <2>5, TokensMonotone
  <2>7. /\ Tokens(cost(d) + cost(d + 1)) \in Nat /\ Tokens(l + cost(d + 1)) \in Nat
        /\ MaxTokens \in Nat
    BY <2>5, TokensNat, LimitNat
  <2> QED
    BY <2>1, <2>3, <2>6, <2>7
<1>12. CASE e # d
  <2>1. d \in e + 1 .. d /\ d \in e .. d /\ e \in e .. d /\ MaxTokens \in Nat /\ MaxTokens >= 32
    BY <1>1, <1>12, LimitNat
  <2>2. cost(d) + cost(d + 1) >= 100 * MaxTokens + 50 /\ cost(d) <= 1150
        /\ cost(e) + cost(e + 1) >= 100 * MaxTokens + 50
    BY <1>8, <1>9, <2>1
  <2>3. cost(d) \in Nat /\ cost(d + 1) \in Nat /\ cost(e) \in Nat
    <3>1. d \in 1 .. Len(chunks) /\ e \in 1 .. Len(chunks)
      BY <1>1, <2>1
    <3> QED
      BY <1>4, <1>7, <3>1
  <2>4. CASE e + 1 = d
    <3> HIDE DEF cost
    <3>1. cost(e + 1) = cost(d)
      BY <2>4
    <3> QED
      BY <1>10, <2>1, <2>2, <2>3, <3>1
  <2>5. CASE e + 1 # d
    <3>1. d - 1 \in e + 1 .. d /\ d - 1 \in e .. d /\ (d - 1) + 1 = d /\ d - 1 \in 1 .. Len(chunks)
      BY <1>1, <2>1, <2>5
    <3>2. /\ cost(d - 1) <= 1150 /\ cost(d - 1) \in Nat
          /\ cost(d - 1) + cost(d) >= 100 * MaxTokens + 50
      BY <1>7, <1>8, <1>9, <3>1
    <3> HIDE DEF cost
    <3> QED
      BY <2>1, <2>2, <2>3, <3>2
  <2> QED
    BY <2>4, <2>5
<1> QED
  BY <1>11, <1>12

\* _consolidate only ever merges chunks of different sections of one name.
THEOREM SectionsStayApart == Spec => MergesCrossSections
<1>1. Init => Judged
  BY DEF Init, Judged
<1>2. TypeInv /\ Ordered /\ Judged /\ [Next]_vars => Judged'
  BY NextJudged
<1> DEFINE Merge == phase = "judging" /\ rest # <<>>
                    /\ Len(merged') <= Len(merged) /\ merged' # merged
                       => Last(merged).secs \cap Head(rest).secs = {}
<1>3. ASSUME TypeInv, Ordered, Judged, [Next]_vars PROVE [Merge]_vars
  <2> SUFFICES ASSUME Next, phase = "judging", rest # <<>>,
                      Len(merged') <= Len(merged), merged' # merged
               PROVE  Last(merged).secs \cap Head(rest).secs = {}
    BY <1>3
  <2>1. Judge
    BY DEF Next, ReadText, ReadHeading, EndOfText, StartSection, AddUnit, EmitAndCarry, EmitLast,
       EndOfPacking, Return
  <2>2. merged' # Append(merged, Head(rest))
    <3>1. Len(Append(merged, Head(rest))) = Len(merged) + 1 /\ Len(merged) \in Nat
      <4>1. merged \in Seq(Passage) /\ Head(rest) \in Passage
        BY <1>3 DEF TypeInv, Judging
      <4> QED
        BY <4>1, AppendProperties
    <3> QED
      BY <3>1
  <2>3. Merges(Head(rest))
    BY <2>1, <2>2 DEF Judge
  <2> QED
    BY <1>3, <2>3, NeighboursDoNotMerge
<1>4. TypeInv /\ Ordered /\ Judged /\ [Next]_vars => [Merge]_vars
  BY <1>3
<1> QED
  BY <1>1, <1>2, <1>4, Typed, InOrder, PTL DEF Spec, MergesCrossSections

=============================================================================
