------------------------ MODULE DocumentParserProofs ------------------------
(***************************************************************************)
(* What DocumentParser makes of any document, however long.                *)
(***************************************************************************)
EXTENDS DocumentParser, SequenceTheorems, WellFoundedInduction, TLAPS

(* Induction and recursion over the first natural numbers, for sets and     *)
(* functions.                                                              *)
LEMMA Induct ==
  ASSUME NEW S, 0 \in S, \A n \in Nat : n \in S => n + 1 \in S
  PROVE  Nat \subseteq S
<1> DEFINE R == OpToRel(<, Nat)
           bad == Nat \ S
<1> SUFFICES ASSUME bad # {} PROVE FALSE
  OBVIOUS
<1>1. IsWellFoundedOn(R, Nat)
  BY NatLessThanWellFounded
<1>2. PICK x \in bad : \A y \in bad : ~(<<y, x>> \in R)
  <2> HIDE DEF R
  <2> QED BY <1>1, WFMin
<1>3. x # 0 /\ x - 1 \in Nat
  OBVIOUS
<1>4. x - 1 \in bad
  BY <1>3
<1>5. <<x - 1, x>> \in R
  BY <1>3 DEF OpToRel
<1> QED BY <1>2, <1>4, <1>5

LEMMA InductTo ==
  ASSUME NEW n \in Nat, NEW S, 0 \in S, \A i \in 1..n : i - 1 \in S => i \in S
  PROVE  0..n \subseteq S
<1> DEFINE SS == {i \in Nat : i <= n => i \in S}
<1>1. 0 \in SS
  OBVIOUS
<1>2. ASSUME NEW i \in Nat, i \in SS PROVE i + 1 \in SS
  <2>1. CASE i + 1 <= n
    <3>1. i + 1 \in 1..n /\ (i + 1) - 1 = i /\ i \in S
      BY <1>2, <2>1
    <3> QED BY <3>1
  <2> QED BY <2>1
<1>3. Nat \subseteq SS
  <2> HIDE DEF SS
  <2> QED BY <1>1, <1>2, Induct
<1> QED BY <1>3

Recursive(f, n, D, d, step) ==
  f \in [0..n -> D] /\ f[0] = d /\ \A i \in 1..n : f[i] = step[i][f[i - 1]]

LEMMA Recursion ==
  ASSUME NEW n \in Nat, NEW D, NEW d \in D, NEW step \in [1..n -> [D -> D]]
  PROVE  \E f : Recursive(f, n, D, d, step)
<1> DEFINE Upto(k) == \E f : Recursive(f, k, D, d, step)
           S == {k \in 0..n : Upto(k)}
<1>1. 0 \in S
  <2> DEFINE f == [i \in 0..0 |-> d]
  <2>1. f \in [0..0 -> D] /\ f[0] = d
    OBVIOUS
  <2>2. \A i \in 1..0 : f[i] = step[i][f[i - 1]]
    OBVIOUS
  <2> HIDE DEF f
  <2>3. Upto(0) /\ 0 \in 0..n
    BY <2>1, <2>2 DEF Recursive
  <2> QED BY <2>3
<1>2. ASSUME NEW k \in 1..n, k - 1 \in S PROVE k \in S
  <2>1. PICK f : Recursive(f, k - 1, D, d, step)
    BY <1>2
  <2> USE DEF Recursive
  <2> DEFINE x == step[k][f[k - 1]]
             g == [i \in 0..k |-> IF i = k THEN x ELSE f[i]]
  <2>2. x \in D
    BY <2>1
  <2>3. g \in [0..k -> D]
    <3> HIDE DEF x
    <3>1. \A i \in 0..k : i # k => i \in 0..(k - 1)
      OBVIOUS
    <3> QED BY <2>1, <2>2, <3>1
  <2>4. g[0] = d
    BY <2>1
  <2>5. ASSUME NEW i \in 1..k PROVE g[i] = step[i][g[i - 1]]
    <3>1. i - 1 \in 0..k /\ i - 1 # k
      OBVIOUS
    <3>2. g[i - 1] = f[i - 1]
      BY <3>1
    <3>3. CASE i = k
      <4>1. g[k] = x
        <5> HIDE DEF x
        <5> QED OBVIOUS
      <4> QED BY <3>2, <3>3, <4>1
    <3>4. CASE i # k
      <4>1. i \in 1..(k - 1)
        BY <3>4
      <4> QED BY <2>1, <3>2, <3>4, <4>1
    <3> QED BY <3>3, <3>4
  <2>6. Upto(k)
    <3> HIDE DEF g
    <3> QED BY <2>3, <2>4, <2>5
  <2> QED
    <3> HIDE DEF Upto
    <3> QED BY <2>6
<1>3. 0..n \subseteq S
  <2> HIDE DEF S
  <2> QED BY <1>1, <1>2, InductTo
<1>4. n \in S
  BY <1>3
<1> QED BY <1>4
-----------------------------------------------------------------------------
(* FlattenSeq, sequence by sequence: g[k] is what the first k give. *)
Flattening(g, ss, T) ==
  /\ g \in [0..Len(ss) -> Seq(T)] /\ g[0] = <<>>
  /\ \A k \in 1..Len(ss) : g[k] = g[k - 1] \o ss[k]

Flatten(ss) ==
  CHOOSE f : f = [i \in 1..Len(ss) |-> IF i = 1 THEN ss[i] ELSE f[i - 1] \o ss[i]]

LEMMA FlattenSeqUnfolds ==
  ASSUME NEW ss
  PROVE  FlattenSeq(ss) = IF Len(ss) = 0 THEN ss ELSE Flatten(ss)[Len(ss)]
BY DEF FlattenSeq, Flatten

LEMMA FlattenSeqIs ==
  ASSUME NEW T, NEW ss \in Seq(Seq(T)), NEW g, Flattening(g, ss, T)
  PROVE  FlattenSeq(ss) = g[Len(ss)]
<1> DEFINE n == Len(ss)
<1> USE DEF Flattening
<1>1. n \in Nat
  OBVIOUS
<1>2. CASE n = 0
  <2>1. ss = <<>>
    BY <1>2
  <2> QED BY <1>2, <2>1, FlattenSeqUnfolds
<1>3. CASE n # 0
  <2> DEFINE Def(f) == [i \in 1..n |-> IF i = 1 THEN ss[i] ELSE f[i - 1] \o ss[i]]
             h == [i \in 1..n |-> g[i]]
  <2>1. h = Def(h)
    <3>1. ASSUME NEW i \in 1..n
          PROVE  h[i] = IF i = 1 THEN ss[i] ELSE h[i - 1] \o ss[i]
      <4>1. CASE i = 1
        <5>1. g[1] = <<>> \o ss[1] /\ ss[1] \in Seq(T)
          <6>1. 1 \in 1..Len(ss) /\ 1 - 1 = 0
            BY <4>1
          <6>2. g[1] = g[1 - 1] \o ss[1]
            BY <6>1
          <6>3. ss[1] \in Seq(T)
            BY <6>1, ElementOfSeq
          <6> QED BY <6>1, <6>2, <6>3
        <5>2. <<>> \o ss[1] = ss[1]
          BY <5>1, ConcatEmptySeq
        <5> QED BY <4>1, <5>1, <5>2
      <4>2. CASE i # 1
        <5>1. i - 1 \in 1..n
          BY <1>1, <4>2
        <5> QED BY <4>2, <5>1
      <4> QED BY <4>1, <4>2
    <3>2. h = [i \in 1..n |-> IF i = 1 THEN ss[i] ELSE h[i - 1] \o ss[i]]
      <4> DEFINE e == [i \in 1..n |-> IF i = 1 THEN ss[i] ELSE h[i - 1] \o ss[i]]
      <4>1. h = [i \in 1..n |-> h[i]]
        OBVIOUS
      <4>2. e = [i \in 1..n |-> e[i]]
        OBVIOUS
      <4>3. \A i \in 1..n : h[i] = e[i]
        BY <3>1
      <4> HIDE DEF h, e
      <4>4. h = e
        BY <4>1, <4>2, <4>3
      <4> QED BY <4>4 DEF e
    <3> QED BY <3>2
  <2> DEFINE f == Flatten(ss)
  <2>2. f = Def(f)
    <3> HIDE DEF h
    <3>1. \E x : x = Def(x)
      BY <2>1
    <3> QED BY <3>1 DEF Flatten
  <2> HIDE DEF f
  <2> DEFINE S == {i \in 0..n : i = 0 \/ f[i] = g[i]}
  <2>3. 0 \in S
    BY <1>1
  <2>4. ASSUME NEW i \in 1..n, i - 1 \in S PROVE i \in S
    <3>1. f[i] = IF i = 1 THEN ss[i] ELSE f[i - 1] \o ss[i]
      BY <2>2
    <3>2. h[i] = IF i = 1 THEN ss[i] ELSE h[i - 1] \o ss[i]
      BY <2>1
    <3>3. i # 1 => i - 1 \in 1..n /\ f[i - 1] = g[i - 1]
      BY <1>1, <2>4
    <3> QED BY <3>1, <3>2, <3>3
  <2>5. 0..n \subseteq S
    <3> HIDE DEF S
    <3> QED BY <1>1, <2>3, <2>4, InductTo
  <2>6. f[n] = g[n]
    <3>1. n \in S
      <4> HIDE DEF S
      <4> QED BY <1>1, <2>5
    <3> QED BY <1>3, <3>1
  <2> QED BY <1>3, <2>6, FlattenSeqUnfolds DEF f
<1> QED BY <1>2, <1>3

LEMMA FlatteningExists ==
  ASSUME NEW T, NEW ss \in Seq(Seq(T))
  PROVE  \E g : Flattening(g, ss, T) /\ FlattenSeq(ss) = g[Len(ss)]
<1> DEFINE n == Len(ss)
           step == [k \in 1..n |-> [s \in Seq(T) |-> s \o ss[k]]]
<1>1. n \in Nat
  OBVIOUS
<1>2. step \in [1..n -> [Seq(T) -> Seq(T)]]
  OBVIOUS
<1>3. PICK g : Recursive(g, n, Seq(T), <<>>, step)
  <2>1. <<>> \in Seq(T)
    BY EmptySeq
  <2> HIDE DEF step, n
  <2> QED BY <1>1, <1>2, <2>1, Recursion
<1> USE DEF Recursive
<1>4. ASSUME NEW k \in 1..n PROVE g[k] = g[k - 1] \o ss[k]
  <2>1. k - 1 \in 0..n
    BY <1>1
  <2>2. g[k - 1] \in Seq(T)
    <3> HIDE DEF n
    <3> QED BY <1>3, <2>1
  <2> QED BY <1>3, <2>2
<1>5. Flattening(g, ss, T)
  BY <1>3, <1>4 DEF Flattening
<1> QED BY <1>5, FlattenSeqIs

(* A flattening of more sequences begins with that of fewer. *)
LEMMA FlatteningOfFirst ==
  ASSUME NEW T, NEW ss \in Seq(Seq(T)), NEW g, Flattening(g, ss, T),
         NEW k \in 0..Len(ss)
  PROVE  FlattenSeq(SubSeq(ss, 1, k)) = g[k]
<1> DEFINE first == SubSeq(ss, 1, k)
           h == [i \in 0..k |-> g[i]]
<1>1. Len(ss) \in Nat /\ k \in Nat /\ 1..k \subseteq 1..Len(ss) /\ 0..k \subseteq 0..Len(ss)
  OBVIOUS
<1>2. /\ first \in Seq(Seq(T)) /\ Len(first) = k
      /\ \A i \in 1..k : first[i] = ss[i]
  <2>1. \A i \in 1..k : ss[i] \in Seq(T)
    BY <1>1
  <2> QED BY <1>1, <2>1, SubSeqProperties
<1>3. Flattening(h, first, T)
  <2> HIDE DEF first
  <2>1. h \in [0..k -> Seq(T)] /\ h[0] = <<>>
    <3>1. \A i \in 0..k : g[i] \in Seq(T)
      BY <1>1 DEF Flattening
    <3>2. 0 \in 0..k /\ g[0] = <<>>
      BY <1>1 DEF Flattening
    <3> QED BY <3>1, <3>2
  <2>2. ASSUME NEW i \in 1..k PROVE h[i] = h[i - 1] \o first[i]
    <3>1. i - 1 \in 0..k /\ i \in 0..k /\ i \in 1..Len(ss)
      BY <1>1
    <3> QED BY <1>2, <3>1 DEF Flattening
  <2> QED BY <1>2, <2>1, <2>2 DEF Flattening
<1>4. h[k] = g[k]
  BY <1>1
<1> HIDE DEF first, h
<1>5. FlattenSeq(first) = h[k]
  BY <1>2, <1>3, FlattenSeqIs
<1> QED BY <1>4, <1>5 DEF first

LEMMA FlattenAppend ==
  ASSUME NEW T, NEW ss \in Seq(Seq(T)), NEW s \in Seq(T)
  PROVE  /\ FlattenSeq(ss) \in Seq(T)
         /\ FlattenSeq(Append(ss, s)) = FlattenSeq(ss) \o s
<1> DEFINE more == Append(ss, s)
           n == Len(ss)
<1>1. PICK g : Flattening(g, ss, T) /\ FlattenSeq(ss) = g[n]
  BY FlatteningExists
<1>2. n \in Nat /\ n \in 0..n
  OBVIOUS
<1>3. /\ more \in Seq(Seq(T)) /\ Len(more) = n + 1
      /\ more[n + 1] = s /\ \A i \in 1..n : more[i] = ss[i]
  BY AppendProperties
<1>4. g[n] \in Seq(T) /\ g[n] \o s \in Seq(T)
  <2>1. g[n] \in Seq(T)
    BY <1>1, <1>2 DEF Flattening
  <2> QED BY <2>1, ConcatProperties
<1> DEFINE h == [i \in 0..(n + 1) |-> IF i = n + 1 THEN g[n] \o s ELSE g[i]]
<1>5. Flattening(h, more, T)
  <2> HIDE DEF more
  <2>1. h[0] = <<>>
    BY <1>1, <1>2 DEF Flattening
  <2>2. h \in [0..(n + 1) -> Seq(T)]
    <3>1. \A i \in 0..(n + 1) : i # n + 1 => i \in 0..n
      BY <1>2
    <3> HIDE DEF n
    <3>2. \A i \in 0..n : g[i] \in Seq(T)
      BY <1>1 DEF Flattening, n
    <3> QED BY <1>4, <3>1, <3>2
  <2>3. ASSUME NEW i \in 1..(n + 1) PROVE h[i] = h[i - 1] \o more[i]
    <3>1. i - 1 \in 0..(n + 1) /\ i - 1 # n + 1 /\ i \in 0..(n + 1)
      BY <1>2
    <3>2. h[i - 1] = g[i - 1]
      BY <3>1
    <3>3. CASE i = n + 1
      <4>1. h[i] = g[n] \o s
        <5> HIDE DEF n
        <5> QED BY <3>1, <3>3
      <4>2. i - 1 = n
        BY <1>2, <3>3
      <4>3. more[i] = s /\ h[i - 1] = g[n]
        BY <1>3, <3>2, <3>3, <4>2
      <4> QED BY <4>1, <4>3
    <3>4. CASE i # n + 1
      <4>1. i \in 1..n
        BY <1>2, <3>4
      <4>2. h[i] = g[i] /\ g[i] = g[i - 1] \o ss[i]
        BY <1>1, <3>1, <3>4, <4>1 DEF Flattening
      <4> QED BY <1>3, <3>2, <4>1, <4>2
    <3> QED BY <3>3, <3>4
  <2> QED BY <1>3, <2>1, <2>2, <2>3 DEF Flattening
<1>6. h[n + 1] = g[n] \o s
  BY <1>2
<1> HIDE DEF h, more
<1>7. FlattenSeq(more) = h[n + 1]
  BY <1>3, <1>5, FlattenSeqIs
<1> QED BY <1>1, <1>4, <1>6, <1>7 DEF more

LEMMA Joined ==
  ASSUME NEW T, NEW s \in Seq(T), NEW t \in Seq(T)
  PROVE  /\ s \o t \in Seq(T) /\ Len(s) \in Nat /\ Len(t) \in Nat
         /\ Len(s \o t) = Len(s) + Len(t)
         /\ \A i \in 1..Len(s) : (s \o t)[i] = s[i]
         /\ \A i \in 1..Len(t) : (s \o t)[Len(s) + i] = t[i]
OBVIOUS

(* Where the elements of the k-th sequence stand in the flattening. *)
LEMMA FlatteningGrows ==
  ASSUME NEW T, NEW ss \in Seq(Seq(T)), NEW g, Flattening(g, ss, T),
         NEW j \in 0..Len(ss), NEW k \in j..Len(ss)
  PROVE  /\ Len(g[j]) <= Len(g[k])
         /\ \A i \in 1..Len(g[j]) : g[k][i] = g[j][i]
<1> DEFINE n == Len(ss)
           Longer(m) == /\ Len(g[j]) <= Len(g[m])
                        /\ \A i \in 1..Len(g[j]) : g[m][i] = g[j][i]
           S == {m \in 0..n : j <= m => Longer(m)}
<1>1. n \in Nat /\ j \in Nat /\ j <= n /\ k \in 0..n /\ j <= k
  <2>1. n \in Nat
    OBVIOUS
  <2> HIDE DEF n
  <2> QED BY <2>1 DEF n
<1>2. \A m \in 0..n : g[m] \in Seq(T) /\ Len(g[m]) \in Nat
  <2> SUFFICES ASSUME NEW m \in 0..n PROVE g[m] \in Seq(T) /\ Len(g[m]) \in Nat
    OBVIOUS
  <2>1. g[m] \in Seq(T)
    BY DEF Flattening
  <2> QED BY <2>1, LenProperties
<1>3. \A m \in 0..n : m = j => Longer(m)
  BY <1>2
<1>4. ASSUME NEW m \in 1..n, m - 1 \in S PROVE m \in S
  <2>1. CASE j <= m - 1
    <3>1. Longer(m - 1) /\ m - 1 \in 0..n /\ m \in 0..n
      BY <1>1, <1>4, <2>1
    <3> DEFINE x == g[m - 1]
               y == ss[m]
    <3>2. g[m] = x \o y /\ x \in Seq(T) /\ y \in Seq(T)
      BY <1>2, <3>1, ElementOfSeq DEF Flattening
    <3>3. Len(g[j]) \in Nat /\ Len(g[j]) <= Len(x)
      BY <1>1, <1>2, <3>1
    <3>4. \A i \in 1..Len(g[j]) : x[i] = g[j][i]
      BY <3>1
    <3> HIDE DEF x, y
    <3>5. /\ Len(x) \in Nat /\ Len(y) \in Nat /\ Len(g[m]) = Len(x) + Len(y)
          /\ \A i \in 1..Len(x) : g[m][i] = x[i]
      BY <3>2, Joined
    <3>6. Len(g[j]) <= Len(g[m])
      BY <3>3, <3>5
    <3>7. \A i \in 1..Len(g[j]) : i \in 1..Len(x)
      BY <3>3, <3>5
    <3>8. \A i \in 1..Len(g[j]) : g[m][i] = g[j][i]
      BY <3>4, <3>5, <3>7
    <3>9. Longer(m)
      BY <3>6, <3>8
    <3> HIDE DEF Longer
    <3> QED BY <3>1, <3>9
  <2>2. CASE ~(j <= m - 1)
    <3>1. m \in 0..n /\ (j <= m => m = j)
      BY <1>1, <2>2
    <3> HIDE DEF Longer
    <3> QED BY <1>3, <3>1
  <2> QED BY <2>1, <2>2
<1>5. 0 \in S
  <2>1. 0 \in 0..n /\ (j <= 0 => 0 = j)
    BY <1>1
  <2> HIDE DEF Longer
  <2> QED BY <1>3, <2>1
<1>6. k \in S
  <2> HIDE DEF S
  <2> QED BY <1>1, <1>4, <1>5, InductTo
<1> QED BY <1>1, <1>6

PlacedAt(g, ss, k, T) ==
  /\ g[k] \in Seq(T) /\ g[k - 1] \in Seq(T) /\ ss[k] \in Seq(T)
  /\ Len(g[k]) = Len(g[k - 1]) + Len(ss[k])
  /\ Len(g[k]) <= Len(g[Len(ss)])
  /\ \A i \in 1..Len(ss[k]) : g[Len(ss)][Len(g[k - 1]) + i] = ss[k][i]

LEMMA FlatteningPlaces ==
  ASSUME NEW T, NEW ss \in Seq(Seq(T)), NEW g, Flattening(g, ss, T)
  PROVE  \A k \in 1..Len(ss) : PlacedAt(g, ss, k, T)
<1> SUFFICES ASSUME NEW k \in 1..Len(ss) PROVE PlacedAt(g, ss, k, T)
  OBVIOUS
<1> DEFINE n == Len(ss)
<1>1. n \in Nat /\ k \in 0..n /\ k - 1 \in 0..n /\ n \in k..n
  OBVIOUS
<1>2. g[k] = g[k - 1] \o ss[k]
  BY DEF Flattening
<1>3. g[k] \in Seq(T) /\ g[k - 1] \in Seq(T) /\ ss[k] \in Seq(T)
  BY <1>1, ElementOfSeq DEF Flattening
<1> DEFINE x == g[k - 1]
           y == ss[k]
           a == Len(x)
           c == Len(y)
<1>4. /\ a \in Nat /\ c \in Nat /\ Len(g[k]) = a + c
      /\ \A i \in 1..c : g[k][a + i] = y[i]
  <2>1. g[k] = x \o y /\ x \in Seq(T) /\ y \in Seq(T)
    BY <1>2, <1>3
  <2> HIDE DEF x, y
  <2> QED BY <2>1, Joined
<1>5. Len(g[k]) <= Len(g[n]) /\ \A i \in 1..Len(g[k]) : g[n][i] = g[k][i]
  BY <1>1, FlatteningGrows
<1>6. ASSUME NEW i \in 1..c PROVE g[n][a + i] = ss[k][i]
  <2> HIDE DEF a, c
  <2>1. a + i \in 1..(a + c)
    BY <1>4
  <2> QED BY <1>4, <1>5, <2>1
<1> QED BY <1>3, <1>4, <1>5, <1>6 DEF PlacedAt

LEMMA FlatteningCovers ==
  ASSUME NEW T, NEW ss \in Seq(Seq(T)), NEW g, Flattening(g, ss, T),
         NEW i \in 1..Len(g[Len(ss)])
  PROVE  \E k \in 1..Len(ss) :
           /\ Len(g[k - 1]) < i /\ i <= Len(g[k])
           /\ i - Len(g[k - 1]) \in 1..Len(ss[k])
<1> DEFINE n == Len(ss)
           Stands(k) == Len(g[k - 1]) < i /\ i <= Len(g[k])
           S == {m \in 0..n : i <= Len(g[m]) => \E k \in 1..n : Stands(k)}
<1>1. n \in Nat /\ n \in 0..n
  OBVIOUS
<1>2. \A m \in 0..n : Len(g[m]) \in Nat
  BY DEF Flattening
<1>3. 0 \in S
  <2>1. g[0] = <<>> /\ Len(<<>>) = 0
    BY DEF Flattening
  <2>2. ~(i <= Len(g[0])) /\ 0 \in 0..n
    BY <1>1, <2>1
  <2> HIDE DEF Stands
  <2> QED BY <2>2
<1>4. ASSUME NEW m \in 1..n, m - 1 \in S PROVE m \in S
  <2>1. m \in 0..n /\ m - 1 \in 0..n
    BY <1>1
  <2>2. Len(g[m]) \in Nat /\ Len(g[m - 1]) \in Nat /\ i \in Nat
    BY <1>2, <2>1
  <2>3. i <= Len(g[m]) => i <= Len(g[m - 1]) \/ Stands(m)
    BY <2>2
  <2> HIDE DEF Stands
  <2> QED BY <1>4, <2>1, <2>3
<1>5. n \in S
  <2> HIDE DEF S
  <2> QED BY <1>1, <1>3, <1>4, InductTo
<1>6. i <= Len(g[n])
  BY <1>1, <1>2
<1>7. PICK k \in 1..n : Stands(k)
  <2> HIDE DEF Stands
  <2> QED BY <1>5, <1>6
<1> DEFINE x == g[k - 1]
           y == ss[k]
           a == Len(x)
           c == Len(y)
<1>8. g[k] = x \o y /\ x \in Seq(T) /\ y \in Seq(T)
  <2>1. k - 1 \in 0..Len(ss)
    BY <1>1
  <2>2. y \in Seq(T)
    BY ElementOfSeq
  <2>3. x \in Seq(T)
    BY <2>1 DEF Flattening
  <2>4. g[k] = x \o y
    BY DEF Flattening
  <2> QED BY <2>2, <2>3, <2>4
<1>9. a \in Nat /\ c \in Nat /\ Len(g[k]) = a + c
  <2> HIDE DEF x, y
  <2> QED BY <1>8, Joined
<1>10. i - a \in 1..c
  <2>1. a < i /\ i <= a + c
    BY <1>7, <1>9
  <2>2. i \in Int
    OBVIOUS
  <2> HIDE DEF a, c
  <2> QED BY <1>9, <2>1, <2>2
<1> QED BY <1>7, <1>10

-----------------------------------------------------------------------------
(* The texts T and the numbers that the markdown of a document is made of, *)
(* and what re.split can have made of its first pieces.                    *)
Plain(T) == \A x \in T : ~IsNumber(x)
Pieces(T) == T \cup {<<"slide", n>> : n \in Nat}
Part(T) == Nat \cup Seq(T)
Open(T) == {p \in Seq(Part(T)) : Len(p) # 0 /\ p[Len(p)] \in Seq(T)}

Upto(markdown) ==
  CHOOSE u : u = [i \in 0..Len(markdown) |->
                    IF i = 0 THEN <<<<>>>> ELSE AddTo(u[i - 1], markdown[i])]

LEMMA PartsUnfolds ==
  ASSUME NEW markdown
  PROVE  Parts(markdown) = Upto(markdown)[Len(markdown)]
BY DEF Parts, Upto

(* A number opens a part, a text is added to the last one.                 *)
LEMMA AddNumber ==
  ASSUME NEW T, NEW p \in Seq(Part(T)), NEW n \in Nat
  PROVE  /\ AddTo(p, <<"slide", n>>) \in Open(T)
         /\ Len(AddTo(p, <<"slide", n>>)) = Len(p) + 2
         /\ AddTo(p, <<"slide", n>>)[Len(p) + 1] = n
         /\ AddTo(p, <<"slide", n>>)[Len(p) + 2] = <<>>
         /\ \A i \in 1..Len(p) : AddTo(p, <<"slide", n>>)[i] = p[i]
<1> DEFINE q == <<n, <<>>>>
<1>1. q \in Seq(Part(T)) /\ Len(q) = 2 /\ q[1] = n /\ q[2] = <<>>
  BY DEF Part
<1>2. AddTo(p, <<"slide", n>>) = p \o q
  BY DEF AddTo, IsNumber
<1> HIDE DEF q
<1>3. /\ p \o q \in Seq(Part(T)) /\ Len(p) \in Nat
      /\ Len(p \o q) = Len(p) + 2
      /\ \A i \in 1..Len(p) : (p \o q)[i] = p[i]
      /\ \A i \in 1..2 : (p \o q)[Len(p) + i] = q[i]
  <2>1. /\ p \o q \in Seq(Part(T)) /\ Len(p) \in Nat
        /\ Len(p \o q) = Len(p) + Len(q)
        /\ \A i \in 1..Len(p) : (p \o q)[i] = p[i]
        /\ \A i \in 1..Len(q) : (p \o q)[Len(p) + i] = q[i]
    BY <1>1, Joined
  <2> QED BY <1>1, <2>1
<1>4. (p \o q)[Len(p) + 1] = n /\ (p \o q)[Len(p) + 2] = <<>>
  BY <1>1, <1>3
<1>5. <<>> \in Seq(T)
  BY EmptySeq
<1>6. p \o q \in Open(T)
  <2> DEFINE r == p \o q
  <2>1. r \in Seq(Part(T)) /\ Len(r) # 0 /\ r[Len(r)] = <<>>
    BY <1>3, <1>4
  <2> HIDE DEF r
  <2>2. r \in Open(T)
    BY <1>5, <2>1 DEF Open
  <2> QED BY <2>2 DEF r
<1> QED BY <1>2, <1>3, <1>4, <1>6

LEMMA AddText ==
  ASSUME NEW T, Plain(T), NEW p \in Open(T), NEW x \in T
  PROVE  /\ AddTo(p, x) \in Open(T) /\ Len(AddTo(p, x)) = Len(p)
         /\ \A i \in 1..(Len(p) - 1) : AddTo(p, x)[i] = p[i]
         /\ AddTo(p, x)[Len(p)] = Append(p[Len(p)], x)
<1> DEFINE n == Len(p)
           e == Append(p[n], x)
           q == [p EXCEPT ![n] = e]
<1>1. AddTo(p, x) = q
  BY DEF AddTo, Plain
<1>2. p \in Seq(Part(T)) /\ n \in Nat /\ n \in 1..n /\ p[n] \in Seq(T)
  BY DEF Open
<1>3. e \in Seq(T)
  BY <1>2, AppendProperties
<1>4. e \in Part(T)
  BY <1>3 DEF Part
<1>5. /\ q \in Seq(Part(T)) /\ Len(q) = n
      /\ \A j \in 1..n : q[j] = IF j = n THEN e ELSE p[j]
  <2> HIDE DEF e
  <2> QED BY <1>2, <1>4, ExceptSeq
<1> HIDE DEF e, q
<1>6. q[n] = e /\ \A j \in 1..(n - 1) : q[j] = p[j]
  BY <1>2, <1>5
<1>7. q \in Open(T)
  BY <1>2, <1>3, <1>5, <1>6 DEF Open
<1> QED BY <1>1, <1>5, <1>6, <1>7 DEF e

LEMMA AddPiece ==
  ASSUME NEW T, Plain(T), NEW p \in Open(T), NEW x \in Pieces(T)
  PROVE  AddTo(p, x) \in Open(T)
<1>1. CASE x \in T
  BY <1>1, AddText
<1>2. ASSUME NEW n \in Nat, x = <<"slide", n>> PROVE AddTo(p, x) \in Open(T)
  BY <1>2, AddNumber DEF Open
<1> QED BY <1>1, <1>2 DEF Pieces

LEMMA UptoAdds ==
  ASSUME NEW T, Plain(T), NEW markdown \in Seq(Pieces(T))
  PROVE  /\ Upto(markdown)[0] = <<<<>>>>
         /\ \A i \in 1..Len(markdown) :
              Upto(markdown)[i] = AddTo(Upto(markdown)[i - 1], markdown[i])
<1> DEFINE n == Len(markdown)
           Def(u) == [i \in 0..n |->
                        IF i = 0 THEN <<<<>>>> ELSE AddTo(u[i - 1], markdown[i])]
           step == [i \in 1..n |-> [p \in Open(T) |-> AddTo(p, markdown[i])]]
           first == <<<<>>>>
<1>1. n \in Nat
  OBVIOUS
<1>2. first \in Open(T)
  <2>1. <<>> \in Seq(T)
    BY EmptySeq
  <2>2. <<>> \in Part(T)
    BY <2>1 DEF Part
  <2>3. first \in Seq(Part(T)) /\ Len(first) = 1 /\ first[1] = <<>>
    BY <2>2
  <2> HIDE DEF first
  <2>4. Len(first) # 0 /\ first[Len(first)] \in Seq(T)
    BY <2>1, <2>3
  <2> QED BY <2>3, <2>4 DEF Open
<1>3. step \in [1..n -> [Open(T) -> Open(T)]]
  <2>1. \A i \in 1..n : markdown[i] \in Pieces(T)
    OBVIOUS
  <2>2. \A i \in 1..n : \A p \in Open(T) : AddTo(p, markdown[i]) \in Open(T)
    BY <2>1, AddPiece
  <2> QED BY <2>2
<1>4. PICK f : Recursive(f, n, Open(T), first, step)
  <2> HIDE DEF step, n, first
  <2> QED BY <1>1, <1>2, <1>3, Recursion
<1>5. f = Def(f)
  <2>1. f = [i \in 0..n |-> f[i]] /\ f[0] = first
    BY <1>4 DEF Recursive
  <2>2. ASSUME NEW i \in 1..n PROVE f[i] = AddTo(f[i - 1], markdown[i])
    <3>1. i - 1 \in 0..n
      BY <1>1
    <3>2. f[i - 1] \in Open(T)
      BY <1>4, <3>1 DEF Recursive
    <3> QED BY <1>4, <3>2 DEF Recursive
  <2>3. \A i \in 0..n : i # 0 => i \in 1..n
    BY <1>1
  <2>4. \A i \in 0..n :
          f[i] = IF i = 0 THEN first ELSE AddTo(f[i - 1], markdown[i])
    BY <2>1, <2>2, <2>3
  <2> QED BY <2>1, <2>4
<1> DEFINE u == Upto(markdown)
<1>6. u = Def(u)
  <2>1. \E x : x = Def(x)
    BY <1>5
  <2> QED BY <2>1 DEF Upto
<1> HIDE DEF u
<1>7. u[0] = <<<<>>>>
  BY <1>1, <1>6
<1>8. \A i \in 1..n : u[i] = AddTo(u[i - 1], markdown[i])
  <2>1. \A i \in 1..n : i \in 0..n /\ i # 0
    BY <1>1
  <2> QED BY <1>6, <2>1
<1> QED BY <1>7, <1>8 DEF u

-----------------------------------------------------------------------------
(* A presentation: p is the split of its first k slides, with s of the     *)
(* last one.                                                               *)
SplitWith(p, k, s, B, T) ==
  /\ p \in Open(T) /\ Len(p) = 2 * k + 1
  /\ k # 0 => p[2 * k] = k /\ p[2 * k + 1] = s
  /\ \A m \in 1..(k - 1) : p[2 * m] = m /\ p[2 * m + 1] = B[m]

Split(p, k, B, T) ==
  /\ p \in Open(T) /\ Len(p) = 2 * k + 1
  /\ \A m \in 1..k : p[2 * m] = m /\ p[2 * m + 1] = B[m]

LEMMA SplitOpens ==
  ASSUME NEW T, NEW B \in Seq(Seq(T)), NEW k \in 1..Len(B), NEW p,
         Split(p, k - 1, B, T)
  PROVE  SplitWith(AddTo(p, <<"slide", k>>), k, <<>>, B, T)
<1> DEFINE q == AddTo(p, <<"slide", k>>)
<1>1. k \in Nat /\ k # 0
  OBVIOUS
<1>2. p \in Open(T) /\ Len(p) = 2 * k - 1 /\ p \in Seq(Part(T))
  BY <1>1 DEF Split, Open
<1>3. /\ q \in Open(T) /\ Len(q) = Len(p) + 2 /\ q[Len(p) + 1] = k
      /\ q[Len(p) + 2] = <<>> /\ \A i \in 1..Len(p) : q[i] = p[i]
  BY <1>1, <1>2, AddNumber
<1> HIDE DEF q
<1>4. Len(p) + 1 = 2 * k /\ Len(p) + 2 = 2 * k + 1
  BY <1>1, <1>2
<1>5. \A m \in 1..(k - 1) : 2 * m \in 1..Len(p) /\ 2 * m + 1 \in 1..Len(p)
  BY <1>1, <1>2
<1>6. \A m \in 1..(k - 1) : q[2 * m] = m /\ q[2 * m + 1] = B[m]
  BY <1>3, <1>5 DEF Split
<1>7. SplitWith(q, k, <<>>, B, T)
  BY <1>3, <1>4, <1>6 DEF SplitWith
<1> QED BY <1>7 DEF q

LEMMA SplitAdds ==
  ASSUME NEW T, Plain(T), NEW B, NEW k \in Nat \ {0}, NEW p, NEW s,
         NEW x \in T, SplitWith(p, k, s, B, T)
  PROVE  SplitWith(AddTo(p, x), k, Append(s, x), B, T)
<1> DEFINE q == AddTo(p, x)
<1>1. p \in Open(T) /\ Len(p) = 2 * k + 1 /\ p[2 * k] = k /\ p[2 * k + 1] = s
  BY DEF SplitWith
<1>2. /\ q \in Open(T) /\ Len(q) = Len(p) /\ q[Len(p)] = Append(p[Len(p)], x)
      /\ \A i \in 1..(Len(p) - 1) : q[i] = p[i]
  BY <1>1, AddText
<1> HIDE DEF q
<1>3. 2 * k \in 1..(Len(p) - 1)
  BY <1>1
<1>4. \A m \in 1..(k - 1) :
        2 * m \in 1..(Len(p) - 1) /\ 2 * m + 1 \in 1..(Len(p) - 1)
  BY <1>1
<1>5. \A m \in 1..(k - 1) : q[2 * m] = m /\ q[2 * m + 1] = B[m]
  BY <1>2, <1>4 DEF SplitWith
<1>6. q[2 * k] = k /\ q[2 * k + 1] = Append(s, x)
  BY <1>1, <1>2, <1>3
<1>7. SplitWith(q, k, Append(s, x), B, T)
  BY <1>1, <1>2, <1>5, <1>6 DEF SplitWith
<1> QED BY <1>7 DEF q

LEMMA SplitCloses ==
  ASSUME NEW T, NEW B, NEW k \in Nat \ {0}, NEW p,
         SplitWith(p, k, B[k], B, T)
  PROVE  Split(p, k, B, T)
<1>1. \A m \in 1..k : m \in 1..(k - 1) \/ m = k
  OBVIOUS
<1> QED BY <1>1 DEF Split, SplitWith

(* One slide more: its number, then text by text. *)
LEMMA SlideAdded ==
  ASSUME NEW T, Plain(T), NEW B \in Seq(Seq(T)), NEW k \in 1..Len(B),
         NEW u, NEW a \in Nat, Split(u[a], k - 1, B, T),
         u[a + 1] = AddTo(u[a], <<"slide", k>>),
         \A j \in 1..Len(B[k]) : u[a + 1 + j] = AddTo(u[a + j], B[k][j])
  PROVE  Split(u[a + 1 + Len(B[k])], k, B, T)
<1> DEFINE s == B[k]
           c == Len(s)
           SoFar(j) == SplitWith(u[a + 1 + j], k, SubSeq(s, 1, j), B, T)
           S == {j \in 0..c : SoFar(j)}
<1>1. s \in Seq(T)
  BY ElementOfSeq
<1>2. c \in Nat /\ k \in Nat \ {0}
  BY <1>1
<1>3. 0 \in S
  <2>1. a + 1 + 0 = a + 1 /\ SubSeq(s, 1, 0) = <<>> /\ 0 \in 0..c
    BY <1>1, <1>2
  <2>2. SplitWith(u[a + 1], k, <<>>, B, T)
    BY SplitOpens
  <2>3. SoFar(0)
    BY <2>1, <2>2
  <2> HIDE DEF SoFar
  <2> QED BY <2>1, <2>3
<1>4. ASSUME NEW j \in 1..c, j - 1 \in S PROVE j \in S
  <2>1. a + 1 + (j - 1) = a + j /\ j \in 0..c /\ s[j] \in T
    BY <1>1, <1>2
  <2>2. SoFar(j - 1)
    <3> HIDE DEF SoFar
    <3> QED BY <1>4
  <2>3. SplitWith(u[a + j], k, SubSeq(s, 1, j - 1), B, T)
    BY <2>1, <2>2
  <2>4. SplitWith(AddTo(u[a + j], s[j]), k, Append(SubSeq(s, 1, j - 1), s[j]), B, T)
    <3> DEFINE x == s[j]
               r == SubSeq(s, 1, j - 1)
    <3> HIDE DEF s, x, r
    <3>1. x \in T /\ SplitWith(u[a + j], k, r, B, T)
      BY <2>1, <2>3 DEF x, r
    <3> QED BY <1>2, <3>1, SplitAdds DEF x, r
  <2>5. Append(SubSeq(s, 1, j - 1), s[j]) = SubSeq(s, 1, j)
    <3> HIDE DEF s, S, SoFar
    <3> QED BY <1>1, <1>2
  <2>6. u[a + 1 + j] = AddTo(u[a + j], s[j])
    <3> HIDE DEF S, SoFar
    <3> QED OBVIOUS
  <2>7. SoFar(j)
    <3> HIDE DEF s
    <3> QED BY <2>4, <2>5, <2>6
  <2> HIDE DEF SoFar
  <2> QED BY <2>1, <2>7
<1>5. c \in S
  <2> HIDE DEF S, c
  <2>1. 0..c \subseteq S
    BY <1>2, <1>3, <1>4, InductTo
  <2> QED BY <1>2, <2>1
<1>6. SubSeq(s, 1, c) = s
  BY <1>1
<1>7. SplitWith(u[a + 1 + c], k, s, B, T)
  BY <1>5, <1>6
<1> QED BY <1>2, <1>7, SplitCloses

Slides(B) == [n \in DOMAIN B |-> <<<<"slide", n>>>> \o B[n]]

Numbered(B, k) ==
  /\ Len(B[k]) \in Nat /\ Len(Slides(B)[k]) = 1 + Len(B[k])
  /\ Slides(B)[k][1] = <<"slide", k>>
  /\ \A j \in 1..Len(B[k]) : Slides(B)[k][1 + j] = B[k][j]

LEMMA SlidesAre ==
  ASSUME NEW T, NEW B \in Seq(Seq(T))
  PROVE  /\ Slides(B) \in Seq(Seq(Pieces(T))) /\ Len(Slides(B)) = Len(B)
         /\ \A k \in 1..Len(B) : Numbered(B, k)
<1> DEFINE n == Len(B)
           ss == Slides(B)
           P == Pieces(T)
<1>1. n \in Nat /\ DOMAIN B = 1..n
  OBVIOUS
<1>2. ASSUME NEW k \in 1..n
      PROVE  /\ ss[k] \in Seq(P)
             /\ Len(B[k]) \in Nat /\ Len(ss[k]) = 1 + Len(B[k])
             /\ ss[k][1] = <<"slide", k>>
             /\ \A j \in 1..Len(B[k]) : ss[k][1 + j] = B[k][j]
  <2> DEFINE x == <<"slide", k>>
             h == <<x>>
             s == B[k]
  <2>1. ss[k] = h \o s
    BY <1>1 DEF Slides
  <2>2. x \in P /\ T \subseteq P
    BY DEF Pieces
  <2>3. s \in Seq(T)
    BY ElementOfSeq
  <2> HIDE DEF x, s, P, ss
  <2>4. s \in Seq(P)
    BY <2>2, <2>3, SeqMonotonic
  <2>5. h \in Seq(P) /\ Len(h) = 1 /\ h[1] = x /\ 1 \in 1..1
    BY <2>2
  <2> HIDE DEF h
  <2>6. /\ h \o s \in Seq(P) /\ Len(s) \in Nat
        /\ Len(h \o s) = Len(h) + Len(s)
        /\ \A j \in 1..Len(h) : (h \o s)[j] = h[j]
        /\ \A j \in 1..Len(s) : (h \o s)[Len(h) + j] = s[j]
    <3>1. h \in Seq(P) /\ s \in Seq(P)
      BY <2>4, <2>5
    <3> QED BY <3>1, Joined
  <2>7. /\ ss[k] \in Seq(P) /\ Len(s) \in Nat /\ Len(ss[k]) = 1 + Len(s)
        /\ ss[k][1] = x /\ \A j \in 1..Len(s) : ss[k][1 + j] = s[j]
    BY <2>1, <2>5, <2>6
  <2> QED BY <2>7 DEF x, s
<1>3. ss = [k \in 1..n |-> ss[k]] /\ \A k \in 1..n : ss[k] \in Seq(P)
  BY <1>1, <1>2 DEF Slides
<1>4. ss \in Seq(Seq(P)) /\ Len(ss) = n
  <2> HIDE DEF ss, P
  <2> QED BY <1>1, <1>3
<1>5. \A k \in 1..n : Numbered(B, k)
  BY <1>2 DEF Numbered
<1> QED BY <1>4, <1>5

(* What re.split makes of a presentation: every slide with its number.     *)
LEMMA PartsOfSlides ==
  ASSUME NEW T, Plain(T), NEW B \in Seq(Seq(T))
  PROVE  Split(Parts(FlattenSeq(Slides(B))), Len(B), B, T)
<1> DEFINE n == Len(B)
           ss == Slides(B)
           P == Pieces(T)
           markdown == FlattenSeq(ss)
           u == Upto(markdown)
<1>1. n \in Nat /\ n \in 0..n /\ ss \in Seq(Seq(P)) /\ Len(ss) = n
  <2>1. ss \in Seq(Seq(P)) /\ Len(ss) = n
    <3> HIDE DEF ss, P
    <3> QED BY SlidesAre DEF ss, P
  <2>2. n \in Nat
    OBVIOUS
  <2> QED BY <2>1, <2>2
<1>2. PICK g : Flattening(g, ss, P) /\ markdown = g[n]
  <2> HIDE DEF ss, n, P
  <2> QED BY <1>1, FlatteningExists
<1>3. markdown \in Seq(P) /\ g[0] = <<>>
  BY <1>1, <1>2 DEF Flattening
<1>4. /\ u[0] = <<<<>>>>
      /\ \A i \in 1..Len(markdown) : u[i] = AddTo(u[i - 1], markdown[i])
  <2> HIDE DEF markdown
  <2> QED BY <1>3, UptoAdds
<1> DEFINE S == {k \in 0..n : Split(u[Len(g[k])], k, B, T)}
<1>5. 0 \in S
  <2> DEFINE e == <<>>
             first == <<e>>
  <2>1. e \in Seq(T)
    BY EmptySeq
  <2> HIDE DEF e
  <2>2. e \in Part(T)
    BY <2>1 DEF Part
  <2>3. first \in Seq(Part(T)) /\ Len(first) = 1 /\ first[1] = e
    BY <2>2
  <2> HIDE DEF first
  <2>4. Len(first) # 0 /\ first[Len(first)] \in Seq(T)
    BY <2>1, <2>3
  <2>5. first \in Open(T)
    BY <2>3, <2>4 DEF Open
  <2>6. Split(first, 0, B, T)
    BY <2>3, <2>5 DEF Split
  <2>7. Len(g[0]) = 0 /\ u[0] = first /\ 0 \in 0..n
    BY <1>1, <1>3, <1>4 DEF first, e
  <2> HIDE DEF u
  <2> QED BY <2>6, <2>7
<1>6. ASSUME NEW k \in 1..n, k - 1 \in S PROVE k \in S
  <2> DEFINE a == Len(g[k - 1])
             c == Len(B[k])
  <2>1. /\ Len(ss[k]) = 1 + c /\ c \in Nat /\ ss[k][1] = <<"slide", k>>
        /\ \A j \in 1..c : ss[k][1 + j] = B[k][j]
    <3>1. Numbered(B, k)
      BY SlidesAre
    <3> QED BY <3>1 DEF Numbered
  <2>2. /\ g[k - 1] \in Seq(P) /\ Len(g[k]) = a + Len(ss[k])
        /\ Len(g[k]) <= Len(g[n])
        /\ \A i \in 1..Len(ss[k]) : g[n][a + i] = ss[k][i]
    <3> HIDE DEF ss, P
    <3>1. \A m \in 1..Len(ss) : PlacedAt(g, ss, m, P)
      BY <1>1, <1>2, FlatteningPlaces
    <3>2. PlacedAt(g, ss, k, P)
      BY <1>1, <3>1
    <3> QED BY <1>1, <3>2 DEF PlacedAt
  <2>3. a \in Nat
    BY <2>2
  <2> HIDE DEF a, c, ss, u, markdown
  <2>4. /\ Len(g[k]) = a + 1 + c /\ a + 1 + c <= Len(markdown)
        /\ Len(markdown) \in Nat
    BY <1>2, <1>3, <2>1, <2>2, <2>3
  <2>5. markdown[a + 1] = <<"slide", k>> /\ a + 1 \in 1..Len(markdown)
    <3>1. 1 \in 1..Len(ss[k])
      BY <2>1
    <3>2. g[n][a + 1] = ss[k][1]
      BY <2>2, <3>1
    <3>3. a + 1 \in 1..Len(markdown)
      BY <2>1, <2>3, <2>4
    <3> QED BY <1>2, <2>1, <3>2, <3>3
  <2>6. u[a + 1] = AddTo(u[a], <<"slide", k>>)
    <3>1. (a + 1) - 1 = a
      BY <2>3
    <3> QED BY <1>4, <2>5, <3>1
  <2>7. ASSUME NEW j \in 1..c PROVE u[a + 1 + j] = AddTo(u[a + j], B[k][j])
    <3>1. /\ 1 + j \in 1..(1 + c) /\ a + (1 + j) = a + 1 + j
          /\ a + 1 + j \in 1..Len(markdown) /\ (a + 1 + j) - 1 = a + j
      BY <2>1, <2>3, <2>4
    <3>2. markdown[a + 1 + j] = B[k][j]
      BY <1>2, <2>1, <2>2, <3>1
    <3> QED BY <1>4, <3>1, <3>2
  <2>8. Split(u[a], k - 1, B, T)
    BY <1>6 DEF a
  <2>9. Split(u[a + 1 + c], k, B, T)
    BY <2>3, <2>6, <2>7, <2>8, SlideAdded DEF c
  <2>10. k \in 0..n
    BY <1>1
  <2> QED BY <2>4, <2>9, <2>10
<1>7. n \in S
  <2> HIDE DEF S, n
  <2>1. 0..n \subseteq S
    BY <1>1, <1>5, <1>6, InductTo
  <2> QED BY <1>1, <2>1
<1>8. Parts(markdown) = u[Len(g[n])]
  BY <1>2, PartsUnfolds
<1> QED BY <1>7, <1>8

-----------------------------------------------------------------------------
(* The page of a slide, kept if it has a text, and the rows of pages. *)
PageOf(B, k) == [number |-> k, text |-> B[k]]
Kept(B) == [k \in 1..Len(B) |-> IF B[k] # <<>> THEN <<PageOf(B, k)>> ELSE <<>>]
Page(T) == [number : Nat, text : Seq(T)]
Row(T) == [page : Nat, text : T]
OfPages(pages) == [p \in DOMAIN pages |-> OfPage(pages[p])]
OfSlides(B) == [k \in 1..Len(B) |-> OfPage(PageOf(B, k))]

LEMMA PagesOfSlides ==
  ASSUME NEW T, Plain(T), NEW B \in Seq(Seq(T))
  PROVE  SplitBySlideNumber(FlattenSeq(Slides(B))) = FlattenSeq(Kept(B))
<1> DEFINE n == Len(B)
           parts == Parts(FlattenSeq(Slides(B)))
<1>1. Split(parts, n, B, T) /\ n \in Nat
  BY PartsOfSlides
<1> HIDE DEF parts
<1>2. (Len(parts) - 1) \div 2 = n
  <2>1. Len(parts) = 2 * n + 1
    BY <1>1 DEF Split
  <2> HIDE DEF n
  <2> QED BY <1>1, <2>1
<1>3. \A k \in 1..n : parts[2 * k] = k /\ parts[2 * k + 1] = B[k]
  BY <1>1 DEF Split
<1>4. \A k \in 1..n :
        PageAt(parts, k) = IF B[k] # <<>> THEN <<PageOf(B, k)>> ELSE <<>>
  BY <1>3 DEF PageAt, PageOf
<1>5. [k \in 1..n |-> PageAt(parts, k)] = Kept(B)
  BY <1>4 DEF Kept
<1> QED BY <1>2, <1>5 DEF SplitBySlideNumber, parts

LEMMA RowsOfPage ==
  ASSUME NEW T, NEW p \in Page(T)
  PROVE  /\ OfPage(p) \in Seq(Row(T)) /\ Len(OfPage(p)) = Len(p.text)
         /\ \A i \in 1..Len(p.text) :
              OfPage(p)[i] = [page |-> p.number, text |-> p.text[i]]
<1> DEFINE s == p.text
           r == OfPage(p)
<1>1. s \in Seq(T) /\ p.number \in Nat
  BY DEF Page
<1>2. Len(s) \in Nat /\ DOMAIN s = 1..Len(s) /\ \A i \in 1..Len(s) : s[i] \in T
  <2> HIDE DEF s
  <2> QED BY <1>1
<1>3. r = [i \in 1..Len(s) |-> [page |-> p.number, text |-> s[i]]]
  BY <1>2 DEF OfPage
<1>4. \A i \in 1..Len(s) : [page |-> p.number, text |-> s[i]] \in Row(T)
  BY <1>1, <1>2 DEF Row
<1> HIDE DEF r, s
<1>5. r \in Seq(Row(T)) /\ Len(r) = Len(s)
  BY <1>2, <1>3, <1>4
<1>6. \A i \in 1..Len(s) : r[i] = [page |-> p.number, text |-> s[i]]
  BY <1>3
<1> QED BY <1>5, <1>6 DEF r, s

LEMMA RowsOfPages ==
  ASSUME NEW T, NEW pages \in Seq(Page(T))
  PROVE  /\ OfPages(pages) \in Seq(Seq(Row(T)))
         /\ Len(OfPages(pages)) = Len(pages)
         /\ FlattenSeq(OfPages(pages)) \in Seq(Row(T))
<1> DEFINE ss == OfPages(pages)
<1>1. \A p \in 1..Len(pages) : OfPage(pages[p]) \in Seq(Row(T))
  <2>1. \A p \in 1..Len(pages) : pages[p] \in Page(T)
    OBVIOUS
  <2> QED BY <2>1, RowsOfPage
<1>2. ss \in Seq(Seq(Row(T))) /\ Len(ss) = Len(pages)
  BY <1>1 DEF OfPages
<1> HIDE DEF ss
<1>3. FlattenSeq(ss) \in Seq(Row(T))
  <2>1. <<>> \in Seq(Row(T))
    BY EmptySeq
  <2> QED BY <1>2, <2>1, FlattenAppend
<1> QED BY <1>2, <1>3 DEF ss

LEMMA OnePageMore ==
  ASSUME NEW T, NEW pages \in Seq(Page(T)), NEW p \in Page(T)
  PROVE  FlattenSeq(OfPages(Append(pages, p))) =
           FlattenSeq(OfPages(pages)) \o OfPage(p)
<1> DEFINE n == Len(pages)
           more == Append(pages, p)
           ss == OfPages(pages)
           x == OfPage(p)
<1>1. /\ more \in Seq(Page(T)) /\ Len(more) = n + 1 /\ n \in Nat
      /\ more[n + 1] = p /\ \A i \in 1..n : more[i] = pages[i]
  BY AppendProperties
<1>2. /\ ss \in Seq(Seq(Row(T))) /\ Len(ss) = n
      /\ \A i \in 1..n : ss[i] = OfPage(pages[i])
  <2>1. \A i \in 1..n : ss[i] = OfPage(pages[i])
    BY DEF OfPages
  <2> QED BY <2>1, RowsOfPages
<1>3. x \in Seq(Row(T))
  BY RowsOfPage
<1>4. /\ OfPages(more) \in Seq(Seq(Row(T))) /\ Len(OfPages(more)) = n + 1
      /\ \A i \in 1..(n + 1) : OfPages(more)[i] = OfPage(more[i])
  <2> HIDE DEF more
  <2>1. DOMAIN more = 1..(n + 1)
    BY <1>1
  <2>2. \A i \in 1..(n + 1) : OfPages(more)[i] = OfPage(more[i])
    BY <2>1 DEF OfPages
  <2> QED BY <1>1, <2>2, RowsOfPages
<1> HIDE DEF more, ss, x, n
<1> DEFINE r == Append(ss, x)
<1>5. /\ r \in Seq(Seq(Row(T))) /\ Len(r) = n + 1 /\ r[n + 1] = x
      /\ \A i \in 1..n : r[i] = ss[i]
  BY <1>2, <1>3, AppendProperties
<1> HIDE DEF r
<1>6. \A i \in 1..(n + 1) : OfPages(more)[i] = r[i]
  <2>1. \A i \in 1..(n + 1) : i \in 1..n \/ i = n + 1
    BY <1>1
  <2>2. OfPages(more)[n + 1] = r[n + 1]
    BY <1>1, <1>4, <1>5 DEF x
  <2>3. \A i \in 1..n : OfPages(more)[i] = r[i]
    <3>1. SUFFICES ASSUME NEW i \in 1..n PROVE OfPages(more)[i] = r[i]
      OBVIOUS
    <3>2. i \in 1..(n + 1)
      BY <1>1
    <3>3. OfPages(more)[i] = OfPage(pages[i])
      BY <1>1, <1>4, <3>2
    <3> QED BY <1>2, <1>5, <3>3
  <2> QED BY <2>1, <2>2, <2>3
<1>7. OfPages(more) = r
  BY <1>4, <1>5, <1>6, SeqEqual
<1>8. FlattenSeq(r) = FlattenSeq(ss) \o x
  BY <1>2, <1>3, FlattenAppend DEF r
<1> QED BY <1>7, <1>8 DEF more, ss, x

LEMMA PagesKept ==
  ASSUME NEW T, NEW B \in Seq(Seq(T))
  PROVE  /\ Kept(B) \in Seq(Seq(Page(T))) /\ Len(Kept(B)) = Len(B)
         /\ \A k \in 1..Len(B) :
              /\ PageOf(B, k) \in Page(T)
              /\ Kept(B)[k] = IF B[k] # <<>> THEN <<PageOf(B, k)>> ELSE <<>>
         /\ FlattenSeq(Kept(B)) \in Seq(Page(T))
<1> DEFINE n == Len(B)
           ss == Kept(B)
<1>1. \A k \in 1..n : PageOf(B, k) \in Page(T)
  <2>1. \A k \in 1..n : B[k] \in Seq(T)
    BY ElementOfSeq
  <2> QED BY <2>1 DEF PageOf, Page
<1>2. \A k \in 1..n : ss[k] = IF B[k] # <<>> THEN <<PageOf(B, k)>> ELSE <<>>
  BY DEF Kept
<1>3. \A k \in 1..n : ss[k] \in Seq(Page(T))
  <2> HIDE DEF ss
  <2>1. ASSUME NEW k \in 1..n PROVE ss[k] \in Seq(Page(T))
    <3> DEFINE x == PageOf(B, k)
    <3>1. x \in Page(T) /\ ss[k] = IF B[k] # <<>> THEN <<x>> ELSE <<>>
      BY <1>1, <1>2
    <3> HIDE DEF x
    <3>2. <<x>> \in Seq(Page(T))
      BY <3>1
    <3> QED BY <3>1, <3>2, EmptySeq
  <2> QED BY <2>1
<1>4. ss \in Seq(Seq(Page(T))) /\ Len(ss) = n
  BY <1>3 DEF Kept
<1> HIDE DEF ss
<1>5. FlattenSeq(ss) \in Seq(Page(T))
  <2>1. <<>> \in Seq(Page(T))
    BY EmptySeq
  <2> QED BY <1>4, <2>1, FlattenAppend
<1> QED BY <1>1, <1>2, <1>4, <1>5 DEF ss

RowsAt(B, k) ==
  /\ OfSlides(B)[k] = OfPage(PageOf(B, k))
  /\ Len(OfSlides(B)[k]) = Len(B[k])
  /\ \A i \in 1..Len(B[k]) :
       OfSlides(B)[k][i] = [page |-> k, text |-> B[k][i]]

LEMMA RowsOfSlides ==
  ASSUME NEW T, NEW B \in Seq(Seq(T))
  PROVE  /\ OfSlides(B) \in Seq(Seq(Row(T))) /\ Len(OfSlides(B)) = Len(B)
         /\ \A k \in 1..Len(B) : RowsAt(B, k)
<1> DEFINE ss == OfSlides(B)
<1>1. ASSUME NEW k \in 1..Len(B)
      PROVE  /\ ss[k] = OfPage(PageOf(B, k)) /\ ss[k] \in Seq(Row(T))
             /\ Len(ss[k]) = Len(B[k])
             /\ \A i \in 1..Len(B[k]) :
                  ss[k][i] = [page |-> k, text |-> B[k][i]]
  <2> DEFINE p == PageOf(B, k)
  <2>1. p \in Page(T) /\ p.number = k /\ p.text = B[k]
    BY PagesKept DEF PageOf
  <2>2. ss[k] = OfPage(p)
    BY DEF OfSlides
  <2> HIDE DEF p, ss
  <2>3. /\ OfPage(p) \in Seq(Row(T)) /\ Len(OfPage(p)) = Len(p.text)
        /\ \A i \in 1..Len(p.text) :
             OfPage(p)[i] = [page |-> p.number, text |-> p.text[i]]
    BY <2>1, RowsOfPage
  <2> QED BY <2>1, <2>2, <2>3 DEF p
<1>2. ss \in Seq(Seq(Row(T))) /\ Len(ss) = Len(B)
  <2>1. \A k \in 1..Len(B) : OfPage(PageOf(B, k)) \in Seq(Row(T))
    BY <1>1 DEF OfSlides
  <2> QED BY <2>1 DEF OfSlides
<1>3. \A k \in 1..Len(B) : RowsAt(B, k)
  BY <1>1 DEF RowsAt
<1> QED BY <1>2, <1>3

(* A slide without a text has no row, so leaving it out changes nothing.   *)
LEMMA KeptSlidesSuffice ==
  ASSUME NEW T, NEW B \in Seq(Seq(T))
  PROVE  FlattenSeq(OfPages(FlattenSeq(Kept(B)))) = FlattenSeq(OfSlides(B))
<1> DEFINE n == Len(B)
           kept == Kept(B)
           ss == OfSlides(B)
<1>1. n \in Nat /\ n \in 0..n
  OBVIOUS
<1>2. kept \in Seq(Seq(Page(T))) /\ Len(kept) = n
  BY PagesKept
<1>3. ss \in Seq(Seq(Row(T))) /\ Len(ss) = n
  BY RowsOfSlides
<1> HIDE DEF kept, ss
<1>4. PICK g : Flattening(g, kept, Page(T)) /\ FlattenSeq(kept) = g[n]
  BY <1>2, FlatteningExists
<1>5. PICK h : Flattening(h, ss, Row(T)) /\ FlattenSeq(ss) = h[n]
  BY <1>3, FlatteningExists
<1> DEFINE Same(k) == FlattenSeq(OfPages(g[k])) = h[k]
           S == {k \in 0..n : Same(k)}
<1>6. 0 \in S
  <2>1. g[0] = <<>> /\ h[0] = <<>>
    BY <1>4, <1>5 DEF Flattening
  <2>2. OfPages(<<>>) = <<>>
    BY DEF OfPages
  <2>3. FlattenSeq(<<>>) = <<>>
    BY FlattenSeqUnfolds
  <2> QED BY <1>1, <2>1, <2>2, <2>3
<1>7. ASSUME NEW k \in 1..n, k - 1 \in S PROVE k \in S
  <2> DEFINE x == g[k - 1]
             p == PageOf(B, k)
  <2>1. k \in 0..n /\ k - 1 \in 0..n
    BY <1>1
  <2>2. x \in Seq(Page(T)) /\ FlattenSeq(OfPages(x)) = h[k - 1]
    BY <1>2, <1>4, <1>7, <2>1 DEF Flattening
  <2>3. g[k] = x \o kept[k] /\ h[k] = h[k - 1] \o ss[k]
    BY <1>2, <1>3, <1>4, <1>5 DEF Flattening
  <2>4. p \in Page(T) /\ kept[k] = IF B[k] # <<>> THEN <<p>> ELSE <<>>
    BY PagesKept DEF kept
  <2>5. ss[k] = OfPage(p) /\ Len(ss[k]) = Len(B[k]) /\ ss[k] \in Seq(Row(T))
    <3>1. ss[k] \in Seq(Row(T))
      BY <1>3, ElementOfSeq
    <3>2. RowsAt(B, k)
      BY RowsOfSlides
    <3> QED BY <3>1, <3>2 DEF RowsAt, ss, p
  <2>6. h[k - 1] \in Seq(Row(T))
    BY <1>3, <1>5, <2>1 DEF Flattening
  <2> HIDE DEF x, p
  <2>7. CASE B[k] # <<>>
    <3>1. x \o <<p>> = Append(x, p)
      BY <2>2, <2>4, AppendIsConcat
    <3>2. FlattenSeq(OfPages(Append(x, p))) = FlattenSeq(OfPages(x)) \o OfPage(p)
      BY <2>2, <2>4, OnePageMore
    <3> QED BY <2>1, <2>2, <2>3, <2>4, <2>5, <2>7, <3>1, <3>2
  <2>8. CASE B[k] = <<>>
    <3>1. ss[k] = <<>>
      BY <2>5, <2>8, EmptySeq
    <3>2. x \o <<>> = x
      BY <2>2, ConcatEmptySeq
    <3>3. h[k - 1] \o <<>> = h[k - 1]
      BY <2>6, ConcatEmptySeq
    <3> QED BY <2>1, <2>2, <2>3, <2>4, <2>8, <3>1, <3>2, <3>3
  <2> QED BY <2>7, <2>8
<1>8. n \in S
  <2> HIDE DEF S, n
  <2>1. 0..n \subseteq S
    BY <1>1, <1>6, <1>7, InductTo
  <2> QED BY <1>1, <2>1
<1> QED BY <1>4, <1>5, <1>8 DEF kept, ss

-----------------------------------------------------------------------------
TextsOf(doc) == UNION {Range(slide) : slide \in Range(doc.body)}

LEMMA DocumentIsPlain ==
  ASSUME NEW doc, IsDocument(doc)
  PROVE  doc.body \in Seq(Seq(TextsOf(doc))) /\ Plain(TextsOf(doc))
<1> DEFINE B == doc.body
           T == TextsOf(doc)
<1>1. B \in Seq(Range(B)) /\ \A s \in Range(B) : s \in Seq(Range(s))
  BY DEF IsDocument
<1>2. \A s \in Range(B) : Range(s) \subseteq T
  BY DEF TextsOf
<1>3. \A s \in Range(B) : s \in Seq(T)
  <2> HIDE DEF T, B
  <2> QED BY <1>1, <1>2, SeqMonotonic
<1>4. B \in Seq(Seq(T))
  <2> HIDE DEF T, B
  <2>1. Range(B) \subseteq Seq(T)
    BY <1>3
  <2> QED BY <1>1, <2>1, SeqMonotonic
<1>5. Plain(T)
  BY DEF IsDocument, TextsOf, Plain
<1> QED BY <1>4, <1>5

(* The slide on which the i-th text stands. *)
StandsOn(i, k, g, doc, T) ==
  /\ doc.body \in Seq(Seq(T)) /\ Flattening(g, doc.body, T)
  /\ k \in 1..Len(doc.body) /\ i \in Nat
  /\ Len(g[k - 1]) < i /\ i <= Len(g[k])

LEMMA SlideOfText ==
  ASSUME NEW T, NEW doc, NEW g, NEW k, NEW i, StandsOn(i, k, g, doc, T)
  PROVE  SlideOf(doc, i) = k
<1> USE DEF StandsOn
<1> DEFINE B == doc.body
           n == Len(B)
           On(s) == /\ i > Len(FlattenSeq(SubSeq(B, 1, s - 1)))
                    /\ i <= Len(FlattenSeq(SubSeq(B, 1, s)))
<1>1. n \in Nat /\ DOMAIN B = 1..n
  OBVIOUS
<1>2. ASSUME NEW s \in 1..n
      PROVE  On(s) <=> Len(g[s - 1]) < i /\ i <= Len(g[s])
  <2>1. s \in 0..n /\ s - 1 \in 0..n
    BY <1>1
  <2>2. FlattenSeq(SubSeq(B, 1, s)) = g[s]
    BY <2>1, FlatteningOfFirst
  <2>3. FlattenSeq(SubSeq(B, 1, s - 1)) = g[s - 1]
    BY <2>1, FlatteningOfFirst
  <2>4. Len(g[s - 1]) \in Nat
    BY <2>1 DEF Flattening
  <2> QED BY <2>2, <2>3, <2>4
<1>3. On(k)
  BY <1>2
<1>4. ASSUME NEW s \in 1..n, On(s) PROVE s = k
  <2>1. \A x, y \in 0..n : x <= y => Len(g[x]) <= Len(g[y])
    <3>1. SUFFICES ASSUME NEW x \in 0..n, NEW y \in 0..n, x <= y
                   PROVE  Len(g[x]) <= Len(g[y])
      OBVIOUS
    <3>2. y \in x..n
      BY <1>1, <3>1
    <3> QED BY <3>2, FlatteningGrows
  <2>2. \A x \in 0..n : Len(g[x]) \in Nat
    BY DEF Flattening
  <2>3. Len(g[s - 1]) < i /\ i <= Len(g[s])
    BY <1>2, <1>4
  <2>4. /\ s \in 0..n /\ s - 1 \in 0..n /\ k \in 0..n /\ k - 1 \in 0..n
        /\ (s < k => s <= k - 1) /\ (k < s => k <= s - 1)
    BY <1>1
  <2>5. ~(s < k)
    <3>1. s <= k - 1 => Len(g[s]) <= Len(g[k - 1])
      BY <2>1, <2>4
    <3>2. /\ Len(g[s]) \in Nat /\ Len(g[k - 1]) \in Nat
      BY <2>2, <2>4
    <3> QED BY <2>3, <2>4, <3>1, <3>2
  <2>6. ~(k < s)
    <3>1. k <= s - 1 => Len(g[k]) <= Len(g[s - 1])
      BY <2>1, <2>4
    <3>2. /\ Len(g[k]) \in Nat /\ Len(g[s - 1]) \in Nat
      BY <2>2, <2>4
    <3> QED BY <2>3, <2>4, <3>1, <3>2
  <2> QED BY <1>1, <2>5, <2>6
<1>5. SlideOf(doc, i) = CHOOSE s \in 1..n : On(s)
  BY <1>1 DEF SlideOf
<1> HIDE DEF On
<1>6. (CHOOSE s \in 1..n : On(s)) = k
  BY <1>3, <1>4
<1> QED BY <1>5, <1>6

AllRows(doc) == FlattenSeq(OfPages(ParseToPages(doc)))

LEMMA ChunksUnfold ==
  ASSUME NEW doc
  PROVE  Chunks(doc) = [i \in DOMAIN AllRows(doc) |->
                          [index |-> i - 1, page |-> AllRows(doc)[i].page,
                           text |-> AllRows(doc)[i].text]]
BY DEF Chunks, AllRows, OfPages

LEMMA OnePage ==
  ASSUME NEW T, NEW s \in Seq(T)
  PROVE  /\ <<[number |-> None, text |-> s]>> \in Seq(Page(T))
         /\ FlattenSeq(OfPages(<<[number |-> None, text |-> s]>>)) =
              OfPage([number |-> None, text |-> s])
<1> DEFINE p == [number |-> None, text |-> s]
           none == <<>>
<1>1. p \in Page(T)
  BY DEF Page, None
<1> HIDE DEF p
<1>2. none \in Seq(Page(T)) /\ Append(none, p) = <<p>> /\ <<p>> \in Seq(Page(T))
  BY <1>1
<1>3. OfPages(none) = <<>>
  BY DEF OfPages
<1>4. FlattenSeq(<<>>) = <<>>
  BY FlattenSeqUnfolds
<1> HIDE DEF none
<1>5. FlattenSeq(OfPages(Append(none, p))) = FlattenSeq(OfPages(none)) \o OfPage(p)
  BY <1>1, <1>2, OnePageMore
<1>6. OfPage(p) \in Seq(Row(T))
  BY <1>1, RowsOfPage
<1>7. <<>> \o OfPage(p) = OfPage(p)
  BY <1>6, ConcatEmptySeq
<1> QED BY <1>2, <1>3, <1>4, <1>5, <1>7 DEF p

(* The chunks of a document are numbered from 0. *)
LEMMA ChunksAreNumbered ==
  ASSUME NEW doc, IsDocument(doc)
  PROVE  \E n \in Nat : /\ DOMAIN Chunks(doc) = 1..n /\ Len(Chunks(doc)) = n
                        /\ \A i \in 1..n : Chunks(doc)[i].index = i - 1
<1> DEFINE B == doc.body
           T == TextsOf(doc)
           P == Pieces(T)
<1>1. B \in Seq(Seq(T)) /\ Plain(T)
  BY DocumentIsPlain
<1>2. ParseToMarkdown(doc) \in Seq(P)
  <2>1. FlattenSeq(Slides(B)) \in Seq(P)
    <3> DEFINE ss == Slides(B)
    <3>1. ss \in Seq(Seq(P))
      <4> HIDE DEF T, B
      <4> QED BY <1>1, SlidesAre
    <3>2. <<>> \in Seq(P)
      BY EmptySeq
    <3> HIDE DEF ss
    <3>3. FlattenSeq(ss) \in Seq(P)
      BY <3>1, <3>2, FlattenAppend
    <3> QED BY <3>3 DEF ss
  <2>2. FlattenSeq(B) \in Seq(P)
    <3>1. <<>> \in Seq(T)
      BY EmptySeq
    <3>2. FlattenSeq(B) \in Seq(T)
      BY <1>1, <3>1, FlattenAppend
    <3>3. T \subseteq P
      BY DEF Pieces
    <3> QED BY <3>2, <3>3, SeqMonotonic
  <2> QED BY <2>1, <2>2 DEF ParseToMarkdown, Slides
<1>3. FlattenSeq(Kept(B)) \in Seq(Page(P))
  <2>1. FlattenSeq(Kept(B)) \in Seq(Page(T))
    BY <1>1, PagesKept
  <2>2. T \subseteq P
    BY DEF Pieces
  <2>3. Page(T) \subseteq Page(P)
    <3> HIDE DEF T, P
    <3>1. \A s \in Seq(T) : s \in Seq(P)
      BY <2>2, SeqMonotonic
    <3> QED BY <3>1 DEF Page
  <2> QED BY <2>1, <2>3, SeqMonotonic
<1>4. ParseToPages(doc) \in Seq(Page(P))
  <2>1. doc.slides => SplitBySlideNumber(ParseToMarkdown(doc)) = FlattenSeq(Kept(B))
    BY <1>1, PagesOfSlides DEF ParseToMarkdown, Slides
  <2>2. <<[number |-> None, text |-> ParseToMarkdown(doc)]>> \in Seq(Page(P))
    BY <1>2, OnePage
  <2> QED BY <1>3, <2>1, <2>2 DEF ParseToPages
<1>5. AllRows(doc) \in Seq(Row(P))
  BY <1>4, RowsOfPages DEF AllRows
<1> DEFINE n == Len(AllRows(doc))
<1>6. n \in Nat /\ DOMAIN AllRows(doc) = 1..n
  <2> HIDE DEF P
  <2> QED BY <1>5
<1>7. DOMAIN Chunks(doc) = 1..n /\ \A i \in 1..n : Chunks(doc)[i].index = i - 1
  BY <1>6, ChunksUnfold
<1>8. Len(Chunks(doc)) = n
  <2> DEFINE c == Chunks(doc)
             V == {c[i] : i \in 1..n}
  <2>1. c = [i \in 1..n |-> c[i]]
    BY <1>6, ChunksUnfold
  <2>2. \A i \in 1..n : c[i] \in V
    OBVIOUS
  <2> HIDE DEF c, V, n
  <2>3. c \in [1..n -> V]
    BY <2>1, <2>2
  <2>4. Len(c) = n
    BY <1>6, <2>3
  <2> QED BY <2>4 DEF c
<1> QED BY <1>6, <1>7, <1>8

(* A document that is no presentation. *)
LEMMA PlainChunks ==
  ASSUME NEW doc, IsDocument(doc), ~doc.slides
  PROVE  Follows(Chunks(doc), doc)
<1> DEFINE T == TextsOf(doc)
           texts == Texts(doc)
           p == [number |-> None, text |-> texts]
<1>1. texts \in Seq(T)
  <2>1. doc.body \in Seq(Seq(T)) /\ <<>> \in Seq(T)
    BY DocumentIsPlain, EmptySeq
  <2> QED BY <2>1, FlattenAppend DEF Texts
<1>2. ParseToPages(doc) = <<p>>
  BY DEF ParseToPages, ParseToMarkdown, Texts
<1>3. AllRows(doc) = OfPage(p) /\ p \in Page(T)
  <2>1. FlattenSeq(OfPages(<<p>>)) = OfPage(p)
    BY <1>1, OnePage
  <2>2. p \in Page(T)
    BY <1>1 DEF Page, None
  <2> QED BY <1>2, <2>1, <2>2 DEF AllRows
<1>4. OfPage(p) = [i \in DOMAIN texts |-> [page |-> None, text |-> texts[i]]]
  BY DEF OfPage
<1>5. DOMAIN AllRows(doc) = DOMAIN texts
      /\ \A i \in DOMAIN texts : AllRows(doc)[i] = [page |-> None, text |-> texts[i]]
  BY <1>3, <1>4
<1> HIDE DEF texts
<1>6. Chunks(doc) = [i \in DOMAIN texts |->
                       [index |-> i - 1, page |-> None, text |-> texts[i]]]
  BY <1>5, ChunksUnfold
<1> QED BY <1>6 DEF Follows, texts

(* A presentation. *)
LEMMA SlideChunks ==
  ASSUME NEW doc, IsDocument(doc), doc.slides
  PROVE  Follows(Chunks(doc), doc)
<1> DEFINE T == TextsOf(doc)
           B == doc.body
           n == Len(B)
           texts == Texts(doc)
           rows == OfSlides(B)
           all == FlattenSeq(rows)
           kept == Kept(B)
<1> SUFFICES ASSUME texts # <<>>
             PROVE  Chunks(doc) = [i \in DOMAIN texts |->
                      [index |-> i - 1, page |-> SlideOf(doc, i),
                       text |-> texts[i]]]
  BY DEF Follows
<1>1. B \in Seq(Seq(T)) /\ Plain(T) /\ n \in Nat /\ n \in 0..n
  BY DocumentIsPlain
<1>2. PICK g : Flattening(g, B, T) /\ texts = g[n]
  BY <1>1, FlatteningExists DEF Texts
<1>3. rows \in Seq(Seq(Row(T))) /\ Len(rows) = n
  BY <1>1, RowsOfSlides
<1>4. PICK h : Flattening(h, rows, Row(T)) /\ all = h[n]
  <2> HIDE DEF rows
  <2> QED BY <1>3, FlatteningExists
<1>5. \A k \in 1..n : PlacedAt(g, B, k, T) /\ PlacedAt(h, rows, k, Row(T))
  <2>1. \A k \in 1..n : PlacedAt(g, B, k, T)
    BY <1>1, <1>2, FlatteningPlaces
  <2>2. \A k \in 1..n : PlacedAt(h, rows, k, Row(T))
    <3> HIDE DEF rows
    <3> QED BY <1>3, <1>4, FlatteningPlaces
  <2> QED BY <2>1, <2>2
<1>6. texts \in Seq(T) /\ Len(texts) \in Nat /\ DOMAIN texts = 1..Len(texts)
  BY <1>1, <1>2 DEF Flattening
<1>7. all \in Seq(Row(T))
  <2> HIDE DEF rows
  <2> QED BY <1>1, <1>3, <1>4 DEF Flattening
<1>8. \A k \in 1..n :
        /\ Len(rows[k]) = Len(B[k])
        /\ \A i \in 1..Len(B[k]) : rows[k][i] = [page |-> k, text |-> B[k][i]]
  <2>1. \A k \in 1..n : RowsAt(B, k)
    BY <1>1, RowsOfSlides
  <2> QED BY <2>1 DEF RowsAt
<1> HIDE DEF texts, rows, all
<1>9. \A k \in 0..n : Len(g[k]) = Len(h[k])
  <2> DEFINE S == {k \in 0..n : Len(g[k]) = Len(h[k])}
  <2>1. 0 \in S
    BY <1>1, <1>2, <1>4 DEF Flattening
  <2>2. ASSUME NEW k \in 1..n, k - 1 \in S PROVE k \in S
    <3>1. /\ Len(g[k]) = Len(g[k - 1]) + Len(B[k])
          /\ Len(h[k]) = Len(h[k - 1]) + Len(rows[k])
      <4>1. PlacedAt(g, B, k, T) /\ PlacedAt(h, rows, k, Row(T))
        BY <1>5
      <4> QED BY <4>1 DEF PlacedAt
    <3>2. k \in 0..n
      <4> HIDE DEF S, n
      <4> QED BY <1>1
    <3>3. Len(rows[k]) = Len(B[k])
      BY <1>8
    <3>4. Len(g[k - 1]) = Len(h[k - 1])
      BY <2>2
    <3> QED BY <3>1, <3>2, <3>3, <3>4
  <2>3. 0..n \subseteq S
    <3> HIDE DEF S, n
    <3> QED BY <1>1, <2>1, <2>2, InductTo
  <2> QED BY <2>3
<1>10. ASSUME NEW i \in 1..Len(texts)
       PROVE  /\ all[i] = [page |-> SlideOf(doc, i), text |-> texts[i]]
              /\ \E k \in 1..n : B[k] # <<>>
  <2>1. PICK k \in 1..n : /\ Len(g[k - 1]) < i /\ i <= Len(g[k])
                           /\ i - Len(g[k - 1]) \in 1..Len(B[k])
    BY <1>1, <1>2, FlatteningCovers
  <2> DEFINE a == Len(g[k - 1])
             j == i - a
  <2>2. a \in Nat /\ k - 1 \in 0..n /\ a + j = i
    <3>1. g[k - 1] \in Seq(T)
      BY <1>5 DEF PlacedAt
    <3> QED BY <1>1, <3>1
  <2>3. SlideOf(doc, i) = k
    <3>1. i \in Nat
      BY <1>6
    <3>2. StandsOn(i, k, g, doc, T)
      BY <1>1, <1>2, <2>1, <3>1 DEF StandsOn
    <3> HIDE DEF T
    <3> QED BY <3>2, SlideOfText
  <2>4. j \in 1..Len(B[k]) /\ Len(h[k - 1]) = a
    BY <1>9, <2>1, <2>2
  <2> HIDE DEF a, j
  <2>5. texts[a + j] = B[k][j]
    BY <1>2, <1>5, <2>4 DEF PlacedAt, a
  <2>6. all[a + j] = rows[k][j]
    <3>1. Len(rows[k]) = Len(B[k])
      BY <1>8
    <3>2. j \in 1..Len(rows[k])
      BY <2>4, <3>1
    <3>3. PlacedAt(h, rows, k, Row(T))
      BY <1>5
    <3>4. h[Len(rows)][Len(h[k - 1]) + j] = rows[k][j]
      BY <3>2, <3>3 DEF PlacedAt
    <3> QED BY <1>3, <1>4, <2>4, <3>4
  <2>7. B[k] # <<>>
    BY <2>4, EmptySeq
  <2>8. all[i] = [page |-> k, text |-> B[k][j]] /\ texts[i] = B[k][j]
    BY <1>8, <2>2, <2>4, <2>5, <2>6
  <2> QED BY <2>3, <2>7, <2>8
<1>11. Len(all) = Len(texts) /\ DOMAIN all = DOMAIN texts
  BY <1>1, <1>2, <1>4, <1>6, <1>7, <1>9
<1>12. FlattenSeq(kept) # <<>>
  <2>1. 1 \in 1..Len(texts)
    BY <1>6, EmptySeq
  <2>2. PICK k \in 1..n : B[k] # <<>>
    BY <1>10, <2>1
  <2>3. /\ kept \in Seq(Seq(Page(T))) /\ Len(kept) = n
        /\ kept[k] = <<PageOf(B, k)>>
    BY <1>1, <2>2, PagesKept
  <2>4. Len(kept[k]) = 1
    BY <2>3
  <2> HIDE DEF kept
  <2>5. PICK f : Flattening(f, kept, Page(T)) /\ FlattenSeq(kept) = f[n]
    BY <2>3, FlatteningExists
  <2>6. PlacedAt(f, kept, k, Page(T))
    BY <2>3, <2>5, FlatteningPlaces
  <2>7. Len(f[k]) >= 1 /\ Len(f[k]) <= Len(f[n]) /\ f[n] \in Seq(Page(T))
    <3>1. f[k - 1] \in Seq(Page(T)) /\ Len(f[k]) = Len(f[k - 1]) + 1
      BY <2>3, <2>4, <2>6 DEF PlacedAt
    <3>2. Len(f[k - 1]) \in Nat
      BY <3>1
    <3>3. Len(f[k]) <= Len(f[n])
      BY <2>3, <2>6 DEF PlacedAt
    <3>4. f[n] \in Seq(Page(T))
      BY <1>1, <2>3, <2>5 DEF Flattening
    <3> QED BY <3>1, <3>2, <3>3, <3>4
  <2>8. f[n] # <<>>
    BY <2>7, EmptySeq
  <2> QED BY <2>5, <2>8
<1>13. AllRows(doc) = all
  <2>1. ParseToMarkdown(doc) = FlattenSeq(Slides(B))
    BY DEF ParseToMarkdown, Slides
  <2>2. SplitBySlideNumber(ParseToMarkdown(doc)) = FlattenSeq(kept)
    BY <1>1, <2>1, PagesOfSlides
  <2>3. ParseToPages(doc) = FlattenSeq(kept)
    BY <1>12, <2>2 DEF ParseToPages
  <2>4. FlattenSeq(OfPages(FlattenSeq(kept))) = FlattenSeq(OfSlides(B))
    BY <1>1, KeptSlidesSuffice
  <2> QED BY <2>3, <2>4 DEF AllRows, all, rows
<1>14. \A i \in DOMAIN texts :
         all[i].page = SlideOf(doc, i) /\ all[i].text = texts[i]
  <2> SUFFICES ASSUME NEW i \in DOMAIN texts
               PROVE  all[i].page = SlideOf(doc, i) /\ all[i].text = texts[i]
    OBVIOUS
  <2>1. i \in 1..Len(texts)
    BY <1>6
  <2>2. all[i] = [page |-> SlideOf(doc, i), text |-> texts[i]]
    BY <1>10, <2>1
  <2> QED BY <2>2
<1> HIDE DEF kept
<1> QED BY <1>11, <1>13, <1>14, ChunksUnfold

(* Every text of every document is a chunk, in reading order, with the     *)
(* slide it stands on (file_parser.py:21-52, file_service.py:112-130).     *)
THEOREM ChunksFollowTheDocument ==
  ASSUME NEW doc, IsDocument(doc)
  PROVE  Follows(Chunks(doc), doc)
<1>1. doc.slides \in BOOLEAN
  BY DEF IsDocument
<1> QED BY <1>1, PlainChunks, SlideChunks

(* A document that is followed is carried, however its chunks are numbered. *)
LEMMA FollowersCarry ==
  ASSUME NEW chunks, NEW doc, Follows(chunks, doc)
  PROVE  Carries(chunks, doc)
BY DEF Follows, Carries
=============================================================================
