----------------------------- MODULE ListLemmas -----------------------------
(***************************************************************************)
(* What the other proofs need of numbers and of lists: that a set of       *)
(* numbers has a smallest one, with which what a recursive function        *)
(* computes is shown for every length, and what FlattenSeq makes of a list *)
(* of lists.                                                               *)
(***************************************************************************)
EXTENDS SequenceTheorems, WellFoundedInduction, TLAPS

Lists == INSTANCE SequencesExt

-----------------------------------------------------------------------------
(* The first and the last of a set of numbers exist.                         *)

\* A set of numbers that is not empty has a smallest one.
LEMMA Smallest ==
  ASSUME NEW T \in SUBSET Nat, T # {}
  PROVE  \E m \in T : \A k \in T : m <= k
<1> DEFINE R == OpToRel(<, Nat)
<1>1. IsWellFoundedOn(R, Nat)
  BY NatLessThanWellFounded
<1>2. PICK m \in T : \A k \in T : ~(<<k, m>> \in R)
  <2> HIDE DEF R
  <2> QED BY <1>1, WFMin
<1>3. ASSUME NEW k \in T PROVE m <= k
  <2>1. k \in Nat /\ m \in Nat
    OBVIOUS
  <2>2. k < m => <<k, m>> \in R
    BY <2>1 DEF OpToRel
  <2>3. ~(k < m)
    BY <1>2, <2>2
  <2> QED BY <2>1, <2>3
<1> QED BY <1>3

\* One of positions has a largest one.
LEMMA Largest ==
  ASSUME NEW n \in Nat, NEW T \in SUBSET (1..n), T # {}
  PROVE  \E m \in T : \A k \in T : k <= m
<1> DEFINE U == {n - i : i \in T}
<1>1. U \in SUBSET Nat /\ U # {}
  <2>1. \A i \in T : i \in 1..n /\ n - i \in Nat
    OBVIOUS
  <2>2. \A u \in U : u \in Nat
    BY <2>1
  <2>3. \E i \in T : n - i \in U
    OBVIOUS
  <2> QED BY <2>2, <2>3
<1>2. PICK u \in U : \A k \in U : u <= k
  BY <1>1, Smallest
<1>3. PICK m \in T : u = n - m
  OBVIOUS
<1>4. ASSUME NEW k \in T PROVE k <= m
  <2>1. n - k \in U
    OBVIOUS
  <2>2. n - m <= n - k
    BY <1>2, <1>3, <2>1
  <2> QED BY <2>2
<1> QED BY <1>4

\* g gives k numbers that grow and leave none of 1..f out.
Grows(g, k, f) == /\ \A p \in 1..k : g[p] \in 1..f
                  /\ \A p, q \in 1..k : p < q => g[p] < g[q]
                  /\ \A n \in 1..f : \E p \in 1..k : g[p] = n

\* They count from 1 to f.
LEMMA Counting ==
  ASSUME NEW k \in Nat, NEW f \in Nat, NEW g, Grows(g, k, f)
  PROVE  k = f /\ \A p \in 1..k : g[p] = p
<1>0. /\ \A p \in 1..k : g[p] \in 1..f
      /\ \A p, q \in 1..k : p < q => g[p] < g[q]
      /\ \A n \in 1..f : \E p \in 1..k : g[p] = n
  BY DEF Grows
<1> DEFINE Bad == {p \in 1..k : g[p] # p}
<1>1. Bad = {}
  <2> SUFFICES ASSUME Bad # {} PROVE FALSE
    OBVIOUS
  <2>1. PICK b \in Bad : \A p \in Bad : b <= p
    <3>1. Bad \in SUBSET Nat
      OBVIOUS
    <3> HIDE DEF Bad
    <3> QED BY <3>1, Smallest
  <2>2. b \in 1..k /\ g[b] # b /\ \A p \in 1..k : p < b => g[p] = p
    BY <2>1
  <2>3. g[b] > b
    <3>1. CASE b = 1
      BY <1>0, <2>2, <3>1
    <3>2. CASE b # 1
      <4>1. b - 1 \in 1..k /\ b - 1 < b
        BY <2>2, <3>2
      <4>2. g[b - 1] = b - 1 /\ g[b - 1] < g[b] /\ g[b] \in Nat
        BY <1>0, <2>2, <4>1
      <4> QED BY <2>2, <4>2
    <3> QED BY <3>1, <3>2
  <2>4. b \in 1..f
    BY <1>0, <2>2, <2>3
  <2>5. PICK p \in 1..k : g[p] = b
    BY <1>0, <2>4
  <2>6. ~(p < b) /\ p # b
    BY <2>2, <2>5
  <2>7. b < p
    BY <2>2, <2>6
  <2>8. g[b] < b
    BY <1>0, <2>2, <2>5, <2>7
  <2> QED BY <1>0, <2>2, <2>3, <2>8
<1>2. \A p \in 1..k : g[p] = p
  BY <1>1
<1>3. ~(f < k)
  <2> SUFFICES ASSUME f < k PROVE FALSE
    OBVIOUS
  <2>1. k \in 1..k
    OBVIOUS
  <2> QED BY <1>0, <1>2, <2>1
<1>4. ~(k < f)
  <2> SUFFICES ASSUME k < f PROVE FALSE
    OBVIOUS
  <2>1. f \in 1..f
    OBVIOUS
  <2>2. PICK p \in 1..k : g[p] = f
    BY <1>0, <2>1
  <2> QED BY <1>2, <2>2
<1> QED BY <1>2, <1>3, <1>4

-----------------------------------------------------------------------------
(* A list of lists put one behind the other.                              *)

\* g is the recursive function of FlattenSeq.
Flattens(ss, g) ==
  g = [i \in 1..Len(ss) |-> IF i = 1 THEN ss[i] ELSE g[i - 1] \o ss[i]]

\* It is, and its values are lists over S.
Flattening(S, ss, g) == /\ ss \in Seq(Seq(S)) /\ g \in [1..Len(ss) -> Seq(S)]
                        /\ Flattens(ss, g)

\* There is such a function.
LEMMA FlattenExists ==
  ASSUME NEW S, NEW ss \in Seq(Seq(S))
  PROVE  \E g \in [1..Len(ss) -> Seq(S)] : Flattens(ss, g)
<1> DEFINE n == Len(ss)
           Upto(g, m) == \A i \in 1..m : g[i] = IF i = 1 THEN ss[i] ELSE g[i - 1] \o ss[i]
           Bad == {m \in 0..n : ~\E g \in [1..m -> Seq(S)] : Upto(g, m)}
<1>1. n \in Nat /\ \A i \in 1..n : ss[i] \in Seq(S)
  OBVIOUS
<1>2. Bad = {}
  <2> SUFFICES ASSUME Bad # {} PROVE FALSE
    OBVIOUS
  <2>1. PICK b \in Bad : \A k \in Bad : b <= k
    <3>1. Bad \in SUBSET Nat
      BY <1>1
    <3> HIDE DEF Bad
    <3> QED BY <3>1, Smallest
  <2>2. b \in 0..n /\ ~\E g \in [1..b -> Seq(S)] : Upto(g, b)
    OBVIOUS
  <2>3. b # 0
    <3> SUFFICES ASSUME b = 0 PROVE FALSE
      OBVIOUS
    <3> DEFINE e == [i \in 1..b |-> <<>>]
    <3>1. e \in [1..b -> Seq(S)]
      OBVIOUS
    <3>2. Upto(e, b)
      OBVIOUS
    <3> QED BY <2>2, <3>1, <3>2
  <2>4. b - 1 \in 0..n /\ b - 1 \notin Bad
    <3>1. b - 1 \in 0..n /\ ~(b <= b - 1)
      BY <1>1, <2>2, <2>3
    <3> HIDE DEF Bad
    <3> QED BY <2>1, <3>1
  <2>5. PICK g \in [1..(b - 1) -> Seq(S)] : Upto(g, b - 1)
    BY <2>4
  <2> DEFINE f == [i \in 1..b |-> IF i < b THEN g[i]
                                  ELSE IF b = 1 THEN ss[b] ELSE g[b - 1] \o ss[b]]
  <2>6. \A i \in 1..b : f[i] \in Seq(S)
    <3> TAKE i \in 1..b
    <3>1. CASE i < b
      <4>1. i \in 1..(b - 1)
        BY <2>2, <3>1
      <4>2. f[i] = g[i]
        BY <3>1
      <4> HIDE DEF f
      <4> QED BY <4>1, <4>2
    <3>2. CASE ~(i < b)
      <4>1. f[i] = IF b = 1 THEN ss[b] ELSE g[b - 1] \o ss[b]
        BY <3>2
      <4>2. b \in 1..n /\ ss[b] \in Seq(S)
        BY <1>1, <2>2, <2>3
      <4>3. b # 1 => g[b - 1] \in Seq(S)
        BY <4>2
      <4>4. b # 1 => g[b - 1] \o ss[b] \in Seq(S)
        BY <4>2, <4>3, ConcatProperties
      <4> HIDE DEF f
      <4> QED BY <4>1, <4>2, <4>4
    <3> QED BY <3>1, <3>2
  <2>7. f \in [1..b -> Seq(S)]
    BY <2>6
  <2>8. Upto(f, b)
    <3> SUFFICES ASSUME NEW i \in 1..b
                 PROVE  f[i] = IF i = 1 THEN ss[i] ELSE f[i - 1] \o ss[i]
      OBVIOUS
    <3>0. i \in Nat /\ b \in Nat /\ (i # 1 => i - 1 \in 1..b /\ i - 1 < b)
      BY <2>2
    <3>1. i # 1 => f[i - 1] = g[i - 1]
      BY <3>0
    <3>2. CASE i < b
      <4>1. f[i] = g[i] /\ i \in 1..(b - 1)
        BY <3>0, <3>2
      <4>2. g[i] = IF i = 1 THEN ss[i] ELSE g[i - 1] \o ss[i]
        BY <2>5, <4>1
      <4> HIDE DEF f
      <4> QED BY <3>1, <4>1, <4>2
    <3>3. CASE i = b
      <4>1. f[i] = IF b = 1 THEN ss[b] ELSE g[b - 1] \o ss[b]
        BY <3>3
      <4> HIDE DEF f
      <4> QED BY <3>1, <3>3, <4>1
    <3> QED BY <3>0, <3>2, <3>3
  <2> HIDE DEF f
  <2> QED BY <2>2, <2>7, <2>8
<1>3. \E g \in [1..n -> Seq(S)] : Upto(g, n)
  <2>1. n \in 0..n /\ n \notin Bad
    <3> HIDE DEF Bad
    <3> QED BY <1>1, <1>2
  <2> QED BY <2>1
<1>4. PICK g \in [1..n -> Seq(S)] : Upto(g, n)
  BY <1>3
<1>5. g = [i \in 1..n |-> IF i = 1 THEN ss[i] ELSE g[i - 1] \o ss[i]]
  BY <1>4
<1> QED BY <1>5 DEF Flattens

\* And no other.
LEMMA FlattenOnly ==
  ASSUME NEW ss, Len(ss) \in Nat, NEW g, NEW h, Flattens(ss, g), Flattens(ss, h)
  PROVE  g = h
<1> DEFINE n == Len(ss)
           Bad == {i \in 1..n : g[i] # h[i]}
<1>1. /\ \A i \in 1..n : g[i] = IF i = 1 THEN ss[i] ELSE g[i - 1] \o ss[i]
      /\ \A i \in 1..n : h[i] = IF i = 1 THEN ss[i] ELSE h[i - 1] \o ss[i]
  BY DEF Flattens
<1>2. Bad = {}
  <2> SUFFICES ASSUME Bad # {} PROVE FALSE
    OBVIOUS
  <2>1. PICK b \in Bad : \A k \in Bad : b <= k
    <3>1. Bad \in SUBSET Nat
      OBVIOUS
    <3> HIDE DEF Bad
    <3> QED BY <3>1, Smallest
  <2>2. b \in 1..n /\ g[b] # h[b]
    OBVIOUS
  <2>3. b # 1
    BY <1>1, <2>2
  <2>4. b - 1 \in 1..n /\ b - 1 \notin Bad
    BY <2>1, <2>2, <2>3
  <2>5. g[b - 1] = h[b - 1]
    BY <2>4
  <2> QED BY <1>1, <2>2, <2>3, <2>5
<1>3. \A i \in 1..n : g[i] = h[i]
  BY <1>2
<1>4. g = [i \in 1..n |-> g[i]] /\ h = [i \in 1..n |-> h[i]]
  BY Zenon DEF Flattens
<1> QED BY <1>3, <1>4

LEMMA FlattenIsLast ==
  ASSUME NEW S, NEW ss \in Seq(Seq(S)), Len(ss) # 0,
         NEW g \in [1..Len(ss) -> Seq(S)], Flattens(ss, g)
  PROVE  Lists!FlattenSeq(ss) = g[Len(ss)]
<1> DEFINE G == CHOOSE h : h = [i \in 1..Len(ss) |-> IF i = 1 THEN ss[i] ELSE h[i - 1] \o ss[i]]
<1>1. Flattens(ss, G)
  BY DEF Flattens
<1>2. Len(ss) \in Nat
  OBVIOUS
<1>3. G = g
  <2> HIDE DEF G
  <2> QED BY <1>1, <1>2, FlattenOnly
<1>4. Lists!FlattenSeq(ss) = G[Len(ss)]
  BY DEF Lists!FlattenSeq
<1> QED BY <1>3, <1>4

\* One step of the function: what is in front stays, the next list follows.
Follows(ss, g, i) ==
  /\ i - 1 \in 1..Len(ss) /\ Len(g[i]) = Len(g[i - 1]) + Len(ss[i])
  /\ Len(g[i - 1]) \in Nat /\ Len(ss[i]) \in Nat
  /\ \A p \in 1..Len(g[i - 1]) : g[i][p] = g[i - 1][p]
  /\ \A k \in 1..Len(ss[i]) : g[i][Len(g[i - 1]) + k] = ss[i][k]

LEMMA FlattenNext ==
  ASSUME NEW S, NEW ss, NEW g, Flattening(S, ss, g), NEW i \in 1..Len(ss), i # 1
  PROVE  Follows(ss, g, i)
<1>0. /\ ss \in Seq(Seq(S)) /\ g \in [1..Len(ss) -> Seq(S)]
      /\ \A j \in 1..Len(ss) : g[j] = IF j = 1 THEN ss[j] ELSE g[j - 1] \o ss[j]
  BY DEF Flattening, Flattens
<1>1. i - 1 \in 1..Len(ss) /\ ss[i] \in Seq(S) /\ g[i - 1] \in Seq(S)
  <2>1. Len(ss) \in Nat /\ i - 1 \in 1..Len(ss)
    BY <1>0
  <2>2. ss[i] \in Seq(S)
    BY <1>0
  <2>3. g[i - 1] \in Seq(S)
    BY <1>0, <2>1
  <2> QED BY <2>1, <2>2, <2>3
<1>2. g[i] = g[i - 1] \o ss[i]
  BY <1>0
<1> DEFINE a == g[i - 1]
           b == ss[i]
<1>3. a \in Seq(S) /\ b \in Seq(S) /\ g[i] = a \o b
  BY <1>1, <1>2
<1> HIDE DEF a, b
<1>4. /\ Len(a \o b) = Len(a) + Len(b) /\ Len(a) \in Nat /\ Len(b) \in Nat
      /\ \A p \in 1..(Len(a) + Len(b)) : (a \o b)[p] = IF p <= Len(a) THEN a[p] ELSE b[p - Len(a)]
  BY <1>3, ConcatProperties
<1>5. \A p \in 1..Len(a) : (a \o b)[p] = a[p]
  BY <1>4
<1>6. \A k \in 1..Len(b) : (a \o b)[Len(a) + k] = b[k]
  <2> TAKE k \in 1..Len(b)
  <2>1. /\ Len(a) + k \in 1..(Len(a) + Len(b)) /\ ~(Len(a) + k <= Len(a))
        /\ (Len(a) + k) - Len(a) = k
    BY <1>4
  <2> QED BY <1>4, <2>1
<1> QED BY <1>1, <1>3, <1>4, <1>5, <1>6 DEF a, b, Follows

\* What the function has at one position stays in front at all later ones.
StaysInFront(ss, g, i) == \A m \in i..Len(ss) :
                            /\ Len(g[i]) <= Len(g[m])
                            /\ \A p \in 1..Len(g[i]) : g[m][p] = g[i][p]

LEMMA FlattenFront ==
  ASSUME NEW S, NEW ss, NEW g, Flattening(S, ss, g), NEW i \in 1..Len(ss)
  PROVE  StaysInFront(ss, g, i)
<1> DEFINE n == Len(ss)
           Front(m) == /\ Len(g[i]) <= Len(g[m])
                       /\ \A p \in 1..Len(g[i]) : g[m][p] = g[i][p]
           Bad == {m \in i..n : ~Front(m)}
<1>1. n \in Nat /\ i \in Nat /\ \A j \in 1..n : Len(g[j]) \in Nat
  <2>1. ss \in Seq(Seq(S)) /\ g \in [1..n -> Seq(S)]
    BY DEF Flattening
  <2> QED BY <2>1
<1>2. Bad = {}
  <2> SUFFICES ASSUME Bad # {} PROVE FALSE
    OBVIOUS
  <2>1. PICK b \in Bad : \A k \in Bad : b <= k
    <3>1. Bad \in SUBSET Nat
      BY <1>1
    <3> HIDE DEF Bad
    <3> QED BY <3>1, Smallest
  <2>2. b \in i..n /\ ~Front(b)
    OBVIOUS
  <2>3. b # i
    <3>1. Len(g[i]) \in Nat
      BY <1>1
    <3>2. Front(i)
      BY <3>1
    <3> HIDE DEF Front
    <3> QED BY <2>2, <3>2
  <2>4. b \in 1..n /\ b # 1 /\ b - 1 \in i..n /\ ~(b <= b - 1)
    BY <1>1, <2>2, <2>3
  <2>5. Front(b - 1)
    <3>1. b - 1 \notin Bad
      <4> HIDE DEF Bad
      <4> QED BY <2>1, <2>4
    <3> HIDE DEF Front
    <3> QED BY <2>4, <3>1
  <2>6. /\ Len(g[b]) = Len(g[b - 1]) + Len(ss[b])
        /\ Len(g[b - 1]) \in Nat /\ Len(ss[b]) \in Nat
        /\ \A p \in 1..Len(g[b - 1]) : g[b][p] = g[b - 1][p]
    <3>1. b \in 1..Len(ss) /\ b # 1
      BY <2>4
    <3>2. Follows(ss, g, b)
      <4> HIDE DEF Bad, Front
      <4> QED BY <3>1, FlattenNext
    <3> QED BY <3>2 DEF Follows
  <2>7. Len(g[i]) \in Nat
    BY <1>1
  <2>8. Front(b)
    <3>1. Len(g[i]) <= Len(g[b])
      <4> DEFINE x == Len(g[i])
                 y == Len(g[b - 1])
                 z == Len(ss[b])
      <4>1. x \in Nat /\ y \in Nat /\ z \in Nat /\ x <= y /\ Len(g[b]) = y + z
        BY <2>5, <2>6, <2>7
      <4>2. x <= y + z
        <5> HIDE DEF x, y, z
        <5> QED BY <4>1
      <4> QED BY <4>1, <4>2
    <3>2. ASSUME NEW p \in 1..Len(g[i]) PROVE g[b][p] = g[i][p]
      <4>1. p \in 1..Len(g[b - 1])
        BY <2>5, <2>6, <2>7
      <4> QED BY <2>5, <2>6, <4>1
    <3> QED BY <3>1, <3>2
  <2> HIDE DEF Front
  <2> QED BY <2>2, <2>8
<1> QED BY <1>2 DEF StaysInFront

\* The flattened list, by the offsets at which the lists begin in it.
Parts(S, ss, flat, off) ==
  /\ off[1] = 0 /\ \A i \in 1..Len(ss) : off[i + 1] = off[i] + Len(ss[i])
  /\ flat \in Seq(S) /\ Len(flat) = off[Len(ss) + 1]
  /\ \A i \in 1..Len(ss) : \A k \in 1..Len(ss[i]) :
       off[i] + k \in 1..Len(flat) /\ flat[off[i] + k] = ss[i][k]
  /\ \A m \in 1..Len(flat) : \E i \in 1..Len(ss) : \E k \in 1..Len(ss[i]) : m = off[i] + k

LEMMA FlattenParts ==
  ASSUME NEW S, NEW ss \in Seq(Seq(S)), Len(ss) # 0
  PROVE  \E off \in [1..(Len(ss) + 1) -> Nat] : Parts(S, ss, Lists!FlattenSeq(ss), off)
<1> DEFINE n == Len(ss)
           flat == Lists!FlattenSeq(ss)
<1>1. n \in Nat /\ n \in 1..n /\ \A i \in 1..n : ss[i] \in Seq(S) /\ Len(ss[i]) \in Nat
  OBVIOUS
<1>2. PICK g \in [1..n -> Seq(S)] : Flattens(ss, g)
  BY FlattenExists
<1>0. Flattening(S, ss, g)
  BY <1>2 DEF Flattening
<1>3. flat = g[n] /\ flat \in Seq(S)
  BY <1>1, <1>2, FlattenIsLast
<1> HIDE DEF flat
<1> DEFINE off == [i \in 1..(n + 1) |-> IF i = 1 THEN 0 ELSE Len(g[i - 1])]
<1>4. off \in [1..(n + 1) -> Nat]
  <2>1. \A i \in 1..(n + 1) : i # 1 => i - 1 \in 1..n
    BY <1>1
  <2>2. \A i \in 1..n : Len(g[i]) \in Nat
    OBVIOUS
  <2> QED BY <2>1, <2>2
<1>5. off[1] = 0 /\ \A i \in 1..n : off[i + 1] = Len(g[i])
  <2>1. 1 \in 1..(n + 1)
    BY <1>1
  <2>2. \A i \in 1..n : i + 1 \in 1..(n + 1) /\ i + 1 # 1 /\ (i + 1) - 1 = i
    BY <1>1
  <2> QED BY <2>1, <2>2
<1>6. \A i \in 1..n : i # 1 => off[i] = Len(g[i - 1])
  <2>1. \A i \in 1..n : i \in 1..(n + 1)
    BY <1>1
  <2> QED BY <2>1
<1> HIDE DEF off
<1>7. \A i \in 1..n : /\ Len(g[i]) = off[i] + Len(ss[i]) /\ off[i] \in Nat
                      /\ \A k \in 1..Len(ss[i]) : g[i][off[i] + k] = ss[i][k]
  <2> TAKE i \in 1..n
  <2>0. off[i] \in Nat
    BY <1>1, <1>4
  <2>1. CASE i = 1
    <3>1. g[1] = ss[1]
      BY <1>1, <1>2 DEF Flattens
    <3>2. off[i] = 0 /\ Len(ss[i]) \in Nat
      BY <1>1, <1>5, <2>1
    <3>3. \A k \in 1..Len(ss[i]) : 0 + k = k
      BY <3>2
    <3> QED BY <2>0, <2>1, <3>1, <3>2, <3>3
  <2>2. CASE i # 1
    <3>1. /\ Len(g[i]) = Len(g[i - 1]) + Len(ss[i])
          /\ \A k \in 1..Len(ss[i]) : g[i][Len(g[i - 1]) + k] = ss[i][k]
      <4>1. Follows(ss, g, i)
        BY <1>0, <2>2, FlattenNext
      <4> QED BY <4>1 DEF Follows
    <3>2. off[i] = Len(g[i - 1])
      BY <1>6, <2>2
    <3> QED BY <2>0, <3>1, <3>2
  <2> QED BY <2>1, <2>2
<1>8. \A i \in 1..n : Len(g[i]) <= Len(flat) /\ \A p \in 1..Len(g[i]) : flat[p] = g[i][p]
  <2> TAKE i \in 1..n
  <2>1. n \in i..n
    BY <1>1
  <2>2. \A m \in i..n : /\ Len(g[i]) <= Len(g[m])
                       /\ \A p \in 1..Len(g[i]) : g[m][p] = g[i][p]
    <3>1. StaysInFront(ss, g, i)
      BY <1>0, FlattenFront
    <3> QED BY <3>1 DEF StaysInFront
  <2> QED BY <1>3, <2>1, <2>2
<1>9. Len(flat) = off[n + 1] /\ Len(flat) \in Nat
  BY <1>1, <1>3, <1>5
<1>10. \A i \in 1..n : \A k \in 1..Len(ss[i]) :
         off[i] + k \in 1..Len(flat) /\ flat[off[i] + k] = ss[i][k]
  <2> TAKE i \in 1..n
  <2> TAKE k \in 1..Len(ss[i])
  <2>1. /\ Len(g[i]) = off[i] + Len(ss[i]) /\ off[i] \in Nat /\ Len(ss[i]) \in Nat
        /\ Len(g[i]) <= Len(flat) /\ g[i][off[i] + k] = ss[i][k]
    BY <1>1, <1>7, <1>8
  <2> DEFINE o == off[i]
             x == Len(g[i])
             y == Len(flat)
             z == Len(ss[i])
  <2>2. o + k \in 1..x /\ o + k \in 1..y
    <3>1. x = o + z /\ o \in Nat /\ z \in Nat /\ x <= y /\ y \in Nat /\ k \in 1..z
      BY <1>9, <2>1
    <3> HIDE DEF o, x, y, z
    <3> QED BY <3>1
  <2> QED BY <1>8, <2>1, <2>2
<1>11. \A m \in 1..Len(flat) : \E i \in 1..n : \E k \in 1..Len(ss[i]) : m = off[i] + k
  <2> TAKE m \in 1..Len(flat)
  <2> DEFINE T == {i \in 1..n : m <= Len(g[i])}
  <2>1. T # {} /\ T \in SUBSET Nat
    <3>1. n \in 1..n /\ m <= Len(g[n])
      BY <1>1, <1>3, <1>9
    <3>2. n \in T
      BY <3>1
    <3>3. T \in SUBSET Nat
      BY <1>1
    <3> QED BY <3>2, <3>3
  <2>2. PICK i \in T : \A j \in T : i <= j
    <3> HIDE DEF T
    <3> QED BY <2>1, Smallest
  <2>3. i \in 1..n /\ m <= Len(g[i])
    OBVIOUS
  <2>4. off[i] < m
    <3>1. CASE i = 1
      BY <1>5, <1>9, <3>1
    <3>2. CASE i # 1
      <4>1. i - 1 \in 1..n /\ ~(i <= i - 1)
        BY <1>1, <2>3, <3>2
      <4>2. i - 1 \notin T
        <5> HIDE DEF T
        <5> QED BY <2>2, <4>1
      <4>3. ~(m <= Len(g[i - 1]))
        BY <4>1, <4>2
      <4>4. off[i] = Len(g[i - 1]) /\ off[i] \in Nat /\ m \in Nat
        BY <1>6, <1>7, <1>9, <2>3, <3>2
      <4> QED BY <4>3, <4>4
    <3> QED BY <3>1, <3>2
  <2>5. /\ Len(g[i]) = off[i] + Len(ss[i]) /\ off[i] \in Nat /\ Len(ss[i]) \in Nat /\ m \in Nat
    BY <1>1, <1>7, <1>9, <2>3
  <2>6. m - off[i] \in 1..Len(ss[i]) /\ m = off[i] + (m - off[i])
    <3> DEFINE o == off[i]
               k == Len(ss[i])
    <3>1. m \in Nat /\ o \in Nat /\ k \in Nat /\ o < m /\ m <= o + k
      BY <2>3, <2>4, <2>5
    <3> HIDE DEF o, k
    <3>2. m - o \in 1..k /\ m = o + (m - o)
      BY <3>1
    <3> QED BY <3>2 DEF o, k
  <2> QED BY <2>3, <2>6
<1>12. \A i \in 1..n : off[i + 1] = off[i] + Len(ss[i])
  BY <1>5, <1>7
<1>13. Parts(S, ss, flat, off)
  BY <1>3, <1>5, <1>9, <1>10, <1>11, <1>12 DEF Parts
<1> QED BY <1>4, <1>13 DEF flat

-----------------------------------------------------------------------------
(* Lists of lists that differ at one end.                                   *)

LEMMA FlattenEmpty == Lists!FlattenSeq(<<>>) = <<>>
BY DEF Lists!FlattenSeq

LEMMA FlattenType ==
  ASSUME NEW S, NEW ss \in Seq(Seq(S))
  PROVE  Lists!FlattenSeq(ss) \in Seq(S)
<1>1. CASE Len(ss) = 0
  <2>1. ss = <<>> /\ <<>> \in Seq(S)
    BY <1>1
  <2> QED BY <2>1, FlattenEmpty
<1>2. CASE Len(ss) # 0
  <2>1. PICK g \in [1..Len(ss) -> Seq(S)] : Flattens(ss, g)
    BY FlattenExists
  <2>2. Lists!FlattenSeq(ss) = g[Len(ss)]
    BY <1>2, <2>1, FlattenIsLast
  <2>3. Len(ss) \in 1..Len(ss)
    BY <1>2
  <2> QED BY <2>2, <2>3
<1> QED BY <1>1, <1>2

\* One list more at the end.
LEMMA FlattenAppend ==
  ASSUME NEW S, NEW ss \in Seq(Seq(S)), NEW s \in Seq(S)
  PROVE  Lists!FlattenSeq(Append(ss, s)) = Lists!FlattenSeq(ss) \o s
<1> DEFINE tt == Append(ss, s)
           n == Len(ss)
<1>1. /\ tt \in Seq(Seq(S)) /\ Len(tt) = n + 1 /\ n \in Nat
      /\ \A i \in 1..n : tt[i] = ss[i]
      /\ tt[n + 1] = s
  BY AppendProperties
<1> HIDE DEF tt
<1>2. PICK g \in [1..(n + 1) -> Seq(S)] : Flattens(tt, g)
  BY <1>1, FlattenExists
<1>3. \A i \in 1..(n + 1) : g[i] = IF i = 1 THEN tt[i] ELSE g[i - 1] \o tt[i]
  BY <1>1, <1>2 DEF Flattens
<1>4. Lists!FlattenSeq(tt) = g[n + 1]
  BY <1>1, <1>2, FlattenIsLast
<1>5. CASE n = 0
  <2>1. ss = <<>>
    BY <1>5
  <2>2. g[n + 1] = s
    BY <1>1, <1>3, <1>5
  <2>3. <<>> \o s = s
    BY ConcatEmptySeq
  <2> QED BY <1>4, <2>1, <2>2, <2>3, FlattenEmpty DEF tt
<1>6. CASE n # 0
  <2> DEFINE h == [i \in 1..n |-> g[i]]
  <2>1. n + 1 \in 1..(n + 1) /\ n + 1 # 1 /\ (n + 1) - 1 = n
    BY <1>1, <1>6
  <2>2. g[n + 1] = g[n] \o s
    BY <1>1, <1>3, <2>1
  <2>3. h \in [1..n -> Seq(S)] /\ \A i \in 1..n : h[i] = g[i]
    BY <1>1
  <2>4. \A i \in 1..n : h[i] = IF i = 1 THEN ss[i] ELSE h[i - 1] \o ss[i]
    <3> TAKE i \in 1..n
    <3>1. i \in 1..(n + 1) /\ (i # 1 => i - 1 \in 1..n)
      BY <1>1
    <3> HIDE DEF h
    <3> QED BY <1>1, <1>3, <2>3, <3>1
  <2>5. h = [i \in 1..n |-> h[i]]
    OBVIOUS
  <2> HIDE DEF h
  <2>6. h = [i \in 1..n |-> IF i = 1 THEN ss[i] ELSE h[i - 1] \o ss[i]]
    BY <2>4, <2>5
  <2>7. Flattens(ss, h)
    BY <2>6 DEF Flattens
  <2>8. Lists!FlattenSeq(ss) = h[n]
    BY <1>6, <2>3, <2>7, FlattenIsLast
  <2>9. h[n] = g[n]
    BY <1>1, <1>6, <2>3
  <2> QED BY <1>4, <2>2, <2>8, <2>9 DEF tt
<1> QED BY <1>5, <1>6

\* Concatenation may be bracketed either way.
Associates(x, y, z) == (x \o y) \o z = x \o (y \o z)

LEMMA Associative ==
  ASSUME NEW S, NEW x \in Seq(S), NEW y \in Seq(S), NEW z \in Seq(S)
  PROVE  Associates(x, y, z)
BY ConcatAssociative DEF Associates

\* One list more in front.
LEMMA FlattenBehind ==
  ASSUME NEW S, NEW ss \in Seq(Seq(S)), NEW tt \in Seq(Seq(S)),
         Len(ss) = Len(tt) + 1, \A i \in 1..Len(tt) : ss[i + 1] = tt[i]
  PROVE  Lists!FlattenSeq(ss) = ss[1] \o Lists!FlattenSeq(tt)
<1> DEFINE n == Len(tt)
<1>0. n \in Nat /\ Len(ss) = n + 1 /\ 1 \in 1..(n + 1)
  OBVIOUS
<1>1. PICK g \in [1..(n + 1) -> Seq(S)] : Flattens(ss, g)
  BY FlattenExists
<1>2. \A i \in 1..(n + 1) : g[i] = IF i = 1 THEN ss[i] ELSE g[i - 1] \o ss[i]
  BY <1>1 DEF Flattens
<1>3. Lists!FlattenSeq(ss) = g[n + 1] /\ g[1] = ss[1] /\ ss[1] \in Seq(S)
  <2>1. Len(ss) # 0 /\ g \in [1..Len(ss) -> Seq(S)]
    BY <1>0
  <2>2. Lists!FlattenSeq(ss) = g[Len(ss)]
    BY <1>1, <2>1, FlattenIsLast
  <2>3. ss[1] \in Seq(S)
    BY <1>0
  <2> QED BY <1>0, <1>2, <2>2, <2>3
<1>4. CASE n = 0
  <2>1. tt = <<>>
    BY <1>4
  <2>2. ss[1] \o <<>> = ss[1]
    BY <1>3, ConcatEmptySeq
  <2> QED BY <1>3, <1>4, <2>1, <2>2, FlattenEmpty
<1>5. CASE n # 0
  <2>1. PICK h \in [1..n -> Seq(S)] : Flattens(tt, h)
    BY FlattenExists
  <2>2. \A i \in 1..n : h[i] = IF i = 1 THEN tt[i] ELSE h[i - 1] \o tt[i]
    BY <2>1 DEF Flattens
  <2>3. Lists!FlattenSeq(tt) = h[n] /\ n \in 1..n
    <3>1. Lists!FlattenSeq(tt) = h[Len(tt)]
      BY <1>5, <2>1, FlattenIsLast
    <3> QED BY <1>0, <1>5, <3>1
  <2> DEFINE Bad == {i \in 1..n : g[i + 1] # ss[1] \o h[i]}
  <2>4. Bad = {}
    <3> SUFFICES ASSUME Bad # {} PROVE FALSE
      OBVIOUS
    <3>1. PICK b \in Bad : \A k \in Bad : b <= k
      <4>1. Bad \in SUBSET Nat
        BY <1>0
      <4> HIDE DEF Bad
      <4> QED BY <4>1, Smallest
    <3>2. b \in 1..n /\ g[b + 1] # ss[1] \o h[b]
      OBVIOUS
    <3>3. g[b + 1] = g[b] \o tt[b]
      <4>1. b + 1 \in 1..(n + 1) /\ b + 1 # 1 /\ (b + 1) - 1 = b
        <5> HIDE DEF Bad, n
        <5>1. b \in Nat /\ b >= 1 /\ b <= n
          BY <1>0, <3>2
        <5> QED BY <1>0, <5>1
      <4> QED BY <1>2, <3>2, <4>1
    <3>4. CASE b = 1
      <4>1. h[1] = tt[1] /\ g[1 + 1] = g[1] \o tt[1]
        BY <2>2, <3>2, <3>3, <3>4
      <4> QED BY <1>3, <3>2, <3>4, <4>1
    <3>5. CASE b # 1
      <4>1. b - 1 \in 1..n /\ ~(b <= b - 1) /\ (b - 1) + 1 = b
        BY <1>0, <3>2, <3>5
      <4>2. b - 1 \notin Bad
        <5> HIDE DEF Bad
        <5> QED BY <3>1, <4>1
      <4>3. g[b] = ss[1] \o h[b - 1]
        BY <4>1, <4>2
      <4>4. h[b] = h[b - 1] \o tt[b]
        BY <2>2, <3>2, <3>5
      <4>5. h[b - 1] \in Seq(S) /\ tt[b] \in Seq(S)
        <5>1. tt[b] \in Seq(S)
          BY <3>2
        <5>2. h[b - 1] \in Seq(S)
          BY <2>1, <4>1
        <5> QED BY <5>1, <5>2
      <4>6. (ss[1] \o h[b - 1]) \o tt[b] = ss[1] \o (h[b - 1] \o tt[b])
        <5> DEFINE x == ss[1]
                   y == h[b - 1]
                   z == tt[b]
        <5>1. x \in Seq(S) /\ y \in Seq(S) /\ z \in Seq(S)
          BY <1>3, <4>5
        <5> HIDE DEF Bad, n, x, y, z
        <5>2. Associates(x, y, z)
          BY <5>1, Associative
        <5> QED BY <5>2 DEF Associates, x, y, z
      <4> QED BY <3>2, <3>3, <4>3, <4>4, <4>6
    <3> QED BY <3>4, <3>5
  <2>5. g[n + 1] = ss[1] \o h[n]
    BY <2>3, <2>4
  <2> QED BY <1>3, <2>3, <2>5
<1> QED BY <1>4, <1>5

-----------------------------------------------------------------------------
(* Lists of at most one element each.                                       *)

Singles(ss) == \A i \in 1..Len(ss) : Len(ss[i]) <= 1

\* at tells from which list an element comes.
Picks(ss, flat, at) ==
  /\ at \in [1..Len(flat) -> 1..Len(ss)]
  /\ \A m \in 1..Len(flat) : ss[at[m]] = <<flat[m]>>
  /\ \A m, l \in 1..Len(flat) : m < l => at[m] < at[l]
  /\ \A i \in 1..Len(ss) : ss[i] # <<>> => \E m \in 1..Len(flat) : at[m] = i

\* A list more.
LEMMA PicksAppend ==
  ASSUME NEW S, NEW ss \in Seq(Seq(S)), NEW s \in Seq(S), Len(s) <= 1,
         NEW flat \in Seq(S), NEW at, Picks(ss, flat, at)
  PROVE  \E more : Picks(Append(ss, s), flat \o s, more)
<1> DEFINE tt == Append(ss, s)
           n == Len(ss)
           k == Len(flat)
           f == flat \o s
<1>1. /\ tt \in Seq(Seq(S)) /\ Len(tt) = n + 1 /\ n \in Nat /\ k \in Nat /\ Len(s) \in Nat
      /\ \A i \in 1..n : tt[i] = ss[i]
      /\ tt[n + 1] = s
  BY AppendProperties
<1>2. /\ at \in [1..k -> 1..n] /\ \A m \in 1..k : ss[at[m]] = <<flat[m]>>
      /\ \A m, l \in 1..k : m < l => at[m] < at[l]
      /\ \A i \in 1..n : ss[i] # <<>> => \E m \in 1..k : at[m] = i
  BY DEF Picks
<1>3. CASE Len(s) = 0
  <2>1. s = <<>> /\ f = flat
    <3>1. s = <<>>
      BY <1>3
    <3> QED BY <3>1, ConcatEmptySeq
  <2> HIDE DEF tt, n, k, f
  <2>2. at \in [1..k -> 1..(n + 1)]
    BY <1>1, <1>2
  <2>3. \A i \in 1..(n + 1) : i \in 1..n \/ i = n + 1
    BY <1>1
  <2>4. \A m \in 1..k : at[m] \in 1..n
    BY <1>2
  <2> HIDE DEF Picks
  <2>5. Picks(tt, flat, at)
    BY <1>1, <1>2, <2>1, <2>2, <2>3, <2>4 DEF Picks, k
  <2> QED BY <2>1, <2>5 DEF tt, f
<1>4. CASE Len(s) = 1
  <2> DEFINE x == s[1]
             more == [m \in 1..(k + 1) |-> IF m = k + 1 THEN n + 1 ELSE at[m]]
  <2>1. x \in S /\ s = <<x>> /\ s # <<>>
    <3> DEFINE t == <<s[1]>>
    <3>1. 1 \in 1..Len(s)
      BY <1>4
    <3>2. s[1] \in S
      BY <3>1
    <3>3. t \in Seq(S) /\ Len(t) = 1 /\ t[1] = s[1]
      BY <3>2
    <3> HIDE DEF t
    <3>4. \A i \in 1..Len(s) : s[i] = t[i]
      <4> TAKE i \in 1..Len(s)
      <4>1. i = 1
        BY <1>4
      <4> QED BY <3>3, <4>1
    <3>5. s = t
      BY <1>4, <3>3, <3>4, SeqEqual
    <3>6. s = <<s[1]>>
      BY <3>5 DEF t
    <3>7. s # <<>>
      <4> SUFFICES ASSUME s = <<>> PROVE FALSE
        OBVIOUS
      <4>1. Len(s) = 0
        OBVIOUS
      <4> QED BY <1>4, <4>1
    <3> QED BY <3>2, <3>6, <3>7
  <2>2. /\ f \in Seq(S) /\ Len(f) = k + 1
        /\ \A m \in 1..(k + 1) : f[m] = IF m = k + 1 THEN x ELSE flat[m]
    <3>1. /\ f \in Seq(S) /\ Len(f) = k + Len(s)
          /\ \A m \in 1..(k + Len(s)) : f[m] = IF m <= k THEN flat[m] ELSE s[m - k]
      BY ConcatProperties
    <3> HIDE DEF f, k
    <3> QED BY <1>1, <1>4, <3>1
  <2> HIDE DEF tt, n, k, f, x
  <2>3. \A m \in 1..(k + 1) : m \in 1..k \/ m = k + 1
    BY <1>1
  <2>4. \A m \in 1..k : m \in 1..(k + 1) /\ m # k + 1
    BY <1>1
  <2>5. k + 1 \in 1..(k + 1) /\ n + 1 \in 1..(n + 1) /\ \A i \in 1..n : i \in 1..(n + 1) /\ i < n + 1
    BY <1>1
  <2>6. more[k + 1] = n + 1 /\ \A m \in 1..k : more[m] = at[m] /\ at[m] \in 1..n
    BY <1>2, <2>4, <2>5
  <2>7. more \in [1..(k + 1) -> 1..(n + 1)]
    BY <1>2, <2>3, <2>5
  <2> HIDE DEF more
  <2>8. ASSUME NEW m \in 1..(k + 1) PROVE tt[more[m]] = <<f[m]>>
    <3>1. CASE m \in 1..k
      <4>1. f[m] = flat[m]
        BY <2>2, <2>4, <3>1
      <4>2. more[m] = at[m] /\ at[m] \in 1..n
        BY <2>6, <3>1
      <4>3. tt[at[m]] = ss[at[m]] /\ ss[at[m]] = <<flat[m]>>
        BY <1>1, <1>2, <3>1, <4>2
      <4> QED BY <4>1, <4>2, <4>3
    <3>2. CASE m = k + 1
      <4>1. f[k + 1] = x /\ more[k + 1] = n + 1
        BY <2>2, <2>5, <2>6
      <4>2. tt[n + 1] = <<x>>
        BY <1>1, <2>1
      <4> QED BY <3>2, <4>1, <4>2
    <3> QED BY <2>3, <3>1, <3>2
  <2>9. ASSUME NEW m \in 1..(k + 1), NEW l \in 1..(k + 1), m < l PROVE more[m] < more[l]
    <3>1. m \in 1..k
      BY <1>1, <2>9
    <3>2. CASE l = k + 1
      BY <2>5, <2>6, <3>1, <3>2
    <3>3. CASE l \in 1..k
      BY <1>2, <2>6, <2>9, <3>1, <3>3
    <3> QED BY <2>3, <3>2, <3>3
  <2>10. ASSUME NEW i \in 1..(n + 1), tt[i] # <<>> PROVE \E m \in 1..(k + 1) : more[m] = i
    <3>1. CASE i = n + 1
      BY <2>5, <2>6, <3>1
    <3>2. CASE i \in 1..n
      <4>1. PICK m \in 1..k : at[m] = i
        BY <1>1, <1>2, <2>10, <3>2
      <4> QED BY <2>4, <2>6, <4>1
    <3>3. i \in 1..n \/ i = n + 1
      BY <1>1
    <3> QED BY <3>1, <3>2, <3>3
  <2>11. Picks(tt, f, more)
    BY <1>1, <2>2, <2>7, <2>8, <2>9, <2>10 DEF Picks
  <2> QED BY <2>11 DEF tt, f
<1>5. Len(s) = 0 \/ Len(s) = 1
  <2> DEFINE c == Len(s)
  <2>1. c \in Nat /\ c <= 1
    OBVIOUS
  <2> HIDE DEF c
  <2>2. c = 0 \/ c = 1
    BY <2>1
  <2> QED BY <2>2 DEF c
<1> QED BY <1>3, <1>4, <1>5

LEMMA FlattenPicks ==
  ASSUME NEW S, NEW ss \in Seq(Seq(S)), Singles(ss)
  PROVE  \E at : Picks(ss, Lists!FlattenSeq(ss), at)
<1> DEFINE Picked(tt) == \E at : Picks(tt, Lists!FlattenSeq(tt), at)
           Bad == {n \in Nat : \E tt \in Seq(Seq(S)) : Len(tt) = n /\ Singles(tt) /\ ~Picked(tt)}
<1>1. Bad = {}
  <2> SUFFICES ASSUME Bad # {} PROVE FALSE
    OBVIOUS
  <2>1. PICK n \in Bad : \A k \in Bad : n <= k
    <3>1. Bad \in SUBSET Nat
      OBVIOUS
    <3> HIDE DEF Bad
    <3> QED BY <3>1, Smallest
  <2>2. n \in Nat
    OBVIOUS
  <2>3. PICK tt \in Seq(Seq(S)) : Len(tt) = n /\ Singles(tt) /\ ~Picked(tt)
    OBVIOUS
  <2> HIDE DEF Picked
  <2>4. tt # <<>>
    <3> SUFFICES ASSUME tt = <<>> PROVE FALSE
      OBVIOUS
    <3>1. Picks(<<>>, <<>>, <<>>)
      BY DEF Picks
    <3> QED BY <2>3, <3>1, FlattenEmpty DEF Picked
  <2>5. PICK front \in Seq(Seq(S)), last \in Seq(S) : tt = Append(front, last)
    BY <2>4, SequenceEmptyOrAppend
  <2>6. /\ Len(front) \in Nat /\ n = Len(front) + 1
        /\ \A i \in 1..Len(front) : tt[i] = front[i]
        /\ tt[Len(front) + 1] = last
    BY <2>3, <2>5, AppendProperties
  <2>7. Singles(front) /\ Len(last) <= 1
    <3>1. \A i \in 1..Len(front) : i \in 1..n
      BY <2>6
    <3>2. Len(front) + 1 \in 1..n
      BY <2>6
    <3> QED BY <2>3, <2>6, <3>1, <3>2 DEF Singles
  <2>8. Picked(front)
    <3>1. Len(front) \notin Bad
      <4> HIDE DEF Bad
      <4> QED BY <2>1, <2>6
    <3> QED BY <2>6, <2>7, <3>1
  <2>9. PICK at : Picks(front, Lists!FlattenSeq(front), at)
    BY <2>8 DEF Picked
  <2>10. Lists!FlattenSeq(front) \in Seq(S)
    BY FlattenType
  <2>11. \E more : Picks(tt, Lists!FlattenSeq(front) \o last, more)
    BY <2>5, <2>7, <2>9, <2>10, PicksAppend
  <2>12. Lists!FlattenSeq(tt) = Lists!FlattenSeq(front) \o last
    BY <2>5, FlattenAppend
  <2> QED BY <2>3, <2>11, <2>12 DEF Picked
<1>2. Len(ss) \in Nat
  OBVIOUS
<1>3. Picked(ss)
  <2> HIDE DEF Picked
  <2> QED BY <1>1, <1>2
<1> QED BY <1>3

\* If all lists have one element, it is the list of these.
LEMMA FlattenOnes ==
  ASSUME NEW S, NEW s \in Seq(S)
  PROVE  Lists!FlattenSeq([i \in 1..Len(s) |-> <<s[i]>>]) = s
<1> DEFINE Ones(t) == [i \in 1..Len(t) |-> <<t[i]>>]
           Bad == {n \in Nat : \E t \in Seq(S) : Len(t) = n /\ Lists!FlattenSeq(Ones(t)) # t}
<1>1. Bad = {}
  <2> SUFFICES ASSUME Bad # {} PROVE FALSE
    OBVIOUS
  <2>1. PICK n \in Bad : \A k \in Bad : n <= k
    <3>1. Bad \in SUBSET Nat
      OBVIOUS
    <3> HIDE DEF Bad
    <3> QED BY <3>1, Smallest
  <2>2. n \in Nat
    OBVIOUS
  <2>3. PICK t \in Seq(S) : Len(t) = n /\ Lists!FlattenSeq(Ones(t)) # t
    OBVIOUS
  <2>4. t # <<>>
    <3> SUFFICES ASSUME t = <<>> PROVE FALSE
      OBVIOUS
    <3>1. Ones(t) = <<>>
      OBVIOUS
    <3> HIDE DEF Ones
    <3> QED BY <2>3, <3>1, FlattenEmpty
  <2>5. PICK front \in Seq(S), last \in S : t = Append(front, last)
    BY <2>4, SequenceEmptyOrAppend
  <2>6. /\ Len(front) \in Nat /\ n = Len(front) + 1
        /\ \A i \in 1..Len(front) : t[i] = front[i]
        /\ t[Len(front) + 1] = last
    BY <2>3, <2>5, AppendProperties
  <2>7. Lists!FlattenSeq(Ones(front)) = front
    <3>1. Len(front) \notin Bad
      <4> HIDE DEF Bad
      <4> QED BY <2>1, <2>6
    <3> HIDE DEF Ones
    <3> QED BY <2>6, <3>1
  <2>8. Ones(front) \in Seq(Seq(S)) /\ Len(Ones(front)) = Len(front)
        /\ \A i \in 1..Len(front) : Ones(front)[i] = <<front[i]>>
    <3>1. \A i \in 1..Len(front) : <<front[i]>> \in Seq(S)
      OBVIOUS
    <3>2. Ones(front) \in [1..Len(front) -> Seq(S)]
      BY <3>1
    <3> QED BY <2>6, <3>2
  <2>9. Ones(t) \in Seq(Seq(S)) /\ Len(Ones(t)) = n
        /\ \A i \in 1..n : Ones(t)[i] = <<t[i]>>
    <3>1. \A i \in 1..n : <<t[i]>> \in Seq(S)
      BY <2>3
    <3>2. Ones(t) \in [1..n -> Seq(S)]
      BY <2>3, <3>1
    <3> QED BY <2>2, <2>3, <3>2
  <2> DEFINE one == <<last>>
  <2>10. one \in Seq(S)
    OBVIOUS
  <2> HIDE DEF Ones
  <2>11. Ones(t) = Append(Ones(front), one)
    <3> DEFINE u == Append(Ones(front), one)
    <3>1. /\ u \in Seq(Seq(S)) /\ Len(u) = n
          /\ \A i \in 1..Len(front) : u[i] = Ones(front)[i]
          /\ u[Len(front) + 1] = one
      BY <2>6, <2>8, <2>10, AppendProperties
    <3> HIDE DEF u
    <3>2. \A i \in 1..n : i \in 1..Len(front) \/ i = Len(front) + 1
      BY <2>6
    <3>3. \A i \in 1..n : u[i] = Ones(t)[i]
      BY <2>6, <2>8, <2>9, <3>1, <3>2
    <3>4. u = Ones(t)
      BY <2>9, <3>1, <3>3, SeqEqual
    <3> QED BY <3>4 DEF u
  <2>12. Lists!FlattenSeq(Ones(t)) = front \o one
    <3> HIDE DEF one
    <3> QED BY <2>7, <2>8, <2>10, <2>11, FlattenAppend
  <2>13. front \o one = t
    BY <2>5, AppendIsConcat
  <2> QED BY <2>3, <2>12, <2>13
<1>2. Len(s) \in Nat
  OBVIOUS
<1>3. Lists!FlattenSeq(Ones(s)) = s
  <2> HIDE DEF Ones
  <2> QED BY <1>1, <1>2
<1> QED BY <1>3
=============================================================================
