----------------------------- MODULE ListsProofs -----------------------------
(***************************************************************************)
(* What the operators of Lists return, for lists of any length.            *)
(*                                                                         *)
(* That something holds for every number is shown by looking at the least  *)
(* one for which it would not (Least).                                     *)
(***************************************************************************)
EXTENDS Lists, FiniteSets, FiniteSetTheorems, WellFoundedInduction, TLAPS

LEMMA Least ==
  ASSUME NEW T, T \subseteq Nat, T # {}
  PROVE  \E n \in T : \A m \in T : n <= m
<1> DEFINE R == {ss \in Nat \X Nat : ss[1] < ss[2]}
<1>1. R = OpToRel(<, Nat)
  BY DEF OpToRel
<1>2. IsWellFoundedOn(R, Nat)
  BY <1>1, NatLessThanWellFounded
<1> HIDE DEF R
<1>3. PICK n \in T : \A m \in T : ~ (<<m, n>> \in R)
  BY <1>2, WFMin
<1>4. \A m \in T : ~(m < n)
  BY <1>3 DEF R
<1> QED
  BY <1>4

LEMMA ListType ==
  ASSUME NEW s, IsList(s)
  PROVE  Len(s) \in Nat /\ DOMAIN s = 1 .. Len(s) /\ s = [i \in 1 .. Len(s) |-> s[i]]
BY DEF IsList

----------------------------------------------------------------------------
(* Without.                                                                *)

(* The loop, as far as its first n rounds.                                 *)
Rounds(s, S, n, f) ==
  f = [i \in 0 .. n |->
         IF i = 0 THEN <<>>
         ELSE IF s[i] \in S THEN f[i - 1] ELSE Append(f[i - 1], s[i])]

LEMMA RoundsExist ==
  ASSUME NEW s, NEW S, NEW n \in Nat
  PROVE  \E f : Rounds(s, S, n, f)
<1> DEFINE T == {m \in Nat : ~ \E f : Rounds(s, S, m, f)}
<1> SUFFICES ASSUME T # {} PROVE FALSE
  OBVIOUS
<1>1. PICK m \in T : \A l \in T : m <= l
  BY Least
<1>2. CASE m = 0
  <2> DEFINE f == [i \in 0 .. 0 |-> <<>>]
  <2>1. Rounds(s, S, 0, f)
    BY DEF Rounds
  <2> QED
    BY <1>2, <2>1
<1>3. CASE m # 0
  <2>1. m - 1 \in Nat /\ m - 1 \notin T
    BY <1>1, <1>3
  <2>2. PICK g : Rounds(s, S, m - 1, g)
    BY <2>1
  <2> DEFINE f == [i \in 0 .. m |->
                     IF i < m THEN g[i]
                     ELSE IF s[m] \in S THEN g[m - 1] ELSE Append(g[m - 1], s[m])]
             h == [i \in 0 .. m |->
                     IF i = 0 THEN <<>>
                     ELSE IF s[i] \in S THEN f[i - 1] ELSE Append(f[i - 1], s[i])]
  <2>3. \A i \in 0 .. m - 1 :
          g[i] = IF i = 0 THEN <<>>
                 ELSE IF s[i] \in S THEN g[i - 1] ELSE Append(g[i - 1], s[i])
    BY <2>1, <2>2 DEF Rounds
  <2>4. \A i \in 0 .. m : i # 0 => f[i - 1] = g[i - 1]
    OBVIOUS
  <2>5. \A i \in 0 .. m : f[i] = h[i]
    <3> SUFFICES ASSUME NEW i \in 0 .. m PROVE f[i] = h[i]
      OBVIOUS
    <3>1. CASE i = m
      BY <3>1, <1>3, <2>4
    <3>2. CASE i # m
      <4>1. f[i] = g[i] /\ i \in 0 .. m - 1
        BY <3>2
      <4> QED
        BY <4>1, <2>3, <2>4
    <3> QED
      BY <3>1, <3>2
  <2>6. f = h
    BY <2>5
  <2>7. Rounds(s, S, m, f)
    BY <2>6 DEF Rounds
  <2> QED
    BY <2>7
<1> QED
  BY <1>2, <1>3

LEMMA WithoutRounds ==
  ASSUME NEW s, NEW S, Len(s) \in Nat
  PROVE  \E f : Rounds(s, S, Len(s), f) /\ Without(s, S) = f[Len(s)]
<1> DEFINE kept == CHOOSE f : Rounds(s, S, Len(s), f)
<1>1. Rounds(s, S, Len(s), kept)
  BY RoundsExist
<1>2. Without(s, S) = kept[Len(s)]
  BY DEF Without, Rounds
<1> QED
  BY <1>1, <1>2

(* The first n positions of s whose entries are not in S.                  *)
Picked(s, S, n) == {j \in 1 .. n : s[j] \notin S}

Rank(s, S, i) == Cardinality(Picked(s, S, i))

LEMMA PickedFinite ==
  ASSUME NEW s, NEW S, NEW n \in Nat
  PROVE  IsFiniteSet(Picked(s, S, n)) /\ Rank(s, S, n) \in Nat
<1>1. Picked(s, S, n) \in SUBSET (1 .. n) /\ IsFiniteSet(1 .. n)
  BY FS_Interval DEF Picked
<1> QED
  BY <1>1, FS_Subset, FS_CardinalityType DEF Rank

LEMMA PickedNext ==
  ASSUME NEW s, NEW S, NEW n \in Nat, n # 0
  PROVE  /\ s[n] \in S => Picked(s, S, n) = Picked(s, S, n - 1)
         /\ s[n] \notin S => /\ Picked(s, S, n) = Picked(s, S, n - 1) \cup {n}
                             /\ Rank(s, S, n) = Rank(s, S, n - 1) + 1
<1>1. s[n] \in S => Picked(s, S, n) = Picked(s, S, n - 1)
  BY DEF Picked
<1>2. s[n] \notin S => Picked(s, S, n) = Picked(s, S, n - 1) \cup {n}
  BY DEF Picked
<1>3. n \notin Picked(s, S, n - 1)
  BY DEF Picked
<1>4. IsFiniteSet(Picked(s, S, n - 1))
  BY PickedFinite
<1>5. Cardinality(Picked(s, S, n - 1) \cup {n}) = Cardinality(Picked(s, S, n - 1)) + 1
  BY <1>3, <1>4, FS_AddElement
<1> QED
  BY <1>1, <1>2, <1>5 DEF Rank

(* Ranks grow with the positions, strictly at those that are kept.         *)
LEMMA RankGrows ==
  ASSUME NEW s, NEW S, NEW n \in Nat, NEW i \in Picked(s, S, n)
  PROVE  /\ Rank(s, S, i) \in 1 .. Rank(s, S, n)
         /\ \A j \in Picked(s, S, n) : j < i => Rank(s, S, j) < Rank(s, S, i)
<1>1. i \in Nat /\ i # 0 /\ i <= n /\ s[i] \notin S
  BY DEF Picked
<1>2. ASSUME NEW a \in Nat, NEW b \in Nat, a <= b PROVE Rank(s, S, a) <= Rank(s, S, b)
  <2>1. Picked(s, S, a) \in SUBSET Picked(s, S, b)
    BY <1>2 DEF Picked
  <2> QED
    BY <2>1, PickedFinite, FS_Subset DEF Rank
<1>3. Rank(s, S, i) = Rank(s, S, i - 1) + 1 /\ Rank(s, S, i - 1) \in Nat
  BY <1>1, PickedNext, PickedFinite
<1>4. Rank(s, S, i) \in 1 .. Rank(s, S, n)
  BY <1>1, <1>2, <1>3, PickedFinite
<1>5. ASSUME NEW j \in Picked(s, S, n), j < i PROVE Rank(s, S, j) < Rank(s, S, i)
  <2>1. j \in Nat /\ i - 1 \in Nat /\ j <= i - 1
    BY <1>1, <1>5 DEF Picked
  <2>2. Rank(s, S, j) <= Rank(s, S, i - 1) /\ Rank(s, S, j) \in Nat
    BY <2>1, <1>2, PickedFinite
  <2> QED
    BY <2>2, <1>3
<1> QED
  BY <1>4, <1>5

(* t lists the kept ones among the first n entries of s, each at its rank. *)
Collects(t, s, S, n) ==
  /\ t \in Seq(Entries(s))
  /\ Len(t) = Rank(s, S, n)
  /\ \A i \in Picked(s, S, n) : t[Rank(s, S, i)] = s[i]
  /\ \A m \in 1 .. Len(t) : \E i \in Picked(s, S, n) : Rank(s, S, i) = m

LEMMA RoundCollects ==
  ASSUME NEW s, NEW S, NEW n \in Nat, n # 0, n \in DOMAIN s,
         NEW t, Collects(t, s, S, n - 1)
  PROVE  Collects(IF s[n] \in S THEN t ELSE Append(t, s[n]), s, S, n)
<1>1. CASE s[n] \in S
  <2>1. Picked(s, S, n) = Picked(s, S, n - 1) /\ Rank(s, S, n) = Rank(s, S, n - 1)
    BY <1>1, PickedNext DEF Rank
  <2> QED
    BY <1>1, <2>1 DEF Collects
<1>2. CASE s[n] \notin S
  <2> DEFINE u == Append(t, s[n])
  <2>1. /\ Picked(s, S, n) = Picked(s, S, n - 1) \cup {n}
        /\ Rank(s, S, n) = Rank(s, S, n - 1) + 1
    BY <1>2, PickedNext
  <2>2. /\ t \in Seq(Entries(s)) /\ Len(t) = Rank(s, S, n - 1) /\ Len(t) \in Nat
        /\ s[n] \in Entries(s)
    BY DEF Collects, Entries
  <2>3. /\ u \in Seq(Entries(s)) /\ Len(u) = Len(t) + 1 /\ u[Len(t) + 1] = s[n]
        /\ \A m \in 1 .. Len(t) : u[m] = t[m]
    BY <2>2
  <2>4. ASSUME NEW i \in Picked(s, S, n) PROVE u[Rank(s, S, i)] = s[i]
    <3>1. CASE i = n
      BY <3>1, <2>1, <2>2, <2>3
    <3>2. CASE i # n
      <4>1. i \in Picked(s, S, n - 1) /\ n - 1 \in Nat
        BY <3>2, <2>1
      <4>2. Rank(s, S, i) \in 1 .. Len(t)
        BY <4>1, <2>2, RankGrows
      <4> QED
        BY <4>1, <4>2, <2>3 DEF Collects
    <3> QED
      BY <3>1, <3>2
  <2>5. ASSUME NEW m \in 1 .. Len(u)
        PROVE  \E i \in Picked(s, S, n) : Rank(s, S, i) = m
    <3>1. CASE m = Len(u)
      BY <3>1, <2>1, <2>2, <2>3
    <3>2. CASE m # Len(u)
      <4>1. m \in 1 .. Len(t)
        BY <3>2, <2>2, <2>3
      <4>2. PICK i \in Picked(s, S, n - 1) : Rank(s, S, i) = m
        BY <4>1 DEF Collects
      <4> QED
        BY <4>2, <2>1
    <3> QED
      BY <3>1, <3>2
  <2>6. Collects(u, s, S, n)
    BY <2>1, <2>2, <2>3, <2>4, <2>5 DEF Collects
  <2> QED
    BY <1>2, <2>6
<1> QED
  BY <1>1, <1>2

LEMMA WithoutCollects ==
  ASSUME NEW s, NEW S, IsList(s)
  PROVE  Collects(Without(s, S), s, S, Len(s))
<1>1. Len(s) \in Nat /\ DOMAIN s = 1 .. Len(s)
  BY ListType
<1>2. PICK f : Rounds(s, S, Len(s), f) /\ Without(s, S) = f[Len(s)]
  BY <1>1, WithoutRounds
<1>3. \A i \in 0 .. Len(s) :
        f[i] = IF i = 0 THEN <<>>
               ELSE IF s[i] \in S THEN f[i - 1] ELSE Append(f[i - 1], s[i])
  BY <1>2 DEF Rounds
<1> DEFINE T == {m \in 0 .. Len(s) : ~Collects(f[m], s, S, m)}
<1>4. T = {}
  <2> SUFFICES ASSUME T # {} PROVE FALSE
    OBVIOUS
  <2>0. T \subseteq Nat
    BY <1>1
  <2> HIDE DEF T
  <2>1. PICK m \in T : \A l \in T : m <= l
    BY <2>0, Least
  <2> USE DEF T
  <2>2. CASE m = 0
    <3>1. Picked(s, S, 0) = {} /\ Rank(s, S, 0) = 0
      BY FS_EmptySet DEF Picked, Rank
    <3>2. f[0] = <<>>
      BY <1>1, <1>3
    <3>3. Collects(<<>>, s, S, 0)
      BY <3>1 DEF Collects
    <3> QED
      BY <2>1, <2>2, <3>2, <3>3
  <2>3. CASE m # 0
    <3>1. m - 1 \in 0 .. Len(s) /\ m - 1 \notin T /\ m \in Nat /\ m \in DOMAIN s
      BY <1>1, <2>1, <2>3
    <3>2. Collects(f[m - 1], s, S, m - 1)
      BY <3>1
    <3>3. Collects(IF s[m] \in S THEN f[m - 1] ELSE Append(f[m - 1], s[m]), s, S, m)
      BY <2>3, <3>1, <3>2, RoundCollects
    <3>4. f[m] = IF s[m] \in S THEN f[m - 1] ELSE Append(f[m - 1], s[m])
      BY <1>3, <2>3
    <3> QED
      BY <2>1, <3>3, <3>4
  <2> QED
    BY <2>2, <2>3
<1> QED
  BY <1>1, <1>2, <1>4

(* Nothing else collects the kept entries in their order.                  *)
LEMMA WithoutUnique ==
  ASSUME NEW s, NEW S, IsList(s),
         NEW t, IsList(t), Len(t) = Rank(s, S, Len(s)),
         \A i \in Picked(s, S, Len(s)) : t[Rank(s, S, i)] = s[i]
  PROVE  t = Without(s, S)
<1> DEFINE w == Without(s, S)
<1>1. Collects(w, s, S, Len(s))
  BY WithoutCollects
<1> HIDE DEF w
<1>2. Len(w) = Len(t) /\ Len(t) \in Nat /\ t = [m \in 1 .. Len(t) |-> t[m]]
  BY <1>1, ListType DEF Collects
<1>3. w = [m \in 1 .. Len(t) |-> w[m]]
  BY <1>1, <1>2 DEF Collects
<1>4. ASSUME NEW m \in 1 .. Len(t) PROVE t[m] = w[m]
  BY <1>1, <1>2 DEF Collects
<1>5. t = w
  BY <1>2, <1>3, <1>4
<1> QED
  BY <1>5 DEF w

LEMMA WithoutNone ==
  ASSUME NEW s, NEW S, IsList(s), Entries(s) \cap S = {}
  PROVE  Without(s, S) = s
<1>1. Len(s) \in Nat /\ DOMAIN s = 1 .. Len(s)
  BY ListType
<1>2. ASSUME NEW n \in 0 .. Len(s) PROVE Rank(s, S, n) = n
  <2>1. Picked(s, S, n) = 1 .. n
    BY <1>1 DEF Picked, Entries
  <2> QED
    BY <2>1, FS_Interval DEF Rank
<1>3. \A i \in Picked(s, S, Len(s)) : i \in 0 .. Len(s)
  BY DEF Picked
<1> QED
  BY <1>1, <1>2, <1>3, WithoutUnique

LEMMA WithoutEntries ==
  ASSUME NEW s, NEW S, IsList(s)
  PROVE  Entries(Without(s, S)) = Entries(s) \ S
<1> DEFINE w == Without(s, S)
<1>1. Collects(w, s, S, Len(s))
  BY WithoutCollects
<1> HIDE DEF w
<1>2. Len(s) \in Nat /\ DOMAIN s = 1 .. Len(s)
  BY ListType
<1>3. DOMAIN w = 1 .. Len(w)
  BY <1>1 DEF Collects
<1>4. ASSUME NEW m \in DOMAIN w PROVE w[m] \in Entries(s) \ S
  <2>1. PICK i \in Picked(s, S, Len(s)) : Rank(s, S, i) = m
    BY <1>1, <1>3 DEF Collects
  <2>2. w[m] = s[i] /\ i \in DOMAIN s /\ s[i] \notin S
    BY <1>1, <1>2, <2>1 DEF Collects, Picked
  <2> QED
    BY <2>2 DEF Entries
<1>5. ASSUME NEW e \in Entries(s) \ S PROVE \E m \in DOMAIN w : w[m] = e
  <2>1. PICK i \in DOMAIN s : s[i] = e
    BY DEF Entries
  <2>2. i \in Picked(s, S, Len(s))
    BY <1>2, <2>1 DEF Picked
  <2>3. Rank(s, S, i) \in 1 .. Len(w) /\ w[Rank(s, S, i)] = e
    BY <1>1, <1>2, <2>1, <2>2, RankGrows DEF Collects
  <2> QED
    BY <1>3, <2>3
<1>6. Entries(w) = Entries(s) \ S
  BY <1>4, <1>5 DEF Entries
<1> QED
  BY <1>6 DEF w

----------------------------------------------------------------------------
(* Sorted.                                                                 *)

(* p visits n positions in D, no one twice, by the size of their entries.  *)
Orders(p, s, n, D) ==
  /\ p \in [1 .. n -> D]
  /\ \A i, j \in 1 .. n : i < j => p[i] # p[j] /\ s[p[i]] <= s[p[j]]

(* Put the smallest entry first and order the others.                      *)
LEMMA OrderExtends ==
  ASSUME NEW s, NEW D, \A d \in D : s[d] \in Nat,
         NEW n \in Nat, n # 0, NEW m \in D, \A d \in D : s[m] <= s[d],
         NEW q, Orders(q, s, n - 1, D \ {m})
  PROVE  \E p : Orders(p, s, n, D)
<1> DEFINE p == [i \in 1 .. n |-> IF i = 1 THEN m ELSE q[i - 1]]
<1>1. \A i \in 1 .. n : i # 1 => i - 1 \in 1 .. n - 1 /\ p[i] = q[i - 1] /\ p[i] \in D \ {m}
  BY DEF Orders
<1>2. p \in [1 .. n -> D] /\ p[1] = m
  BY <1>1
<1> HIDE DEF p
<1>3. ASSUME NEW i \in 1 .. n, NEW j \in 1 .. n, i < j
      PROVE  p[i] # p[j] /\ s[p[i]] <= s[p[j]]
  <2>1. j # 1
    BY <1>3
  <2>2. CASE i = 1
    BY <1>1, <1>2, <2>1, <2>2
  <2>3. CASE i # 1
    <3>1. /\ i - 1 \in 1 .. n - 1 /\ j - 1 \in 1 .. n - 1 /\ i - 1 < j - 1
          /\ p[i] = q[i - 1] /\ p[j] = q[j - 1]
      BY <1>1, <1>3, <2>1, <2>3
    <3> QED
      BY <3>1 DEF Orders
  <2> QED
    BY <2>2, <2>3
<1> QED
  BY <1>2, <1>3 DEF Orders

LEMMA OrderExists ==
  ASSUME NEW s, NEW E, IsFiniteSet(E), \A d \in E : s[d] \in Nat
  PROVE  \E p : Orders(p, s, Cardinality(E), E)
<1> DEFINE Unordered(n) == {D \in SUBSET E : Cardinality(D) = n /\ ~ \E p : Orders(p, s, n, D)}
           T == {n \in Nat : Unordered(n) # {}}
<1>1. \A D \in SUBSET E : IsFiniteSet(D) /\ Cardinality(D) \in Nat
  BY FS_Subset, FS_CardinalityType
<1>2. T = {}
  <2> SUFFICES ASSUME T # {} PROVE FALSE
    OBVIOUS
  <2>1. PICK n \in T : \A l \in T : n <= l
    BY Least
  <2>2. PICK D \in SUBSET E : Cardinality(D) = n /\ ~ \E p : Orders(p, s, n, D)
    BY <2>1
  <2>3. CASE n = 0
    <3>1. Orders(<<>>, s, 0, D)
      BY DEF Orders
    <3> QED
      BY <2>2, <2>3, <3>1
  <2>4. CASE n # 0
    <3>1. D # {}
      BY <2>2, <2>4, FS_EmptySet
    <3>2. PICK m \in D : \A d \in D : s[m] <= s[d]
      <4> DEFINE V == {s[d] : d \in D}
      <4>1. V \subseteq Nat /\ V # {}
        BY <3>1
      <4>2. PICK v \in V : \A u \in V : v <= u
        BY <4>1, Least
      <4> QED
        BY <4>2
    <3>3. Cardinality(D \ {m}) = n - 1 /\ D \ {m} \in SUBSET E /\ n - 1 \in Nat
      BY <1>1, <2>1, <2>2, <2>4, FS_RemoveElement
    <3>4. n - 1 \notin T
      BY <2>1, <3>3
    <3>5. PICK q : Orders(q, s, n - 1, D \ {m})
      BY <3>3, <3>4
    <3>6. \E p : Orders(p, s, n, D)
      BY <2>1, <2>4, <3>2, <3>5, OrderExtends
    <3> QED
      BY <2>2, <3>6
  <2> QED
    BY <2>3, <2>4
<1> QED
  BY <1>1, <1>2

(* Sorted visits every entry once and in ascending order.                  *)
Sorts(p, s) ==
  /\ Orders(p, s, Len(s), 1 .. Len(s))
  /\ \A k \in 1 .. Len(s) : \E i \in 1 .. Len(s) : p[i] = k
  /\ \A i \in 1 .. Len(s) : Sorted(s)[i] = s[p[i]]

LEMMA SortedOrder == ASSUME NEW s \in Seq(Nat) PROVE \E p : Sorts(p, s)
<1>1. Len(s) \in Nat /\ DOMAIN s = 1 .. Len(s) /\ \A i \in 1 .. Len(s) : s[i] \in Nat
  OBVIOUS
<1>2. IsFiniteSet(1 .. Len(s)) /\ Cardinality(1 .. Len(s)) = Len(s)
  BY <1>1, FS_Interval
<1>3. \E p : Orders(p, s, Len(s), 1 .. Len(s))
  BY <1>1, <1>2, OrderExists
<1> DEFINE order == CHOOSE p \in [DOMAIN s -> DOMAIN s] :
                      \A i, j \in DOMAIN s : i < j => p[i] # p[j] /\ s[p[i]] <= s[p[j]]
<1>4. Orders(order, s, Len(s), 1 .. Len(s))
  BY <1>1, <1>3 DEF Orders
<1>5. Sorted(s) = [i \in 1 .. Len(s) |-> s[order[i]]]
  BY <1>1 DEF Sorted
<1> HIDE DEF order
<1>6. order \in Injection(1 .. Len(s), 1 .. Len(s))
  BY <1>1, <1>4 DEF Orders, Injection, IsInjective
<1>7. order \in Surjection(1 .. Len(s), 1 .. Len(s))
  BY <1>2, <1>6, FS_Injection
<1>8. \A k \in 1 .. Len(s) : \E i \in 1 .. Len(s) : order[i] = k
  BY <1>7 DEF Surjection
<1>9. \A i \in 1 .. Len(s) : Sorted(s)[i] = s[order[i]]
  BY <1>5
<1>10. Sorts(order, s)
  BY <1>4, <1>8, <1>9 DEF Sorts
<1> QED
  BY <1>10
=============================================================================
