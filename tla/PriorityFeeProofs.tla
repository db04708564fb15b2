-------------------------- MODULE PriorityFeeProofs --------------------------
(***************************************************************************)
(* Proofs about PriorityFee: the percentile of any sample is what the      *)
(* reference IsPercentile says, and the fee is always one.                 *)
(***************************************************************************)
EXTENDS PriorityFee, ListsProofs

----------------------------------------------------------------------------
(* Counting the entries below a place of the sorted sample.                *)

Below(v, fees) == {j \in DOMAIN fees : fees[j] < v}
UpTo(v, fees) == {j \in DOMAIN fees : fees[j] <= v}

(* v may stand at a place of the sorted sample.                            *)
Fits(v, place, fees) ==
  /\ {Cardinality(Below(v, fees)), Cardinality(UpTo(v, fees))} \subseteq Nat
  /\ Cardinality(Below(v, fees)) < place
  /\ place <= Cardinality(UpTo(v, fees))

LEMMA SortedPlaces ==
  ASSUME NEW fees \in Seq(Nat), NEW place \in 1 .. Len(fees)
  PROVE  \E j \in DOMAIN fees : Sorted(fees)[place] = fees[j] /\ Fits(fees[j], place, fees)
<1>1. PICK p : Sorts(p, fees)
  BY SortedOrder
<1>2. PICK n \in Nat : n = Len(fees)
  OBVIOUS
<1>3. /\ DOMAIN fees = 1 .. n /\ place \in 1 .. n /\ place \in Nat
      /\ \A k \in 1 .. n : fees[k] \in Nat
  BY <1>2
<1>4. p \in [1 .. n -> 1 .. n]
  BY <1>1, <1>2 DEF Sorts, Orders
<1>5. \A a, b \in 1 .. n : a < b => p[a] # p[b] /\ fees[p[a]] <= fees[p[b]]
  BY <1>1, <1>2 DEF Sorts, Orders
<1>6. \A k \in 1 .. n : \E h \in 1 .. n : p[h] = k
  BY <1>1, <1>2 DEF Sorts
<1>7. PICK v \in Nat : v = fees[p[place]] /\ Sorted(fees)[place] = v
  BY <1>1, <1>2, <1>3, <1>4 DEF Sorts
<1>8. IsFiniteSet(DOMAIN fees)
  BY <1>3, FS_Interval
<1>9. IsFiniteSet(UpTo(v, fees)) /\ Cardinality(UpTo(v, fees)) \in Nat
  BY <1>8, FS_Subset, FS_CardinalityType DEF UpTo
<1>10. Cardinality(Below(v, fees)) \in Nat /\ Cardinality(Below(v, fees)) < place
  <2>1. ASSUME NEW h \in 1 .. n, p[h] \in Below(v, fees) PROVE h \in 1 .. place - 1
    <3>1. fees[p[h]] < v /\ fees[p[h]] \in Nat
      BY <1>3, <1>4, <2>1 DEF Below
    <3>2. place < h => v <= fees[p[h]]
      BY <1>3, <1>5, <1>7
    <3> QED
      BY <1>3, <1>7, <3>1, <3>2
  <2>2. Below(v, fees) \subseteq 1 .. n
    BY <1>3 DEF Below
  <2> DEFINE at == [j \in Below(v, fees) |-> CHOOSE h \in 1 .. n : p[h] = j]
  <2>3. ASSUME NEW j \in Below(v, fees) PROVE at[j] \in 1 .. n /\ p[at[j]] = j
    BY <1>6, <2>2
  <2>4. at \in [Below(v, fees) -> 1 .. place - 1]
    BY <2>1, <2>3
  <2> HIDE DEF at
  <2>5. at \in Injection(Below(v, fees), 1 .. place - 1)
    BY <2>3, <2>4 DEF Injection, IsInjective
  <2>6. PICK q \in Nat : q = place - 1
    BY <1>3
  <2>7. IsFiniteSet(1 .. q) /\ Cardinality(1 .. q) = q
    BY FS_Interval
  <2>8. IsFiniteSet(Below(v, fees)) /\ Cardinality(Below(v, fees)) <= q
    BY <2>5, <2>6, <2>7, FS_Injection
  <2>9. Cardinality(Below(v, fees)) \in Nat
    BY <2>8, FS_CardinalityType
  <2> QED
    BY <1>3, <2>6, <2>8, <2>9
<1>11. place <= Cardinality(UpTo(v, fees))
  <2>1. ASSUME NEW h \in 1 .. place PROVE h \in 1 .. n /\ p[h] \in UpTo(v, fees)
    <3>1. h \in 1 .. n /\ (h < place \/ h = place)
      BY <1>3
    <3>2. p[h] \in DOMAIN fees
      BY <1>3, <1>4, <3>1
    <3>3. fees[p[h]] <= v
      BY <1>3, <1>5, <1>7, <3>1
    <3> QED
      BY <3>1, <3>2, <3>3 DEF UpTo
  <2>2. \A h, k \in 1 .. n : p[h] = p[k] => h = k
    BY <1>5
  <2> DEFINE visit == [h \in 1 .. place |-> p[h]]
  <2>3. /\ visit \in [1 .. place -> UpTo(v, fees)]
        /\ \A h, k \in 1 .. place : visit[h] = visit[k] => h = k
    BY <2>1, <2>2
  <2> HIDE DEF visit
  <2>4. visit \in Injection(1 .. place, UpTo(v, fees))
    BY <2>3 DEF Injection, IsInjective
  <2>5. place \in Nat /\ Cardinality(1 .. place) = place
    BY <1>3, FS_Interval
  <2> QED
    BY <1>9, <2>4, <2>5, FS_Injection
<1>12. p[place] \in DOMAIN fees
  BY <1>3, <1>4
<1> QED
  BY <1>7, <1>9, <1>10, <1>11, <1>12 DEF Fits

----------------------------------------------------------------------------
(* The arithmetic.                                                         *)

LEMMA Divide ==
  ASSUME NEW r \in Nat
  PROVE  /\ r \div Whole \in Nat /\ r % Whole \in 0 .. Whole - 1
         /\ r = Whole * (r \div Whole) + (r % Whole)
BY DEF Whole

LEMMA Scale ==
  ASSUME NEW m \in Nat, NEW a \in Nat, NEW b \in Nat, a <= b
  PROVE  m * a \in Nat /\ m * a <= m * b
<1>1. PICK c \in Nat : b = a + c
  <2>1. b - a \in Nat /\ b = a + (b - a)
    OBVIOUS
  <2> QED
    BY <2>1
<1>2. m * b = m * a + m * c
  BY <1>1
<1>3. m * a \in Nat /\ m * c \in Nat
  BY <1>1
<1> QED
  BY <1>2, <1>3

(* The rank r of m * bps, split into a place (from 0) and a rest.          *)
Splits(r, lo, g, m, bps) ==
  /\ r \in Nat /\ lo \in 0 .. m /\ g \in 0 .. Whole - 1
  /\ r = m * bps /\ lo = r \div Whole /\ g = r % Whole
  /\ g = m * bps - Whole * lo

LEMMA RankSplit ==
  ASSUME NEW m \in Nat, NEW bps \in 0 .. Whole
  PROVE  \E r, lo, g : Splits(r, lo, g, m, bps)
<1>1. bps \in Nat /\ Whole \in Nat /\ bps <= Whole
  BY DEF Whole
<1>2. m * bps \in Nat /\ m * bps <= m * Whole
  BY <1>1, Scale
<1>3. PICK r \in Nat : r = m * bps
  BY <1>2, Zenon
<1>4. PICK lo \in Nat : lo = r \div Whole
  BY Divide
<1>5. PICK g \in Nat : g = r % Whole /\ g <= Whole - 1
  BY Divide
<1>6. r = Whole * lo + g /\ r <= m * Whole
  <2>1. r = Whole * lo + g
    BY <1>4, <1>5, Divide, Zenon
  <2> QED
    BY <1>2, <1>3, <2>1
<1>7. lo \in 0 .. m /\ g \in 0 .. Whole - 1 /\ g = r - Whole * lo
  BY <1>5, <1>6 DEF Whole
<1>8. Splits(r, lo, g, m, bps)
  BY <1>3, <1>4, <1>5, <1>7, Zenon DEF Splits
<1> QED
  BY <1>8, Zenon

(* Between a and b, g parts in Whole of the way, to the nearest unit.      *)
Between(a, b, g) == (a * (Whole - g) + b * g + Whole \div 2) \div Whole

IsNear(v, a, b, g) ==
  /\ -Whole <= 2 * (Whole * (v - a) - g * (b - a))
  /\ 2 * (Whole * (v - a) - g * (b - a)) <= Whole

LEMMA Rounding ==
  ASSUME NEW a \in Nat, NEW b \in Nat, NEW g \in 0 .. Whole - 1
  PROVE  Between(a, b, g) \in Nat /\ IsNear(Between(a, b, g), a, b, g)
<1>1. PICK x \in Nat : x = a * g
  BY SMT
<1>2. PICK y \in Nat : y = b * g
  BY SMT
<1>3. a * (Whole - g) = Whole * a - x /\ g * (b - a) = y - x
  BY <1>1, <1>2 DEF Whole
<1>4. g \in Nat /\ Whole \in Nat /\ g <= Whole
  BY DEF Whole
<1>5. x <= a * Whole
  BY <1>1, <1>4, Scale
<1>6. PICK r \in Nat : r = Whole * a - x + y + Whole \div 2
  BY <1>5 DEF Whole
<1>7. a * (Whole - g) + b * g + Whole \div 2 = r
  BY <1>2, <1>3, <1>6 DEF Whole
<1>8. PICK v \in Nat : v = r \div Whole
  BY Divide
<1>9. Whole * v <= r /\ r < Whole * v + Whole
  <2>1. PICK rest \in 0 .. Whole - 1 : rest = r % Whole
    BY Divide, Zenon
  <2>2. r = Whole * v + rest
    BY <1>8, <2>1, Divide, Zenon
  <2> QED
    BY ONLY <2>2, rest \in 0 .. Whole - 1, r \in Nat, v \in Nat DEF Whole
<1>10. /\ -Whole <= 2 * (Whole * (v - a) - (y - x))
       /\ 2 * (Whole * (v - a) - (y - x)) <= Whole
  BY ONLY <1>6, <1>9, a \in Nat, v \in Nat, x \in Nat, y \in Nat, r \in Nat
     DEF Whole
<1>11. Between(a, b, g) = v
  BY <1>7, <1>8, Zenon DEF Between
<1> QED
  BY <1>3, <1>10, <1>11, Zenon DEF IsNear

----------------------------------------------------------------------------
(* Theorems.                                                               *)

(* priority_fees.rs:84-100, the percentile of any sample of any length is  *)
(* what the reference says, from the minimum (0) to the maximum (Whole).   *)
THEOREM PercentileExact ==
  ASSUME NEW fees \in Seq(Nat), fees # <<>>, NEW bps \in 0 .. Whole
  PROVE  /\ PercentileOf(fees, bps) \in Nat
         /\ IsPercentile(PercentileOf(fees, bps), fees, bps)
<1>1. PICK m \in Nat : m = Len(fees) - 1
  OBVIOUS
<1>2. PICK r, lo, g : Splits(r, lo, g, m, bps)
  BY RankSplit, Zenon
<1>3. r \in Nat /\ lo \in 0 .. m /\ lo \in Nat /\ g \in 0 .. Whole - 1
  BY <1>2 DEF Splits
<1>4. (Len(fees) - 1) * bps = r
  BY <1>1, <1>2, Zenon DEF Splits
<1>5. r \div Whole = lo /\ r % Whole = g
  BY <1>2, Zenon DEF Splits
<1>6. PICK hi \in 0 .. m : hi = IF lo < m THEN lo + 1 ELSE lo
  BY <1>3
<1>7. Smaller(lo + 1, m) = hi
  BY <1>3, <1>6 DEF Smaller
<1>8. PICK j \in DOMAIN fees : Sorted(fees)[lo + 1] = fees[j] /\ Fits(fees[j], lo + 1, fees)
  <2>1. PICK place \in 1 .. Len(fees) : place = lo + 1
    BY <1>1, <1>3
  <2> QED
    BY <2>1, SortedPlaces
<1>9. PICK k \in DOMAIN fees : Sorted(fees)[hi + 1] = fees[k] /\ Fits(fees[k], hi + 1, fees)
  <2>1. PICK place \in 1 .. Len(fees) : place = hi + 1
    BY <1>1
  <2> QED
    BY <2>1, SortedPlaces
<1>10. PICK a \in Nat : a = fees[j]
  OBVIOUS
<1>11. PICK b \in Nat : b = fees[k]
  OBVIOUS
<1>12. PICK v : v = Between(a, b, g)
  OBVIOUS
<1>13. v \in Nat /\ IsNear(v, a, b, g)
  BY <1>3, <1>12, Rounding, Zenon
<1>14. PercentileOf(fees, bps) = v
  <2>1. PercentileOf(fees, bps) =
          Between(Sorted(fees)[lo + 1], Sorted(fees)[Smaller(lo + 1, m) + 1], g)
    BY <1>1, <1>4, <1>5, Zenon DEF PercentileOf, Between
  <2>2. Sorted(fees)[lo + 1] = a
    BY <1>8, <1>10
  <2>3. Sorted(fees)[Smaller(lo + 1, m) + 1] = b
    BY <1>7, <1>9, <1>11
  <2> QED
    BY <1>12, <2>1, <2>2, <2>3
<1>15. IsPercentile(v, fees, bps)
  <2> DEFINE gap == (Len(fees) - 1) * bps - Whole * lo
  <2>1. gap = g
    <3>1. gap = m * bps - Whole * lo
      BY <1>1, Zenon
    <3>2. g = m * bps - Whole * lo
      BY <1>2, Zenon DEF Splits
    <3> QED
      BY <3>1, <3>2, Zenon
  <2> HIDE DEF gap
  <2>2. 0 <= gap /\ gap < Whole
    BY <1>3, <2>1 DEF Whole
  <2>3. StandsAt(fees[j], lo, fees)
    BY <1>3, <1>8 DEF Fits, Below, UpTo, StandsAt
  <2>4. StandsAt(fees[k], hi, fees)
    BY <1>9 DEF Fits, Below, UpTo, StandsAt
  <2>5. hi = IF lo < Len(fees) - 1 THEN lo + 1 ELSE lo
    BY <1>1, <1>6
  <2>6. lo \in 0 .. Len(fees) - 1
    BY <1>1, <1>3
  <2>7. IsNear(v, fees[j], fees[k], gap)
    BY <1>10, <1>11, <1>13, <2>1, Zenon
  <2> QED
    BY <2>2, <2>3, <2>4, <2>5, <2>6, <2>7, Zenon DEF IsPercentile, IsNear, gap
<1> QED
  BY <1>13, <1>14, <1>15
=============================================================================
