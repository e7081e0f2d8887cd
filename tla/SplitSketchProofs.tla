------------------------- MODULE SplitSketchProofs -------------------------
(***************************************************************************)
(* Theorems about the split copy of the sketch, for all keys, weights,     *)
(* hash tables and sizes.                                                  *)
(***************************************************************************)
EXTENDS SplitSketch, SumLemmas

Buckets == 0 .. BucketNum - 1
Positions == 0 .. CounterNum - 1
Word == 2 * HalfRange
-----------------------------------------------------------------------------
(* Numbers *)

\* What the constants are.
LEMMA Constants ==
  /\ HalfRange \in Nat /\ HalfRange >= 2 /\ Word \in Nat /\ Lambda \in Nat /\ Lambda >= 1
  /\ BucketNum \in Nat /\ BucketNum >= 1 /\ Slots \in Nat /\ Slots >= 1
  /\ CounterNum \in Nat /\ CounterNum >= 1 /\ LightMax \in Nat /\ LightMax >= 1
  /\ MaxFlow \in Nat /\ MaxFlow + LightMax < HalfRange
  /\ \A f \in Weights : f \in Nat /\ f >= 1
  /\ \A k \in Keys : k \in Nat /\ k # 0 /\ BucketOf[k] \in Buckets /\ PosOf[k] \in Positions
  BY SplitAssumption DEF Word, Buckets, Positions

\* The least element of a set of numbers.
LEMMA MinOf ==
  ASSUME NEW S \in SUBSET Nat, S # {}
  PROVE  Min(S) \in S /\ \A j \in S : Min(S) <= j
  BY LeastNatural DEF Min

LEMMA MinIs ==
  ASSUME NEW S \in SUBSET Nat, NEW m \in S, \A j \in S : m <= j
  PROVE  Min(S) = m
<1>1. Min(S) \in S /\ \A j \in S : Min(S) <= j
  BY MinOf
<1>2. Min(S) \in Nat /\ m \in Nat /\ Min(S) <= m /\ m <= Min(S)
  BY <1>1
<1> QED
  BY <1>2

\* What % does on naturals.
LEMMA Remainder ==
  ASSUME NEW a \in Nat, NEW m \in Nat \ {0}
  PROVE  /\ a % m \in 0 .. m - 1 /\ a % m <= a
         /\ a < m => a % m = a
         /\ m <= a /\ a < 2 * m => a % m = a - m
  OBVIOUS

\* A word is a count with or without the flag.
LEMMA CountWord ==
  ASSUME NEW v \in 0 .. Word - 1
  PROVE  /\ GetCounterVal(v) \in 0 .. HalfRange - 1
         /\ Flagged(v) => v = HalfRange + GetCounterVal(v)
         /\ ~Flagged(v) => v = GetCounterVal(v)
<1>1. v \in Nat /\ HalfRange \in Nat \ {0} /\ v < 2 * HalfRange
  BY Constants DEF Word
<1>2. v % HalfRange \in 0 .. HalfRange - 1
  BY <1>1, Remainder
<1>3. v < HalfRange => v % HalfRange = v
  BY <1>1, Remainder
<1>4. HalfRange <= v => v % HalfRange = v - HalfRange
  BY <1>1, Remainder
<1> QED
  BY <1>1, <1>2, <1>3, <1>4 DEF GetCounterVal, Flagged
-----------------------------------------------------------------------------
(* The search of a bucket *)

Holders(keys, k) == {i \in Lanes : keys[i] = k}
Idle(vals) == {i \in Lanes : GetCounterVal(vals[i]) = 0}
Smallest(vals) ==
  {i \in Lanes : \A j \in Lanes : GetCounterVal(vals[i]) <= GetCounterVal(vals[j])}

\* A bucket: the guard lane holds no key.
IsBucket(keys, vals) ==
  /\ keys \in [0 .. Slots -> Nat] /\ keys[Guard] = 0
  /\ vals \in [0 .. Slots -> 0 .. Word - 1]

LEMMA LaneNumbers ==
  /\ Lanes \in SUBSET Nat /\ 0 \in Lanes /\ Lanes \subseteq 0 .. Slots
  /\ Guard \in 0 .. Slots /\ 0 .. Slots = Lanes \cup {Guard} /\ \A i \in Lanes : i < Guard
  BY Constants DEF Lanes, Guard

\* What the comparisons of the vector code find.
LEMMA VectorFinds ==
  ASSUME NEW keys, NEW vals, IsBucket(keys, vals), NEW k \in Keys
  PROVE  /\ VectorScan(keys, vals, k).matched = First(Holders(keys, k))
         /\ VectorScan(keys, vals, k).empty = First(Idle(vals))
         /\ VectorScan(keys, vals, k).min = Min(Smallest(vals))
         /\ Smallest(vals) # {}
<1>1. PICK r : r = [i \in 0 .. Slots |-> IF i = Guard THEN HalfRange - 1 ELSE GetCounterVal(vals[i])]
  OBVIOUS
<1>2. /\ \A i \in Lanes : r[i] = GetCounterVal(vals[i]) /\ r[i] \in Nat /\ r[i] <= HalfRange - 1
      /\ r[Guard] = HalfRange - 1 /\ HalfRange - 1 \in Nat /\ HalfRange - 1 # 0
      /\ DOMAIN r = 0 .. Slots
  <2>1. \A i \in Lanes : vals[i] \in 0 .. Word - 1
    BY LaneNumbers DEF IsBucket
  <2>2. ASSUME NEW i \in Lanes PROVE GetCounterVal(vals[i]) \in 0 .. HalfRange - 1
    <3>1. PICK v : v = vals[i]
      OBVIOUS
    <3>2. v \in 0 .. Word - 1
      BY <2>1, <3>1
    <3>3. GetCounterVal(v) \in 0 .. HalfRange - 1
      BY <3>2, CountWord
    <3> QED
      BY <3>1, <3>3
  <2> QED
    BY <1>1, <2>2, LaneNumbers, Constants
<1>3. PICK least : least = Min(Range(r))
  OBVIOUS
<1>4. /\ \E i \in 0 .. Slots : least = r[i]
      /\ \A i \in 0 .. Slots : least <= r[i]
      /\ least \in Nat
  <2>1. Range(r) = {r[i] : i \in 0 .. Slots}
    BY <1>2 DEF Range
  <2>2. Range(r) \in SUBSET Nat /\ Range(r) # {}
    BY <1>2, <2>1, LaneNumbers
  <2>3. Min(Range(r)) \in Range(r) /\ \A j \in Range(r) : Min(Range(r)) <= j
    BY <2>2, MinOf
  <2> QED
    BY <1>3, <2>1, <2>2, <2>3
<1>5. PICK x \in Lanes : least = r[x]
  <2>1. PICK i \in 0 .. Slots : least = r[i]
    BY <1>4
  <2>2. CASE i = Guard
    <3>1. r[0] \in Nat /\ r[0] <= least /\ least <= r[0]
      BY <1>2, <1>4, <2>1, <2>2, LaneNumbers
    <3> QED
      BY <1>4, <3>1, LaneNumbers
  <2> QED
    BY <2>1, <2>2, LaneNumbers
<1>6. Smallest(vals) = {i \in Lanes : r[i] = least}
  <2>1. ASSUME NEW i \in Lanes
        PROVE  (\A j \in Lanes : r[i] <= r[j]) <=> r[i] = least
    BY <1>2, <1>4, <1>5, LaneNumbers
  <2> QED
    BY <1>2, <2>1 DEF Smallest
<1>7. PICK all : all = {i \in 0 .. Slots : r[i] = least}
  OBVIOUS
<1>8. First(all) = Min(Smallest(vals)) /\ Smallest(vals) # {}
  <2>1. PICK small : small = Smallest(vals)
    OBVIOUS
  <2>2. x \in small /\ small \in SUBSET Nat /\ small \subseteq all /\ all \in SUBSET Nat
    BY <1>5, <1>6, <1>7, <2>1, LaneNumbers
  <2>3. Min(small) \in small /\ \A j \in small : Min(small) <= j
    BY <2>2, MinOf
  <2>4. PICK m \in Lanes : m = Min(small)
    BY <1>6, <2>1, <2>3
  <2>5. m \in all /\ \A j \in all : m <= j
    <3>1. \A j \in all : j \in small \/ j = Guard
      BY <1>6, <1>7, <2>1, LaneNumbers
    <3> QED
      BY <2>2, <2>3, <2>4, <3>1, LaneNumbers
  <2>6. Min(all) = m
    BY <2>2, <2>5, MinIs
  <2> QED
    BY <2>1, <2>2, <2>4, <2>5, <2>6 DEF First
<1>9. (IF least = 0 THEN First(all) ELSE None) = First(Idle(vals))
  <2>1. CASE least = 0
    <3>1. Idle(vals) = Smallest(vals)
      BY <1>2, <1>6, <2>1 DEF Idle
    <3> QED
      BY <1>8, <2>1, <3>1 DEF First
  <2>2. CASE least # 0
    <3>1. Idle(vals) = {}
      BY <1>2, <1>4, <2>2, LaneNumbers DEF Idle
    <3> QED
      BY <2>2, <3>1 DEF First
  <2> QED
    BY <2>1, <2>2
<1>10. {i \in 0 .. Slots : keys[i] = k} = Holders(keys, k)
  BY LaneNumbers, Constants DEF IsBucket, Holders
<1> QED
  BY <1>1, <1>3, <1>7, <1>8, <1>9, <1>10 DEF VectorScan

\* The states of the scalar loop after 0, 1, ... Slots lanes.
Loop(s, keys, vals, k, m) ==
  s = [n \in 0 .. m |-> IF n = 0 THEN Unseen ELSE Look(keys, vals, k, s[n - 1], n - 1)]

LEMMA LoopExists ==
  ASSUME NEW keys, NEW vals, NEW k
  PROVE  \E s : Loop(s, keys, vals, k, Slots)
<1> DEFINE Good == {m \in Nat : \E s : Loop(s, keys, vals, k, m)}
<1>1. 0 \in Good
  <2>1. PICK s : s = [n \in 0 .. 0 |-> Unseen]
    OBVIOUS
  <2>2. Loop(s, keys, vals, k, 0)
    BY <2>1 DEF Loop
  <2> QED
    BY <2>2
<1>2. ASSUME NEW m \in Nat, m \in Good PROVE m + 1 \in Good
  <2>1. PICK s : Loop(s, keys, vals, k, m)
    BY <1>2
  <2>2. PICK t : t = [n \in 0 .. m + 1 |-> IF n = m + 1 THEN Look(keys, vals, k, s[m], m) ELSE s[n]]
    OBVIOUS
  <2>3. \A n \in 0 .. m : n \in 0 .. m + 1 /\ t[n] = s[n]
    BY <2>2
  <2>4. \A n \in 0 .. m : n # 0 => n - 1 \in 0 .. m
    OBVIOUS
  <2>5. \A n \in 0 .. m : s[n] = IF n = 0 THEN Unseen ELSE Look(keys, vals, k, s[n - 1], n - 1)
    BY <2>1 DEF Loop
  <2>6. \A n \in 0 .. m : t[n] = IF n = 0 THEN Unseen ELSE Look(keys, vals, k, t[n - 1], n - 1)
    BY <2>3, <2>4, <2>5
  <2>7. t[m + 1] = Look(keys, vals, k, t[m], m) /\ m + 1 # 0 /\ (m + 1) - 1 = m
    BY <2>2, <2>3
  <2>8. \A n \in 0 .. m + 1 : n \in 0 .. m \/ n = m + 1
    OBVIOUS
  <2>9. \A n \in 0 .. m + 1 :
          t[n] = IF n = 0 THEN Unseen ELSE Look(keys, vals, k, t[n - 1], n - 1)
    BY <2>6, <2>7, <2>8
  <2>10. Loop(t, keys, vals, k, m + 1)
    BY <2>2, <2>9 DEF Loop
  <2> QED
    BY <2>10
<1>3. Nat \subseteq Good
  <2> HIDE DEF Good
  <2> QED
    BY <1>1, <1>2, NumberInduction
<1> QED
  BY <1>3, Constants

LEMMA LoopRuns ==
  ASSUME NEW keys, NEW vals, NEW k
  PROVE  \E s : Loop(s, keys, vals, k, Slots) /\ ScalarScan(keys, vals, k) = s[Slots]
<1>1. PICK s : s = CHOOSE r : Loop(r, keys, vals, k, Slots)
  OBVIOUS
<1>2. Loop(s, keys, vals, k, Slots)
  BY <1>1, LoopExists
<1>3. ScalarScan(keys, vals, k) = s[Slots]
  BY <1>1 DEF ScalarScan, Loop
<1> QED
  BY <1>2, <1>3

\* Lanes of a bucket whose counts are numbers.
LEMMA LaneCounts ==
  ASSUME NEW keys, NEW vals, IsBucket(keys, vals)
  PROVE  \A i \in Lanes : GetCounterVal(vals[i]) \in Nat
<1>1. \A i \in Lanes : vals[i] \in 0 .. Word - 1
  BY LaneNumbers DEF IsBucket
<1> SUFFICES ASSUME NEW i \in Lanes PROVE GetCounterVal(vals[i]) \in Nat
  OBVIOUS
<1>2. PICK v : v = vals[i]
  OBVIOUS
<1>3. v \in 0 .. Word - 1
  BY <1>1, <1>2
<1>4. GetCounterVal(v) \in 0 .. HalfRange - 1
  BY <1>3, CountWord
<1> QED
  BY <1>2, <1>4, Constants

Free(keys) == {i \in Lanes : keys[i] = 0}

\* What the loop knows after n lanes.
Scanned(a, keys, vals, k, n) ==
  /\ a \in [matched : Lanes \cup {None}, empty : Lanes \cup {None}, min : Lanes]
  /\ a.matched # None => a.matched = First(Holders(keys, k))
  /\ a.matched = None =>
       /\ \A j \in 0 .. n - 1 : keys[j] # k
       /\ a.empty = First({j \in 0 .. n - 1 : keys[j] = 0})
       /\ IF n = 0 THEN a.min = 0 ELSE a.min < n
       /\ \A j \in 0 .. n - 1 :
            /\ GetCounterVal(vals[a.min]) <= GetCounterVal(vals[j])
            /\ j < a.min => GetCounterVal(vals[a.min]) < GetCounterVal(vals[j])

LEMMA LookOnce ==
  ASSUME NEW keys, NEW vals, IsBucket(keys, vals), NEW k \in Keys, NEW n \in Lanes,
         NEW a, Scanned(a, keys, vals, k, n)
  PROVE  Scanned(Look(keys, vals, k, a, n), keys, vals, k, n + 1)
<1> DEFINE C(i) == GetCounterVal(vals[i])
<1>1. /\ \A i \in Lanes : C(i) \in Nat
      /\ n \in Nat /\ n < Slots /\ Slots \in Nat /\ Lanes = 0 .. Slots - 1
      /\ \A j \in 0 .. n : j \in Lanes
  BY LaneCounts, Constants DEF Lanes
<1>2. a \in [matched : Lanes \cup {None}, empty : Lanes \cup {None}, min : Lanes]
  BY DEF Scanned
<1> HIDE DEF C
<1>3. CASE a.matched # None
  BY <1>3 DEF Look, Scanned
<1>4. CASE a.matched = None /\ keys[n] = k
  <2>1. Look(keys, vals, k, a, n) = [a EXCEPT !.matched = n]
    BY <1>4 DEF Look
  <2>2. PICK H : H = Holders(keys, k)
    OBVIOUS
  <2>3. n \in H /\ H \in SUBSET Nat /\ \A j \in H : n <= j
    <3>1. \A j \in 0 .. n - 1 : keys[j] # k
      BY <1>4 DEF Scanned
    <3> QED
      BY <1>1, <1>4, <2>2, <3>1 DEF Holders
  <2>4. Min(H) = n /\ H # {}
    BY <2>3, MinIs
  <2>5. n = First(Holders(keys, k))
    BY <2>2, <2>4 DEF First
  <2>6. n # None
    BY <1>1 DEF None
  <2>7. PICK b : b = [a EXCEPT !.matched = n]
    OBVIOUS
  <2>8. /\ b \in [matched : Lanes \cup {None}, empty : Lanes \cup {None}, min : Lanes]
        /\ b.matched = n
    BY <1>2, <2>7
  <2>9. Scanned(b, keys, vals, k, n + 1)
    BY <2>5, <2>6, <2>8 DEF Scanned
  <2> QED
    BY <2>1, <2>7, <2>9
<1>5. CASE a.matched = None /\ keys[n] # k
  <2>1. /\ \A j \in 0 .. n - 1 : keys[j] # k
        /\ a.empty = First({j \in 0 .. n - 1 : keys[j] = 0})
        /\ IF n = 0 THEN a.min = 0 ELSE a.min < n
        /\ a.min \in Lanes
        /\ \A j \in 0 .. n - 1 : C(a.min) <= C(j) /\ (j < a.min => C(a.min) < C(j))
    BY <1>5 DEF Scanned, C
  <2>2. PICK e : e = IF a.empty = None /\ keys[n] = 0 THEN n ELSE a.empty
    OBVIOUS
  <2>3. PICK m : m = IF C(a.min) > C(n) THEN n ELSE a.min
    OBVIOUS
  <2>4. Look(keys, vals, k, a, n) = [a EXCEPT !.empty = e, !.min = m]
    BY <1>5, <2>2, <2>3 DEF Look, C
  <2>5. /\ m \in Lanes /\ m < n + 1
        /\ \A j \in 0 .. n : C(m) <= C(j) /\ (j < m => C(m) < C(j))
    <3>1. \A j \in 0 .. n : j \in 0 .. n - 1 \/ j = n
      BY <1>1
    <3>2. C(a.min) \in Nat /\ C(n) \in Nat /\ a.min \in Nat
      BY <1>1, <2>1
    <3>3. m \in Lanes /\ m < n + 1
      BY <1>1, <2>1, <2>3, <3>2
    <3>4. CASE C(a.min) > C(n)
      <4>1. m = n
        BY <2>3, <3>4
      <4>2. \A j \in 0 .. n - 1 : C(j) \in Nat /\ C(a.min) <= C(j)
        BY <1>1, <2>1
      <4> QED
        BY <3>1, <3>2, <3>3, <3>4, <4>1, <4>2, <1>1
    <3>5. CASE ~(C(a.min) > C(n))
      <4>1. m = a.min
        BY <2>3, <3>5
      <4>2. m <= n
        BY <3>3, <1>1
      <4> QED
        BY <2>1, <3>1, <3>2, <3>3, <3>5, <4>1, <4>2, <1>1
    <3> QED
      BY <3>4, <3>5
  <2>6. e \in Lanes \cup {None} /\ e = First({j \in 0 .. n : keys[j] = 0})
    <3>1. PICK S : S = {j \in 0 .. n - 1 : keys[j] = 0}
      OBVIOUS
    <3>2. PICK T : T = {j \in 0 .. n : keys[j] = 0}
      OBVIOUS
    <3>3. T = IF keys[n] = 0 THEN S \cup {n} ELSE S
      BY <1>1, <3>1, <3>2
    <3>4. S \in SUBSET Nat /\ T \in SUBSET Nat /\ \A j \in S : j < n
      BY <1>1, <3>1, <3>2
    <3>5. CASE S = {}
      <4>1. a.empty = None
        BY <2>1, <3>1, <3>5 DEF First
      <4>2. CASE keys[n] = 0
        <5>1. n \in T /\ \A j \in T : n <= j
          BY <3>3, <3>5, <4>2, <1>1
        <5>2. Min(T) = n
          BY <3>4, <5>1, MinIs
        <5> QED
          BY <2>2, <3>2, <4>1, <4>2, <5>1, <5>2 DEF First
      <4>3. CASE keys[n] # 0
        BY <2>2, <3>2, <3>3, <3>5, <4>1, <4>3 DEF First
      <4> QED
        BY <4>2, <4>3
    <3>6. CASE S # {}
      <4>1. Min(S) \in S /\ \A j \in S : Min(S) <= j
        BY <3>4, <3>6, MinOf
      <4>2. PICK x : x = Min(S)
        OBVIOUS
      <4>3. x \in T /\ \A j \in T : x <= j
        <5>1. x \in S /\ x \in Nat /\ x < n /\ \A j \in S : x <= j
          BY <3>4, <4>1, <4>2
        <5>2. x \in T /\ \A j \in T : j \in S \/ j = n
          BY <3>3, <5>1
        <5> QED
          BY <5>1, <5>2, <1>1
      <4>4. Min(T) = x
        BY <3>4, <4>3, MinIs
      <4>5. a.empty = x /\ x # None
        BY <2>1, <3>1, <3>4, <3>6, <4>1, <4>2 DEF First, None
      <4>6. e = x /\ T # {}
        BY <2>2, <4>3, <4>5
      <4> QED
        BY <1>2, <3>2, <4>4, <4>5, <4>6 DEF First
    <3> QED
      BY <3>5, <3>6
  <2>7. PICK b : b = [a EXCEPT !.empty = e, !.min = m]
    OBVIOUS
  <2>8. /\ b \in [matched : Lanes \cup {None}, empty : Lanes \cup {None}, min : Lanes]
        /\ b.matched = None /\ b.empty = e /\ b.min = m
    BY <1>2, <1>5, <2>5, <2>6, <2>7
  <2>9. \A j \in 0 .. n : keys[j] # k
    BY <1>1, <1>5, <2>1
  <2>10. (n + 1) - 1 = n /\ n + 1 # 0
    BY <1>1
  <2>11. Scanned(b, keys, vals, k, n + 1)
    BY <2>5, <2>6, <2>8, <2>9, <2>10 DEF Scanned, C
  <2> QED
    BY <2>4, <2>7, <2>11
<1> QED
  BY <1>3, <1>4, <1>5

\* What the loop of the scalar code finds.
LEMMA ScalarFinds ==
  ASSUME NEW keys, NEW vals, IsBucket(keys, vals), NEW k \in Keys
  PROVE  /\ ScalarScan(keys, vals, k).matched = First(Holders(keys, k))
         /\ Holders(keys, k) = {} =>
              /\ ScalarScan(keys, vals, k).empty = First(Free(keys))
              /\ ScalarScan(keys, vals, k).min = Min(Smallest(vals))
<1>1. PICK s : Loop(s, keys, vals, k, Slots) /\ ScalarScan(keys, vals, k) = s[Slots]
  BY LoopRuns
<1>2. /\ s[0] = Unseen
      /\ \A n \in Lanes : s[n + 1] = Look(keys, vals, k, s[n], n)
  <2>1. \A n \in Lanes : n + 1 \in 0 .. Slots /\ n + 1 # 0 /\ (n + 1) - 1 = n
    BY Constants DEF Lanes
  <2>2. 0 \in 0 .. Slots
    BY Constants
  <2> QED
    BY <1>1, <2>1, <2>2 DEF Loop
<1> DEFINE Good == {n \in Nat : n <= Slots => Scanned(s[n], keys, vals, k, n)}
<1>3. 0 \in Good
  <2>1. /\ Unseen \in [matched : Lanes \cup {None}, empty : Lanes \cup {None}, min : Lanes]
        /\ Unseen.matched = None /\ Unseen.empty = None /\ Unseen.min = 0
    BY LaneNumbers DEF Unseen
  <2>2. First({j \in 0 .. 0 - 1 : keys[j] = 0}) = None
    BY DEF First
  <2> QED
    BY <1>2, <2>1, <2>2 DEF Scanned
<1>4. ASSUME NEW n \in Nat, n \in Good PROVE n + 1 \in Good
  <2> SUFFICES ASSUME n + 1 <= Slots PROVE Scanned(s[n + 1], keys, vals, k, n + 1)
    OBVIOUS
  <2>1. n \in Lanes /\ n <= Slots
    BY Constants DEF Lanes
  <2>2. PICK a : a = s[n]
    OBVIOUS
  <2>3. Scanned(Look(keys, vals, k, a, n), keys, vals, k, n + 1)
    BY <1>4, <2>1, <2>2, LookOnce
  <2> QED
    BY <1>2, <2>1, <2>2, <2>3
<1>5. Nat \subseteq Good
  <2> HIDE DEF Good
  <2> QED
    BY <1>3, <1>4, NumberInduction
<1>6. PICK a : a = s[Slots]
  OBVIOUS
<1>7. Scanned(a, keys, vals, k, Slots) /\ Lanes = 0 .. Slots - 1 /\ Slots # 0
  BY <1>5, <1>6, Constants DEF Lanes
<1>8. a.matched = First(Holders(keys, k))
  <2>1. CASE a.matched # None
    BY <1>7, <2>1 DEF Scanned
  <2>2. CASE a.matched = None
    <3>1. Holders(keys, k) = {}
      BY <1>7, <2>2 DEF Scanned, Holders
    <3> QED
      BY <2>2, <3>1 DEF First
  <2> QED
    BY <2>1, <2>2
<1>9. ASSUME Holders(keys, k) = {}
      PROVE  a.empty = First(Free(keys)) /\ a.min = Min(Smallest(vals))
  <2>1. a.matched = None
    BY <1>8, <1>9 DEF First
  <2>2. a.empty = First(Free(keys))
    BY <1>7, <2>1 DEF Scanned, Free
  <2>3. PICK S : S = Smallest(vals)
    OBVIOUS
  <2>4. PICK m : m = a.min
    OBVIOUS
  <2>5. /\ m \in Lanes
        /\ \A j \in Lanes : GetCounterVal(vals[m]) <= GetCounterVal(vals[j])
        /\ \A j \in Lanes : j < m => GetCounterVal(vals[m]) < GetCounterVal(vals[j])
    BY <1>7, <2>1, <2>4 DEF Scanned
  <2>6. S \in SUBSET Nat /\ m \in S
    BY <2>3, <2>5, LaneNumbers DEF Smallest
  <2>7. ASSUME NEW j \in S PROVE m <= j
    <3>1. j \in Lanes /\ GetCounterVal(vals[j]) <= GetCounterVal(vals[m])
      BY <2>3, <2>5 DEF Smallest
    <3>2. GetCounterVal(vals[j]) \in Nat /\ GetCounterVal(vals[m]) \in Nat
      BY <2>5, <3>1, LaneCounts
    <3>3. ~(j < m)
      BY <2>5, <3>1, <3>2
    <3> QED
      BY <2>6, <3>3
  <2>8. Min(S) = m
    BY <2>6, <2>7, MinIs
  <2> QED
    BY <2>2, <2>3, <2>4, <2>8
<1> QED
  BY <1>1, <1>6, <1>8, <1>9
-----------------------------------------------------------------------------
(* Sketches *)

Sketches ==
  [key : [Buckets -> [0 .. Slots -> Keys \cup {0}]],
   val : [Buckets -> [0 .. Slots -> 0 .. Word - 1]],
   counters : [Positions -> 0 .. LightMax],
   mice_dist : [0 .. LightMax -> Int]]

\* The types; nothing is ever written to the guard lane's key.
WellTyped(s) == s \in Sketches /\ \A b \in Buckets : s.key[b][Guard] = 0

\* A lane is free for the scalar code where it is free for the vector code.
Filled(s) ==
  \A b \in Buckets, i \in Lanes : s.key[b][i] = 0 <=> GetCounterVal(s.val[b][i]) = 0

LEMMA BucketsOf ==
  ASSUME NEW s, WellTyped(s), NEW b \in Buckets
  PROVE  /\ IsBucket(s.key[b], s.val[b])
         /\ Filled(s) => Free(s.key[b]) = Idle(s.val[b])
<1>1. /\ s.key[b] \in [0 .. Slots -> Keys \cup {0}] /\ s.key[b][Guard] = 0
      /\ s.val[b] \in [0 .. Slots -> 0 .. Word - 1]
  BY DEF WellTyped, Sketches
<1>2. Keys \cup {0} \subseteq Nat
  BY Constants
<1>3. IsBucket(s.key[b], s.val[b])
  BY <1>1, <1>2 DEF IsBucket
<1>4. Filled(s) => Free(s.key[b]) = Idle(s.val[b])
  BY DEF Filled, Free, Idle
<1> QED
  BY <1>3, <1>4

LEMMA LaneOf ==
  ASSUME NEW s, WellTyped(s), NEW b \in Buckets, NEW i \in 0 .. Slots
  PROVE  /\ s.key[b][i] \in Keys \cup {0}
         /\ s.val[b][i] \in 0 .. Word - 1
         /\ GetCounterVal(s.val[b][i]) \in 0 .. HalfRange - 1
         /\ Flagged(s.val[b][i]) => s.val[b][i] = HalfRange + GetCounterVal(s.val[b][i])
         /\ ~Flagged(s.val[b][i]) => s.val[b][i] = GetCounterVal(s.val[b][i])
<1>1. s.key[b] \in [0 .. Slots -> Keys \cup {0}] /\ s.val[b] \in [0 .. Slots -> 0 .. Word - 1]
  BY DEF WellTyped, Sketches
<1>2. PICK v : v = s.val[b][i]
  OBVIOUS
<1>3. s.key[b][i] \in Keys \cup {0} /\ v \in 0 .. Word - 1
  BY <1>1, <1>2
<1> QED
  BY <1>2, <1>3, CountWord

(***************************************************************************)
(* What both builds do: insert and quick_insert with the search replaced   *)
(* by what it finds.                                                       *)
(***************************************************************************)
Victim(s, b) == Min(Smallest(s.val[b]))

Placed(s, k, f) ==
  LET b == BucketOf[k]
  IN  IF Holders(s.key[b], k) # {}
      THEN [s EXCEPT !.val[b][Min(Holders(s.key[b], k))] = (@ + f) % (2 * HalfRange)]
      ELSE InLane(s, b, Min(Idle(s.val[b])), k, f)

Contends(s, k) == Holders(s.key[BucketOf[k]], k) = {} /\ Idle(s.val[BucketOf[k]]) = {}

Inserted(s, k, f) ==
  LET b == BucketOf[k]
      m == Victim(s, b)
  IN  IF ~Contends(s, k) THEN Placed(s, k, f)
      ELSE IF ~JudgeIfSwap(s, b, m) THEN LightInsert(Voted(s, b), k, 1)
      ELSE HandOver(InLane([s EXCEPT !.val[b][Guard] = 0], b, m, k, HalfRange + 1),
                    s.key[b][m], s.val[b][m])

QuickInserted(s, k, f) ==
  LET b == BucketOf[k]
      m == Victim(s, b)
  IN  IF ~Contends(s, k) THEN Placed(s, k, f)
      ELSE IF ~JudgeIfSwap(s, b, m) THEN Voted(s, b)
      ELSE [s EXCEPT !.val[b][Guard] = 0, !.key[b][m] = k]

\* First is a number when there is a lane, and no lane has the number None.
LEMMA Found ==
  ASSUME NEW S \in SUBSET Lanes
  PROVE  /\ S = {} => First(S) = None
         /\ S # {} => First(S) = Min(S) /\ First(S) # None /\ Min(S) \in S
<1>1. S = {} => First(S) = None
  BY DEF First
<1>2. ASSUME S # {} PROVE First(S) = Min(S) /\ First(S) # None /\ Min(S) \in S
  <2>1. S \in SUBSET Nat
    BY LaneNumbers
  <2>2. Min(S) \in S /\ First(S) = Min(S)
    BY <1>2, <2>1, MinOf DEF First
  <2>3. Min(S) \in Nat
    BY <2>1, <2>2
  <2>4. Min(S) # None
    BY <2>3 DEF None
  <2> QED
    BY <2>2, <2>4
<1> QED
  BY <1>1, <1>2

LEMMA Searches ==
  ASSUME NEW s, WellTyped(s), Filled(s), NEW k \in Keys, NEW build \in Builds,
         NEW b, b = BucketOf[k], NEW at, at = Scan(build, s, k)
  PROVE  /\ at.matched = First(Holders(s.key[b], k))
         /\ Holders(s.key[b], k) = {} =>
              at.empty = First(Idle(s.val[b])) /\ at.min = Victim(s, b)
<1>1. b \in Buckets
  BY Constants
<1>2. IsBucket(s.key[b], s.val[b]) /\ Free(s.key[b]) = Idle(s.val[b])
  BY <1>1, BucketsOf
<1>3. CASE build = "simd"
  <2>1. at = VectorScan(s.key[b], s.val[b], k)
    BY <1>3 DEF Scan
  <2> QED
    BY <1>2, <2>1, VectorFinds DEF Victim
<1>4. CASE build = "scalar"
  <2>1. at = ScalarScan(s.key[b], s.val[b], k)
    BY <1>4 DEF Scan
  <2> QED
    BY <1>2, <2>1, ScalarFinds DEF Victim
<1> QED
  BY <1>3, <1>4 DEF Builds

\* The compile-time switch does not matter.
LEMMA BuildsInsert ==
  ASSUME NEW s, WellTyped(s), Filled(s), NEW k \in Keys, NEW f, NEW build \in Builds
  PROVE  /\ InsertInto(build, s, k, f) = Inserted(s, k, f)
         /\ QuickInsertInto(build, s, k, f) = QuickInserted(s, k, f)
<1>1. PICK b : b = BucketOf[k]
  OBVIOUS
<1>2. PICK at : at = Scan(build, s, k)
  OBVIOUS
<1>3. /\ at.matched = First(Holders(s.key[b], k))
      /\ Holders(s.key[b], k) = {} =>
           at.empty = First(Idle(s.val[b])) /\ at.min = Victim(s, b)
  BY <1>1, <1>2, Searches
<1>4. PICK H : H = Holders(s.key[b], k)
  OBVIOUS
<1>5. PICK E : E = Idle(s.val[b])
  OBVIOUS
<1>6. /\ H = {} => at.matched = None
      /\ H # {} => at.matched = Min(H) /\ at.matched # None
  BY <1>3, <1>4, Found DEF Holders
<1>7. /\ H = {} /\ E = {} => at.empty = None
      /\ H = {} /\ E # {} => at.empty = Min(E) /\ at.empty # None
  <2>1. E \in SUBSET Lanes
    BY <1>5 DEF Idle
  <2> QED
    BY <1>3, <1>4, <1>5, <2>1, Found
<1>8. Contends(s, k) <=> H = {} /\ E = {}
  BY <1>1, <1>4, <1>5 DEF Contends
<1>9. CASE ~Contends(s, k)
  <2>1. at.matched # None \/ at.empty # None
    BY <1>6, <1>7, <1>8, <1>9
  <2>2. Kept(s, k, f, at) = Placed(s, k, f)
    BY <1>1, <1>4, <1>5, <1>6, <1>7, <1>8, <1>9 DEF Kept, Placed
  <2> QED
    BY <1>2, <1>9, <2>1, <2>2 DEF InsertInto, QuickInsertInto, Inserted, QuickInserted
<1>10. CASE Contends(s, k)
  <2>1. at.matched = None /\ at.empty = None /\ at.min = Victim(s, b)
    BY <1>3, <1>4, <1>6, <1>7, <1>8, <1>10
  <2> QED
    BY <1>1, <1>2, <1>10, <2>1 DEF InsertInto, QuickInsertInto, Inserted, QuickInserted
<1> QED
  BY <1>9, <1>10
-----------------------------------------------------------------------------
(* What an insertion does to a sketch *)

\* Lane i of bucket b gets key k and val v; no other lane changes.
Put(s, t, b, i, k, v) ==
  /\ WellTyped(t)
  /\ t.key[b][i] = k /\ t.val[b][i] = v
  /\ \A c \in Buckets, j \in 0 .. Slots :
       c # b \/ j # i => t.key[c][j] = s.key[c][j] /\ t.val[c][j] = s.val[c][j]

LEMMA PutVal ==
  ASSUME NEW s, WellTyped(s), NEW b \in Buckets, NEW i \in 0 .. Slots,
         NEW v \in 0 .. Word - 1, NEW t, t = [s EXCEPT !.val[b][i] = v]
  PROVE  /\ Put(s, t, b, i, s.key[b][i], v)
         /\ t.counters = s.counters /\ t.mice_dist = s.mice_dist
<1>1. /\ s \in Sketches
      /\ s.key \in [Buckets -> [0 .. Slots -> Keys \cup {0}]]
      /\ s.val \in [Buckets -> [0 .. Slots -> 0 .. Word - 1]]
  BY DEF WellTyped, Sketches
<1>2. PICK w : w = [s.val EXCEPT ![b][i] = v]
  OBVIOUS
<1>3. /\ w \in [Buckets -> [0 .. Slots -> 0 .. Word - 1]] /\ w[b][i] = v
      /\ \A c \in Buckets, j \in 0 .. Slots : c # b \/ j # i => w[c][j] = s.val[c][j]
  BY <1>1, <1>2
<1>4. /\ t \in Sketches /\ t.key = s.key /\ t.val = w
      /\ t.counters = s.counters /\ t.mice_dist = s.mice_dist
  <2>1. t = [s EXCEPT !.val = w]
    BY <1>1, <1>2 DEF Sketches
  <2> QED
    BY <1>1, <1>3, <2>1 DEF Sketches
<1> QED
  BY <1>3, <1>4 DEF Put, WellTyped

LEMMA PutKey ==
  ASSUME NEW s, WellTyped(s), NEW b \in Buckets, NEW i \in Lanes,
         NEW k \in Keys, NEW t, t = [s EXCEPT !.key[b][i] = k]
  PROVE  /\ Put(s, t, b, i, k, s.val[b][i])
         /\ t.counters = s.counters /\ t.mice_dist = s.mice_dist
<1>1. /\ s \in Sketches /\ i \in 0 .. Slots /\ i # Guard
      /\ s.key \in [Buckets -> [0 .. Slots -> Keys \cup {0}]]
      /\ s.val \in [Buckets -> [0 .. Slots -> 0 .. Word - 1]]
  BY LaneNumbers DEF WellTyped, Sketches
<1>2. PICK w : w = [s.key EXCEPT ![b][i] = k]
  OBVIOUS
<1>3. /\ w \in [Buckets -> [0 .. Slots -> Keys \cup {0}]] /\ w[b][i] = k
      /\ \A c \in Buckets, j \in 0 .. Slots : c # b \/ j # i => w[c][j] = s.key[c][j]
  BY <1>1, <1>2
<1>4. /\ t \in Sketches /\ t.key = w /\ t.val = s.val
      /\ t.counters = s.counters /\ t.mice_dist = s.mice_dist
  <2>1. t = [s EXCEPT !.key = w]
    BY <1>1, <1>2 DEF Sketches
  <2> QED
    BY <1>1, <1>3, <2>1 DEF Sketches
<1>5. \A c \in Buckets : w[c][Guard] = 0
  BY <1>1, <1>3, LaneNumbers DEF WellTyped
<1> QED
  BY <1>3, <1>4, <1>5 DEF Put, WellTyped

LEMMA PutLane ==
  ASSUME NEW s, WellTyped(s), NEW b \in Buckets, NEW i \in Lanes,
         NEW k \in Keys, NEW v \in 0 .. Word - 1, NEW t, t = InLane(s, b, i, k, v)
  PROVE  /\ Put(s, t, b, i, k, v)
         /\ t.counters = s.counters /\ t.mice_dist = s.mice_dist
<1>1. i \in 0 .. Slots
  BY LaneNumbers
<1>2. PICK u : u = [s EXCEPT !.key[b][i] = k]
  OBVIOUS
<1>3. /\ Put(s, u, b, i, k, s.val[b][i])
      /\ u.counters = s.counters /\ u.mice_dist = s.mice_dist
  BY <1>2, PutKey
<1>4. WellTyped(u)
  BY <1>3 DEF Put
<1>5. t = [u EXCEPT !.val[b][i] = v]
  BY <1>2 DEF InLane
<1>6. /\ Put(u, t, b, i, u.key[b][i], v)
      /\ t.counters = u.counters /\ t.mice_dist = u.mice_dist
  BY <1>1, <1>4, <1>5, PutVal
<1> QED
  BY <1>3, <1>6 DEF Put

\* An operation of the light part on the counter of k.
Light(s, t) == WellTyped(t) /\ t.key = s.key /\ t.val = s.val

LEMMA Pairs ==
  ASSUME NEW m \in Nat, NEW n \in Nat
  PROVE  /\ Min({m, n}) = IF m <= n THEN m ELSE n
         /\ Max({m, n}) = IF m <= n THEN n ELSE m
<1>1. Min({m, n}) = IF m <= n THEN m ELSE n
  BY MinIs
<1>2. PICK x \in {m, n} : \A y \in {m, n} : x >= y
  OBVIOUS
<1>3. Max({m, n}) \in {m, n} /\ \A y \in {m, n} : Max({m, n}) >= y
  BY <1>2 DEF Max
<1>4. Max({m, n}) = IF m <= n THEN n ELSE m
  BY <1>3
<1> QED
  BY <1>1, <1>4

LEMMA StoreKeeps ==
  ASSUME NEW s, WellTyped(s), NEW p \in Positions, NEW new \in 0 .. LightMax
  PROVE  /\ Light(s, Store(s, p, new))
         /\ Store(s, p, new).counters = [s.counters EXCEPT ![p] = new]
         /\ Store(s, p, new).mice_dist = Recount(s.mice_dist, s.counters[p], new)
<1>1. /\ s \in Sketches /\ s.counters \in [Positions -> 0 .. LightMax]
      /\ s.mice_dist \in [0 .. LightMax -> Int]
  BY DEF WellTyped, Sketches
<1>2. PICK c : c = [s.counters EXCEPT ![p] = new]
  OBVIOUS
<1>3. PICK d : d = Recount(s.mice_dist, s.counters[p], new)
  OBVIOUS
<1>4. c \in [Positions -> 0 .. LightMax] /\ d \in [0 .. LightMax -> Int]
  <2>1. PICK old \in 0 .. LightMax : old = s.counters[p]
    BY <1>1
  <2>2. PICK h \in [0 .. LightMax -> Int] : h = s.mice_dist
    BY <1>1
  <2>3. d = Recount(h, old, new)
    BY <1>3, <2>1, <2>2
  <2>4. d \in [0 .. LightMax -> Int]
    BY <2>3 DEF Recount
  <2>5. c \in [Positions -> 0 .. LightMax]
    BY <1>1, <1>2
  <2> QED
    BY <2>4, <2>5
<1>5. Store(s, p, new) = [s EXCEPT !.counters = c, !.mice_dist = d]
  BY <1>1, <1>2, <1>3 DEF Store, Sketches
<1>6. PICK t : t = [s EXCEPT !.counters = c, !.mice_dist = d]
  OBVIOUS
<1>7. /\ t \in Sketches /\ t.key = s.key /\ t.val = s.val
      /\ t.counters = c /\ t.mice_dist = d
  BY <1>1, <1>4, <1>6 DEF Sketches
<1> QED
  BY <1>2, <1>3, <1>5, <1>6, <1>7 DEF Light, WellTyped

LEMMA LightInsertKeeps ==
  ASSUME NEW s, WellTyped(s), NEW k \in Keys \cup {0}, NEW f \in Nat
  PROVE  Light(s, LightInsert(s, k, f)) /\ Light(s, LightSwapInsert(s, k, f))
<1>1. PICK p : p = PosOf[k]
  OBVIOUS
<1>2. p \in Positions /\ LightMax \in Nat
  BY <1>1, SplitAssumption DEF Positions
<1>3. PICK old : old = s.counters[p]
  OBVIOUS
<1>4. old \in 0 .. LightMax
  BY <1>2, <1>3 DEF WellTyped, Sketches
<1>5. Min({old + f, LightMax}) \in 0 .. LightMax
  BY <1>2, <1>4, Pairs
<1>6. PICK g : g = Min({f, LightMax})
  OBVIOUS
<1>7. g \in 0 .. LightMax
  BY <1>2, <1>6, Pairs
<1>8. Max({old, g}) \in 0 .. LightMax
  BY <1>4, <1>7, Pairs
<1> QED
  BY <1>1, <1>2, <1>3, <1>5, <1>6, <1>8, StoreKeeps DEF LightInsert, LightSwapInsert

LEMMA HandOverKeeps ==
  ASSUME NEW s, WellTyped(s), NEW k \in Keys \cup {0}, NEW v \in 0 .. Word - 1
  PROVE  Light(s, HandOver(s, k, v))
<1>1. v \in Nat /\ GetCounterVal(v) \in Nat
  BY CountWord, Constants
<1> QED
  BY <1>1, LightInsertKeeps DEF HandOver

LEMMA PutLight ==
  ASSUME NEW s, NEW u, NEW t, NEW b, NEW i, NEW k, NEW v,
         Put(s, u, b, i, k, v), Light(u, t)
  PROVE  Put(s, t, b, i, k, v)
  BY DEF Put, Light

Raise(v, n) == (v + n) % Word

\* The ways an insertion of k ends.
Hit(s, t, b, k, f) ==
  \E i \in Lanes : s.key[b][i] = k /\ Put(s, t, b, i, k, Raise(s.val[b][i], f))

Fills(s, t, b, k, f) ==
  \E i \in Lanes : GetCounterVal(s.val[b][i]) = 0 /\ Put(s, t, b, i, k, f)

Full(s, b) == \A i \in Lanes : GetCounterVal(s.val[b][i]) # 0

Rejects(s, t, b) ==
  /\ Put(s, t, b, Guard, 0, Raise(s.val[b][Guard], 1))
  /\ \A j \in Lanes : Raise(s.val[b][Guard], 1) <= Lambda * GetCounterVal(s.val[b][j])

Swaps(s, t, b, k) ==
  \E m \in Lanes : \E u :
    Put(s, u, b, Guard, 0, 0) /\ Put(u, t, b, m, k, HalfRange + 1)

QuickSwaps(s, t, b, k) ==
  \E m \in Lanes : \E u :
    Put(s, u, b, Guard, 0, 0) /\ Put(u, t, b, m, k, s.val[b][m])

LEMMA RaiseType ==
  ASSUME NEW v \in Nat, NEW n \in Nat
  PROVE  /\ Raise(v, n) \in 0 .. Word - 1 /\ Raise(v, n) <= v + n
         /\ v + n < Word => Raise(v, n) = v + n
<1>1. v + n \in Nat /\ Word \in Nat \ {0}
  BY Constants DEF Word
<1> QED
  BY <1>1, Remainder DEF Raise

LEMMA PlacedOutcome ==
  ASSUME NEW s, WellTyped(s), NEW k \in Keys, NEW f \in 0 .. Word - 1, ~Contends(s, k),
         NEW b, b = BucketOf[k], NEW t, t = Placed(s, k, f)
  PROVE  /\ Hit(s, t, b, k, f) \/ Fills(s, t, b, k, f)
         /\ t.counters = s.counters /\ t.mice_dist = s.mice_dist
<1>1. b \in Buckets /\ f \in Nat /\ Word = 2 * HalfRange
  BY Constants DEF Word
<1>2. PICK H : H = Holders(s.key[b], k)
  OBVIOUS
<1>3. PICK E : E = Idle(s.val[b])
  OBVIOUS
<1>4. H \in SUBSET Lanes /\ E \in SUBSET Lanes
  BY <1>2, <1>3 DEF Holders, Idle
<1>5. CASE H # {}
  <2>1. PICK i \in H : i = Min(H)
    BY <1>4, <1>5, Found
  <2>2. i \in Lanes /\ i \in 0 .. Slots /\ s.key[b][i] = k
    BY <1>2, <1>4, LaneNumbers DEF Holders
  <2>3. PICK v : v = Raise(s.val[b][i], f)
    OBVIOUS
  <2>4. v \in 0 .. Word - 1
    <3>1. PICK w : w = s.val[b][i]
      OBVIOUS
    <3>2. w \in 0 .. Word - 1
      BY <1>1, <2>2, <3>1, LaneOf
    <3>3. w \in Nat
      BY <3>2, Constants
    <3>4. Raise(w, f) \in 0 .. Word - 1
      BY <1>1, <3>3, RaiseType
    <3> QED
      BY <2>3, <3>1, <3>4
  <2>5. t = [s EXCEPT !.val[b][i] = v]
    BY <1>1, <1>2, <1>5, <2>1, <2>3 DEF Placed, Raise
  <2>6. /\ Put(s, t, b, i, s.key[b][i], v)
        /\ t.counters = s.counters /\ t.mice_dist = s.mice_dist
    BY <1>1, <2>2, <2>4, <2>5, PutVal
  <2> QED
    BY <2>2, <2>3, <2>6 DEF Hit
<1>6. CASE H = {}
  <2>1. E # {}
    BY <1>2, <1>3, <1>6 DEF Contends
  <2>2. PICK i \in E : i = Min(E)
    BY <1>4, <2>1, Found
  <2>3. i \in Lanes /\ GetCounterVal(s.val[b][i]) = 0
    BY <1>3, <1>4 DEF Idle
  <2>4. t = InLane(s, b, i, k, f)
    BY <1>2, <1>3, <1>6, <2>2 DEF Placed
  <2>5. /\ Put(s, t, b, i, k, f)
        /\ t.counters = s.counters /\ t.mice_dist = s.mice_dist
    BY <1>1, <2>3, <2>4, PutLane
  <2> QED
    BY <2>3, <2>5 DEF Fills
<1> QED
  BY <1>5, <1>6

\* The votes after one more.
LEMMA VotesOutcome ==
  ASSUME NEW s, WellTyped(s), NEW b \in Buckets, NEW t, t = Voted(s, b)
  PROVE  /\ Put(s, t, b, Guard, 0, Raise(s.val[b][Guard], 1))
         /\ t.counters = s.counters /\ t.mice_dist = s.mice_dist
<1>1. PICK w : w = s.val[b][Guard]
  OBVIOUS
<1>2. Guard \in 0 .. Slots /\ Word = 2 * HalfRange /\ s.key[b][Guard] = 0
  BY LaneNumbers DEF Word, WellTyped
<1>3. w \in 0 .. Word - 1
  BY <1>1, <1>2, LaneOf
<1>4. w \in Nat
  BY <1>3, Constants
<1>5. PICK v : v = Raise(w, 1)
  OBVIOUS
<1>6. v \in 0 .. Word - 1
  BY <1>4, <1>5, RaiseType
<1>7. t = [s EXCEPT !.val[b][Guard] = v]
  BY <1>1, <1>2, <1>5 DEF Voted, Raise
<1>8. /\ Put(s, t, b, Guard, s.key[b][Guard], v)
      /\ t.counters = s.counters /\ t.mice_dist = s.mice_dist
  BY <1>2, <1>6, <1>7, PutVal
<1> QED
  BY <1>1, <1>2, <1>5, <1>8

\* The victim has a smallest count.
LEMMA VictimLeast ==
  ASSUME NEW s, WellTyped(s), NEW b \in Buckets
  PROVE  /\ Victim(s, b) \in Lanes
         /\ \A j \in Lanes : GetCounterVal(s.val[b][Victim(s, b)]) <= GetCounterVal(s.val[b][j])
<1>1. IsBucket(s.key[b], s.val[b])
  BY BucketsOf
<1>2. PICK S : S = Smallest(s.val[b])
  OBVIOUS
<1>3. S # {}
  <2>1. PICK C : C = {GetCounterVal(s.val[b][i]) : i \in Lanes}
    OBVIOUS
  <2>2. C \in SUBSET Nat /\ C # {}
    BY <1>1, <2>1, LaneCounts, LaneNumbers
  <2>3. PICK c \in C : \A d \in C : c <= d
    BY <2>2, MinOf
  <2> QED
    BY <1>2, <2>1, <2>3 DEF Smallest
<1>4. S \in SUBSET Lanes
  BY <1>2 DEF Smallest
<1>5. PICK m \in S : m = Min(S)
  BY <1>3, <1>4, Found
<1>6. m = Victim(s, b)
  BY <1>2, <1>5 DEF Victim
<1> QED
  BY <1>2, <1>4, <1>5, <1>6 DEF Smallest

\* Votes that do not suffice are no more than Lambda times any count.
LEMMA NotJudged ==
  ASSUME NEW s, WellTyped(s), NEW b \in Buckets, ~JudgeIfSwap(s, b, Victim(s, b))
  PROVE  \A j \in Lanes : Raise(s.val[b][Guard], 1) <= Lambda * GetCounterVal(s.val[b][j])
<1>1. PICK m \in Lanes : m = Victim(s, b)
  BY VictimLeast
<1>2. PICK c : c = GetCounterVal(s.val[b][m])
  OBVIOUS
<1>3. c \in Nat /\ Word \in Nat \ {0} /\ Word = 2 * HalfRange /\ Lambda \in Nat
  <2>1. IsBucket(s.key[b], s.val[b])
    BY BucketsOf
  <2>2. \A i \in Lanes : GetCounterVal(s.val[b][i]) \in Nat
    BY <2>1, LaneCounts
  <2> QED
    BY <1>2, <2>2, Constants DEF Word
<1>4. PICK u : u = Voted(s, b)
  OBVIOUS
<1>5. u.val[b][Guard] = Raise(s.val[b][Guard], 1)
  BY <1>4, VotesOutcome DEF Put
<1>6. ~(u.val[b][Guard] > (c * Lambda) % Word)
  BY <1>1, <1>2, <1>3, <1>4 DEF JudgeIfSwap
<1>7. PICK g : g = Raise(s.val[b][Guard], 1)
  OBVIOUS
<1>8. g \in Nat
  <2>1. WellTyped(u) /\ Guard \in 0 .. Slots
    BY <1>4, VotesOutcome, LaneNumbers DEF Put
  <2>2. u.val[b][Guard] \in 0 .. Word - 1
    BY <2>1, LaneOf
  <2> QED
    BY <1>3, <1>5, <1>7, <2>2
<1>9. c * Lambda \in Nat
  BY <1>3
<1>10. (c * Lambda) % Word \in Nat /\ (c * Lambda) % Word <= c * Lambda
  BY <1>3, <1>9, Remainder
<1>11. g <= c * Lambda
  BY <1>5, <1>6, <1>7, <1>8, <1>9, <1>10
<1> SUFFICES ASSUME NEW j \in Lanes PROVE g <= Lambda * GetCounterVal(s.val[b][j])
  BY <1>7
<1>12. PICK d : d = GetCounterVal(s.val[b][j])
  OBVIOUS
<1>13. d \in Nat /\ c <= d
  <2>1. IsBucket(s.key[b], s.val[b])
    BY BucketsOf
  <2>2. \A i \in Lanes : GetCounterVal(s.val[b][i]) \in Nat
    BY <2>1, LaneCounts
  <2> QED
    BY <1>1, <1>2, <1>12, <2>2, VictimLeast
<1>14. c * Lambda <= Lambda * d
  BY <1>3, <1>13
<1>15. Lambda * d \in Nat
  BY <1>3, <1>13
<1> QED
  BY <1>8, <1>9, <1>11, <1>12, <1>14, <1>15

LEMMA Cleared ==
  ASSUME NEW s, WellTyped(s), NEW b \in Buckets, NEW u, u = [s EXCEPT !.val[b][Guard] = 0]
  PROVE  /\ Put(s, u, b, Guard, 0, 0) /\ WellTyped(u)
         /\ u.counters = s.counters /\ u.mice_dist = s.mice_dist
<1>1. Guard \in 0 .. Slots /\ s.key[b][Guard] = 0
  BY LaneNumbers DEF WellTyped
<1>2. PICK zero \in 0 .. Word - 1 : zero = 0
  BY Constants DEF Word
<1>3. /\ Put(s, u, b, Guard, s.key[b][Guard], zero)
      /\ u.counters = s.counters /\ u.mice_dist = s.mice_dist
  BY <1>1, <1>2, PutVal
<1> QED
  BY <1>1, <1>2, <1>3 DEF Put

\* insert ends in one of four ways.
LEMMA InsertOutcome ==
  ASSUME NEW s, WellTyped(s), NEW k \in Keys, NEW f \in 0 .. Word - 1,
         NEW b, b = BucketOf[k], NEW t, t = Inserted(s, k, f)
  PROVE  \/ ~Contends(s, k) /\ Hit(s, t, b, k, f)
         \/ ~Contends(s, k) /\ Fills(s, t, b, k, f)
         \/ Contends(s, k) /\ Rejects(s, t, b)
         \/ Contends(s, k) /\ Swaps(s, t, b, k)
<1>1. b \in Buckets
  BY Constants
<1>2. CASE ~Contends(s, k)
  <2>1. t = Placed(s, k, f)
    BY <1>2 DEF Inserted
  <2> QED
    BY <1>2, <2>1, PlacedOutcome
<1>3. CASE Contends(s, k) /\ ~JudgeIfSwap(s, b, Victim(s, b))
  <2>1. t = LightInsert(Voted(s, b), k, 1)
    BY <1>3 DEF Inserted
  <2>2. PICK u : u = Voted(s, b)
    OBVIOUS
  <2>3. Put(s, u, b, Guard, 0, Raise(s.val[b][Guard], 1))
    BY <1>1, <2>2, VotesOutcome
  <2>4. WellTyped(u) /\ k \in Keys \cup {0} /\ 1 \in Nat
    BY <2>3 DEF Put
  <2>5. PICK one : one = 1
    OBVIOUS
  <2>6. Light(u, LightInsert(u, k, one))
    BY <2>4, <2>5, LightInsertKeeps
  <2>7. Put(s, t, b, Guard, 0, Raise(s.val[b][Guard], 1))
    BY <2>1, <2>2, <2>3, <2>5, <2>6, PutLight
  <2> QED
    BY <1>1, <1>3, <2>7, NotJudged DEF Rejects
<1>4. CASE Contends(s, k) /\ JudgeIfSwap(s, b, Victim(s, b))
  <2>1. PICK m \in Lanes : m = Victim(s, b)
    BY <1>1, VictimLeast
  <2>2. PICK u : u = [s EXCEPT !.val[b][Guard] = 0]
    OBVIOUS
  <2>3. PICK w : w = InLane(u, b, m, k, HalfRange + 1)
    OBVIOUS
  <2>4. t = HandOver(w, s.key[b][m], s.val[b][m])
    BY <1>4, <2>1, <2>2, <2>3 DEF Inserted
  <2>5. Put(s, u, b, Guard, 0, 0) /\ WellTyped(u)
    BY <1>1, <2>2, Cleared
  <2>6. PICK one \in 0 .. Word - 1 : one = HalfRange + 1
    BY Constants DEF Word
  <2>7. Put(u, w, b, m, k, one) /\ WellTyped(w)
    BY <1>1, <2>3, <2>5, <2>6, PutLane DEF Put
  <2>8. PICK l : l = s.key[b][m]
    OBVIOUS
  <2>9. PICK v : v = s.val[b][m]
    OBVIOUS
  <2>10. l \in Keys \cup {0} /\ v \in 0 .. Word - 1
    <3>1. m \in 0 .. Slots
      BY LaneNumbers
    <3> QED
      BY <1>1, <2>8, <2>9, <3>1, LaneOf
  <2>11. Light(w, t)
    BY <2>4, <2>7, <2>8, <2>9, <2>10, HandOverKeeps
  <2>12. Put(u, t, b, m, k, HalfRange + 1)
    BY <2>6, <2>7, <2>11, PutLight
  <2> QED
    BY <1>4, <2>5, <2>12 DEF Swaps
<1> QED
  BY <1>2, <1>3, <1>4

\* So does quick_insert.
LEMMA QuickOutcome ==
  ASSUME NEW s, WellTyped(s), NEW k \in Keys, NEW f \in 0 .. Word - 1,
         NEW b, b = BucketOf[k], NEW t, t = QuickInserted(s, k, f)
  PROVE  /\ \/ ~Contends(s, k) /\ Hit(s, t, b, k, f)
            \/ ~Contends(s, k) /\ Fills(s, t, b, k, f)
            \/ Contends(s, k) /\ Rejects(s, t, b)
            \/ Contends(s, k) /\ QuickSwaps(s, t, b, k)
         /\ t.counters = s.counters /\ t.mice_dist = s.mice_dist
<1>1. b \in Buckets
  BY Constants
<1>2. CASE ~Contends(s, k)
  <2>1. t = Placed(s, k, f)
    BY <1>2 DEF QuickInserted
  <2> QED
    BY <1>2, <2>1, PlacedOutcome
<1>3. CASE Contends(s, k) /\ ~JudgeIfSwap(s, b, Victim(s, b))
  <2>1. t = Voted(s, b)
    BY <1>3 DEF QuickInserted
  <2>2. /\ Put(s, t, b, Guard, 0, Raise(s.val[b][Guard], 1))
        /\ t.counters = s.counters /\ t.mice_dist = s.mice_dist
    BY <1>1, <2>1, VotesOutcome
  <2> QED
    BY <1>1, <1>3, <2>2, NotJudged DEF Rejects
<1>4. CASE Contends(s, k) /\ JudgeIfSwap(s, b, Victim(s, b))
  <2>1. PICK m \in Lanes : m = Victim(s, b)
    BY <1>1, VictimLeast
  <2>2. PICK u : u = [s EXCEPT !.val[b][Guard] = 0]
    OBVIOUS
  <2>3. t = [u EXCEPT !.key[b][m] = k]
    BY <1>4, <2>1, <2>2 DEF QuickInserted
  <2>4. /\ Put(s, u, b, Guard, 0, 0) /\ WellTyped(u)
        /\ u.counters = s.counters /\ u.mice_dist = s.mice_dist
    BY <1>1, <2>2, Cleared
  <2>5. /\ Put(u, t, b, m, k, u.val[b][m])
        /\ t.counters = u.counters /\ t.mice_dist = u.mice_dist
    BY <1>1, <2>3, <2>4, PutKey
  <2>6. u.val[b][m] = s.val[b][m]
    <3>1. m \in 0 .. Slots /\ m # Guard
      BY LaneNumbers
    <3> QED
      BY <1>1, <2>4, <3>1 DEF Put
  <2> QED
    BY <1>4, <2>4, <2>5, <2>6 DEF QuickSwaps
<1> QED
  BY <1>2, <1>3, <1>4
-----------------------------------------------------------------------------
(* What insertions keep *)

\* Adding to a word whose count has room.
LEMMA RaiseCount ==
  ASSUME NEW v \in 0 .. Word - 1, NEW f \in Nat, GetCounterVal(v) + f < HalfRange
  PROVE  /\ Raise(v, f) = v + f
         /\ GetCounterVal(Raise(v, f)) = GetCounterVal(v) + f
         /\ Flagged(Raise(v, f)) <=> Flagged(v)
<1>1. /\ v \in Nat /\ HalfRange \in Nat \ {0} /\ Word = 2 * HalfRange
      /\ GetCounterVal(v) \in Nat
  BY CountWord, Constants DEF Word
<1>2. v = GetCounterVal(v) \/ v = HalfRange + GetCounterVal(v)
  BY CountWord
<1>3. v + f \in Nat /\ v + f < Word
  BY <1>1, <1>2
<1>4. Raise(v, f) = v + f
  BY <1>1, <1>3, RaiseType
<1>5. Flagged(v + f) <=> Flagged(v)
  <2>1. CASE Flagged(v)
    BY <1>1, <2>1 DEF Flagged
  <2>2. CASE ~Flagged(v)
    <3>1. v = GetCounterVal(v)
      BY <2>2, CountWord
    <3>2. v + f < HalfRange
      BY <3>1
    <3> QED
      BY <1>1, <1>3, <2>2, <3>2 DEF Flagged
  <2> QED
    BY <2>1, <2>2
<1>6. GetCounterVal(v + f) = GetCounterVal(v) + f
  <2>1. PICK w \in 0 .. Word - 1 : w = v + f
    BY <1>1, <1>3
  <2>2. /\ GetCounterVal(w) \in Nat
        /\ Flagged(w) => w = HalfRange + GetCounterVal(w)
        /\ ~Flagged(w) => w = GetCounterVal(w)
    BY <2>1, CountWord, Constants
  <2>3. /\ Flagged(v) => v = HalfRange + GetCounterVal(v)
        /\ ~Flagged(v) => v = GetCounterVal(v)
    BY CountWord
  <2>4. CASE Flagged(v)
    BY <1>1, <1>5, <2>1, <2>2, <2>3, <2>4
  <2>5. CASE ~Flagged(v)
    BY <1>1, <1>5, <2>1, <2>2, <2>3, <2>5
  <2> QED
    BY <2>4, <2>5
<1> QED
  BY <1>4, <1>5, <1>6

LEMMA LiteralCounts ==
  /\ GetCounterVal(0) = 0
  /\ HalfRange + 1 \in 0 .. Word - 1 /\ GetCounterVal(HalfRange + 1) = 1
  /\ Flagged(HalfRange + 1)
  /\ \A f \in 0 .. MaxFlow : f \in 0 .. Word - 1 /\ GetCounterVal(f) = f /\ ~Flagged(f)
<1>1. /\ HalfRange \in Nat /\ HalfRange >= 2 /\ Word = 2 * HalfRange
      /\ MaxFlow \in Nat /\ MaxFlow < HalfRange
  BY Constants DEF Word
<1>2. ASSUME NEW f \in 0 .. MaxFlow
      PROVE  f \in 0 .. Word - 1 /\ GetCounterVal(f) = f /\ ~Flagged(f)
  <2>1. f \in 0 .. Word - 1 /\ ~Flagged(f)
    BY <1>1 DEF Flagged
  <2> QED
    BY <2>1, CountWord
<1>3. PICK one \in 0 .. Word - 1 : one = HalfRange + 1
  BY <1>1
<1>4. Flagged(one) /\ GetCounterVal(one) = 1
  <2>1. Flagged(one)
    BY <1>1, <1>3 DEF Flagged
  <2>2. one = HalfRange + GetCounterVal(one) /\ GetCounterVal(one) \in 0 .. HalfRange - 1
    BY <2>1, CountWord
  <2> QED
    BY <1>1, <1>3, <2>1, <2>2
<1>5. 0 \in 0 .. MaxFlow
  BY <1>1
<1> QED
  BY <1>2, <1>3, <1>4, <1>5

\* The votes are at most Lambda times any count.
Guarded(s) ==
  \A b \in Buckets, i \in Lanes : s.val[b][Guard] <= Lambda * GetCounterVal(s.val[b][i])

\* Facts about every lane after a Put.
LEMMA PutLanes ==
  ASSUME NEW s, NEW t, NEW b \in Buckets, NEW i \in 0 .. Slots, NEW k, NEW v,
         Put(s, t, b, i, k, v), NEW c \in Buckets, NEW j \in 0 .. Slots
  PROVE  /\ t.key[c][j] = IF c = b /\ j = i THEN k ELSE s.key[c][j]
         /\ t.val[c][j] = IF c = b /\ j = i THEN v ELSE s.val[c][j]
  BY DEF Put

Sound(s) == WellTyped(s) /\ Filled(s) /\ Guarded(s)

\* Room for f more packets of k.
Room(s, b, k, f) ==
  \A i \in Lanes : s.key[b][i] = k => GetCounterVal(s.val[b][i]) + f < HalfRange

\* A lane of b other than the guard gets a key and a count that is no smaller,
\* or there are no votes.
LEMMA LaneRaised ==
  ASSUME NEW s, NEW t, Sound(s), NEW b \in Buckets, NEW i \in Lanes, NEW k \in Keys, NEW v,
         Put(s, t, b, i, k, v), GetCounterVal(v) # 0,
         s.val[b][Guard] = 0 \/ GetCounterVal(s.val[b][i]) <= GetCounterVal(v)
  PROVE  Sound(t)
<1>1. i \in 0 .. Slots /\ i # Guard /\ Guard \in 0 .. Slots /\ Lanes \subseteq 0 .. Slots
      /\ Guard \notin Lanes /\ k # 0
  BY LaneNumbers, Constants
<1>2. WellTyped(t)
  BY DEF Put
<1>3. ASSUME NEW c \in Buckets, NEW j \in Lanes
      PROVE  t.key[c][j] = 0 <=> GetCounterVal(t.val[c][j]) = 0
  <2>1. j \in 0 .. Slots
    BY <1>1
  <2>2. CASE c = b /\ j = i
    BY <1>1, <2>2 DEF Put
  <2>3. CASE ~(c = b /\ j = i)
    BY <2>1, <2>3 DEF Put, Sound, Filled
  <2> QED
    BY <2>2, <2>3
<1>4. ASSUME NEW c \in Buckets, NEW j \in Lanes
      PROVE  t.val[c][Guard] <= Lambda * GetCounterVal(t.val[c][j])
  <2>1. t.val[c][Guard] = s.val[c][Guard]
    BY <1>1 DEF Put
  <2>2. s.val[c][Guard] <= Lambda * GetCounterVal(s.val[c][j])
    BY DEF Sound, Guarded
  <2>3. CASE c = b /\ j = i
    <3>1. PICK x : x = GetCounterVal(s.val[b][i])
      OBVIOUS
    <3>2. PICK y : y = GetCounterVal(v)
      OBVIOUS
    <3>3. t.val[b][i] = v
      BY DEF Put
    <3>4. x \in Nat /\ y \in Nat /\ (s.val[b][Guard] = 0 \/ x <= y) /\ Lambda \in Nat
      <4>1. x \in 0 .. HalfRange - 1
        BY <1>1, <3>1, LaneOf DEF Sound
      <4>2. y \in 0 .. HalfRange - 1
        BY <1>1, <1>2, <3>2, <3>3, LaneOf
      <4> QED
        BY <3>1, <3>2, <4>1, <4>2, Constants
    <3>5. (x <= y => Lambda * x <= Lambda * y) /\ Lambda * x \in Nat /\ Lambda * y \in Nat
      BY <3>4
    <3>6. s.val[b][Guard] \in 0 .. Word - 1
      BY <1>1, LaneOf DEF Sound
    <3>7. s.val[b][Guard] \in Nat
      BY <3>6, Constants
    <3>8. s.val[b][Guard] <= Lambda * x
      BY <2>2, <2>3, <3>1
    <3>9. s.val[b][Guard] <= Lambda * y
      BY <3>4, <3>5, <3>7, <3>8
    <3> QED
      BY <2>1, <2>3, <3>2, <3>3, <3>9
  <2>4. CASE ~(c = b /\ j = i)
    <3>1. t.val[c][j] = s.val[c][j]
      BY <1>1, <2>4 DEF Put
    <3> QED
      BY <2>1, <2>2, <3>1
  <2> QED
    BY <2>3, <2>4
<1> QED
  BY <1>2, <1>3, <1>4 DEF Sound, Filled, Guarded

\* The votes change to a value that the counts bound.
LEMMA GuardChanged ==
  ASSUME NEW s, NEW t, Sound(s), NEW b \in Buckets, NEW v,
         Put(s, t, b, Guard, 0, v),
         \A j \in Lanes : v <= Lambda * GetCounterVal(s.val[b][j])
  PROVE  Sound(t)
<1>1. Guard \in 0 .. Slots /\ Lanes \subseteq 0 .. Slots /\ Guard \notin Lanes
  BY LaneNumbers
<1>2. WellTyped(t)
  BY DEF Put
<1>3. ASSUME NEW c \in Buckets, NEW j \in Lanes
      PROVE  t.key[c][j] = s.key[c][j] /\ t.val[c][j] = s.val[c][j]
  BY <1>1 DEF Put
<1>4. Filled(t)
  BY <1>3 DEF Sound, Filled
<1>5. ASSUME NEW c \in Buckets, NEW j \in Lanes
      PROVE  t.val[c][Guard] <= Lambda * GetCounterVal(t.val[c][j])
  <2>1. CASE c = b
    BY <1>3, <2>1 DEF Put
  <2>2. CASE c # b
    <3>1. t.val[c][Guard] = s.val[c][Guard]
      BY <1>1, <2>2 DEF Put
    <3> QED
      BY <1>3, <3>1 DEF Sound, Guarded
  <2> QED
    BY <2>1, <2>2
<1> QED
  BY <1>2, <1>4, <1>5 DEF Sound, Guarded

LEMMA HitSound ==
  ASSUME NEW s, NEW t, Sound(s), NEW b \in Buckets, NEW k \in Keys, NEW f \in 1 .. MaxFlow,
         Room(s, b, k, f), Hit(s, t, b, k, f)
  PROVE  Sound(t)
<1>1. PICK i \in Lanes : s.key[b][i] = k /\ Put(s, t, b, i, k, Raise(s.val[b][i], f))
  BY DEF Hit
<1>2. PICK v : v = s.val[b][i]
  OBVIOUS
<1>3. v \in 0 .. Word - 1 /\ GetCounterVal(v) + f < HalfRange
  <2>1. i \in 0 .. Slots
    BY LaneNumbers
  <2> QED
    BY <1>1, <1>2, <2>1, LaneOf DEF Sound, Room
<1>4. PICK w : w = Raise(v, f)
  OBVIOUS
<1>5. GetCounterVal(w) = GetCounterVal(v) + f /\ f \in Nat /\ f >= 1 /\ GetCounterVal(v) \in Nat
  <2>1. f \in Nat /\ f >= 1
    BY Constants
  <2> QED
    BY <1>3, <1>4, <2>1, RaiseCount, CountWord, Constants
<1>6. GetCounterVal(w) # 0 /\ GetCounterVal(v) <= GetCounterVal(w)
  BY <1>5
<1>7. Put(s, t, b, i, k, w)
  BY <1>1, <1>2, <1>4
<1> QED
  BY <1>2, <1>6, <1>7, LaneRaised

LEMMA FillSound ==
  ASSUME NEW s, NEW t, Sound(s), NEW b \in Buckets, NEW k \in Keys, NEW f \in 1 .. MaxFlow,
         Fills(s, t, b, k, f)
  PROVE  Sound(t)
<1>1. PICK i \in Lanes : GetCounterVal(s.val[b][i]) = 0 /\ Put(s, t, b, i, k, f)
  BY DEF Fills
<1>2. GetCounterVal(f) = f /\ f # 0 /\ 0 <= f
  BY LiteralCounts, Constants
<1> QED
  BY <1>1, <1>2, LaneRaised

LEMMA RejectSound ==
  ASSUME NEW s, NEW t, Sound(s), NEW b \in Buckets, Rejects(s, t, b)
  PROVE  Sound(t)
<1>1. PICK v : v = Raise(s.val[b][Guard], 1)
  OBVIOUS
<1> QED
  BY <1>1, GuardChanged DEF Rejects

LEMMA ClearedSound ==
  ASSUME NEW s, NEW t, Sound(s), NEW b \in Buckets, Put(s, t, b, Guard, 0, 0)
  PROVE  Sound(t) /\ t.val[b][Guard] = 0
<1>1. PICK v : v = 0
  OBVIOUS
<1>2. ASSUME NEW j \in Lanes PROVE v <= Lambda * GetCounterVal(s.val[b][j])
  <2>1. j \in 0 .. Slots
    BY LaneNumbers
  <2>2. GetCounterVal(s.val[b][j]) \in 0 .. HalfRange - 1
    BY <2>1, LaneOf DEF Sound
  <2>3. GetCounterVal(s.val[b][j]) \in Nat /\ Lambda \in Nat
    BY <2>2, Constants
  <2> QED
    BY <1>1, <2>3
<1>3. Sound(t)
  BY <1>1, <1>2, GuardChanged
<1> QED
  BY <1>3 DEF Put

LEMMA SwapSound ==
  ASSUME NEW s, NEW t, Sound(s), NEW b \in Buckets, NEW k \in Keys,
         Swaps(s, t, b, k)
  PROVE  Sound(t)
<1>0. PICK m \in Lanes : \E u : Put(s, u, b, Guard, 0, 0) /\ Put(u, t, b, m, k, HalfRange + 1)
  BY DEF Swaps
<1>1. PICK u : Put(s, u, b, Guard, 0, 0) /\ Put(u, t, b, m, k, HalfRange + 1)
  BY <1>0
<1>2. Sound(u) /\ u.val[b][Guard] = 0
  BY <1>1, ClearedSound
<1>3. PICK v : v = HalfRange + 1
  OBVIOUS
<1>4. GetCounterVal(v) # 0
  BY <1>3, LiteralCounts
<1> QED
  BY <1>1, <1>2, <1>3, <1>4, LaneRaised

LEMMA QuickSwapSound ==
  ASSUME NEW s, NEW t, Sound(s), NEW b \in Buckets, NEW k \in Keys,
         \A i \in Lanes : GetCounterVal(s.val[b][i]) # 0, QuickSwaps(s, t, b, k)
  PROVE  Sound(t)
<1>0. PICK m \in Lanes : \E u : Put(s, u, b, Guard, 0, 0) /\ Put(u, t, b, m, k, s.val[b][m])
  BY DEF QuickSwaps
<1>1. PICK u : Put(s, u, b, Guard, 0, 0) /\ Put(u, t, b, m, k, s.val[b][m])
  BY <1>0
<1>2. Sound(u) /\ u.val[b][Guard] = 0
  BY <1>1, ClearedSound
<1>3. PICK v : v = s.val[b][m]
  OBVIOUS
<1>4. GetCounterVal(v) # 0
  BY <1>3
<1> QED
  BY <1>1, <1>2, <1>3, <1>4, LaneRaised

\* A bucket with no free lane.
LEMMA ContendsFull ==
  ASSUME NEW s, NEW k, Contends(s, k), NEW b, b = BucketOf[k]
  PROVE  \A i \in Lanes : s.key[b][i] # k /\ GetCounterVal(s.val[b][i]) # 0
  BY DEF Contends, Holders, Idle
-----------------------------------------------------------------------------
(***************************************************************************)
(* With insert, no resident has a count above its flow's weight (w).       *)
(***************************************************************************)
Covered(s, w) ==
  \A b \in Buckets, i \in Lanes :
    s.key[b][i] # 0 => GetCounterVal(s.val[b][i]) <= w[s.key[b][i]]

\* The weight that a packet adds.
Adding(w, x, k, f) ==
  /\ w \in [Keys -> 0 .. MaxFlow] /\ x \in [Keys -> 0 .. MaxFlow]
  /\ \A j \in Keys : x[j] = IF j = k THEN w[j] + f ELSE w[j]

LEMMA CoveredRoom ==
  ASSUME NEW s, NEW w, NEW x, Sound(s), Covered(s, w), NEW b \in Buckets, NEW k \in Keys,
         NEW f \in Weights, Adding(w, x, k, f)
  PROVE  Room(s, b, k, f) /\ f \in 1 .. MaxFlow
<1>1. x[k] = w[k] + f /\ x[k] \in 0 .. MaxFlow /\ w[k] \in 0 .. MaxFlow
  BY DEF Adding
<1>2. f \in Nat /\ f >= 1 /\ MaxFlow \in Nat /\ MaxFlow < HalfRange /\ HalfRange \in Nat /\ k # 0
  BY Constants
<1>3. ASSUME NEW i \in Lanes, s.key[b][i] = k
      PROVE  GetCounterVal(s.val[b][i]) + f < HalfRange
  <2>1. GetCounterVal(s.val[b][i]) <= w[k]
    BY <1>2, <1>3 DEF Covered
  <2>2. i \in 0 .. Slots
    BY LaneNumbers
  <2>3. GetCounterVal(s.val[b][i]) \in 0 .. HalfRange - 1
    BY <2>2, LaneOf DEF Sound
  <2> QED
    BY <1>1, <1>2, <2>1, <2>3
<1> QED
  BY <1>1, <1>2, <1>3 DEF Room

\* A lane of key j covered by x after the step.
LEMMA InsertCovered ==
  ASSUME NEW s, NEW t, NEW w, NEW x, Sound(s), Covered(s, w), NEW b \in Buckets,
         NEW k \in Keys, NEW f \in Weights, Adding(w, x, k, f),
         Hit(s, t, b, k, f) \/ Fills(s, t, b, k, f) \/ Rejects(s, t, b) \/ Swaps(s, t, b, k)
  PROVE  Covered(t, x)
<1>1. Room(s, b, k, f) /\ f \in 1 .. MaxFlow
  BY CoveredRoom
<1>2. /\ \A j \in Keys : w[j] \in Nat /\ x[j] \in Nat /\ w[j] <= x[j]
      /\ x[k] = w[k] + f /\ f \in Nat /\ f >= 1 /\ k # 0
  BY Constants DEF Adding
<1>3. ASSUME NEW c \in Buckets, NEW j \in Lanes
      PROVE  /\ s.key[c][j] \in Keys \cup {0}
             /\ GetCounterVal(s.val[c][j]) \in Nat
             /\ s.val[c][j] \in 0 .. Word - 1
             /\ s.key[c][j] # 0 => GetCounterVal(s.val[c][j]) <= w[s.key[c][j]]
  <2>1. j \in 0 .. Slots
    BY LaneNumbers
  <2> QED
    BY <2>1, LaneOf, Constants DEF Sound, Covered
<1>4. ASSUME NEW c \in Buckets, NEW j \in Lanes,
             t.key[c][j] = s.key[c][j], t.val[c][j] = s.val[c][j], t.key[c][j] # 0
      PROVE  GetCounterVal(t.val[c][j]) <= x[t.key[c][j]]
  <2>1. PICK l \in Keys : l = s.key[c][j]
    BY <1>3, <1>4
  <2>2. PICK n \in Nat : n = GetCounterVal(s.val[c][j])
    BY <1>3
  <2>3. n <= w[l]
    BY <1>3, <1>4, <2>1, <2>2
  <2>4. n <= x[l]
    BY <1>2, <2>3
  <2> QED
    BY <1>4, <2>1, <2>2, <2>4
<1>5. Lanes \subseteq 0 .. Slots /\ Guard \notin Lanes /\ Guard \in 0 .. Slots
  BY LaneNumbers
<1>6. CASE Hit(s, t, b, k, f)
  <2>1. PICK i \in Lanes : s.key[b][i] = k /\ Put(s, t, b, i, k, Raise(s.val[b][i], f))
    BY <1>6 DEF Hit
  <2>2. GetCounterVal(t.val[b][i]) <= x[k] /\ t.key[b][i] = k
    <3>1. PICK v \in 0 .. Word - 1 : v = s.val[b][i]
      BY <1>3
    <3>2. PICK n \in Nat : n = GetCounterVal(v)
      BY <1>3, <3>1
    <3>3. n <= w[k] /\ n + f < HalfRange
      BY <1>1, <1>2, <1>3, <2>1, <3>1, <3>2 DEF Room
    <3>4. GetCounterVal(Raise(v, f)) = n + f
      BY <1>2, <3>2, <3>3, RaiseCount
    <3>5. n + f <= x[k]
      BY <1>2, <3>3
    <3> QED
      BY <2>1, <3>1, <3>4, <3>5 DEF Put
  <2>3. \A c \in Buckets, j \in Lanes : c # b \/ j # i =>
          t.key[c][j] = s.key[c][j] /\ t.val[c][j] = s.val[c][j]
    BY <1>5, <2>1 DEF Put
  <2> QED
    BY <1>4, <2>2, <2>3 DEF Covered
<1>7. CASE Fills(s, t, b, k, f)
  <2>1. PICK i \in Lanes : Put(s, t, b, i, k, f)
    BY <1>7 DEF Fills
  <2>2. GetCounterVal(t.val[b][i]) <= x[k] /\ t.key[b][i] = k
    <3>1. GetCounterVal(f) = f
      BY <1>1, LiteralCounts, Constants
    <3>2. f <= x[k]
      BY <1>2
    <3> QED
      BY <2>1, <3>1, <3>2 DEF Put
  <2>3. \A c \in Buckets, j \in Lanes : c # b \/ j # i =>
          t.key[c][j] = s.key[c][j] /\ t.val[c][j] = s.val[c][j]
    BY <1>5, <2>1 DEF Put
  <2> QED
    BY <1>4, <2>2, <2>3 DEF Covered
<1>8. CASE Rejects(s, t, b)
  <2>1. \A c \in Buckets, j \in Lanes : t.key[c][j] = s.key[c][j] /\ t.val[c][j] = s.val[c][j]
    BY <1>5, <1>8 DEF Rejects, Put
  <2> QED
    BY <1>4, <2>1 DEF Covered
<1>9. CASE Swaps(s, t, b, k)
  <2>0. PICK i \in Lanes : \E u : Put(s, u, b, Guard, 0, 0) /\ Put(u, t, b, i, k, HalfRange + 1)
    BY <1>9 DEF Swaps
  <2>1. PICK u : Put(s, u, b, Guard, 0, 0) /\ Put(u, t, b, i, k, HalfRange + 1)
    BY <2>0
  <2>2. GetCounterVal(t.val[b][i]) <= x[k] /\ t.key[b][i] = k
    <3>1. GetCounterVal(HalfRange + 1) = 1
      BY LiteralCounts
    <3>2. 1 <= x[k]
      BY <1>2
    <3> QED
      BY <2>1, <3>1, <3>2 DEF Put
  <2>3. \A c \in Buckets, j \in Lanes : u.key[c][j] = s.key[c][j] /\ u.val[c][j] = s.val[c][j]
    BY <1>5, <2>1 DEF Put
  <2>4. \A c \in Buckets, j \in Lanes : c # b \/ j # i =>
          t.key[c][j] = u.key[c][j] /\ t.val[c][j] = u.val[c][j]
    BY <1>5, <2>1 DEF Put
  <2> QED
    BY <1>4, <2>2, <2>3, <2>4 DEF Covered
<1> QED
  BY <1>6, <1>7, <1>8, <1>9
-----------------------------------------------------------------------------
(***************************************************************************)
(* With quick_insert, what a bucket counts, votes included, is at most     *)
(* what its flows weigh (w) together.                                      *)
(***************************************************************************)
CountsIn(s, b) == [i \in 0 .. Slots |-> GetCounterVal(s.val[b][i])]
Load(s, b) == SumFunctionOnSet(CountsIn(s, b), 0 .. Slots)
FlowsOf(b) == {k \in Keys : BucketOf[k] = b}
Share(w, b) == SumFunctionOnSet(w, FlowsOf(b))

Conserved(s, w) == \A b \in Buckets : Load(s, b) <= Share(w, b)

\* A sum of numbers that are at most m.
LEMMA SumAtMost ==
  ASSUME NEW S, IsFiniteSet(S), NEW f, NEW m \in Nat, \A x \in S : f[x] \in Nat /\ f[x] <= m
  PROVE  SumFunctionOnSet(f, S) <= Cardinality(S) * m
<1> DEFINE Good == {T \in SUBSET S : SumFunctionOnSet(f, T) <= Cardinality(T) * m}
<1>1. {} \in Good
  BY SumEmpty, FS_EmptySet
<1>2. ASSUME NEW T \in SUBSET S, T # {}, \A x \in T : T \ {x} \in Good PROVE T \in Good
  <2>1. PICK x \in T : TRUE
    BY <1>2
  <2>2. PICK R : R = T \ {x}
    OBVIOUS
  <2>3. SumFunctionOnSet(f, R) <= Cardinality(R) * m
    BY <1>2, <2>1, <2>2
  <2>4. IsFiniteSet(T) /\ IsFiniteSet(R)
    BY <2>2, FS_Subset
  <2>5. SumFunctionOnSet(f, T) = f[x] + SumFunctionOnSet(f, R)
    BY <2>2, <2>4, SumWithout
  <2>6. /\ Cardinality(R) \in Nat /\ Cardinality(T) = Cardinality(R) + 1
    BY <2>1, <2>2, <2>4, FS_RemoveElement, FS_CardinalityType
  <2>7. SumFunctionOnSet(f, R) \in Nat
    BY <2>2, <2>4, SumNat
  <2>8. f[x] \in Nat /\ f[x] <= m
    OBVIOUS
  <2>9. (Cardinality(R) + 1) * m = Cardinality(R) * m + m /\ Cardinality(R) * m \in Nat
    BY <2>6
  <2> QED
    BY <2>3, <2>5, <2>6, <2>7, <2>8, <2>9
<1>3. SUBSET S \subseteq Good
  <2> HIDE DEF Good
  <2> QED
    BY <1>1, <1>2, SetInduction
<1> QED
  BY <1>3

LEMMA FiniteSets ==
  /\ IsFiniteSet(0 .. Slots) /\ IsFiniteSet(Keys)
  /\ \A b : IsFiniteSet(FlowsOf(b)) /\ FlowsOf(b) \subseteq Keys
<1>1. IsFiniteSet(0 .. Slots)
  BY Constants, FS_Interval
<1>2. ASSUME NEW b PROVE IsFiniteSet(FlowsOf(b)) /\ FlowsOf(b) \subseteq Keys
  BY SplitAssumption, FS_Subset DEF FlowsOf
<1> QED
  BY <1>1, <1>2, SplitAssumption

\* The load is a number, and no count is above it.
LEMMA LoadType ==
  ASSUME NEW s, WellTyped(s), NEW b \in Buckets
  PROVE  /\ Load(s, b) \in Nat
         /\ \A i \in 0 .. Slots : /\ CountsIn(s, b)[i] = GetCounterVal(s.val[b][i])
                                  /\ GetCounterVal(s.val[b][i]) \in Nat
                                  /\ GetCounterVal(s.val[b][i]) <= Load(s, b)
<1>1. PICK f : f = CountsIn(s, b)
  OBVIOUS
<1>2. ASSUME NEW i \in 0 .. Slots
      PROVE  f[i] = GetCounterVal(s.val[b][i]) /\ f[i] \in Nat
  BY <1>1, LaneOf, Constants DEF CountsIn
<1>3. PICK S : S = 0 .. Slots
  OBVIOUS
<1>4. IsFiniteSet(S) /\ \A i \in S : f[i] \in Nat
  BY <1>2, <1>3, FiniteSets
<1>5. SumFunctionOnSet(f, S) \in Nat
  BY <1>4, SumNat
<1>6. ASSUME NEW i \in S PROVE f[i] <= SumFunctionOnSet(f, S)
  <2>1. PICK R : R = S \ {i}
    OBVIOUS
  <2>2. IsFiniteSet(R)
    BY <1>4, <2>1, FS_Subset
  <2>3. SumFunctionOnSet(f, R) \in Nat
    BY <1>4, <2>1, <2>2, SumNat
  <2>4. SumFunctionOnSet(f, S) = f[i] + SumFunctionOnSet(f, R)
    BY <1>4, <2>1, SumWithout
  <2> QED
    BY <1>4, <2>3, <2>4
<1> QED
  BY <1>1, <1>2, <1>3, <1>5, <1>6 DEF Load

\* A lane changes.
LEMMA PutLoad ==
  ASSUME NEW s, WellTyped(s), NEW t, NEW b \in Buckets, NEW i \in 0 .. Slots, NEW k, NEW v,
         Put(s, t, b, i, k, v)
  PROVE  /\ Load(t, b) = Load(s, b) - GetCounterVal(s.val[b][i]) + GetCounterVal(v)
         /\ \A c \in Buckets : c # b => Load(t, c) = Load(s, c)
<1>1. WellTyped(t)
  BY DEF Put
<1>2. PICK f : f = CountsIn(s, b)
  OBVIOUS
<1>3. PICK g : g = CountsIn(t, b)
  OBVIOUS
<1>4. PICK S : S = 0 .. Slots
  OBVIOUS
<1>5. \A j \in S : f[j] \in Int /\ g[j] \in Int
  BY <1>1, <1>2, <1>3, <1>4, LoadType
<1>6. \A j \in S \ {i} : g[j] = f[j]
  BY <1>2, <1>3, <1>4 DEF Put, CountsIn
<1>7. f[i] = GetCounterVal(s.val[b][i]) /\ g[i] = GetCounterVal(v)
  BY <1>2, <1>3 DEF Put, CountsIn
<1>8. SumFunctionOnSet(g, S) = SumFunctionOnSet(f, S) - f[i] + g[i]
  <2>1. IsFiniteSet(S) /\ i \in S
    BY <1>4, FiniteSets
  <2>2. PICK x \in S : x = i
    BY <2>1
  <2>3. \A y \in S \ {x} : g[y] = f[y]
    BY <1>6, <2>2
  <2>4. SumFunctionOnSet(g, S) = SumFunctionOnSet(f, S) - f[x] + g[x]
    <3>1. IsFiniteSet(S)
      BY <2>1
    <3>2. \A j \in S : f[j] \in Int /\ g[j] \in Int
      BY <1>5
    <3> QED
      BY ONLY <2>3, <3>1, <3>2, SumChange
  <2> QED
    BY <2>2, <2>4
<1>9. ASSUME NEW c \in Buckets, c # b PROVE Load(t, c) = Load(s, c)
  <2>1. CountsIn(t, c) = CountsIn(s, c)
    BY <1>9 DEF Put, CountsIn
  <2> QED
    BY <2>1 DEF Load
<1> QED
  BY <1>2, <1>3, <1>4, <1>7, <1>8, <1>9 DEF Load

\* A packet adds its weight to the share of its bucket.
LEMMA ShareAdds ==
  ASSUME NEW w, NEW x, NEW k \in Keys, NEW f \in Weights, Adding(w, x, k, f)
  PROVE  /\ \A c : Share(w, c) \in Nat /\ Share(x, c) \in Nat
         /\ Share(x, BucketOf[k]) = Share(w, BucketOf[k]) + f
         /\ \A c : c # BucketOf[k] => Share(x, c) = Share(w, c)
<1>1. /\ \A j \in Keys : w[j] \in Nat /\ x[j] \in Nat
      /\ f \in Int
  BY Constants DEF Adding
<1>2. ASSUME NEW c PROVE Share(w, c) \in Nat /\ Share(x, c) \in Nat
  <2>1. PICK S : S = FlowsOf(c)
    OBVIOUS
  <2>2. IsFiniteSet(S) /\ S \subseteq Keys
    BY <2>1, FiniteSets
  <2>3. SumFunctionOnSet(w, S) \in Nat /\ SumFunctionOnSet(x, S) \in Nat
    BY <1>1, <2>2, SumNat
  <2> QED
    BY <2>1, <2>3 DEF Share
<1>3. ASSUME NEW c PROVE Share(x, c) = Share(w, c) + (IF c = BucketOf[k] THEN f ELSE 0)
  <2>1. PICK S : S = FlowsOf(c)
    OBVIOUS
  <2>2. IsFiniteSet(S) /\ S \subseteq Keys /\ (k \in S <=> BucketOf[k] = c)
    BY <2>1, FiniteSets DEF FlowsOf
  <2>3. Raised(w, x, S, k, f)
    BY <1>1, <2>2 DEF Raised, Adding
  <2>4. SumFunctionOnSet(x, S) = SumFunctionOnSet(w, S) + (IF k \in S THEN f ELSE 0)
    BY <2>2, <2>3, SumRaise
  <2> QED
    BY <2>1, <2>2, <2>4 DEF Share
<1>4. \A c : Share(w, c) \in Int
  BY <1>2
<1> QED
  BY <1>2, <1>3, <1>4

LEMMA ShareFits ==
  ASSUME QuickFits, NEW x, \A j \in Keys : x[j] \in 0 .. MaxFlow, NEW b \in Buckets
  PROVE  Share(x, b) < HalfRange
<1>1. PICK S : S = FlowsOf(b)
  OBVIOUS
<1>2. IsFiniteSet(S) /\ S \subseteq Keys
  BY <1>1, FiniteSets
<1>3. MaxFlow \in Nat /\ \A j \in S : x[j] \in Nat /\ x[j] <= MaxFlow
  BY <1>2, Constants
<1>4. SumFunctionOnSet(x, S) <= Cardinality(S) * MaxFlow
  BY <1>2, <1>3, SumAtMost
<1>5. Cardinality(S) * MaxFlow < HalfRange
  BY <1>1 DEF QuickFits, FlowsOf, Buckets
<1>6. Cardinality(S) * MaxFlow \in Nat /\ HalfRange \in Nat /\ SumFunctionOnSet(x, S) \in Nat
  <2>1. Cardinality(S) \in Nat
    BY <1>2, FS_CardinalityType
  <2> QED
    BY <1>2, <1>3, <2>1, SumNat, Constants
<1> QED
  BY <1>1, <1>4, <1>5, <1>6 DEF Share

LEMMA ConservedRoom ==
  ASSUME QuickFits, NEW s, NEW w, NEW x, Sound(s), Conserved(s, w), NEW k \in Keys,
         NEW f \in Weights, Adding(w, x, k, f), NEW b, b = BucketOf[k]
  PROVE  Room(s, b, k, f) /\ f \in 1 .. MaxFlow
<1>1. b \in Buckets /\ f \in Nat /\ f >= 1 /\ HalfRange \in Nat /\ MaxFlow \in Nat
  BY Constants
<1>2. Share(x, b) = Share(w, b) + f /\ Share(w, b) \in Nat
  BY ShareAdds
<1>3. \A j \in Keys : x[j] \in 0 .. MaxFlow
  BY DEF Adding
<1>4. Share(x, b) < HalfRange
  BY <1>1, <1>3, ShareFits
<1>5. Load(s, b) <= Share(w, b) /\ Load(s, b) \in Nat
  BY <1>1, LoadType DEF Conserved, Sound
<1>6. ASSUME NEW i \in Lanes PROVE GetCounterVal(s.val[b][i]) + f < HalfRange
  <2>1. i \in 0 .. Slots
    BY LaneNumbers
  <2>2. GetCounterVal(s.val[b][i]) \in Nat /\ GetCounterVal(s.val[b][i]) <= Load(s, b)
    BY <1>1, <2>1, LoadType DEF Sound
  <2> QED
    BY <1>1, <1>2, <1>4, <1>5, <2>2
<1>7. f <= MaxFlow
  <2>1. w[k] \in 0 .. MaxFlow /\ x[k] = w[k] + f /\ x[k] \in 0 .. MaxFlow
    BY DEF Adding
  <2> QED
    BY <1>1, <2>1
<1> QED
  BY <1>1, <1>6, <1>7 DEF Room

\* A step that raises the load by at most the packet's weight.
LEMMA ConservedStep ==
  ASSUME NEW s, NEW t, NEW w, NEW x, Sound(s), Conserved(s, w), NEW k \in Keys,
         NEW f \in Weights, Adding(w, x, k, f), NEW b, b = BucketOf[k],
         Load(t, b) <= Load(s, b) + f,
         \A c \in Buckets : c # b => Load(t, c) = Load(s, c),
         WellTyped(t)
  PROVE  Conserved(t, x)
<1>1. b \in Buckets /\ f \in Nat
  BY Constants
<1> SUFFICES ASSUME NEW c \in Buckets PROVE Load(t, c) <= Share(x, c)
  BY DEF Conserved
<1>2. /\ Share(w, c) \in Nat /\ Share(x, c) \in Nat
      /\ c = b => Share(x, c) = Share(w, c) + f
      /\ c # b => Share(x, c) = Share(w, c)
  BY ShareAdds
<1>3. Load(s, c) \in Nat /\ Load(t, c) \in Nat /\ Load(s, c) <= Share(w, c)
  BY LoadType DEF Sound, Conserved
<1> QED
  BY <1>1, <1>2, <1>3

LEMMA QuickConserves ==
  ASSUME QuickFits, NEW s, NEW t, NEW w, NEW x, Sound(s), Conserved(s, w), NEW k \in Keys,
         NEW f \in Weights, Adding(w, x, k, f), NEW b, b = BucketOf[k],
         Hit(s, t, b, k, f) \/ Fills(s, t, b, k, f) \/ Rejects(s, t, b) \/ QuickSwaps(s, t, b, k)
  PROVE  Conserved(t, x)
<1>1. b \in Buckets /\ f \in Nat /\ f >= 1 /\ WellTyped(s) /\ Load(s, b) \in Nat
  BY Constants, LoadType DEF Sound
<1>2. Room(s, b, k, f) /\ f \in 1 .. MaxFlow
  BY ConservedRoom
<1>3. Lanes \subseteq 0 .. Slots /\ Guard \notin Lanes /\ Guard \in 0 .. Slots
  BY LaneNumbers
<1>4. \A i \in 0 .. Slots : s.val[b][i] \in 0 .. Word - 1 /\ GetCounterVal(s.val[b][i]) \in Nat
  BY <1>1, LaneOf, Constants
<1>5. CASE Hit(s, t, b, k, f)
  <2>1. PICK i \in Lanes : s.key[b][i] = k /\ Put(s, t, b, i, k, Raise(s.val[b][i], f))
    BY <1>5 DEF Hit
  <2>2. PICK v \in 0 .. Word - 1 : v = s.val[b][i]
    BY <1>3, <1>4
  <2>3. PICK y : y = Raise(v, f)
    OBVIOUS
  <2>4. GetCounterVal(v) + f < HalfRange /\ GetCounterVal(v) \in Nat
    BY <1>2, <1>3, <1>4, <2>1, <2>2 DEF Room
  <2>5. GetCounterVal(y) = GetCounterVal(v) + f
    BY <1>1, <2>3, <2>4, RaiseCount
  <2>6. Put(s, t, b, i, k, y) /\ i \in 0 .. Slots
    BY <1>3, <2>1, <2>2, <2>3
  <2>7. /\ Load(t, b) = Load(s, b) - GetCounterVal(s.val[b][i]) + GetCounterVal(y)
        /\ \A c \in Buckets : c # b => Load(t, c) = Load(s, c)
    BY <1>1, <2>6, PutLoad
  <2>8. Load(t, b) <= Load(s, b) + f
    BY <1>1, <2>2, <2>4, <2>5, <2>7
  <2> QED
    BY <2>6, <2>7, <2>8, ConservedStep DEF Put
<1>6. CASE Fills(s, t, b, k, f)
  <2>1. PICK i \in Lanes : GetCounterVal(s.val[b][i]) = 0 /\ Put(s, t, b, i, k, f)
    BY <1>6 DEF Fills
  <2>2. /\ Load(t, b) = Load(s, b) - GetCounterVal(s.val[b][i]) + GetCounterVal(f)
        /\ \A c \in Buckets : c # b => Load(t, c) = Load(s, c)
    BY <1>1, <1>3, <2>1, PutLoad
  <2>3. GetCounterVal(f) = f
    BY <1>2, LiteralCounts, Constants
  <2>4. Load(t, b) <= Load(s, b) + f
    BY <1>1, <2>1, <2>2, <2>3
  <2> QED
    BY <2>1, <2>2, <2>4, ConservedStep DEF Put
<1>7. CASE Rejects(s, t, b)
  <2>1. PICK g \in 0 .. Word - 1 : g = s.val[b][Guard]
    BY <1>3, <1>4
  <2>2. PICK y : y = Raise(g, 1)
    OBVIOUS
  <2>3. Put(s, t, b, Guard, 0, y)
    BY <1>7, <2>1, <2>2 DEF Rejects
  <2>4. GetCounterVal(g) \in Nat /\ GetCounterVal(y) \in Nat /\ GetCounterVal(y) <= GetCounterVal(g) + 1
    <3>1. GetCounterVal(g) \in 0 .. HalfRange - 1
      BY CountWord
    <3>2. y \in 0 .. Word - 1
      <4>1. g \in Nat
        BY Constants
      <4>2. PICK one \in Nat : one = 1
        OBVIOUS
      <4>3. Raise(g, one) \in 0 .. Word - 1
        BY <4>1, RaiseType
      <4> QED
        BY <2>2, <4>2, <4>3
    <3>3. GetCounterVal(y) \in 0 .. HalfRange - 1
      BY <3>2, CountWord
    <3>4. CASE GetCounterVal(g) + 1 < HalfRange
      <4>1. PICK one \in Nat : one = 1
        OBVIOUS
      <4>2. GetCounterVal(Raise(g, one)) = GetCounterVal(g) + one
        BY <3>4, <4>1, RaiseCount
      <4> QED
        BY <2>2, <3>1, <3>3, <4>1, <4>2, Constants
    <3>5. CASE ~(GetCounterVal(g) + 1 < HalfRange)
      BY <3>1, <3>3, <3>5, Constants
    <3> QED
      BY <3>4, <3>5
  <2>5. PICK zero : zero = 0
    OBVIOUS
  <2>6. /\ Load(t, b) = Load(s, b) - GetCounterVal(s.val[b][Guard]) + GetCounterVal(y)
        /\ \A c \in Buckets : c # b => Load(t, c) = Load(s, c)
    BY <1>1, <1>3, <2>3, <2>5, PutLoad
  <2>7. Load(t, b) <= Load(s, b) + f
    BY <1>1, <2>1, <2>4, <2>6
  <2> QED
    BY <2>3, <2>6, <2>7, ConservedStep DEF Put
<1>8. CASE QuickSwaps(s, t, b, k)
  <2>0. PICK m \in Lanes : \E u : Put(s, u, b, Guard, 0, 0) /\ Put(u, t, b, m, k, s.val[b][m])
    BY <1>8 DEF QuickSwaps
  <2>1. PICK u : Put(s, u, b, Guard, 0, 0) /\ Put(u, t, b, m, k, s.val[b][m])
    BY <2>0
  <2>2. PICK zero : zero = 0
    OBVIOUS
  <2>3. /\ Load(u, b) = Load(s, b) - GetCounterVal(s.val[b][Guard]) + GetCounterVal(zero)
        /\ \A c \in Buckets : c # b => Load(u, c) = Load(s, c)
    BY <1>1, <1>3, <2>1, <2>2, PutLoad
  <2>4. PICK v : v = s.val[b][m]
    OBVIOUS
  <2>5. WellTyped(u) /\ u.val[b][m] = v
    BY <1>1, <1>3, <2>1, <2>4 DEF Put
  <2>6. /\ Load(t, b) = Load(u, b) - GetCounterVal(u.val[b][m]) + GetCounterVal(v)
        /\ \A c \in Buckets : c # b => Load(t, c) = Load(u, c)
    BY <1>1, <1>3, <2>1, <2>4, <2>5, PutLoad
  <2>7. Load(t, b) <= Load(s, b) + f
    <3>1. GetCounterVal(zero) = 0
      BY <2>2, LiteralCounts
    <3>2. GetCounterVal(v) \in Nat /\ GetCounterVal(s.val[b][Guard]) \in Nat /\ Load(u, b) \in Nat
      BY <1>1, <1>3, <1>4, <2>4, <2>5, LoadType
    <3>3. Load(t, b) = Load(u, b)
      BY <2>5, <2>6, <3>2
    <3> QED
      BY <1>1, <2>3, <3>1, <3>2, <3>3
  <2>8. \A c \in Buckets : c # b => Load(t, c) = Load(s, c)
    BY <2>3, <2>6
  <2>9. WellTyped(t)
    BY <2>1 DEF Put
  <2> QED
    BY <2>7, <2>8, <2>9, ConservedStep
<1> QED
  BY <1>5, <1>6, <1>7, <1>8
-----------------------------------------------------------------------------
(***************************************************************************)
(* The inductive invariant: the two builds have one sketch between them,   *)
(* which is sound, and whose counts are bounded by the weight inserted.    *)
(***************************************************************************)
SplitInvariant ==
  LET s == sketch["scalar"] IN
  /\ quick \in Programs
  /\ packets \in [Keys -> Nat]
  /\ mass \in [Keys -> 0 .. MaxFlow]
  /\ sketch = [build \in Builds |-> s]
  /\ Sound(s)
  /\ ~quick => Covered(s, mass)
  /\ quick => Conserved(s, mass)

\* The empty sketch.
LEMMA FreshLanes ==
  /\ WellTyped(Fresh)
  /\ \A b \in Buckets, i \in 0 .. Slots :
       Fresh.key[b][i] = 0 /\ Fresh.val[b][i] = 0 /\ GetCounterVal(Fresh.val[b][i]) = 0
<1>1. Fresh \in Sketches
  <2>1. Fresh.key \in [Buckets -> [0 .. Slots -> Keys \cup {0}]]
    BY DEF Fresh, Buckets
  <2>2. Fresh.val \in [Buckets -> [0 .. Slots -> 0 .. Word - 1]]
    <3>1. 0 \in 0 .. Word - 1
      BY Constants DEF Word
    <3> QED
      BY <3>1 DEF Fresh, Buckets
  <2>3. Fresh.counters \in [Positions -> 0 .. LightMax]
    <3>1. 0 \in 0 .. LightMax
      BY Constants
    <3> QED
      BY <3>1 DEF Fresh, Positions
  <2>4. Fresh.mice_dist \in [0 .. LightMax -> Int]
    BY DEF Fresh
  <2>5. Fresh = [key |-> Fresh.key, val |-> Fresh.val, counters |-> Fresh.counters,
                 mice_dist |-> Fresh.mice_dist]
    BY DEF Fresh
  <2> QED
    BY <2>1, <2>2, <2>3, <2>4, <2>5 DEF Sketches
<1>2. \A b \in Buckets, i \in 0 .. Slots : Fresh.key[b][i] = 0 /\ Fresh.val[b][i] = 0
  BY DEF Fresh, Buckets
<1>3. GetCounterVal(0) = 0
  BY LiteralCounts
<1>4. Guard \in 0 .. Slots
  BY LaneNumbers
<1> QED
  BY <1>1, <1>2, <1>3, <1>4 DEF WellTyped

LEMMA FreshSound ==
  ASSUME NEW w, \A k \in Keys : w[k] \in Nat
  PROVE  Sound(Fresh) /\ Covered(Fresh, w) /\ Conserved(Fresh, w)
<1>1. Lanes \subseteq 0 .. Slots /\ Guard \in 0 .. Slots
  BY LaneNumbers
<1>2. Filled(Fresh) /\ Covered(Fresh, w)
  BY <1>1, FreshLanes DEF Filled, Covered
<1>3. Guarded(Fresh)
  BY <1>1, FreshLanes, Constants DEF Guarded
<1>4. ASSUME NEW b \in Buckets PROVE Load(Fresh, b) <= Share(w, b)
  <2>1. PICK S : S = 0 .. Slots
    OBVIOUS
  <2>2. PICK f : f = CountsIn(Fresh, b)
    OBVIOUS
  <2>3. IsFiniteSet(S) /\ \A i \in S : f[i] = 0
    BY <2>1, <2>2, FreshLanes, FiniteSets DEF CountsIn
  <2>4. SumFunctionOnSet(f, S) = 0
    BY <2>3, SumZero
  <2>5. PICK R : R = FlowsOf(b)
    OBVIOUS
  <2>6. IsFiniteSet(R) /\ \A k \in R : w[k] \in Nat
    BY <2>5, FiniteSets
  <2>7. SumFunctionOnSet(w, R) \in Nat
    BY <2>6, SumNat
  <2> QED
    BY <2>1, <2>2, <2>4, <2>5, <2>7 DEF Load, Share
<1> QED
  BY <1>2, <1>3, <1>4, FreshLanes DEF Sound, Conserved

\* An insertion into a sound sketch.
LEMMA InsertSound ==
  ASSUME NEW s, NEW w, NEW x, Sound(s), NEW k \in Keys, NEW f \in Weights,
         Covered(s, w), Adding(w, x, k, f)
  PROVE  Sound(Inserted(s, k, f)) /\ Covered(Inserted(s, k, f), x)
<1>1. PICK b \in Buckets : b = BucketOf[k]
  BY Constants
<1>2. Room(s, b, k, f) /\ f \in 1 .. MaxFlow
  BY CoveredRoom
<1>3. f \in 0 .. Word - 1
  BY <1>2, Constants DEF Word
<1>4. PICK t : t = Inserted(s, k, f)
  OBVIOUS
<1>5. Hit(s, t, b, k, f) \/ Fills(s, t, b, k, f) \/ Rejects(s, t, b) \/ Swaps(s, t, b, k)
  BY <1>1, <1>3, <1>4, InsertOutcome DEF Sound
<1>6. Covered(t, x)
  BY <1>5, InsertCovered
<1>7. Sound(t)
  BY <1>2, <1>5, HitSound, FillSound, RejectSound, SwapSound
<1> QED
  BY <1>4, <1>6, <1>7

LEMMA QuickInsertSound ==
  ASSUME QuickFits, NEW s, NEW w, NEW x, Sound(s), NEW k \in Keys, NEW f \in Weights,
         Conserved(s, w), Adding(w, x, k, f)
  PROVE  Sound(QuickInserted(s, k, f)) /\ Conserved(QuickInserted(s, k, f), x)
<1>1. PICK b \in Buckets : b = BucketOf[k]
  BY Constants
<1>2. Room(s, b, k, f) /\ f \in 1 .. MaxFlow
  BY <1>1, ConservedRoom
<1>3. f \in 0 .. Word - 1
  BY <1>2, Constants DEF Word
<1>4. PICK t : t = QuickInserted(s, k, f)
  OBVIOUS
<1>5. \/ Hit(s, t, b, k, f) \/ Fills(s, t, b, k, f) \/ Rejects(s, t, b)
      \/ Contends(s, k) /\ QuickSwaps(s, t, b, k)
  BY <1>1, <1>3, <1>4, QuickOutcome DEF Sound
<1>6. Conserved(t, x)
  BY <1>1, <1>5, QuickConserves
<1>7. Sound(t)
  <2>1. CASE Contends(s, k) /\ QuickSwaps(s, t, b, k)
    <3>1. \A i \in Lanes : GetCounterVal(s.val[b][i]) # 0
      BY <1>1, <2>1, ContendsFull
    <3> QED
      BY <2>1, <3>1, QuickSwapSound
  <2> QED
    BY <1>2, <1>5, <2>1, HitSound, FillSound, RejectSound
<1> QED
  BY <1>4, <1>6, <1>7

\* One build's sketch after a step is the other's.
LEMMA BothInsert ==
  ASSUME SplitInvariant, NEW k \in Keys, NEW f \in Weights, Insert(k, f)
  PROVE  LET s == sketch["scalar"]
             t == IF quick THEN QuickInserted(s, k, f) ELSE Inserted(s, k, f)
         IN  sketch' = [build \in Builds |-> t]
<1>1. PICK s : s = sketch["scalar"]
  OBVIOUS
<1>2. WellTyped(s) /\ Filled(s) /\ \A build \in Builds : sketch[build] = s
  BY <1>1 DEF SplitInvariant, Sound, Builds
<1>3. ASSUME NEW build \in Builds
      PROVE  /\ InsertInto(build, sketch[build], k, f) = Inserted(s, k, f)
             /\ QuickInsertInto(build, sketch[build], k, f) = QuickInserted(s, k, f)
  BY <1>2, BuildsInsert
<1> QED
  BY <1>1, <1>3 DEF Insert

LEMMA InsertKeeps ==
  ASSUME SplitInvariant, NEW k \in Keys, NEW f \in Weights, Insert(k, f)
  PROVE  SplitInvariant'
<1>1. PICK s : s = sketch["scalar"]
  OBVIOUS
<1>2. PICK t : t = IF quick THEN QuickInserted(s, k, f) ELSE Inserted(s, k, f)
  OBVIOUS
<1>3. sketch' = [build \in Builds |-> t] /\ sketch'["scalar"] = t
  BY <1>1, <1>2, BothInsert DEF Builds
<1>4. f \in Nat /\ MaxFlow \in Nat
  BY Constants
<1>5. packets' \in [Keys -> Nat] /\ quick' = quick /\ quick' \in Programs
  BY DEF SplitInvariant, Insert
<1>6. mass' \in [Keys -> 0 .. MaxFlow] /\ Adding(mass, mass', k, f)
  <2>1. mass[k] + f <= MaxFlow /\ mass' = [mass EXCEPT ![k] = @ + f]
    BY DEF Insert
  <2>2. mass \in [Keys -> 0 .. MaxFlow]
    BY DEF SplitInvariant
  <2>3. mass[k] + f \in 0 .. MaxFlow
    BY <1>4, <2>1, <2>2
  <2> QED
    BY <2>1, <2>2, <2>3 DEF Adding
<1>7. Sound(s) /\ (~quick => Covered(s, mass)) /\ (quick => Conserved(s, mass))
  BY <1>1 DEF SplitInvariant
<1>8. CASE ~quick
  <2>1. Sound(t) /\ Covered(t, mass')
    BY <1>2, <1>6, <1>7, <1>8, InsertSound
  <2> QED
    BY <1>3, <1>5, <1>6, <1>8, <2>1 DEF SplitInvariant
<1>9. CASE quick
  <2>1. QuickFits
    <3>1. quick = TRUE
      BY <1>5, <1>9, SplitAssumption
    <3> QED
      BY <1>5, <3>1, SplitAssumption
  <2>2. Sound(t) /\ Conserved(t, mass')
    BY <1>2, <1>6, <1>7, <1>9, <2>1, QuickInsertSound
  <2> QED
    BY <1>3, <1>5, <1>6, <1>9, <2>2 DEF SplitInvariant
<1> QED
  BY <1>8, <1>9

LEMMA SplitInductive ==
  Spec => []SplitInvariant
<1>1. ASSUME sketch = [build \in Builds |-> Fresh], packets = [k \in Keys |-> 0],
             mass = [k \in Keys |-> 0], quick \in Programs
      PROVE  SplitInvariant
  <2>1. sketch["scalar"] = Fresh
    BY <1>1 DEF Builds
  <2>2. mass \in [Keys -> 0 .. MaxFlow] /\ packets \in [Keys -> Nat]
    BY <1>1, Constants
  <2>3. Sound(Fresh) /\ Covered(Fresh, mass) /\ Conserved(Fresh, mass)
    BY <1>1, FreshSound
  <2> QED
    BY <1>1, <2>1, <2>2, <2>3 DEF SplitInvariant
<1>2. Init => SplitInvariant
  BY <1>1 DEF Init
<1>3. SplitInvariant /\ [Next]_vars => SplitInvariant'
  <2> SUFFICES ASSUME SplitInvariant, [Next]_vars PROVE SplitInvariant'
    OBVIOUS
  <2>1. CASE Clear
    <3>1. sketch'["scalar"] = Fresh
      BY <2>1 DEF Clear, Builds
    <3>2. mass' \in [Keys -> 0 .. MaxFlow] /\ packets' \in [Keys -> Nat]
      BY <2>1, Constants DEF Clear
    <3>3. Sound(Fresh) /\ Covered(Fresh, mass') /\ Conserved(Fresh, mass')
      BY <3>2, FreshSound
    <3> QED
      BY <2>1, <3>1, <3>2, <3>3 DEF SplitInvariant, Clear
  <2>2. CASE \E k \in Keys, f \in Weights : Insert(k, f)
    BY <2>2, InsertKeeps
  <2>3. CASE UNCHANGED vars
    BY <2>3 DEF vars, SplitInvariant
  <2> QED
    BY <2>1, <2>2, <2>3 DEF Next
<1> QED
  BY <1>2, <1>3, PTL DEF Spec
-----------------------------------------------------------------------------
\* A flow is found in the same lane by the vector query, which looks into the
\* guard lane too, and by the scalar query.
LEMMA QueriesAgree ==
  ASSUME NEW s, WellTyped(s), NEW k \in Keys
  PROVE  Query("simd", s, k) = Query("scalar", s, k)
<1>1. BucketOf[k] \in Buckets /\ k # 0
  BY Constants
<1>2. s.key[BucketOf[k]][Guard] = 0
  BY <1>1 DEF WellTyped
<1>3. 0 .. Slots = Lanes \cup {Guard}
  BY LaneNumbers DEF Lanes, Guard
<1>4. {i \in 0 .. Slots : s.key[BucketOf[k]][i] = k} = {i \in Lanes : s.key[BucketOf[k]][i] = k}
  BY <1>1, <1>2, <1>3
<1>5. HeavyQuery("simd", s, k) = HeavyQuery("scalar", s, k)
  BY <1>4 DEF HeavyQuery
<1> QED
  BY <1>5 DEF Query

(***************************************************************************)
(* BuildsAgree, for every instance: the vector build and the scalar build  *)
(* have the same tables after any insertions and report the same flows.    *)
(***************************************************************************)
THEOREM BuildsAlwaysAgree == Spec => []BuildsAgree
<1>1. SplitInvariant => BuildsAgree
  <2> SUFFICES ASSUME SplitInvariant PROVE BuildsAgree
    OBVIOUS
  <2>1. PICK s : s = sketch["scalar"]
    OBVIOUS
  <2>2. sketch["simd"] = s /\ sketch["scalar"] = s /\ WellTyped(s)
    BY <2>1 DEF SplitInvariant, Sound, Builds
  <2>3. ASSUME NEW threshold, NEW l \in LaneSet, s.key[l[1]][l[2]] # 0
        PROVE  Query("simd", s, s.key[l[1]][l[2]]) = Query("scalar", s, s.key[l[1]][l[2]])
    <3>1. l[1] \in Buckets /\ l[2] \in 0 .. Slots
      BY LaneNumbers DEF LaneSet, Buckets
    <3>2. s.key[l[1]][l[2]] \in Keys
      BY <2>2, <2>3, <3>1, LaneOf
    <3> QED
      BY <2>2, <3>2, QueriesAgree
  <2>4. ASSUME NEW threshold
        PROVE  FlowsReported("simd", threshold) = FlowsReported("scalar", threshold)
    BY <2>2, <2>3 DEF FlowsReported, HeavyHitters
  <2> QED
    BY <2>2, <2>4 DEF BuildsAgree
<1> QED
  BY <1>1, SplitInductive, PTL

(***************************************************************************)
(* GuardBounded, for every instance and both programs.                     *)
(***************************************************************************)
THEOREM GuardAlwaysBounded == Spec => []GuardBounded
<1>1. SplitInvariant => GuardBounded
  BY DEF SplitInvariant, GuardBounded, Sound, Guarded, Builds, Buckets
<1> QED
  BY <1>1, SplitInductive, PTL

(***************************************************************************)
(* BucketConservation, for every instance in which a bucket's flows have   *)
(* less common weight than a count can hold.                               *)
(***************************************************************************)
THEOREM BucketsConserve == Spec => []BucketConservation
<1>1. SplitInvariant => BucketConservation
  <2> SUFFICES ASSUME SplitInvariant, quick PROVE BucketConservation
    BY DEF BucketConservation
  <2>1. Conserved(sketch["scalar"], mass)
    BY DEF SplitInvariant
  <2> QED
    BY <2>1 DEF BucketConservation, Conserved, Load, CountsIn, Share, FlowsOf, Buckets
<1> QED
  BY <1>1, SplitInductive, PTL
-----------------------------------------------------------------------------
(***************************************************************************)
(* The actions of the template class (modules HeavyPart and LightPart), on *)
(* sketches as records: s becomes t.                                       *)
(***************************************************************************)
Matches(s, t, k, f) ==
  LET b == BucketOf[k]
  IN  /\ Holders(s.key[b], k) # {}
      /\ t.val = [s.val EXCEPT ![b][Min(Holders(s.key[b], k))] = (@ + f) % (2 * HalfRange)]
      /\ t.key = s.key

Occupies(s, t, k, f) ==
  LET b == BucketOf[k]
  IN  /\ Holders(s.key[b], k) = {}
      /\ Idle(s.val[b]) # {}
      /\ t.key = [s.key EXCEPT ![b][Min(Idle(s.val[b]))] = k]
      /\ t.val = [s.val EXCEPT ![b][Min(Idle(s.val[b]))] = f]

VotesAgainst(s, t, k) ==
  LET b == BucketOf[k]
  IN  /\ Contends(s, k)
      /\ ~JudgeIfSwap(s, b, Victim(s, b))
      /\ t.val = [s.val EXCEPT ![b][Guard] = (@ + 1) % (2 * HalfRange)]
      /\ t.key = s.key

Displaced(s, t, k) ==
  LET b == BucketOf[k]
  IN  /\ Contends(s, k)
      /\ JudgeIfSwap(s, b, Victim(s, b))
      /\ t.key = [s.key EXCEPT ![b][Victim(s, b)] = k]
      /\ t.val = [s.val EXCEPT ![b][Guard] = 0, ![b][Victim(s, b)] = HalfRange + 1]

DisplacedQuickly(s, t, k) ==
  LET b == BucketOf[k]
  IN  /\ Contends(s, k)
      /\ JudgeIfSwap(s, b, Victim(s, b))
      /\ t.key = [s.key EXCEPT ![b][Victim(s, b)] = k]
      /\ t.val = [s.val EXCEPT ![b][Guard] = 0]

SameLight(s, t) == t.counters = s.counters /\ t.mice_dist = s.mice_dist

Stored(s, t, p, new) ==
  /\ t.counters = [s.counters EXCEPT ![p] = new]
  /\ t.mice_dist = Recount(s.mice_dist, s.counters[p], new)

AddedTo(s, t, k, f) ==
  LET p == PosOf[k] IN Stored(s, t, p, Min({s.counters[p] + f, LightMax}))

RaisedTo(s, t, k, f) ==
  LET p == PosOf[k] IN Stored(s, t, p, Max({s.counters[p], Min({f, LightMax})}))

HandedOver(s, t, k, v) ==
  IF Flagged(v) THEN AddedTo(s, t, k, GetCounterVal(v)) ELSE RaisedTo(s, t, k, v)

ClassInsert(s, t, k, f) ==
  LET b == BucketOf[k]
      m == Victim(s, b)
  IN  \/ Matches(s, t, k, f) /\ SameLight(s, t)
      \/ Occupies(s, t, k, f) /\ SameLight(s, t)
      \/ VotesAgainst(s, t, k) /\ AddedTo(s, t, k, 1)
      \/ Displaced(s, t, k) /\ HandedOver(s, t, s.key[b][m], s.val[b][m])

ClassQuickInsert(s, t, k, f) ==
  /\ \/ Matches(s, t, k, f) \/ Occupies(s, t, k, f)
     \/ VotesAgainst(s, t, k) \/ DisplacedQuickly(s, t, k)
  /\ SameLight(s, t)

LEMMA PlacedIsClass ==
  ASSUME NEW s, WellTyped(s), NEW k \in Keys, NEW f, ~Contends(s, k),
         NEW t, t = Placed(s, k, f)
  PROVE  (Matches(s, t, k, f) \/ Occupies(s, t, k, f)) /\ SameLight(s, t)
<1>1. PICK b : b = BucketOf[k]
  OBVIOUS
<1>2. s \in Sketches
  BY DEF WellTyped
<1>3. CASE Holders(s.key[b], k) # {}
  <2>1. PICK i : i = Min(Holders(s.key[b], k))
    OBVIOUS
  <2>2. PICK v : v = (s.val[b][i] + f) % (2 * HalfRange)
    OBVIOUS
  <2>3. t = [s EXCEPT !.val[b][i] = v]
    BY <1>1, <1>3, <2>1, <2>2 DEF Placed
  <2>4. t.key = s.key /\ t.val = [s.val EXCEPT ![b][i] = v] /\ SameLight(s, t)
    BY <1>2, <2>3 DEF Sketches, SameLight
  <2> QED
    BY <1>1, <1>3, <2>1, <2>2, <2>4 DEF Matches
<1>4. CASE Holders(s.key[b], k) = {}
  <2>1. PICK i : i = Min(Idle(s.val[b]))
    OBVIOUS
  <2>2. PICK u : u = [s EXCEPT !.key[b][i] = k]
    OBVIOUS
  <2>3. t = [u EXCEPT !.val[b][i] = f]
    BY <1>1, <1>4, <2>1, <2>2 DEF Placed, InLane
  <2> QED
    BY <1>1, <1>2, <1>4, <2>1, <2>2, <2>3 DEF Occupies, Contends, SameLight, Sketches
<1> QED
  BY <1>3, <1>4

LEMMA StoredFields ==
  ASSUME NEW s \in Sketches, NEW p, NEW new, NEW t, t = Store(s, p, new)
  PROVE  t.key = s.key /\ t.val = s.val /\ Stored(s, t, p, new)
  BY DEF Store, Stored, Sketches

LEMMA HandedOverFields ==
  ASSUME NEW s \in Sketches, NEW k, NEW v, NEW t, t = HandOver(s, k, v)
  PROVE  t.key = s.key /\ t.val = s.val /\ HandedOver(s, t, k, v)
<1>1. PICK p : p = PosOf[k]
  OBVIOUS
<1>2. CASE Flagged(v)
  <2>1. PICK new : new = Min({s.counters[p] + GetCounterVal(v), LightMax})
    OBVIOUS
  <2>2. t = Store(s, p, new)
    BY <1>1, <1>2, <2>1 DEF HandOver, LightInsert
  <2> QED
    BY <1>1, <1>2, <2>1, <2>2, StoredFields DEF HandedOver, AddedTo
<1>3. CASE ~Flagged(v)
  <2>1. PICK new : new = Max({s.counters[p], Min({v, LightMax})})
    OBVIOUS
  <2>2. t = Store(s, p, new)
    BY <1>1, <1>3, <2>1 DEF HandOver, LightSwapInsert
  <2> QED
    BY <1>1, <1>3, <2>1, <2>2, StoredFields DEF HandedOver, RaisedTo
<1> QED
  BY <1>2, <1>3

\* What is handed over depends on the light part only.
LEMMA SameLightHandedOver ==
  ASSUME NEW s, NEW u, NEW t, SameLight(s, u), NEW k, NEW v, HandedOver(u, t, k, v)
  PROVE  HandedOver(s, t, k, v)
  BY DEF SameLight, HandedOver, AddedTo, RaisedTo, Stored

LEMMA InsertedIsClass ==
  ASSUME NEW s, WellTyped(s), NEW k \in Keys, NEW f, NEW t, t = Inserted(s, k, f)
  PROVE  ClassInsert(s, t, k, f)
<1>1. PICK b : b = BucketOf[k]
  OBVIOUS
<1>2. s \in Sketches /\ b \in Buckets
  BY <1>1, Constants DEF WellTyped
<1>3. CASE ~Contends(s, k)
  <2>1. t = Placed(s, k, f)
    BY <1>3 DEF Inserted
  <2> QED
    BY <1>3, <2>1, PlacedIsClass DEF ClassInsert
<1>4. PICK m : m = Victim(s, b)
  OBVIOUS
<1>5. CASE Contends(s, k) /\ ~JudgeIfSwap(s, b, m)
  <2>1. PICK v : v = (s.val[b][Guard] + 1) % (2 * HalfRange)
    OBVIOUS
  <2>2. PICK u : u = [s EXCEPT !.val[b][Guard] = v]
    OBVIOUS
  <2>3. u = Voted(s, b) /\ u.key = s.key /\ u.val = [s.val EXCEPT ![b][Guard] = v] /\ SameLight(s, u)
    BY <1>2, <2>1, <2>2 DEF Voted, Sketches, SameLight
  <2>4. WellTyped(u)
    BY <1>2, <2>3, VotesOutcome DEF Put
  <2>5. PICK p : p = PosOf[k]
    OBVIOUS
  <2>6. PICK new : new = Min({u.counters[p] + 1, LightMax})
    OBVIOUS
  <2>7. t = Store(u, p, new)
    BY <1>1, <1>4, <1>5, <2>3, <2>5, <2>6 DEF Inserted, LightInsert
  <2>8. t.key = u.key /\ t.val = u.val /\ Stored(u, t, p, new)
    BY <2>4, <2>7, StoredFields DEF WellTyped
  <2>9. AddedTo(s, t, k, 1)
    BY <2>3, <2>5, <2>6, <2>8 DEF AddedTo, Stored, SameLight
  <2>10. VotesAgainst(s, t, k)
    BY <1>1, <1>4, <1>5, <2>1, <2>3, <2>8 DEF VotesAgainst
  <2> QED
    BY <2>9, <2>10 DEF ClassInsert
<1>6. CASE Contends(s, k) /\ JudgeIfSwap(s, b, m)
  <2>1. PICK u : u = [s EXCEPT !.val[b][Guard] = 0]
    OBVIOUS
  <2>2. WellTyped(u) /\ u.key = s.key /\ u.val = [s.val EXCEPT ![b][Guard] = 0] /\ SameLight(s, u)
    <3>1. PICK zero : zero = 0
      OBVIOUS
    <3>2. u.key = s.key /\ u.val = [s.val EXCEPT ![b][Guard] = zero] /\ SameLight(s, u)
      BY <1>2, <2>1, <3>1 DEF Sketches, SameLight
    <3>3. WellTyped(u)
      BY <1>2, <2>1, Cleared
    <3> QED
      BY <3>1, <3>2, <3>3
  <2>3. PICK one \in 0 .. Word - 1 : one = HalfRange + 1
    BY Constants DEF Word
  <2>4. PICK w : w = InLane(u, b, m, k, one)
    OBVIOUS
  <2>5. /\ w.key = [u.key EXCEPT ![b][m] = k] /\ w.val = [u.val EXCEPT ![b][m] = one]
        /\ SameLight(u, w)
    <3>1. u \in Sketches
      BY <2>2 DEF WellTyped
    <3> QED
      BY <2>4, <3>1 DEF InLane, Sketches, SameLight
  <2>6. WellTyped(w)
    <3>1. m \in Lanes
      BY <1>2, <1>4, VictimLeast
    <3> QED
      BY <1>2, <2>2, <2>4, <3>1, PutLane DEF Put
  <2>7. PICK l : l = s.key[b][m]
    OBVIOUS
  <2>8. PICK v : v = s.val[b][m]
    OBVIOUS
  <2>9. t = HandOver(w, l, v)
    BY <1>1, <1>4, <1>6, <2>1, <2>3, <2>4, <2>7, <2>8 DEF Inserted
  <2>10. t.key = w.key /\ t.val = w.val /\ HandedOver(w, t, l, v)
    BY <2>6, <2>9, HandedOverFields DEF WellTyped
  <2>11. SameLight(s, w)
    BY <2>2, <2>5 DEF SameLight
  <2>12. HandedOver(s, t, l, v)
    BY <2>10, <2>11, SameLightHandedOver
  <2>13. Displaced(s, t, k)
    BY <1>1, <1>4, <1>6, <2>2, <2>3, <2>5, <2>10 DEF Displaced
  <2> QED
    BY <1>1, <1>4, <2>7, <2>8, <2>12, <2>13 DEF ClassInsert
<1> QED
  BY <1>3, <1>5, <1>6

LEMMA QuickInsertedIsClass ==
  ASSUME NEW s, WellTyped(s), NEW k \in Keys, NEW f, NEW t, t = QuickInserted(s, k, f)
  PROVE  ClassQuickInsert(s, t, k, f)
<1>1. PICK b : b = BucketOf[k]
  OBVIOUS
<1>2. s \in Sketches
  BY DEF WellTyped
<1>3. CASE ~Contends(s, k)
  <2>1. t = Placed(s, k, f)
    BY <1>3 DEF QuickInserted
  <2> QED
    BY <1>3, <2>1, PlacedIsClass DEF ClassQuickInsert
<1>4. PICK m : m = Victim(s, b)
  OBVIOUS
<1>5. CASE Contends(s, k) /\ ~JudgeIfSwap(s, b, m)
  <2>1. PICK v : v = (s.val[b][Guard] + 1) % (2 * HalfRange)
    OBVIOUS
  <2>2. t = [s EXCEPT !.val[b][Guard] = v]
    BY <1>1, <1>4, <1>5, <2>1 DEF Voted, QuickInserted
  <2>3. t.key = s.key /\ t.val = [s.val EXCEPT ![b][Guard] = v] /\ SameLight(s, t)
    BY <1>2, <2>2 DEF Sketches, SameLight
  <2>4. VotesAgainst(s, t, k)
    BY <1>1, <1>4, <1>5, <2>1, <2>3 DEF VotesAgainst
  <2> QED
    BY <2>3, <2>4 DEF ClassQuickInsert
<1>6. CASE Contends(s, k) /\ JudgeIfSwap(s, b, m)
  <2>1. t = [s EXCEPT !.val[b][Guard] = 0, !.key[b][m] = k]
    BY <1>1, <1>4, <1>6 DEF QuickInserted
  <2>2. /\ t.key = [s.key EXCEPT ![b][m] = k] /\ t.val = [s.val EXCEPT ![b][Guard] = 0]
        /\ SameLight(s, t)
    BY <1>2, <2>1 DEF Sketches, SameLight
  <2>3. DisplacedQuickly(s, t, k)
    BY <1>1, <1>4, <1>6, <2>2 DEF DisplacedQuickly
  <2> QED
    BY <2>2, <2>3 DEF ClassQuickInsert
<1> QED
  BY <1>3, <1>5, <1>6
-----------------------------------------------------------------------------
(* The vector build is the class with SIMD = TRUE. *)

\* A word's count in the class.
LEMMA SimdCount ==
  ASSUME NEW v \in 0 .. Word - 1
  PROVE  Simd!Count(v) = GetCounterVal(v) /\ Simd!Flagged(v) = Flagged(v)
<1>1. Simd!Flagged(v) <=> Flagged(v)
  BY DEF Simd!Flagged, Flagged
<1>2. Simd!Count(v) = GetCounterVal(v)
  BY <1>1, CountWord, Constants DEF Simd!Count, Simd!Flagged, Flagged, Word
<1>3. Simd!Flagged(v) = Flagged(v)
  BY DEF Simd!Flagged, Flagged
<1> QED
  BY <1>2, <1>3

\* What the class finds in a bucket.
LEMMA SimdSearch ==
  ASSUME NEW s, WellTyped(s), Filled(s), sketch["simd"] = s, NEW k \in Keys,
         NEW b \in Buckets, b = BucketOf[k]
  PROVE  /\ Simd!Matching(k) = Holders(s.key[b], k)
         /\ Simd!Empty(b) = Idle(s.val[b])
         /\ Simd!Smallest(b) = Smallest(s.val[b])
         /\ Simd!Victim(b) = Victim(s, b)
         /\ \A S : Simd!Min(S) = Min(S)
<1>1. Simd!Lanes = Lanes /\ Simd!Guard = Guard
  BY DEF Simd!Lanes, Simd!Guard, Lanes, Guard
<1>2. \A S : Simd!Min(S) = Min(S)
  BY DEF Simd!Min, Min
<1>3. \A i \in Lanes : Simd!Count(s.val[b][i]) = GetCounterVal(s.val[b][i])
  BY LaneNumbers, LaneOf, SimdCount
<1>4. s.key[b][Guard] = 0 /\ k # 0
  BY Constants DEF WellTyped
<1>5. Simd!Matching(k) = Holders(s.key[b], k)
  BY <1>1, <1>4 DEF Simd!Matching, Holders
<1>6. Simd!Empty(b) = Idle(s.val[b])
  BY <1>1, <1>3 DEF Simd!Empty, Idle, Filled
<1>7. Simd!Smallest(b) = Smallest(s.val[b])
  BY <1>1, <1>3 DEF Simd!Smallest, Smallest
<1>8. Simd!Victim(b) = Victim(s, b)
  BY <1>2, <1>7 DEF Simd!Victim, Victim
<1> QED
  BY <1>2, <1>5, <1>6, <1>7, <1>8

LEMMA SimdJudges ==
  ASSUME NEW s, WellTyped(s), Filled(s), sketch["simd"] = s, NEW k \in Keys,
         NEW b \in Buckets, b = BucketOf[k]
  PROVE  /\ Simd!Contends(k) <=> Contends(s, k)
         /\ Simd!Displaces(k) <=> JudgeIfSwap(s, b, Victim(s, b))
         /\ Simd!Votes(b) = (s.val[b][Guard] + 1) % (2 * HalfRange)
<1>1. Simd!Contends(k) <=> Contends(s, k)
  BY SimdSearch DEF Simd!Contends, Contends
<1>2. Simd!Votes(b) = (s.val[b][Guard] + 1) % (2 * HalfRange)
  BY DEF Simd!Votes, Simd!UpdateGuardVal, Simd!Add, Simd!Word, Simd!Guard, Guard
<1>3. Voted(s, b).val[b][Guard] = (s.val[b][Guard] + 1) % (2 * HalfRange)
  <2>1. PICK u : u = Voted(s, b)
    OBVIOUS
  <2>2. u.val[b][Guard] = Raise(s.val[b][Guard], 1)
    BY <2>1, VotesOutcome DEF Put
  <2> QED
    BY <2>1, <2>2 DEF Raise, Word
<1>4. PICK m \in Lanes : m = Victim(s, b)
  BY VictimLeast
<1>5. Simd!Count(s.val[b][m]) = GetCounterVal(s.val[b][m])
  BY LaneNumbers, LaneOf, SimdCount
<1>6. Simd!Displaces(k) <=> JudgeIfSwap(s, b, m)
  BY <1>2, <1>3, <1>4, <1>5, SimdSearch
     DEF Simd!Displaces, Simd!JudgeIfSwap, Simd!Word, JudgeIfSwap
<1> QED
  BY <1>1, <1>2, <1>4, <1>6

\* What the class does to the light part.
LEMMA SimdLight ==
  ASSUME NEW s, WellTyped(s), sketch["simd"] = s, NEW t, sketch'["simd"] = t,
         NEW k \in Keys \cup {0}, NEW f \in Nat
  PROVE  /\ AddedTo(s, t, k, f) => Simd!LightInsert(k, f)
         /\ RaisedTo(s, t, k, f) => Simd!LightSwapInsert(k, f)
         /\ SameLight(s, t) => UNCHANGED Simd!lightVars
<1>1. PICK p : p = PosOf[k]
  OBVIOUS
<1>2. p \in Positions /\ LightMax \in Nat
  BY <1>1, SplitAssumption DEF Positions
<1>3. PICK old \in 0 .. LightMax : old = s.counters[p]
  BY <1>2 DEF WellTyped, Sketches
<1>4. \A n \in Nat : Simd!Saturate(n) = Min({n, LightMax})
  BY <1>2, Pairs DEF Simd!Saturate
<1>5. ASSUME NEW new, Stored(s, t, p, new) PROVE Simd!Store(p, new)
  BY <1>5 DEF Stored, Simd!Store, Recount, Simd!Recount
<1>6. AddedTo(s, t, k, f) => Simd!LightInsert(k, f)
  <2>1. PICK n \in Nat : n = old + f
    BY <1>2, <1>3
  <2>2. Simd!Saturate(n) = Min({n, LightMax})
    BY <1>4
  <2> QED
    BY <1>1, <1>3, <1>5, <2>1, <2>2 DEF AddedTo, Simd!LightInsert
<1>7. ASSUME RaisedTo(s, t, k, f) PROVE Simd!LightSwapInsert(k, f)
  <2>1. PICK n \in Nat : n = Simd!Saturate(f)
    BY <1>2 DEF Simd!Saturate
  <2>2. n = Min({f, LightMax})
    BY <1>4, <2>1
  <2>3. Max({old, n}) = IF old <= n THEN n ELSE old
    <3>1. old \in Nat
      BY <1>2, <1>3
    <3> QED
      BY ONLY <2>1, <3>1, Pairs
  <2>4. Stored(s, t, p, Max({old, n}))
    BY <1>1, <1>3, <1>7, <2>2 DEF RaisedTo
  <2>5. CASE old < n
    <3>1. Stored(s, t, p, n)
      BY <1>3, <2>3, <2>4, <2>5
    <3>2. Simd!Store(p, n)
      BY <1>5, <3>1
    <3> QED
      BY <1>1, <1>3, <2>1, <2>5, <3>2 DEF Simd!LightSwapInsert
  <2>6. CASE ~(old < n)
    <3>1. Stored(s, t, p, old)
      BY <1>3, <2>3, <2>4, <2>6
    <3>2. t.counters = s.counters /\ t.mice_dist = s.mice_dist
      BY <1>2, <1>3, <3>1 DEF Stored, Recount, WellTyped, Sketches
    <3> QED
      BY <1>1, <1>3, <2>1, <2>6, <3>2 DEF Simd!LightSwapInsert, Simd!lightVars
  <2> QED
    BY <2>5, <2>6
<1>8. SameLight(s, t) => UNCHANGED Simd!lightVars
  BY DEF SameLight, Simd!lightVars
<1> QED
  BY <1>6, <1>7, <1>8

LEMMA SimdInsert ==
  ASSUME NEW s, WellTyped(s), Filled(s), sketch["simd"] = s, NEW t, sketch'["simd"] = t,
         NEW k \in Keys, NEW f, Simd!Received(k, f), ClassInsert(s, t, k, f)
  PROVE  Simd!Insert(k, f)
<1>1. PICK b \in Buckets : b = BucketOf[k]
  BY Constants
<1>2. PICK m \in Lanes : m = Victim(s, b)
  BY VictimLeast
<1>3. /\ Simd!Matching(k) = Holders(s.key[b], k)
      /\ Simd!Empty(b) = Idle(s.val[b])
      /\ Simd!Victim(b) = m
      /\ \A S : Simd!Min(S) = Min(S)
  BY <1>1, <1>2, SimdSearch
<1>4. /\ Simd!Contends(k) <=> Contends(s, k)
      /\ Simd!Displaces(k) <=> JudgeIfSwap(s, b, m)
      /\ Simd!Votes(b) = (s.val[b][Guard] + 1) % (2 * HalfRange)
  BY <1>1, <1>2, SimdJudges
<1>5. Simd!Guard = Guard /\ \A v : Simd!Add(v, f) = (v + f) % (2 * HalfRange)
  BY DEF Simd!Guard, Guard, Simd!Add, Simd!Word
<1>6. SameLight(s, t) => UNCHANGED Simd!lightVars
  BY DEF SameLight, Simd!lightVars
<1>7. CASE Matches(s, t, k, f) /\ SameLight(s, t)
  <2>1. Simd!HeavyMatch(k, f)
    BY <1>1, <1>3, <1>5, <1>7 DEF Matches, Simd!HeavyMatch
  <2> QED
    BY <1>6, <1>7, <2>1 DEF Simd!Insert, Simd!Match
<1>8. CASE Occupies(s, t, k, f) /\ SameLight(s, t)
  <2>1. Simd!HeavyFill(k, f)
    BY <1>1, <1>3, <1>8 DEF Occupies, Simd!HeavyFill
  <2> QED
    BY <1>6, <1>8, <2>1 DEF Simd!Insert, Simd!Fill
<1>9. CASE VotesAgainst(s, t, k) /\ AddedTo(s, t, k, 1)
  <2>1. Simd!HeavyReject(k)
    BY <1>1, <1>2, <1>4, <1>5, <1>9 DEF VotesAgainst, Simd!HeavyReject
  <2>2. PICK one \in Nat : one = 1
    OBVIOUS
  <2>3. Simd!LightInsert(k, one)
    BY <1>9, <2>2, SimdLight
  <2> QED
    BY <2>1, <2>2, <2>3 DEF Simd!Insert, Simd!Reject
<1>10. CASE Displaced(s, t, k) /\ HandedOver(s, t, s.key[b][m], s.val[b][m])
  <2>1. Simd!HeavySwap(k)
    BY <1>1, <1>2, <1>3, <1>4, <1>5, <1>10 DEF Displaced, Simd!HeavySwap
  <2>2. PICK l \in Keys \cup {0} : l = s.key[b][m]
    BY <1>1, LaneNumbers, LaneOf
  <2>3. PICK v \in 0 .. Word - 1 : v = s.val[b][m]
    BY <1>1, LaneNumbers, LaneOf
  <2>4. HandedOver(s, t, l, v)
    BY <1>10, <2>2, <2>3
  <2>5. PICK c \in Nat : c = GetCounterVal(v)
    BY CountWord, Constants
  <2>6. v \in Nat
    BY <2>3, Constants
  <2>7. Simd!Count(v) = c /\ Simd!Flagged(v) = Flagged(v)
    BY <2>5, SimdCount
  <2>8. Simd!HandOver(l, v)
    <3>1. CASE Flagged(v)
      <4>1. AddedTo(s, t, l, c)
        BY <2>4, <2>5, <3>1 DEF HandedOver
      <4>2. Simd!LightInsert(l, c)
        BY <4>1, SimdLight
      <4> QED
        BY <2>7, <3>1, <4>2 DEF Simd!HandOver
    <3>2. CASE ~Flagged(v)
      <4>1. RaisedTo(s, t, l, v)
        BY <2>4, <3>2 DEF HandedOver
      <4>2. Simd!LightSwapInsert(l, v)
        BY <2>6, <4>1, SimdLight
      <4> QED
        BY <2>7, <3>2, <4>2 DEF Simd!HandOver
    <3> QED
      BY <3>1, <3>2
  <2> QED
    BY <1>1, <1>3, <2>1, <2>2, <2>3, <2>8 DEF Simd!Insert, Simd!Swap
<1> QED
  BY <1>1, <1>2, <1>7, <1>8, <1>9, <1>10 DEF ClassInsert

LEMMA SimdQuickInsert ==
  ASSUME NEW s, WellTyped(s), Filled(s), sketch["simd"] = s, NEW t, sketch'["simd"] = t,
         NEW k \in Keys, NEW f, Simd!Received(k, f), ClassQuickInsert(s, t, k, f)
  PROVE  Simd!QuickInsert(k, f)
<1>1. PICK b \in Buckets : b = BucketOf[k]
  BY Constants
<1>2. PICK m \in Lanes : m = Victim(s, b)
  BY VictimLeast
<1>3. /\ Simd!Matching(k) = Holders(s.key[b], k)
      /\ Simd!Empty(b) = Idle(s.val[b])
      /\ Simd!Victim(b) = m
      /\ \A S : Simd!Min(S) = Min(S)
  BY <1>1, <1>2, SimdSearch
<1>4. /\ Simd!Contends(k) <=> Contends(s, k)
      /\ Simd!Displaces(k) <=> JudgeIfSwap(s, b, m)
      /\ Simd!Votes(b) = (s.val[b][Guard] + 1) % (2 * HalfRange)
  BY <1>1, <1>2, SimdJudges
<1>5. Simd!Guard = Guard /\ \A v : Simd!Add(v, f) = (v + f) % (2 * HalfRange)
  BY DEF Simd!Guard, Guard, Simd!Add, Simd!Word
<1>6. UNCHANGED Simd!lightVars
  BY DEF ClassQuickInsert, SameLight, Simd!lightVars
<1>7. Matches(s, t, k, f) => Simd!HeavyMatch(k, f)
  BY <1>1, <1>3, <1>5 DEF Matches, Simd!HeavyMatch
<1>8. Occupies(s, t, k, f) => Simd!HeavyFill(k, f)
  BY <1>1, <1>3 DEF Occupies, Simd!HeavyFill
<1>9. VotesAgainst(s, t, k) => Simd!HeavyReject(k)
  BY <1>1, <1>2, <1>4, <1>5 DEF VotesAgainst, Simd!HeavyReject
<1>10. DisplacedQuickly(s, t, k) => Simd!QuickSwap(k)
  BY <1>1, <1>2, <1>3, <1>4, <1>5 DEF DisplacedQuickly, Simd!QuickSwap
<1> QED
  BY <1>6, <1>7, <1>8, <1>9, <1>10 DEF ClassQuickInsert, Simd!QuickInsert

\* A step of the split copy is a step of the class.
LEMMA SimdStep ==
  ASSUME SplitInvariant, [Next]_vars
  PROVE  [IF quick THEN Simd!QuickNext ELSE Simd!Next]_(Simd!vars)
<1>1. PICK s : s = sketch["scalar"]
  OBVIOUS
<1>2. WellTyped(s) /\ Filled(s) /\ sketch["simd"] = s
  BY <1>1 DEF SplitInvariant, Sound, Builds
<1>3. ASSUME NEW k \in Keys, NEW f \in Weights, Insert(k, f)
      PROVE  IF quick THEN Simd!QuickNext ELSE Simd!Next
  <2>1. PICK t : t = IF quick THEN QuickInserted(s, k, f) ELSE Inserted(s, k, f)
    OBVIOUS
  <2>2. sketch'["simd"] = t
    BY <1>1, <1>3, <2>1, BothInsert DEF Builds
  <2>3. Simd!Received(k, f)
    BY <1>3 DEF Insert, Simd!Received
  <2>4. CASE quick
    <3>1. Simd!QuickInsert(k, f)
      BY <1>2, <2>1, <2>2, <2>3, <2>4, QuickInsertedIsClass, SimdQuickInsert
    <3> QED
      BY <2>4, <3>1 DEF Simd!QuickNext
  <2>5. CASE ~quick
    <3>1. Simd!Insert(k, f)
      BY <1>2, <2>1, <2>2, <2>3, <2>5, InsertedIsClass, SimdInsert
    <3> QED
      BY <2>5, <3>1 DEF Simd!Next
  <2> QED
    BY <2>4, <2>5
<1>4. ASSUME Clear PROVE IF quick THEN Simd!QuickNext ELSE Simd!Next
  <2>1. sketch'["simd"] = Fresh
    BY <1>4 DEF Clear, Builds
  <2>2. Simd!HeavyClear /\ Simd!LightClear
    BY <2>1 DEF Fresh, Simd!HeavyClear, Simd!LightClear, Simd!Buckets, Simd!Positions
  <2>3. Simd!Clear
    BY <1>4, <2>2 DEF Clear, Simd!Clear
  <2> QED
    BY <2>3 DEF Simd!Next, Simd!QuickNext
<1>5. UNCHANGED vars => UNCHANGED Simd!vars
  BY DEF vars, Simd!vars, Simd!heavyVars, Simd!lightVars, Simd!truthVars
<1> QED
  BY <1>3, <1>4, <1>5 DEF Next

LEMMA SimdStart == Init => Simd!Init
<1> SUFFICES ASSUME Init PROVE Simd!Init
  OBVIOUS
<1>1. sketch["simd"] = Fresh
  BY DEF Init, Builds
<1>2. Simd!HeavyInit /\ Simd!LightInit
  BY <1>1 DEF Fresh, Simd!HeavyInit, Simd!LightInit, Simd!Buckets, Simd!Positions
<1> QED
  BY <1>2 DEF Init, Simd!Init

-----------------------------------------------------------------------------
(* The scalar build is the class with SIMD = FALSE: the same lemmas. *)

\* A word's count in the class.
LEMMA ScalarCount ==
  ASSUME NEW v \in 0 .. Word - 1
  PROVE  Scalar!Count(v) = GetCounterVal(v) /\ Scalar!Flagged(v) = Flagged(v)
<1>1. Scalar!Flagged(v) <=> Flagged(v)
  BY DEF Scalar!Flagged, Flagged
<1>2. Scalar!Count(v) = GetCounterVal(v)
  BY <1>1, CountWord, Constants DEF Scalar!Count, Scalar!Flagged, Flagged, Word
<1>3. Scalar!Flagged(v) = Flagged(v)
  BY DEF Scalar!Flagged, Flagged
<1> QED
  BY <1>2, <1>3

\* What the class finds in a bucket.
LEMMA ScalarSearch ==
  ASSUME NEW s, WellTyped(s), Filled(s), sketch["scalar"] = s, NEW k \in Keys,
         NEW b \in Buckets, b = BucketOf[k]
  PROVE  /\ Scalar!Matching(k) = Holders(s.key[b], k)
         /\ Scalar!Empty(b) = Idle(s.val[b])
         /\ Scalar!Smallest(b) = Smallest(s.val[b])
         /\ Scalar!Victim(b) = Victim(s, b)
         /\ \A S : Scalar!Min(S) = Min(S)
<1>1. Scalar!Lanes = Lanes /\ Scalar!Guard = Guard
  BY DEF Scalar!Lanes, Scalar!Guard, Lanes, Guard
<1>2. \A S : Scalar!Min(S) = Min(S)
  BY DEF Scalar!Min, Min
<1>3. \A i \in Lanes : Scalar!Count(s.val[b][i]) = GetCounterVal(s.val[b][i])
  BY LaneNumbers, LaneOf, ScalarCount
<1>4. s.key[b][Guard] = 0 /\ k # 0
  BY Constants DEF WellTyped
<1>5. Scalar!Matching(k) = Holders(s.key[b], k)
  BY <1>1, <1>4 DEF Scalar!Matching, Holders
<1>6. Scalar!Empty(b) = Idle(s.val[b])
  BY <1>1, <1>3 DEF Scalar!Empty, Idle, Filled
<1>7. Scalar!Smallest(b) = Smallest(s.val[b])
  BY <1>1, <1>3 DEF Scalar!Smallest, Smallest
<1>8. Scalar!Victim(b) = Victim(s, b)
  BY <1>2, <1>7 DEF Scalar!Victim, Victim
<1> QED
  BY <1>2, <1>5, <1>6, <1>7, <1>8

LEMMA ScalarJudges ==
  ASSUME NEW s, WellTyped(s), Filled(s), sketch["scalar"] = s, NEW k \in Keys,
         NEW b \in Buckets, b = BucketOf[k]
  PROVE  /\ Scalar!Contends(k) <=> Contends(s, k)
         /\ Scalar!Displaces(k) <=> JudgeIfSwap(s, b, Victim(s, b))
         /\ Scalar!Votes(b) = (s.val[b][Guard] + 1) % (2 * HalfRange)
<1>1. Scalar!Contends(k) <=> Contends(s, k)
  BY ScalarSearch DEF Scalar!Contends, Contends
<1>2. Scalar!Votes(b) = (s.val[b][Guard] + 1) % (2 * HalfRange)
  BY DEF Scalar!Votes, Scalar!UpdateGuardVal, Scalar!Add, Scalar!Word, Scalar!Guard, Guard
<1>3. Voted(s, b).val[b][Guard] = (s.val[b][Guard] + 1) % (2 * HalfRange)
  <2>1. PICK u : u = Voted(s, b)
    OBVIOUS
  <2>2. u.val[b][Guard] = Raise(s.val[b][Guard], 1)
    BY <2>1, VotesOutcome DEF Put
  <2> QED
    BY <2>1, <2>2 DEF Raise, Word
<1>4. PICK m \in Lanes : m = Victim(s, b)
  BY VictimLeast
<1>5. Scalar!Count(s.val[b][m]) = GetCounterVal(s.val[b][m])
  BY LaneNumbers, LaneOf, ScalarCount
<1>6. Scalar!Displaces(k) <=> JudgeIfSwap(s, b, m)
  BY <1>2, <1>3, <1>4, <1>5, ScalarSearch
     DEF Scalar!Displaces, Scalar!JudgeIfSwap, Scalar!Word, JudgeIfSwap
<1> QED
  BY <1>1, <1>2, <1>4, <1>6

\* What the class does to the light part.
LEMMA ScalarLight ==
  ASSUME NEW s, WellTyped(s), sketch["scalar"] = s, NEW t, sketch'["scalar"] = t,
         NEW k \in Keys \cup {0}, NEW f \in Nat
  PROVE  /\ AddedTo(s, t, k, f) => Scalar!LightInsert(k, f)
         /\ RaisedTo(s, t, k, f) => Scalar!LightSwapInsert(k, f)
         /\ SameLight(s, t) => UNCHANGED Scalar!lightVars
<1>1. PICK p : p = PosOf[k]
  OBVIOUS
<1>2. p \in Positions /\ LightMax \in Nat
  BY <1>1, SplitAssumption DEF Positions
<1>3. PICK old \in 0 .. LightMax : old = s.counters[p]
  BY <1>2 DEF WellTyped, Sketches
<1>4. \A n \in Nat : Scalar!Saturate(n) = Min({n, LightMax})
  BY <1>2, Pairs DEF Scalar!Saturate
<1>5. ASSUME NEW new, Stored(s, t, p, new) PROVE Scalar!Store(p, new)
  BY <1>5 DEF Stored, Scalar!Store, Recount, Scalar!Recount
<1>6. AddedTo(s, t, k, f) => Scalar!LightInsert(k, f)
  <2>1. PICK n \in Nat : n = old + f
    BY <1>2, <1>3
  <2>2. Scalar!Saturate(n) = Min({n, LightMax})
    BY <1>4
  <2> QED
    BY <1>1, <1>3, <1>5, <2>1, <2>2 DEF AddedTo, Scalar!LightInsert
<1>7. ASSUME RaisedTo(s, t, k, f) PROVE Scalar!LightSwapInsert(k, f)
  <2>1. PICK n \in Nat : n = Scalar!Saturate(f)
    BY <1>2 DEF Scalar!Saturate
  <2>2. n = Min({f, LightMax})
    BY <1>4, <2>1
  <2>3. Max({old, n}) = IF old <= n THEN n ELSE old
    <3>1. old \in Nat
      BY <1>2, <1>3
    <3> QED
      BY ONLY <2>1, <3>1, Pairs
  <2>4. Stored(s, t, p, Max({old, n}))
    BY <1>1, <1>3, <1>7, <2>2 DEF RaisedTo
  <2>5. CASE old < n
    <3>1. Stored(s, t, p, n)
      BY <1>3, <2>3, <2>4, <2>5
    <3>2. Scalar!Store(p, n)
      BY <1>5, <3>1
    <3> QED
      BY <1>1, <1>3, <2>1, <2>5, <3>2 DEF Scalar!LightSwapInsert
  <2>6. CASE ~(old < n)
    <3>1. Stored(s, t, p, old)
      BY <1>3, <2>3, <2>4, <2>6
    <3>2. t.counters = s.counters /\ t.mice_dist = s.mice_dist
      BY <1>2, <1>3, <3>1 DEF Stored, Recount, WellTyped, Sketches
    <3> QED
      BY <1>1, <1>3, <2>1, <2>6, <3>2 DEF Scalar!LightSwapInsert, Scalar!lightVars
  <2> QED
    BY <2>5, <2>6
<1>8. SameLight(s, t) => UNCHANGED Scalar!lightVars
  BY DEF SameLight, Scalar!lightVars
<1> QED
  BY <1>6, <1>7, <1>8

LEMMA ScalarInsert ==
  ASSUME NEW s, WellTyped(s), Filled(s), sketch["scalar"] = s, NEW t, sketch'["scalar"] = t,
         NEW k \in Keys, NEW f, Scalar!Received(k, f), ClassInsert(s, t, k, f)
  PROVE  Scalar!Insert(k, f)
<1>1. PICK b \in Buckets : b = BucketOf[k]
  BY Constants
<1>2. PICK m \in Lanes : m = Victim(s, b)
  BY VictimLeast
<1>3. /\ Scalar!Matching(k) = Holders(s.key[b], k)
      /\ Scalar!Empty(b) = Idle(s.val[b])
      /\ Scalar!Victim(b) = m
      /\ \A S : Scalar!Min(S) = Min(S)
  BY <1>1, <1>2, ScalarSearch
<1>4. /\ Scalar!Contends(k) <=> Contends(s, k)
      /\ Scalar!Displaces(k) <=> JudgeIfSwap(s, b, m)
      /\ Scalar!Votes(b) = (s.val[b][Guard] + 1) % (2 * HalfRange)
  BY <1>1, <1>2, ScalarJudges
<1>5. Scalar!Guard = Guard /\ \A v : Scalar!Add(v, f) = (v + f) % (2 * HalfRange)
  BY DEF Scalar!Guard, Guard, Scalar!Add, Scalar!Word
<1>6. SameLight(s, t) => UNCHANGED Scalar!lightVars
  BY DEF SameLight, Scalar!lightVars
<1>7. CASE Matches(s, t, k, f) /\ SameLight(s, t)
  <2>1. Scalar!HeavyMatch(k, f)
    BY <1>1, <1>3, <1>5, <1>7 DEF Matches, Scalar!HeavyMatch
  <2> QED
    BY <1>6, <1>7, <2>1 DEF Scalar!Insert, Scalar!Match
<1>8. CASE Occupies(s, t, k, f) /\ SameLight(s, t)
  <2>1. Scalar!HeavyFill(k, f)
    BY <1>1, <1>3, <1>8 DEF Occupies, Scalar!HeavyFill
  <2> QED
    BY <1>6, <1>8, <2>1 DEF Scalar!Insert, Scalar!Fill
<1>9. CASE VotesAgainst(s, t, k) /\ AddedTo(s, t, k, 1)
  <2>1. Scalar!HeavyReject(k)
    BY <1>1, <1>2, <1>4, <1>5, <1>9 DEF VotesAgainst, Scalar!HeavyReject
  <2>2. PICK one \in Nat : one = 1
    OBVIOUS
  <2>3. Scalar!LightInsert(k, one)
    BY <1>9, <2>2, ScalarLight
  <2> QED
    BY <2>1, <2>2, <2>3 DEF Scalar!Insert, Scalar!Reject
<1>10. CASE Displaced(s, t, k) /\ HandedOver(s, t, s.key[b][m], s.val[b][m])
  <2>1. Scalar!HeavySwap(k)
    BY <1>1, <1>2, <1>3, <1>4, <1>5, <1>10 DEF Displaced, Scalar!HeavySwap
  <2>2. PICK l \in Keys \cup {0} : l = s.key[b][m]
    BY <1>1, LaneNumbers, LaneOf
  <2>3. PICK v \in 0 .. Word - 1 : v = s.val[b][m]
    BY <1>1, LaneNumbers, LaneOf
  <2>4. HandedOver(s, t, l, v)
    BY <1>10, <2>2, <2>3
  <2>5. PICK c \in Nat : c = GetCounterVal(v)
    BY CountWord, Constants
  <2>6. v \in Nat
    BY <2>3, Constants
  <2>7. Scalar!Count(v) = c /\ Scalar!Flagged(v) = Flagged(v)
    BY <2>5, ScalarCount
  <2>8. Scalar!HandOver(l, v)
    <3>1. CASE Flagged(v)
      <4>1. AddedTo(s, t, l, c)
        BY <2>4, <2>5, <3>1 DEF HandedOver
      <4>2. Scalar!LightInsert(l, c)
        BY <4>1, ScalarLight
      <4> QED
        BY <2>7, <3>1, <4>2 DEF Scalar!HandOver
    <3>2. CASE ~Flagged(v)
      <4>1. RaisedTo(s, t, l, v)
        BY <2>4, <3>2 DEF HandedOver
      <4>2. Scalar!LightSwapInsert(l, v)
        BY <2>6, <4>1, ScalarLight
      <4> QED
        BY <2>7, <3>2, <4>2 DEF Scalar!HandOver
    <3> QED
      BY <3>1, <3>2
  <2> QED
    BY <1>1, <1>3, <2>1, <2>2, <2>3, <2>8 DEF Scalar!Insert, Scalar!Swap
<1> QED
  BY <1>1, <1>2, <1>7, <1>8, <1>9, <1>10 DEF ClassInsert

LEMMA ScalarQuickInsert ==
  ASSUME NEW s, WellTyped(s), Filled(s), sketch["scalar"] = s, NEW t, sketch'["scalar"] = t,
         NEW k \in Keys, NEW f, Scalar!Received(k, f), ClassQuickInsert(s, t, k, f)
  PROVE  Scalar!QuickInsert(k, f)
<1>1. PICK b \in Buckets : b = BucketOf[k]
  BY Constants
<1>2. PICK m \in Lanes : m = Victim(s, b)
  BY VictimLeast
<1>3. /\ Scalar!Matching(k) = Holders(s.key[b], k)
      /\ Scalar!Empty(b) = Idle(s.val[b])
      /\ Scalar!Victim(b) = m
      /\ \A S : Scalar!Min(S) = Min(S)
  BY <1>1, <1>2, ScalarSearch
<1>4. /\ Scalar!Contends(k) <=> Contends(s, k)
      /\ Scalar!Displaces(k) <=> JudgeIfSwap(s, b, m)
      /\ Scalar!Votes(b) = (s.val[b][Guard] + 1) % (2 * HalfRange)
  BY <1>1, <1>2, ScalarJudges
<1>5. Scalar!Guard = Guard /\ \A v : Scalar!Add(v, f) = (v + f) % (2 * HalfRange)
  BY DEF Scalar!Guard, Guard, Scalar!Add, Scalar!Word
<1>6. UNCHANGED Scalar!lightVars
  BY DEF ClassQuickInsert, SameLight, Scalar!lightVars
<1>7. Matches(s, t, k, f) => Scalar!HeavyMatch(k, f)
  BY <1>1, <1>3, <1>5 DEF Matches, Scalar!HeavyMatch
<1>8. Occupies(s, t, k, f) => Scalar!HeavyFill(k, f)
  BY <1>1, <1>3 DEF Occupies, Scalar!HeavyFill
<1>9. VotesAgainst(s, t, k) => Scalar!HeavyReject(k)
  BY <1>1, <1>2, <1>4, <1>5 DEF VotesAgainst, Scalar!HeavyReject
<1>10. DisplacedQuickly(s, t, k) => Scalar!QuickSwap(k)
  BY <1>1, <1>2, <1>3, <1>4, <1>5 DEF DisplacedQuickly, Scalar!QuickSwap
<1> QED
  BY <1>6, <1>7, <1>8, <1>9, <1>10 DEF ClassQuickInsert, Scalar!QuickInsert

\* A step of the split copy is a step of the class.
LEMMA ScalarStep ==
  ASSUME SplitInvariant, [Next]_vars
  PROVE  [IF quick THEN Scalar!QuickNext ELSE Scalar!Next]_(Scalar!vars)
<1>1. PICK s : s = sketch["scalar"]
  OBVIOUS
<1>2. WellTyped(s) /\ Filled(s) /\ sketch["scalar"] = s
  BY <1>1 DEF SplitInvariant, Sound, Builds
<1>3. ASSUME NEW k \in Keys, NEW f \in Weights, Insert(k, f)
      PROVE  IF quick THEN Scalar!QuickNext ELSE Scalar!Next
  <2>1. PICK t : t = IF quick THEN QuickInserted(s, k, f) ELSE Inserted(s, k, f)
    OBVIOUS
  <2>2. sketch'["scalar"] = t
    BY <1>1, <1>3, <2>1, BothInsert DEF Builds
  <2>3. Scalar!Received(k, f)
    BY <1>3 DEF Insert, Scalar!Received
  <2>4. CASE quick
    <3>1. Scalar!QuickInsert(k, f)
      BY <1>2, <2>1, <2>2, <2>3, <2>4, QuickInsertedIsClass, ScalarQuickInsert
    <3> QED
      BY <2>4, <3>1 DEF Scalar!QuickNext
  <2>5. CASE ~quick
    <3>1. Scalar!Insert(k, f)
      BY <1>2, <2>1, <2>2, <2>3, <2>5, InsertedIsClass, ScalarInsert
    <3> QED
      BY <2>5, <3>1 DEF Scalar!Next
  <2> QED
    BY <2>4, <2>5
<1>4. ASSUME Clear PROVE IF quick THEN Scalar!QuickNext ELSE Scalar!Next
  <2>1. sketch'["scalar"] = Fresh
    BY <1>4 DEF Clear, Builds
  <2>2. Scalar!HeavyClear /\ Scalar!LightClear
    BY <2>1 DEF Fresh, Scalar!HeavyClear, Scalar!LightClear, Scalar!Buckets, Scalar!Positions
  <2>3. Scalar!Clear
    BY <1>4, <2>2 DEF Clear, Scalar!Clear
  <2> QED
    BY <2>3 DEF Scalar!Next, Scalar!QuickNext
<1>5. UNCHANGED vars => UNCHANGED Scalar!vars
  BY DEF vars, Scalar!vars, Scalar!heavyVars, Scalar!lightVars, Scalar!truthVars
<1> QED
  BY <1>3, <1>4, <1>5 DEF Next

LEMMA ScalarStart == Init => Scalar!Init
<1> SUFFICES ASSUME Init PROVE Scalar!Init
  OBVIOUS
<1>1. sketch["scalar"] = Fresh
  BY DEF Init, Builds
<1>2. Scalar!HeavyInit /\ Scalar!LightInit
  BY <1>1 DEF Fresh, Scalar!HeavyInit, Scalar!LightInit, Scalar!Buckets, Scalar!Positions
<1> QED
  BY <1>2 DEF Init, Scalar!Init
-----------------------------------------------------------------------------
(***************************************************************************)
(* ImplementsSketch, for every instance: each build of the split copy      *)
(* takes, step by step, the steps of the template class on the same        *)
(* arrays, with insert and with quick_insert (which only the vector build  *)
(* of the class has: the scalar one is taken as it on the scalar search).  *)
(***************************************************************************)
THEOREM SplitImplements == Spec => ImplementsSketch
<1>1. Init => Simd!Init /\ Scalar!Init
  BY SimdStart, ScalarStart
<1>2. SplitInvariant /\ [Next]_vars =>
        /\ [IF quick THEN Simd!QuickNext ELSE Simd!Next]_(Simd!vars)
        /\ [IF quick THEN Scalar!QuickNext ELSE Scalar!Next]_(Scalar!vars)
  BY SimdStep, ScalarStep
<1> QED
  BY <1>1, <1>2, SplitInductive, PTL DEF Spec, ImplementsSketch

(***************************************************************************)
(* The constants of the split copy are constants of the class, so that the *)
(* class's theorems apply to both builds.                                  *)
(***************************************************************************)
THEOREM ClassConstants ==
  /\ Simd!ParamAssumption /\ Simd!HeavyAssumption /\ Simd!LightAssumption /\ Simd!SketchAssumption
  /\ Scalar!ParamAssumption /\ Scalar!HeavyAssumption /\ Scalar!LightAssumption
  /\ Scalar!SketchAssumption
<1>1. HalfRange \in Nat \ {0, 1}
  BY Constants
<1>2. Simd!ParamAssumption /\ Scalar!ParamAssumption
  BY <1>1, SplitAssumption DEF Simd!ParamAssumption, Scalar!ParamAssumption,
     Simd!IsFiniteSet, Scalar!IsFiniteSet, IsFiniteSet
<1>3. Simd!HeavyAssumption /\ Scalar!HeavyAssumption
  BY SplitAssumption DEF Simd!HeavyAssumption, Scalar!HeavyAssumption
<1>4. Simd!LightAssumption /\ Scalar!LightAssumption
  BY SplitAssumption DEF Simd!LightAssumption, Scalar!LightAssumption
<1>5. Simd!SketchAssumption /\ Scalar!SketchAssumption
  BY SplitAssumption DEF Simd!SketchAssumption, Scalar!SketchAssumption
<1> QED
  BY <1>2, <1>3, <1>4, <1>5
-----------------------------------------------------------------------------
(***************************************************************************)
(* The tasks.  With insert and without collisions, a flow's packets are    *)
(* what its lane and its light counter say: the weight bounds both         *)
(* together from above, and the calls bound them from below until the      *)
(* light counter is full, so they are exact when the two are the same.     *)
(***************************************************************************)

\* Each flow is in at most one lane, of its own bucket; free lanes are blank.
Seated(s) ==
  \A b \in Buckets, i \in Lanes :
    LET k == s.key[b][i]
    IN  /\ k = 0 => s.val[b][i] = 0
        /\ k # 0 => /\ BucketOf[k] = b
                    /\ \A j \in Lanes : s.key[b][j] = k => j = i

\* A counter in use is the counter of a flow.
Owned(s) == \A q \in Positions : s.counters[q] # 0 => \E k \in Keys : PosOf[k] = q

ValuedAt(c, v) == {q \in Positions : c[q] = v}

Histogram(s) ==
  \A v \in 1 .. LightMax : s.mice_dist[v] = Cardinality(ValuedAt(s.counters, v))

\* Flow k with p packets, of weight w.
Exactly(s, k, p, w) ==
  LET b == BucketOf[k]
      light == s.counters[PosOf[k]]
  IN  /\ p <= w /\ light <= w
      /\ \A i \in Lanes : s.key[b][i] = k =>
           LET n == GetCounterVal(s.val[b][i])
           IN  /\ n + light <= w
               /\ Flagged(s.val[b][i]) => p <= n + light \/ light = LightMax
               /\ ~Flagged(s.val[b][i]) => n = w
      /\ (\A i \in Lanes : s.key[b][i] # k) =>
           /\ p <= light \/ light = LightMax
           /\ w # 0 => \A i \in Lanes : s.key[b][i] # 0

Exact(s, p, w) ==
  /\ Seated(s) /\ Owned(s) /\ Histogram(s)
  /\ CollisionFree => \A k \in Keys : Exactly(s, k, p[k], w[k])
-----------------------------------------------------------------------------
(* The ways an insertion ends, with both parts. *)

\* Lane i of bucket b gets key k and val v; no other lane changes.
Takes(s, t, b, i, k, v) ==
  /\ t.key[b][i] = k /\ t.val[b][i] = v
  /\ \A c \in Buckets, j \in Lanes :
       c # b \/ j # i => t.key[c][j] = s.key[c][j] /\ t.val[c][j] = s.val[c][j]

SameLanes(s, t) ==
  \A c \in Buckets, j \in Lanes : t.key[c][j] = s.key[c][j] /\ t.val[c][j] = s.val[c][j]

Absent(s, b, k) == \A i \in Lanes : s.key[b][i] # k

CountedIn(s, t, b, i, k, f) ==
  s.key[b][i] = k /\ Takes(s, t, b, i, k, Raise(s.val[b][i], f)) /\ SameLight(s, t)

SeatedIn(s, t, b, i, k, f) ==
  /\ Absent(s, b, k) /\ s.key[b][i] = 0
  /\ Takes(s, t, b, i, k, f) /\ SameLight(s, t)

TurnedAway(s, t, b, k) ==
  /\ Absent(s, b, k) /\ Absent(s, b, 0)
  /\ SameLanes(s, t) /\ AddedTo(s, t, k, 1)

TakesOver(s, t, b, i, k) ==
  /\ Absent(s, b, k) /\ Absent(s, b, 0)
  /\ Takes(s, t, b, i, k, HalfRange + 1)
  /\ HandedOver(s, t, s.key[b][i], s.val[b][i])

Ends(s, t, b, k, f) ==
  \/ \E i \in Lanes : CountedIn(s, t, b, i, k, f)
  \/ \E i \in Lanes : SeatedIn(s, t, b, i, k, f)
  \/ TurnedAway(s, t, b, k)
  \/ \E i \in Lanes : TakesOver(s, t, b, i, k)

Overwrites(x, y, b, i, v) == y = [x EXCEPT ![b][i] = v]

LEMMA Updated ==
  ASSUME NEW x \in [Buckets -> [0 .. Slots -> Nat]], NEW b \in Buckets,
         NEW i \in Lanes, NEW v, NEW y, Overwrites(x, y, b, i, v)
  PROVE  /\ y[b][i] = v
         /\ \A c \in Buckets, j \in Lanes : c # b \/ j # i => y[c][j] = x[c][j]
<1>1. Lanes \subseteq 0 .. Slots /\ Guard \notin Lanes /\ Guard \in 0 .. Slots
  BY LaneNumbers
<1>2. /\ y = [x EXCEPT ![b] = [x[b] EXCEPT ![i] = v]]
      /\ \A c \in Buckets : x[c] \in [0 .. Slots -> Nat]
  BY DEF Overwrites
<1>3. y[b] = [x[b] EXCEPT ![i] = v] /\ \A c \in Buckets : c # b => y[c] = x[c]
  BY <1>2
<1>4. i \in 0 .. Slots /\ x[b] \in [0 .. Slots -> Nat]
  BY <1>1, <1>2
<1>5. y[b][i] = v /\ \A j \in 0 .. Slots : j # i => y[b][j] = x[b][j]
  BY ONLY <1>3, <1>4
<1> QED
  BY <1>1, <1>3, <1>5

LEMMA InsertEnds ==
  ASSUME NEW s, Sound(s), NEW k \in Keys, NEW f, NEW t, t = Inserted(s, k, f),
         NEW b, b = BucketOf[k]
  PROVE  Ends(s, t, b, k, f)
<1>1. /\ b \in Buckets /\ WellTyped(s) /\ Filled(s)
      /\ s.key \in [Buckets -> [0 .. Slots -> Keys \cup {0}]]
      /\ s.val \in [Buckets -> [0 .. Slots -> 0 .. Word - 1]]
  BY Constants DEF Sound, WellTyped, Sketches
<1>13. b \in Buckets
  BY <1>1
<1>0. s.key \in [Buckets -> [0 .. Slots -> Nat]] /\ s.val \in [Buckets -> [0 .. Slots -> Nat]]
  BY <1>1, Constants
<1>9. PICK keys \in [Buckets -> [0 .. Slots -> Nat]] : keys = s.key
  BY <1>0
<1>10. PICK vals \in [Buckets -> [0 .. Slots -> Nat]] : vals = s.val
  BY <1>0
<1>11. PICK newkeys : newkeys = t.key
  OBVIOUS
<1>12. PICK newvals : newvals = t.val
  OBVIOUS
<1>2. ClassInsert(s, t, k, f)
  BY <1>1, InsertedIsClass
<1>3. Lanes \subseteq 0 .. Slots /\ Guard \notin Lanes /\ Guard \in 0 .. Slots
  BY LaneNumbers
<1>4. /\ Holders(s.key[b], k) = {} => Absent(s, b, k)
      /\ Contends(s, k) => Absent(s, b, k) /\ Absent(s, b, 0)
  <2>1. Free(s.key[b]) = Idle(s.val[b])
    BY <1>1, BucketsOf
  <2> QED
    BY <2>1 DEF Contends, Holders, Free, Absent
<1>5. CASE Matches(s, t, k, f) /\ SameLight(s, t)
  <2>1. PICK H : H = Holders(s.key[b], k)
    OBVIOUS
  <2>2. H \in SUBSET Lanes /\ H # {}
    BY <1>5, <2>1 DEF Holders, Matches
  <2>3. PICK i \in H : i = Min(H)
    BY <2>2, Found
  <2>4. /\ i \in Lanes /\ s.key[b][i] = k /\ t.key = s.key
        /\ t.val = [s.val EXCEPT ![b][i] = (@ + f) % (2 * HalfRange)]
    BY <1>5, <2>1, <2>2, <2>3 DEF Holders, Matches
  <2>5. PICK v : v = Raise(s.val[b][i], f)
    OBVIOUS
  <2>6. t.val = [s.val EXCEPT ![b][i] = v]
    BY <2>4, <2>5 DEF Raise, Word
  <2>7. Overwrites(vals, newvals, b, i, v)
    BY <1>10, <1>12, <2>6 DEF Overwrites
  <2>8. /\ t.val[b][i] = v
        /\ \A c \in Buckets, j \in Lanes : c # b \/ j # i => t.val[c][j] = s.val[c][j]
    <3>1. i \in Lanes
      BY <2>4
    <3> QED
      BY <1>13, <1>10, <1>12, <2>7, <3>1, Updated
  <2>9. Takes(s, t, b, i, k, v)
    BY <2>4, <2>8 DEF Takes
  <2> QED
    BY <1>5, <2>4, <2>5, <2>9 DEF Ends, CountedIn
<1>6. CASE Occupies(s, t, k, f) /\ SameLight(s, t)
  <2>1. PICK I : I = Idle(s.val[b])
    OBVIOUS
  <2>2. I \in SUBSET Lanes /\ I # {}
    BY <1>6, <2>1 DEF Idle, Occupies
  <2>3. PICK i \in I : i = Min(I)
    BY <2>2, Found
  <2>4. /\ i \in Lanes /\ s.key[b][i] = 0 /\ Absent(s, b, k)
        /\ t.key = [s.key EXCEPT ![b][i] = k] /\ t.val = [s.val EXCEPT ![b][i] = f]
    <3>1. i \in Lanes /\ GetCounterVal(s.val[b][i]) = 0
      BY <2>1, <2>2, <2>3 DEF Idle
    <3>2. s.key[b][i] = 0
      BY <1>1, <3>1 DEF Filled
    <3>3. Absent(s, b, k)
      BY <1>1, <1>4, <1>6 DEF Occupies
    <3>4. t.key = [s.key EXCEPT ![b][i] = k] /\ t.val = [s.val EXCEPT ![b][i] = f]
      BY <1>1, <1>6, <2>1, <2>3 DEF Occupies
    <3> QED
      BY <3>1, <3>2, <3>3, <3>4
  <2>5. Takes(s, t, b, i, k, f)
    <3>0. i \in Lanes
      BY <2>4
    <3>1. Overwrites(keys, newkeys, b, i, k)
      BY <1>9, <1>11, <2>4 DEF Overwrites
    <3>2. Overwrites(vals, newvals, b, i, f)
      BY <1>10, <1>12, <2>4 DEF Overwrites
    <3>3. /\ t.key[b][i] = k
          /\ \A c \in Buckets, j \in Lanes : c # b \/ j # i => t.key[c][j] = s.key[c][j]
      BY <1>13, <1>9, <1>11, <3>0, <3>1, Updated
    <3>4. /\ t.val[b][i] = f
          /\ \A c \in Buckets, j \in Lanes : c # b \/ j # i => t.val[c][j] = s.val[c][j]
      BY <1>13, <1>10, <1>12, <3>0, <3>2, Updated
    <3> QED
      BY <3>3, <3>4 DEF Takes
  <2> QED
    BY <1>6, <2>4, <2>5 DEF Ends, SeatedIn
<1>7. CASE VotesAgainst(s, t, k) /\ AddedTo(s, t, k, 1)
  <2>1. PICK v : t.val = [s.val EXCEPT ![b][Guard] = v]
    BY <1>1, <1>3, <1>7 DEF VotesAgainst
  <2>2. SameLanes(s, t)
    BY <1>1, <1>3, <1>7, <2>1 DEF SameLanes, VotesAgainst
  <2> QED
    BY <1>4, <1>7, <2>2 DEF Ends, TurnedAway, VotesAgainst
<1>8. CASE Displaced(s, t, k) /\ HandedOver(s, t, s.key[b][Victim(s, b)], s.val[b][Victim(s, b)])
  <2>1. PICK i \in Lanes : i = Victim(s, b)
    BY <1>1, VictimLeast
  <2>2. /\ t.key = [s.key EXCEPT ![b][i] = k]
        /\ t.val = [s.val EXCEPT ![b][Guard] = 0, ![b][i] = HalfRange + 1]
    BY <1>1, <1>8, <2>1 DEF Displaced
  <2>3. Takes(s, t, b, i, k, HalfRange + 1)
    <3>1. Overwrites(keys, newkeys, b, i, k)
      BY <1>9, <1>11, <2>2 DEF Overwrites
    <3>2. PICK u : u = [s.val EXCEPT ![b][Guard] = 0]
      OBVIOUS
    <3>3. PICK one : one = HalfRange + 1
      OBVIOUS
    <3>4. Overwrites(u, newvals, b, i, one)
      BY <1>12, <2>2, <3>2, <3>3 DEF Overwrites
    <3>5. u \in [Buckets -> [0 .. Slots -> Nat]]
      BY <1>1, <1>3, <1>10, <3>2
    <3>9. \A c \in Buckets, j \in Lanes : u[c][j] = s.val[c][j]
      BY <1>0, <1>3, <3>2
    <3>6. t.val = newvals
      BY <1>12
    <3>7. /\ t.key[b][i] = k
          /\ \A c \in Buckets, j \in Lanes : c # b \/ j # i => t.key[c][j] = s.key[c][j]
      BY <1>13, <1>9, <1>11, <2>1, <3>1, Updated
    <3>8. /\ newvals[b][i] = one
          /\ \A c \in Buckets, j \in Lanes : c # b \/ j # i => newvals[c][j] = u[c][j]
      BY <1>13, <2>1, <3>4, <3>5, Updated
    <3> QED
      BY <3>3, <3>6, <3>7, <3>8, <3>9 DEF Takes
  <2> QED
    BY <1>1, <1>4, <1>8, <2>1, <2>3 DEF Ends, TakesOver, Displaced
<1> QED
  BY <1>1, <1>2, <1>5, <1>6, <1>7, <1>8 DEF ClassInsert
-----------------------------------------------------------------------------
(* The light part *)

\* A counter goes from old to new when n packets come, all of them or at least
\* as many as the counter already has.
Handed(old, new, n, all) ==
  /\ new \in 0 .. LightMax /\ old <= new /\ new <= old + n
  /\ all => new = old + n \/ new = LightMax
  /\ ~all => n <= new \/ new = LightMax

LEMMA AddedRaises ==
  ASSUME NEW s, WellTyped(s), NEW t, NEW j \in Keys, NEW n \in Nat, AddedTo(s, t, j, n),
         NEW p, p = PosOf[j]
  PROVE  \E new : Stored(s, t, p, new) /\ Handed(s.counters[p], new, n, TRUE)
<1>1. p \in Positions /\ LightMax \in Nat
  BY Constants
<1>2. PICK old \in 0 .. LightMax : old = s.counters[p]
  BY <1>1 DEF WellTyped, Sketches
<1>3. PICK new : new = Min({old + n, LightMax})
  OBVIOUS
<1>4. old + n \in Nat /\ old \in Nat
  BY <1>1, <1>2
<1>5. PICK sum \in Nat : sum = old + n
  BY <1>4
<1>6. new = IF sum <= LightMax THEN sum ELSE LightMax
  BY <1>1, <1>3, <1>5, Pairs
<1>7. Handed(old, new, n, TRUE)
  BY <1>1, <1>2, <1>5, <1>6 DEF Handed
<1>8. Stored(s, t, p, new)
  BY <1>2, <1>3 DEF AddedTo
<1> QED
  BY <1>2, <1>7, <1>8

LEMMA HandOverRaises ==
  ASSUME NEW s, WellTyped(s), NEW t, NEW j \in Keys, NEW v \in 0 .. Word - 1,
         HandedOver(s, t, j, v), NEW p, p = PosOf[j]
  PROVE  \E new : Stored(s, t, p, new) /\ Handed(s.counters[p], new, GetCounterVal(v), Flagged(v))
<1>1. p \in Positions /\ LightMax \in Nat
  BY Constants
<1>2. PICK old \in 0 .. LightMax : old = s.counters[p]
  BY <1>1 DEF WellTyped, Sketches
<1>3. PICK n \in Nat : n = GetCounterVal(v)
  BY CountWord, Constants
<1>4. CASE Flagged(v)
  <2>1. AddedTo(s, t, j, n)
    BY <1>3, <1>4 DEF HandedOver
  <2>2. PICK new : Stored(s, t, p, new) /\ Handed(s.counters[p], new, n, TRUE)
    BY <2>1, AddedRaises
  <2> QED
    BY <1>3, <1>4, <2>2 DEF Handed
<1>5. CASE ~Flagged(v)
  <2>1. v = n
    BY <1>3, <1>5, CountWord
  <2>2. PICK m : m = Min({n, LightMax})
    OBVIOUS
  <2>3. m = IF n <= LightMax THEN n ELSE LightMax
    BY <1>1, <1>3, <2>2, Pairs
  <2>4. m \in Nat /\ old \in Nat
    BY <1>1, <1>2, <1>3, <2>3
  <2>5. PICK new : new = Max({old, m})
    OBVIOUS
  <2>6. new = IF old <= m THEN m ELSE old
    BY <2>4, <2>5, Pairs
  <2>7. Handed(old, new, n, FALSE)
    BY <1>1, <1>2, <1>3, <2>3, <2>4, <2>6 DEF Handed
  <2>8. Stored(s, t, p, new)
    BY <1>2, <1>5, <2>1, <2>2, <2>5 DEF HandedOver, RaisedTo
  <2> QED
    BY <1>2, <1>3, <1>5, <2>7, <2>8 DEF Handed
<1> QED
  BY <1>4, <1>5

\* d is c but for the value at p.
Writes(c, d, p, new) ==
  p \in Positions /\ \A q \in Positions : d[q] = IF q = p THEN new ELSE c[q]

LEMMA StoredCounters ==
  ASSUME NEW s, WellTyped(s), NEW t, NEW p \in Positions, NEW new, Stored(s, t, p, new)
  PROVE  Writes(s.counters, t.counters, p, new)
  BY DEF Stored, WellTyped, Sketches, Writes

LEMMA OwnedStored ==
  ASSUME NEW s, WellTyped(s), Owned(s), NEW t, NEW j \in Keys, NEW p, p = PosOf[j],
         NEW new, Stored(s, t, p, new)
  PROVE  Owned(t)
<1>1. p \in Positions
  BY Constants
<1>2. Writes(s.counters, t.counters, p, new)
  BY <1>1, StoredCounters
<1> QED
  BY <1>2 DEF Owned, Writes

\* Storing a value moves its position from one value's positions to another's.
LEMMA ValuedMoves ==
  ASSUME NEW c, NEW d, NEW p, NEW new, Writes(c, d, p, new), NEW v
  PROVE  /\ Cardinality(ValuedAt(c, v)) \in Nat
         /\ Cardinality(ValuedAt(d, v)) =
              Cardinality(ValuedAt(c, v)) + (IF new = v THEN 1 ELSE 0)
                                          - (IF c[p] = v THEN 1 ELSE 0)
<1>1. PICK C : C = ValuedAt(c, v)
  OBVIOUS
<1>2. PICK D : D = ValuedAt(d, v)
  OBVIOUS
<1>3. IsFiniteSet(Positions)
  BY FS_Interval, Constants DEF Positions
<1>4. IsFiniteSet(C) /\ Cardinality(C) \in Nat
  BY <1>1, <1>3, FS_Subset, FS_CardinalityType DEF ValuedAt
<1>5. CASE new = v /\ c[p] # v
  <2>1. D = C \cup {p} /\ p \notin C
    BY <1>1, <1>2, <1>5 DEF ValuedAt, Writes
  <2>2. Cardinality(D) = Cardinality(C) + 1
    BY <1>4, <2>1, FS_AddElement
  <2> QED
    BY <1>1, <1>2, <1>4, <1>5, <2>2
<1>6. CASE new # v /\ c[p] = v
  <2>1. D = C \ {p} /\ p \in C
    BY <1>1, <1>2, <1>6 DEF ValuedAt, Writes
  <2>2. Cardinality(D) = Cardinality(C) - 1
    BY <1>4, <2>1, FS_RemoveElement
  <2> QED
    BY <1>1, <1>2, <1>4, <1>6, <2>2
<1>7. CASE new = v <=> c[p] = v
  <2>1. D = C
    BY <1>1, <1>2, <1>7 DEF ValuedAt, Writes
  <2> QED
    BY <1>1, <1>2, <1>4, <1>7, <2>1
<1> QED
  BY <1>5, <1>6, <1>7

LEMMA HistogramStored ==
  ASSUME NEW s, WellTyped(s), Histogram(s), NEW t, NEW p \in Positions,
         NEW new \in 0 .. LightMax, Stored(s, t, p, new)
  PROVE  Histogram(t)
<1>1. PICK c : c = s.counters
  OBVIOUS
<1>2. PICK d : d = t.counters
  OBVIOUS
<1>3. Writes(c, d, p, new)
  BY <1>1, <1>2, StoredCounters
<1>4. PICK old \in 0 .. LightMax : old = c[p]
  BY <1>1 DEF WellTyped, Sketches
<1>5. PICK g \in [0 .. LightMax -> Int] : g = s.mice_dist
  BY DEF WellTyped, Sketches
<1>6. t.mice_dist = Recount(g, old, new)
  BY <1>1, <1>4, <1>5 DEF Stored
<1>7. ASSUME NEW v \in 1 .. LightMax
      PROVE  t.mice_dist[v] = Cardinality(ValuedAt(d, v))
  <2>1. v \in 0 .. LightMax /\ g[v] \in Int
    BY Constants, <1>5
  <2>2. t.mice_dist[v] = g[v] + (IF new = v THEN 1 ELSE 0) - (IF old = v THEN 1 ELSE 0)
    <3>1. CASE old = new
      BY <1>6, <2>1, <3>1 DEF Recount
    <3>2. CASE old # new
      <4>1. t.mice_dist = [g EXCEPT ![old] = @ - 1, ![new] = @ + 1]
        BY <1>6, <3>2 DEF Recount
      <4>0. g[old] \in Int /\ g[new] \in Int
        BY Constants
      <4>2. PICK x \in Int : x = g[old] - 1
        BY <4>0
      <4>3. PICK y \in Int : y = g[new] + 1
        BY <4>0
      <4>4. t.mice_dist = [g EXCEPT ![old] = x, ![new] = y]
        BY <1>4, <1>5, <3>2, <4>1, <4>2, <4>3
      <4>5. t.mice_dist[v] = IF v = new THEN y ELSE IF v = old THEN x ELSE g[v]
        BY <2>1, <4>4
      <4>6. CASE v = new
        BY <2>1, <3>2, <4>3, <4>5, <4>6
      <4>7. CASE v # new
        BY <2>1, <3>2, <4>2, <4>5, <4>7
      <4> QED
        BY <4>6, <4>7
    <3> QED
      BY <3>1, <3>2
  <2>3. PICK n \in Nat : n = Cardinality(ValuedAt(c, v))
    BY <1>3, ValuedMoves
  <2>4. Cardinality(ValuedAt(d, v)) = n + (IF new = v THEN 1 ELSE 0) - (IF c[p] = v THEN 1 ELSE 0)
    BY <1>3, <2>3, ValuedMoves
  <2>5. g[v] = n
    BY <1>1, <1>5, <2>3 DEF Histogram
  <2> QED
    BY <1>4, <2>2, <2>4, <2>5
<1> QED
  BY <1>2, <1>7 DEF Histogram
-----------------------------------------------------------------------------
(* The flows *)

\* An insertion leaves flow j where it is.
SameFlow(s, t, j) ==
  LET b == BucketOf[j]
  IN  /\ \A i \in Lanes :
           /\ t.key[b][i] = j <=> s.key[b][i] = j
           /\ s.key[b][i] = j => t.val[b][i] = s.val[b][i]
           /\ s.key[b][i] # 0 => t.key[b][i] # 0
      /\ t.counters[PosOf[j]] = s.counters[PosOf[j]]

LEMMA FlowKept ==
  ASSUME NEW s, NEW t, NEW j, NEW p, NEW w, Exactly(s, j, p, w), SameFlow(s, t, j)
  PROVE  Exactly(t, j, p, w)
<1>1. PICK b : b = BucketOf[j]
  OBVIOUS
<1>2. PICK light : light = s.counters[PosOf[j]] /\ light = t.counters[PosOf[j]]
  BY DEF SameFlow
<1>3. p <= w /\ light <= w
  BY <1>2 DEF Exactly
<1>4. ASSUME NEW i \in Lanes, t.key[b][i] = j
      PROVE  LET n == GetCounterVal(t.val[b][i])
             IN  /\ n + light <= w
                 /\ Flagged(t.val[b][i]) => p <= n + light \/ light = LightMax
                 /\ ~Flagged(t.val[b][i]) => n = w
  <2>1. s.key[b][i] = j /\ t.val[b][i] = s.val[b][i]
    BY <1>1, <1>4 DEF SameFlow
  <2> QED
    BY <1>1, <1>2, <2>1 DEF Exactly
<1>5. ASSUME \A i \in Lanes : t.key[b][i] # j
      PROVE  (p <= light \/ light = LightMax) /\ (w # 0 => \A i \in Lanes : t.key[b][i] # 0)
  <2>1. \A i \in Lanes : s.key[b][i] # j /\ (s.key[b][i] # 0 => t.key[b][i] # 0)
    BY <1>1, <1>5 DEF SameFlow
  <2> QED
    BY <1>1, <1>2, <2>1 DEF Exactly
<1> QED
  BY <1>1, <1>2, <1>3, <1>4, <1>5 DEF Exactly

LEMMA SeatedTakes ==
  ASSUME NEW s, Seated(s), NEW b \in Buckets, NEW i \in Lanes, NEW k \in Keys, b = BucketOf[k],
         s.key[b][i] = k \/ Absent(s, b, k), NEW t, NEW v, Takes(s, t, b, i, k, v)
  PROVE  /\ Seated(t)
         /\ \A j \in Lanes : t.key[b][j] = k => j = i
<1>1. k # 0
  BY Constants
<1>2. \A j \in Lanes : j # i => s.key[b][j] # k
  BY <1>1 DEF Seated, Absent
<1>3. \A j \in Lanes : t.key[b][j] = k => j = i
  BY <1>2 DEF Takes
<1>4. ASSUME NEW c \in Buckets, NEW j \in Lanes
      PROVE  LET l == t.key[c][j]
             IN  /\ l = 0 => t.val[c][j] = 0
                 /\ l # 0 => /\ BucketOf[l] = c
                             /\ \A m \in Lanes : t.key[c][m] = l => m = j
  <2>1. CASE c = b /\ j = i
    BY <1>1, <1>3, <2>1 DEF Takes
  <2>2. CASE c # b \/ j # i
    <3>1. t.key[c][j] = s.key[c][j] /\ t.val[c][j] = s.val[c][j]
      BY <2>2 DEF Takes
    <3>2. PICK l : l = s.key[c][j]
      OBVIOUS
    <3>3. /\ l = 0 => s.val[c][j] = 0
          /\ l # 0 => BucketOf[l] = c /\ \A m \in Lanes : s.key[c][m] = l => m = j
      BY <3>2 DEF Seated
    <3>4. ASSUME l # 0, NEW m \in Lanes, t.key[c][m] = l PROVE m = j
      <4>1. CASE c = b /\ m = i
        <5>1. l = k
          BY <3>4, <4>1 DEF Takes
        <5> QED
          BY <1>2, <2>2, <3>2, <4>1, <5>1
      <4>2. CASE c # b \/ m # i
        BY <3>3, <3>4, <4>2 DEF Takes
      <4> QED
        BY <4>1, <4>2
    <3> QED
      BY <3>1, <3>2, <3>3, <3>4
  <2> QED
    BY <2>1, <2>2
<1> QED
  BY <1>3, <1>4 DEF Seated

LEMMA SeatedSame ==
  ASSUME NEW s, Seated(s), NEW t, SameLanes(s, t)
  PROVE  Seated(t)
  BY DEF Seated, SameLanes

\* A lane of b changes hands, of neither of which is j, and so may one counter
\* that is not j's.
LEMMA OthersKept ==
  ASSUME NEW s, NEW t, NEW b, NEW i \in Lanes, NEW k \in Keys, NEW v, Takes(s, t, b, i, k, v),
         NEW j \in Keys, j # k, s.key[b][i] # j,
         t.counters[PosOf[j]] = s.counters[PosOf[j]]
  PROVE  SameFlow(s, t, j)
<1>1. k # 0 /\ BucketOf[j] \in Buckets
  BY Constants
<1>2. ASSUME NEW m \in Lanes
      PROVE  /\ t.key[BucketOf[j]][m] = j <=> s.key[BucketOf[j]][m] = j
             /\ s.key[BucketOf[j]][m] = j => t.val[BucketOf[j]][m] = s.val[BucketOf[j]][m]
             /\ s.key[BucketOf[j]][m] # 0 => t.key[BucketOf[j]][m] # 0
  <2>1. CASE BucketOf[j] = b /\ m = i
    BY <1>1, <2>1 DEF Takes
  <2>2. CASE BucketOf[j] # b \/ m # i
    BY <1>1, <2>2 DEF Takes
  <2> QED
    BY <2>1, <2>2
<1> QED
  BY <1>2 DEF SameFlow
-----------------------------------------------------------------------------
(* The flow of the packet, by the way its insertion ends *)

\* What the numbers of a flow are.
FlowNumbers(s, k, p, w, f) ==
  /\ p \in Nat /\ w \in Nat /\ f \in Nat /\ f >= 1 /\ w + f <= MaxFlow
  /\ s.counters[PosOf[k]] \in 0 .. LightMax

LEMMA CountedExactly ==
  ASSUME NEW s, Sound(s), Seated(s), NEW k \in Keys, NEW p, NEW w, NEW f,
         Exactly(s, k, p, w), FlowNumbers(s, k, p, w, f), NEW b, b = BucketOf[k],
         NEW i \in Lanes, NEW t, CountedIn(s, t, b, i, k, f)
  PROVE  Exactly(t, k, p + 1, w + f)
<1>1. b \in Buckets /\ WellTyped(s) /\ i \in 0 .. Slots /\ MaxFlow < HalfRange /\ MaxFlow \in Nat
      /\ HalfRange \in Nat
  BY Constants, LaneNumbers DEF Sound
<1>2. PICK light : light = s.counters[PosOf[k]] /\ light = t.counters[PosOf[k]]
  BY DEF CountedIn, SameLight
<1>3. PICK v : v = s.val[b][i]
  OBVIOUS
<1>4. PICK n : n = GetCounterVal(v)
  OBVIOUS
<1>5. v \in 0 .. Word - 1 /\ n \in Nat
  BY <1>1, <1>3, <1>4, LaneOf
<1>6. /\ p \in Nat /\ w \in Nat /\ f \in Nat /\ f >= 1 /\ w + f <= MaxFlow
      /\ light \in Nat /\ LightMax \in Nat
  BY <1>2, Constants DEF FlowNumbers
<1>7. /\ s.key[b][i] = k /\ t.key[b][i] = k /\ t.val[b][i] = Raise(v, f)
  BY <1>3 DEF CountedIn, Takes
<1>8. /\ p <= w /\ light <= w /\ n + light <= w
      /\ Flagged(v) => p <= n + light \/ light = LightMax
      /\ ~Flagged(v) => n = w
  BY <1>2, <1>3, <1>4, <1>7 DEF Exactly
<1>9. n + f < HalfRange
  BY <1>1, <1>5, <1>6, <1>8
<1>10. PICK u : u = Raise(v, f)
  OBVIOUS
<1>11. GetCounterVal(u) = n + f /\ (Flagged(u) <=> Flagged(v))
  BY <1>4, <1>5, <1>6, <1>9, <1>10, RaiseCount
<1>12. \A j \in Lanes : t.key[b][j] = k => j = i
  BY <1>1, <1>7, SeatedTakes DEF CountedIn
<1>13. ASSUME NEW j \in Lanes, t.key[b][j] = k
       PROVE  /\ GetCounterVal(t.val[b][j]) + light <= w + f
              /\ Flagged(t.val[b][j]) =>
                   p + 1 <= GetCounterVal(t.val[b][j]) + light \/ light = LightMax
              /\ ~Flagged(t.val[b][j]) => GetCounterVal(t.val[b][j]) = w + f
  <2>1. t.val[b][j] = u
    BY <1>7, <1>10, <1>12, <1>13
  <2>2. /\ (n + f) + light <= w + f
        /\ Flagged(v) => p + 1 <= (n + f) + light \/ light = LightMax
        /\ ~Flagged(v) => n + f = w + f
    BY <1>5, <1>6, <1>8
  <2> QED
    BY <1>11, <2>1, <2>2
<1>14. p + 1 <= w + f /\ light <= w + f
  BY <1>6, <1>8
<1> QED
  BY <1>2, <1>7, <1>13, <1>14 DEF Exactly

LEMMA SeatedExactly ==
  ASSUME NEW s, Sound(s), Seated(s), NEW k \in Keys, NEW p, NEW w, NEW f,
         Exactly(s, k, p, w), FlowNumbers(s, k, p, w, f), NEW b, b = BucketOf[k],
         NEW i \in Lanes, NEW t, SeatedIn(s, t, b, i, k, f)
  PROVE  Exactly(t, k, p + 1, w + f)
<1>1. b \in Buckets
  BY Constants
<1>2. PICK light : light = s.counters[PosOf[k]] /\ light = t.counters[PosOf[k]]
  BY DEF SeatedIn, SameLight
<1>3. /\ p \in Nat /\ w \in Nat /\ f \in Nat /\ f >= 1 /\ w + f <= MaxFlow /\ MaxFlow \in Nat
      /\ light \in Nat
  BY <1>2, Constants DEF FlowNumbers
<1>4. /\ Absent(s, b, k) /\ s.key[b][i] = 0 /\ t.key[b][i] = k /\ t.val[b][i] = f
  BY DEF SeatedIn, Takes
<1>5. p <= w /\ light <= w /\ w = 0
  BY <1>2, <1>4 DEF Exactly, Absent
<1>6. p = 0 /\ light = 0
  BY <1>3, <1>5
<1>7. f \in 0 .. MaxFlow
  BY <1>3, <1>5
<1>8. GetCounterVal(f) = f /\ ~Flagged(f)
  BY <1>7, LiteralCounts
<1>9. \A j \in Lanes : t.key[b][j] = k => j = i
  BY <1>1, <1>4, SeatedTakes DEF SeatedIn
<1>10. ASSUME NEW j \in Lanes, t.key[b][j] = k
       PROVE  /\ GetCounterVal(t.val[b][j]) + light <= w + f
              /\ ~Flagged(t.val[b][j]) /\ GetCounterVal(t.val[b][j]) = w + f
  <2>1. t.val[b][j] = f
    BY <1>4, <1>9, <1>10
  <2> QED
    BY <1>3, <1>5, <1>6, <1>8, <2>1
<1>11. p + 1 <= w + f /\ light <= w + f
  BY <1>3, <1>5, <1>6
<1> QED
  BY <1>2, <1>4, <1>10, <1>11 DEF Exactly

LEMMA TurnedAwayExactly ==
  ASSUME NEW s, WellTyped(s), NEW k \in Keys, NEW p, NEW w, NEW f,
         Exactly(s, k, p, w), FlowNumbers(s, k, p, w, f), NEW b, b = BucketOf[k],
         NEW t, TurnedAway(s, t, b, k)
  PROVE  Exactly(t, k, p + 1, w + f)
<1>1. b \in Buckets /\ PosOf[k] \in Positions
  BY Constants
<1>2. PICK q \in Positions : q = PosOf[k]
  BY <1>1
<1>3. PICK one \in Nat : one = 1
  OBVIOUS
<1>4. AddedTo(s, t, k, one)
  BY <1>3 DEF TurnedAway
<1>5. PICK new : Stored(s, t, q, new) /\ Handed(s.counters[q], new, one, TRUE)
  BY <1>2, <1>4, AddedRaises
<1>6. Writes(s.counters, t.counters, q, new)
  BY <1>5, StoredCounters
<1>7. PICK light : light = s.counters[q]
  OBVIOUS
<1>8. t.counters[q] = new
  BY <1>6 DEF Writes
<1>9. /\ p \in Nat /\ w \in Nat /\ f \in Nat /\ f >= 1
      /\ light \in 0 .. LightMax /\ LightMax \in Nat /\ light \in Nat
  BY <1>2, <1>7, Constants DEF FlowNumbers
<1>10. /\ new \in 0 .. LightMax /\ light <= new /\ new <= light + 1
       /\ new = light + 1 \/ new = LightMax
  BY <1>3, <1>5, <1>7 DEF Handed
<1>11. /\ \A i \in Lanes : t.key[b][i] = s.key[b][i]
       /\ Absent(s, b, k) /\ Absent(s, b, 0)
  BY <1>1 DEF TurnedAway, SameLanes
<1>12. p <= w /\ light <= w /\ (p <= light \/ light = LightMax)
  BY <1>2, <1>7, <1>11 DEF Exactly, Absent
<1>13. p + 1 <= w + f /\ new <= w + f /\ (p + 1 <= new \/ new = LightMax)
  BY <1>9, <1>10, <1>12
<1> QED
  BY <1>2, <1>8, <1>11, <1>13 DEF Exactly, Absent

LEMMA NewcomerExactly ==
  ASSUME NEW s, Seated(s), NEW k \in Keys, NEW p, NEW w, NEW f,
         Exactly(s, k, p, w), FlowNumbers(s, k, p, w, f), NEW b, b = BucketOf[k],
         NEW i \in Lanes, NEW t, TakesOver(s, t, b, i, k),
         t.counters[PosOf[k]] = s.counters[PosOf[k]]
  PROVE  Exactly(t, k, p + 1, w + f)
<1>1. b \in Buckets
  BY Constants
<1>2. PICK light : light = s.counters[PosOf[k]] /\ light = t.counters[PosOf[k]]
  OBVIOUS
<1>3. /\ p \in Nat /\ w \in Nat /\ f \in Nat /\ f >= 1 /\ light \in Nat
  BY <1>2, Constants DEF FlowNumbers
<1>4. PICK v : v = HalfRange + 1
  OBVIOUS
<1>5. Absent(s, b, k) /\ Takes(s, t, b, i, k, v) /\ t.key[b][i] = k /\ t.val[b][i] = v
  BY <1>4 DEF TakesOver, Takes
<1>6. p <= w /\ light <= w /\ (p <= light \/ light = LightMax)
  BY <1>2, <1>5 DEF Exactly, Absent
<1>7. GetCounterVal(v) = 1 /\ Flagged(v)
  BY <1>4, LiteralCounts
<1>8. \A j \in Lanes : t.key[b][j] = k => j = i
  BY <1>1, <1>5, SeatedTakes
<1>9. p + 1 <= w + f /\ light <= w + f /\ 1 + light <= w + f
      /\ (p + 1 <= 1 + light \/ light = LightMax)
  BY <1>3, <1>6
<1>10. ASSUME NEW j \in Lanes, t.key[b][j] = k
       PROVE  /\ GetCounterVal(t.val[b][j]) = 1 /\ Flagged(t.val[b][j])
  BY <1>5, <1>7, <1>8, <1>10
<1> QED
  BY <1>2, <1>5, <1>9, <1>10 DEF Exactly

\* A flow of weight w and p packets, n of them in its lane and light in its counter.
Held(n, light, p, w, flag) ==
  /\ p <= w /\ light <= w /\ n + light <= w
  /\ flag => p <= n + light \/ light = LightMax
  /\ ~flag => n = w

\* A flow that leaves its lane has all its packets in the light counter, or that is full.
LEMMA HandedCovers ==
  ASSUME NEW n \in Nat, NEW light \in Nat, NEW p \in Nat, NEW w \in Nat, NEW flag,
         Held(n, light, p, w, flag), NEW new, Handed(light, new, n, flag)
  PROVE  new \in Nat /\ new <= w /\ (p <= new \/ new = LightMax)
<1>1. new \in Nat /\ new <= w /\ new <= LightMax /\ LightMax \in Nat
  BY Constants DEF Held, Handed
<1>2. CASE flag
  <2>1. (p <= n + light \/ light = LightMax) /\ (new = light + n \/ new = LightMax)
    BY <1>2 DEF Held, Handed
  <2>2. light <= new
    BY DEF Handed
  <2> QED
    BY <1>1, <2>1, <2>2
<1>3. CASE ~flag
  <2>1. n = w /\ p <= w /\ (n <= new \/ new = LightMax)
    BY <1>3 DEF Held, Handed
  <2> QED
    BY <1>1, <2>1
<1> QED
  BY <1>2, <1>3

LEMMA HeavyIsNatural ==
  ASSUME NEW m \in Nat, NEW x \in 0 .. m - 1
  PROVE  x \in Nat
OBVIOUS

LEMMA RangeIsNatural ==
  ASSUME NEW m \in Nat, NEW x \in 0 .. m
  PROVE  x \in Nat
OBVIOUS

LEMMA DisplacedExactly ==
  ASSUME NEW s, WellTyped(s), Seated(s), NEW l \in Keys, NEW p \in Nat, NEW w \in Nat,
         Exactly(s, l, p, w), NEW k \in Keys, k # l, NEW b \in Buckets, b = BucketOf[k],
         NEW i \in Lanes, l = s.key[b][i], NEW t, TakesOver(s, t, b, i, k),
         NEW q, q = PosOf[l], NEW new,
         Handed(s.counters[q], new, GetCounterVal(s.val[b][i]), Flagged(s.val[b][i])),
         t.counters[q] = new
  PROVE  Exactly(t, l, p, w)
<1>1. PICK light : light = s.counters[q]
  OBVIOUS
<1>2. PICK n : n = GetCounterVal(s.val[b][i])
  OBVIOUS
<1>3. PICK flag : flag = Flagged(s.val[b][i])
  OBVIOUS
<1>4. i \in 0 .. Slots /\ q \in Positions /\ LightMax \in Nat /\ l # 0 /\ k # 0
  BY Constants, LaneNumbers
<1>5. n \in Nat /\ light \in 0 .. LightMax /\ light \in Nat
  <2>0. HalfRange \in Nat /\ HalfRange >= 2
    BY Constants
  <2>1. n \in 0 .. HalfRange - 1
    BY <1>2, <1>4, LaneOf
  <2>2. light \in 0 .. LightMax
    BY <1>1, <1>4 DEF WellTyped, Sketches
  <2>3. n \in Nat
    BY <2>0, <2>1, HeavyIsNatural
  <2>4. light \in Nat
    BY <1>4, <2>2, RangeIsNatural
  <2> QED
    BY <2>2, <2>3, <2>4
<1>6. BucketOf[l] = b /\ \A j \in Lanes : s.key[b][j] = l => j = i
  BY <1>4 DEF Seated
<1>7. Held(n, light, p, w, flag)
  BY <1>1, <1>2, <1>3, <1>6 DEF Exactly, Held
<1>8. Handed(light, new, n, flag)
  BY <1>1, <1>2, <1>3
<1>9. new \in Nat /\ new <= w /\ (p <= new \/ new = LightMax)
  BY <1>5, <1>7, <1>8, HandedCovers
<1>10. p <= w
  BY <1>7 DEF Held
<1>11. \A j \in Lanes : t.key[b][j] # l /\ t.key[b][j] # 0
  <2>1. ASSUME NEW j \in Lanes, j # i PROVE t.key[b][j] # l /\ t.key[b][j] # 0
    BY <1>6, <2>1 DEF TakesOver, Takes, Absent
  <2>2. t.key[b][i] = k
    BY DEF TakesOver, Takes
  <2> QED
    BY <1>4, <2>1, <2>2
<1> QED
  BY <1>6, <1>9, <1>10, <1>11 DEF Exactly
-----------------------------------------------------------------------------
(* An insertion keeps everything exact *)

\* One more packet of k.
Another(p, y, k) ==
  p \in [Keys -> Nat] /\ \A j \in Keys : y[j] = IF j = k THEN p[j] + 1 ELSE p[j]

LEMMA PacketNumbers ==
  ASSUME NEW p, NEW w, NEW x, NEW y, NEW k \in Keys, NEW f \in Weights, Adding(w, x, k, f),
         Another(p, y, k)
  PROVE  /\ p[k] \in Nat /\ w[k] \in Nat /\ f \in Nat /\ f >= 1 /\ w[k] + f <= MaxFlow
         /\ \A j \in Keys : p[j] \in Nat /\ w[j] \in Nat
<1>1. f \in Nat /\ f >= 1 /\ MaxFlow \in Nat
  BY Constants
<1>2. /\ \A j \in Keys : w[j] \in 0 .. MaxFlow
      /\ x[k] \in 0 .. MaxFlow /\ x[k] = w[k] + f
  BY DEF Adding
<1> QED
  BY <1>1, <1>2 DEF Another

LEMMA ExactInsert ==
  ASSUME NEW s, Sound(s), NEW p, NEW w, Exact(s, p, w), NEW k \in Keys, NEW f \in Weights,
         NEW x, Adding(w, x, k, f), NEW y, Another(p, y, k),
         NEW t, t = Inserted(s, k, f)
  PROVE  Exact(t, y, x)
<1>1. PICK b : b = BucketOf[k]
  OBVIOUS
<1>2. b \in Buckets /\ k # 0 /\ WellTyped(s) /\ Seated(s) /\ Owned(s) /\ Histogram(s)
  BY <1>1, Constants DEF Sound, Exact
<1>3. Ends(s, t, b, k, f)
  BY <1>1, InsertEnds
<1>4. ASSUME CollisionFree
      PROVE  /\ \A j \in Keys : Exactly(s, j, p[j], w[j])
             /\ \A j, l \in Keys : j # l => PosOf[j] # PosOf[l]
             /\ FlowNumbers(s, k, p[k], w[k], f)
  <2>1. s.counters[PosOf[k]] \in 0 .. LightMax
    <3>1. PosOf[k] \in Positions
      BY Constants
    <3> QED
      BY <1>2, <3>1 DEF WellTyped, Sketches
  <2>2. FlowNumbers(s, k, p[k], w[k], f)
    BY <2>1, PacketNumbers DEF FlowNumbers
  <2> QED
    BY <1>4, <2>2 DEF Exact, CollisionFree
<1>5. PICK pk : pk = p[k]
  OBVIOUS
<1>6. PICK wk : wk = w[k]
  OBVIOUS
<1>12. /\ \A j \in Keys : j # k => y[j] = p[j] /\ x[j] = w[j]
       /\ y[k] = p[k] + 1 /\ x[k] = w[k] + f
  BY DEF Adding, Another
<1>7. ASSUME CollisionFree, Exactly(t, k, pk + 1, wk + f),
             \A j \in Keys : j # k => Exactly(t, j, p[j], w[j])
      PROVE  \A j \in Keys : Exactly(t, j, y[j], x[j])
  <2>1. ASSUME NEW j \in Keys PROVE Exactly(t, j, y[j], x[j])
    <3>1. CASE j = k
      <4>1. y[j] = pk + 1 /\ x[j] = wk + f
        BY <1>5, <1>6, <1>12, <3>1
      <4> QED
        BY <1>7, <3>1, <4>1
    <3>2. CASE j # k
      <4>1. y[j] = p[j] /\ x[j] = w[j]
        BY <1>12, <3>2
      <4> QED
        BY <1>7, <3>2, <4>1
    <3> QED
      BY <3>1, <3>2
  <2> QED
    BY <2>1
<1>8. ASSUME NEW i \in Lanes, CountedIn(s, t, b, i, k, f)
      PROVE  Exact(t, y, x)
  <2>1. PICK v : v = Raise(s.val[b][i], f)
    OBVIOUS
  <2>2. Takes(s, t, b, i, k, v) /\ s.key[b][i] = k /\ SameLight(s, t)
    BY <1>8, <2>1 DEF CountedIn
  <2>3. Seated(t)
    BY <1>1, <1>2, <2>2, SeatedTakes
  <2>4. Owned(t) /\ Histogram(t)
    BY <1>2, <2>2 DEF SameLight, Owned, Histogram
  <2>5. ASSUME CollisionFree PROVE \A j \in Keys : Exactly(t, j, y[j], x[j])
    <3>1. Exactly(t, k, pk + 1, wk + f)
      <4>1. Exactly(s, k, pk, wk) /\ FlowNumbers(s, k, pk, wk, f)
        BY <1>4, <1>5, <1>6, <2>5
      <4> QED
        BY <1>1, <1>2, <1>8, <4>1, CountedExactly
    <3>2. ASSUME NEW j \in Keys, j # k PROVE Exactly(t, j, p[j], w[j])
      <4>1. t.counters[PosOf[j]] = s.counters[PosOf[j]] /\ s.key[b][i] # j
        BY <2>2, <3>2 DEF SameLight
      <4>3. Takes(s, t, b, i, k, v)
        BY <2>2
      <4>2. SameFlow(s, t, j)
        BY <3>2, <4>1, <4>3, OthersKept
      <4> QED
        BY <1>4, <2>5, <4>2, FlowKept
    <3> QED
      BY <1>7, <2>5, <3>1, <3>2
  <2> QED
    BY <2>3, <2>4, <2>5 DEF Exact
<1>9. ASSUME NEW i \in Lanes, SeatedIn(s, t, b, i, k, f)
      PROVE  Exact(t, y, x)
  <2>2. Takes(s, t, b, i, k, f) /\ Absent(s, b, k) /\ s.key[b][i] = 0 /\ SameLight(s, t)
    BY <1>9 DEF SeatedIn
  <2>3. Seated(t)
    BY <1>1, <1>2, <2>2, SeatedTakes
  <2>4. Owned(t) /\ Histogram(t)
    BY <1>2, <2>2 DEF SameLight, Owned, Histogram
  <2>5. ASSUME CollisionFree PROVE \A j \in Keys : Exactly(t, j, y[j], x[j])
    <3>1. Exactly(t, k, pk + 1, wk + f)
      <4>1. Exactly(s, k, pk, wk) /\ FlowNumbers(s, k, pk, wk, f)
        BY <1>4, <1>5, <1>6, <2>5
      <4> QED
        BY <1>1, <1>2, <1>9, <4>1, SeatedExactly
    <3>2. ASSUME NEW j \in Keys, j # k PROVE Exactly(t, j, p[j], w[j])
      <4>1. t.counters[PosOf[j]] = s.counters[PosOf[j]] /\ s.key[b][i] # j
        BY <2>2, Constants DEF SameLight
      <4>2. SameFlow(s, t, j)
        BY <2>2, <3>2, <4>1, OthersKept
      <4> QED
        BY <1>4, <2>5, <4>2, FlowKept
    <3> QED
      BY <1>7, <2>5, <3>1, <3>2
  <2> QED
    BY <2>3, <2>4, <2>5 DEF Exact
<1>10. ASSUME TurnedAway(s, t, b, k)
       PROVE  Exact(t, y, x)
  <2>1. PICK one \in Nat : one = 1
    OBVIOUS
  <2>2. PICK q \in Positions : q = PosOf[k]
    BY Constants
  <2>3. AddedTo(s, t, k, one) /\ SameLanes(s, t)
    BY <1>10, <2>1 DEF TurnedAway
  <2>4. PICK new : Stored(s, t, q, new) /\ Handed(s.counters[q], new, one, TRUE)
    BY <1>2, <2>2, <2>3, AddedRaises
  <2>5. new \in 0 .. LightMax
    BY <2>4 DEF Handed
  <2>6. Seated(t) /\ Owned(t) /\ Histogram(t)
    BY <1>2, <2>2, <2>3, <2>4, <2>5, SeatedSame, OwnedStored, HistogramStored
  <2>7. ASSUME CollisionFree PROVE \A j \in Keys : Exactly(t, j, y[j], x[j])
    <3>1. Exactly(t, k, pk + 1, wk + f)
      <4>1. Exactly(s, k, pk, wk) /\ FlowNumbers(s, k, pk, wk, f)
        BY <1>4, <1>5, <1>6, <2>7
      <4> QED
        BY <1>1, <1>2, <1>10, <4>1, TurnedAwayExactly
    <3>2. ASSUME NEW j \in Keys, j # k PROVE Exactly(t, j, p[j], w[j])
      <4>1. Writes(s.counters, t.counters, q, new)
        BY <1>2, <2>4, StoredCounters
      <4>2. t.counters[PosOf[j]] = s.counters[PosOf[j]] /\ BucketOf[j] \in Buckets
        BY <1>4, <2>2, <2>7, <3>2, <4>1, Constants DEF Writes
      <4>3. SameFlow(s, t, j)
        BY <2>3, <4>2 DEF SameFlow, SameLanes
      <4> QED
        BY <1>4, <2>7, <4>3, FlowKept
    <3> QED
      BY <1>7, <2>7, <3>1, <3>2
  <2> QED
    BY <2>6, <2>7 DEF Exact
<1>11. ASSUME NEW i \in Lanes, TakesOver(s, t, b, i, k)
       PROVE  Exact(t, y, x)
  <2>1. PICK one : one = HalfRange + 1
    OBVIOUS
  <2>2. PICK l : l = s.key[b][i]
    OBVIOUS
  <2>3. PICK v : v = s.val[b][i]
    OBVIOUS
  <2>4. /\ Takes(s, t, b, i, k, one) /\ Absent(s, b, k) /\ Absent(s, b, 0)
        /\ HandedOver(s, t, l, v)
    BY <1>11, <2>1, <2>2, <2>3 DEF TakesOver
  <2>5. l \in Keys \cup {0} /\ v \in 0 .. Word - 1
    <3>1. i \in 0 .. Slots
      BY LaneNumbers
    <3> QED
      BY <1>2, <2>2, <2>3, <3>1, LaneOf
  <2>6. l \in Keys /\ k # l
    BY <2>2, <2>4, <2>5 DEF Absent
  <2>7. PICK q \in Positions : q = PosOf[l]
    BY <2>6, Constants
  <2>8. PICK new : Stored(s, t, q, new) /\ Handed(s.counters[q], new, GetCounterVal(v), Flagged(v))
    BY <1>2, <2>4, <2>5, <2>6, <2>7, HandOverRaises
  <2>9. new \in 0 .. LightMax
    BY <2>8 DEF Handed
  <2>10. Seated(t)
    BY <1>1, <1>2, <2>4, SeatedTakes
  <2>11. Owned(t) /\ Histogram(t)
    BY <1>2, <2>6, <2>7, <2>8, <2>9, OwnedStored, HistogramStored
  <2>12. ASSUME CollisionFree PROVE \A j \in Keys : Exactly(t, j, y[j], x[j])
    <3>0. Writes(s.counters, t.counters, q, new)
      BY <1>2, <2>8, StoredCounters
    <3>1. ASSUME NEW j \in Keys, j # l PROVE t.counters[PosOf[j]] = s.counters[PosOf[j]]
      <4>1. PosOf[j] # q /\ PosOf[j] \in Positions
        BY <1>4, <2>6, <2>7, <2>12, <3>1, Constants
      <4> QED
        BY <3>0, <4>1 DEF Writes
    <3>2. Exactly(t, k, pk + 1, wk + f)
      <4>1. Exactly(s, k, pk, wk) /\ FlowNumbers(s, k, pk, wk, f)
        BY <1>4, <1>5, <1>6, <2>12
      <4>2. t.counters[PosOf[k]] = s.counters[PosOf[k]]
        BY <2>6, <3>1
      <4> QED
        BY <1>1, <1>2, <1>11, <4>1, <4>2, NewcomerExactly
    <3>3. Exactly(t, l, p[l], w[l])
      <4>1. PICK pl \in Nat : pl = p[l]
        BY <2>6, PacketNumbers
      <4>2. PICK wl \in Nat : wl = w[l]
        BY <2>6, PacketNumbers
      <4>3. Exactly(s, l, pl, wl)
        BY <1>4, <2>6, <2>12, <4>1, <4>2
      <4>4. t.counters[q] = new
        BY <3>0 DEF Writes
      <4>5. Handed(s.counters[q], new, GetCounterVal(s.val[b][i]), Flagged(s.val[b][i]))
        BY <2>3, <2>8
      <4>6. Exactly(t, l, pl, wl)
        BY <1>1, <1>2, <1>11, <2>2, <2>6, <2>7, <4>3, <4>4, <4>5, DisplacedExactly
      <4> QED
        BY <4>1, <4>2, <4>6
    <3>4. ASSUME NEW j \in Keys, j # k PROVE Exactly(t, j, p[j], w[j])
      <4>1. CASE j = l
        BY <3>3, <4>1
      <4>2. CASE j # l
        <5>1. s.key[b][i] # j /\ t.counters[PosOf[j]] = s.counters[PosOf[j]]
          BY <2>2, <3>1, <4>2
        <5>2. Takes(s, t, b, i, k, one)
          BY <2>4
        <5>3. SameFlow(s, t, j)
          BY <3>4, <5>1, <5>2, OthersKept
        <5> QED
          BY <1>4, <2>12, <5>3, FlowKept
      <4> QED
        BY <4>1, <4>2
    <3> QED
      BY <1>7, <2>12, <3>2, <3>4
  <2> QED
    BY <2>10, <2>11, <2>12 DEF Exact
<1> QED
  BY <1>3, <1>8, <1>9, <1>10, <1>11 DEF Ends
LEMMA FreshExact ==
  ASSUME NEW p, NEW w, \A k \in Keys : p[k] = 0 /\ w[k] = 0
  PROVE  Exact(Fresh, p, w)
<1>1. \A b \in Buckets, i \in Lanes : Fresh.key[b][i] = 0 /\ Fresh.val[b][i] = 0
  BY FreshLanes, LaneNumbers
<1>2. \A q \in Positions : Fresh.counters[q] = 0
  BY DEF Fresh, Positions
<1>3. Seated(Fresh) /\ Owned(Fresh)
  BY <1>1, <1>2 DEF Seated, Owned
<1>4. Histogram(Fresh)
  <2>1. ASSUME NEW v \in 1 .. LightMax
        PROVE  Fresh.mice_dist[v] = Cardinality(ValuedAt(Fresh.counters, v))
    <3>1. v # 0 /\ v \in 0 .. LightMax
      BY Constants
    <3>2. Fresh.mice_dist[v] = 0
      BY <3>1 DEF Fresh
    <3>3. ValuedAt(Fresh.counters, v) = {}
      BY <1>2, <3>1 DEF ValuedAt
    <3> QED
      BY <3>2, <3>3, FS_EmptySet
  <2> QED
    BY <2>1 DEF Histogram
<1>5. ASSUME NEW k \in Keys PROVE Exactly(Fresh, k, p[k], w[k])
  <2>1. BucketOf[k] \in Buckets /\ PosOf[k] \in Positions /\ k # 0
    BY Constants
  <2>2. Fresh.counters[PosOf[k]] = 0 /\ \A i \in Lanes : Fresh.key[BucketOf[k]][i] # k
    BY <1>1, <1>2, <2>1
  <2> QED
    BY <2>2 DEF Exactly
<1> QED
  BY <1>3, <1>4, <1>5 DEF Exact

\* The inductive invariant: with insert, every flow is exact.
ExactInvariant == SplitInvariant /\ (~quick => Exact(sketch["scalar"], packets, mass))

LEMMA InsertKeepsExact ==
  ASSUME ExactInvariant, NEW k \in Keys, NEW f \in Weights, Insert(k, f)
  PROVE  ExactInvariant'
<1>1. SplitInvariant /\ SplitInvariant'
  BY InsertKeeps DEF ExactInvariant
<1>2. quick' = quick
  BY DEF Insert
<1>3. CASE ~quick
  <2>1. PICK s : s = sketch["scalar"]
    OBVIOUS
  <2>2. PICK t : t = Inserted(s, k, f)
    OBVIOUS
  <2>3. sketch'["scalar"] = t
    BY <1>1, <1>3, <2>1, <2>2, BothInsert DEF Builds
  <2>4. Sound(s) /\ Exact(s, packets, mass)
    BY <1>3, <2>1 DEF ExactInvariant, SplitInvariant
  <2>5. Adding(mass, mass', k, f)
    BY <1>1 DEF SplitInvariant, Insert, Adding
  <2>6. Another(packets, packets', k)
    BY <1>1 DEF SplitInvariant, Insert, Another
  <2>7. PICK p : p = packets
    OBVIOUS
  <2>8. PICK y : y = packets'
    OBVIOUS
  <2>9. PICK w : w = mass
    OBVIOUS
  <2>10. PICK x : x = mass'
    OBVIOUS
  <2>11. Exact(t, y, x)
    BY <2>2, <2>4, <2>5, <2>6, <2>7, <2>8, <2>9, <2>10, ExactInsert
  <2>12. Exact(sketch'["scalar"], packets', mass')
    BY <2>3, <2>8, <2>10, <2>11
  <2> QED
    BY <1>1, <2>12 DEF ExactInvariant
<1>4. CASE quick
  BY <1>1, <1>2, <1>4 DEF ExactInvariant
<1> QED
  BY <1>3, <1>4

LEMMA ExactInductive ==
  Spec => []ExactInvariant
<1>1. ASSUME sketch["scalar"] = Fresh, packets = [k \in Keys |-> 0], mass = [k \in Keys |-> 0]
      PROVE  Exact(sketch["scalar"], packets, mass)
  BY <1>1, FreshExact
<1>2. Init /\ SplitInvariant => ExactInvariant
  BY <1>1 DEF Init, ExactInvariant, Builds
<1>3. ExactInvariant /\ SplitInvariant' /\ [Next]_vars => ExactInvariant'
  <2> SUFFICES ASSUME ExactInvariant, SplitInvariant', [Next]_vars PROVE ExactInvariant'
    OBVIOUS
  <2>1. CASE Clear
    <3>1. /\ sketch'["scalar"] = Fresh
          /\ packets' = [k \in Keys |-> 0] /\ mass' = [k \in Keys |-> 0]
      BY <2>1 DEF Clear, Builds
    <3>2. PICK y : y = packets'
      OBVIOUS
    <3>3. PICK x : x = mass'
      OBVIOUS
    <3>4. Exact(Fresh, y, x)
      BY <3>1, <3>2, <3>3, FreshExact
    <3> QED
      BY <3>1, <3>2, <3>3, <3>4 DEF ExactInvariant
  <2>2. CASE \E k \in Keys, f \in Weights : Insert(k, f)
    BY <2>2, InsertKeepsExact
  <2>3. CASE UNCHANGED vars
    BY <2>3 DEF vars, ExactInvariant
  <2> QED
    BY <2>1, <2>2, <2>3 DEF Next
<1> QED
  BY <1>2, <1>3, SplitInductive, PTL DEF Spec
-----------------------------------------------------------------------------
(***************************************************************************)
(* What the tasks add up.  g says what a value counts for: 1 for the       *)
(* cardinality, itself for the total, 1 if it is n for the distribution.   *)
(***************************************************************************)
Weighing(g) == g \in [Nat -> Nat] /\ g[0] = 0

Lights(s, g) == [q \in Positions |-> g[s.counters[q]]]
Extras(s, g) == [l \in LaneSet |-> g[ExVal(s, l[1], l[2])]]
Wholes(s, g) == [l \in LaneSet |-> g[Whole(s, l[1], l[2])]]
Flows(p, g) == [k \in Keys |-> g[p[k]]]

\* At the end: every flow is exact, came with weight 1, and no counter is full.
Final(s, p) ==
  /\ WellTyped(s) /\ Seated(s) /\ Owned(s) /\ Histogram(s) /\ CollisionFree
  /\ p \in [Keys -> 0 .. MaxFlow]
  /\ \A k \in Keys : Exactly(s, k, p[k], p[k]) /\ s.counters[PosOf[k]] < LightMax

LEMMA FinalFlow ==
  ASSUME NEW s, NEW p, Final(s, p), NEW k \in Keys, NEW b, b = BucketOf[k],
         NEW light, light = s.counters[PosOf[k]]
  PROVE  /\ light \in Nat /\ p[k] \in Nat /\ p[k] < HalfRange /\ b \in Buckets
         /\ \A i \in Lanes : s.key[b][i] = k =>
              /\ GetCounterVal(s.val[b][i]) + light = p[k]
              /\ ~Flagged(s.val[b][i]) => light = 0
         /\ Absent(s, b, k) => light = p[k]
<1>1. PosOf[k] \in Positions /\ b \in Buckets /\ LightMax \in Nat /\ MaxFlow \in Nat
      /\ MaxFlow < HalfRange /\ HalfRange \in Nat
  BY Constants
<1>2. PICK n : n = p[k]
  OBVIOUS
<1>3. light \in 0 .. LightMax /\ light < LightMax /\ n \in 0 .. MaxFlow
  BY <1>1, <1>2 DEF Final, WellTyped, Sketches
<1>4. Exactly(s, k, n, n)
  BY <1>2 DEF Final
<1>5. light \in Nat /\ n \in Nat /\ n < HalfRange /\ light # LightMax
  BY <1>1, <1>3
<1>6. light <= n
  BY <1>4 DEF Exactly
<1>7. ASSUME NEW i \in Lanes, s.key[b][i] = k
      PROVE  GetCounterVal(s.val[b][i]) + light = n /\ (~Flagged(s.val[b][i]) => light = 0)
  <2>1. i \in 0 .. Slots
    BY LaneNumbers
  <2>2. PICK c : c = GetCounterVal(s.val[b][i])
    OBVIOUS
  <2>3. c \in 0 .. HalfRange - 1
    BY <1>1, <2>1, <2>2, LaneOf DEF Final
  <2>4. c \in Nat
    BY <1>1, <2>3
  <2>5. /\ c + light <= n
        /\ Flagged(s.val[b][i]) => n <= c + light \/ light = LightMax
        /\ ~Flagged(s.val[b][i]) => c = n
    BY <1>4, <1>7, <2>2 DEF Exactly
  <2>6. CASE Flagged(s.val[b][i])
    <3>1. n <= c + light
      BY <1>5, <2>5, <2>6
    <3>2. c + light = n
      BY <1>5, <2>4, <2>5, <3>1
    <3> QED
      BY <2>2, <2>6, <3>2
  <2>7. CASE ~Flagged(s.val[b][i])
    <3>1. c = n
      BY <2>5, <2>7
    <3>2. c + light = n /\ light = 0
      BY <1>5, <2>4, <2>5, <3>1
    <3> QED
      BY <2>2, <3>2
  <2> QED
    BY <2>6, <2>7
<1>8. ASSUME Absent(s, b, k) PROVE light = n
  <2>1. n <= light
    BY <1>4, <1>5, <1>8 DEF Exactly, Absent
  <2> QED
    BY <1>5, <1>6, <2>1
<1> QED
  BY <1>1, <1>2, <1>5, <1>7, <1>8

\* What the tasks take from a lane.
LEMMA FinalLane ==
  ASSUME NEW s, NEW p, Final(s, p), NEW b \in Buckets, NEW i \in Lanes,
         NEW k, k = s.key[b][i]
  PROVE  /\ k = 0 => ExVal(s, b, i) = 0 /\ Whole(s, b, i) = 0
         /\ k # 0 => /\ k \in Keys /\ BucketOf[k] = b
                     /\ ExVal(s, b, i) = s.counters[PosOf[k]] /\ Whole(s, b, i) = p[k]
<1>1. i \in 0 .. Slots /\ WellTyped(s) /\ Seated(s) /\ HalfRange \in Nat /\ HalfRange >= 2
  BY LaneNumbers, Constants DEF Final
<1>2. PICK v : v = s.val[b][i]
  OBVIOUS
<1>3. v \in 0 .. Word - 1 /\ k \in Keys \cup {0}
  BY <1>1, <1>2, LaneOf
<1>4. ASSUME k = 0 PROVE ExVal(s, b, i) = 0 /\ Whole(s, b, i) = 0
  <2>1. v = 0
    <3>1. s.key[b][i] = 0
      BY <1>4
    <3>2. s.val[b][i] = 0
      BY <1>1, <3>1 DEF Seated
    <3> QED
      BY <1>2, <3>2
  <2>2. ~Flagged(0)
    BY <1>1 DEF Flagged
  <2>3. ExVal(s, b, i) = 0
    BY <1>2, <2>1, <2>2 DEF ExVal
  <2> QED
    BY <1>2, <2>1, <2>3, LiteralCounts DEF Whole
<1>5. ASSUME k # 0
      PROVE  /\ k \in Keys /\ BucketOf[k] = b
             /\ ExVal(s, b, i) = s.counters[PosOf[k]] /\ Whole(s, b, i) = p[k]
  <2>1. k \in Keys /\ BucketOf[k] = b
    BY <1>1, <1>3, <1>5 DEF Seated
  <2>2. PICK light : light = s.counters[PosOf[k]]
    OBVIOUS
  <2>3. PICK c : c = GetCounterVal(v)
    OBVIOUS
  <2>4. /\ light \in Nat /\ p[k] \in Nat /\ p[k] < HalfRange
        /\ c + light = p[k] /\ (~Flagged(v) => light = 0)
    BY <1>2, <2>1, <2>2, <2>3, FinalFlow
  <2>5. ExVal(s, b, i) = light
    BY <1>2, <2>2, <2>4 DEF ExVal, LightQuery
  <2>6. Raise(v, light) = v + light /\ GetCounterVal(Raise(v, light)) = c + light
    <3>1. GetCounterVal(v) + light < HalfRange
      BY <2>3, <2>4
    <3> QED
      BY <1>3, <2>3, <2>4, <3>1, RaiseCount
  <2>7. Whole(s, b, i) = p[k]
    BY <1>2, <2>4, <2>5, <2>6 DEF Whole
  <2> QED
    BY <2>1, <2>2, <2>5, <2>7
<1> QED
  BY <1>4, <1>5

LEMMA FinalNumbers ==
  ASSUME NEW s, NEW p, Final(s, p), NEW b \in Buckets, NEW i \in Lanes
  PROVE  ExVal(s, b, i) \in Nat /\ Whole(s, b, i) \in Nat
<1>1. PICK k : k = s.key[b][i]
  OBVIOUS
<1>2. /\ k = 0 => ExVal(s, b, i) = 0 /\ Whole(s, b, i) = 0
      /\ k # 0 => /\ k \in Keys /\ BucketOf[k] = b
                  /\ ExVal(s, b, i) = s.counters[PosOf[k]] /\ Whole(s, b, i) = p[k]
  BY <1>1, FinalLane
<1>3. \A j \in Keys : s.counters[PosOf[j]] \in Nat /\ p[j] \in Nat
  BY FinalFlow
<1> QED
  BY <1>2, <1>3

LEMMA SumSets ==
  IsFiniteSet(Keys) /\ IsFiniteSet(LaneSet) /\ IsFiniteSet(Positions) /\ IsFiniteSet(1 .. LightMax)
<1>1. IsFiniteSet(Keys)
  BY SplitAssumption
<1>2. IsFiniteSet(Positions) /\ IsFiniteSet(1 .. LightMax)
  BY FS_Interval, Constants DEF Positions
<1>3. IsFiniteSet(0 .. BucketNum - 1) /\ IsFiniteSet(Lanes)
  BY FS_Interval, Constants DEF Lanes
<1>4. IsFiniteSet(LaneSet)
  BY <1>3, FS_Product DEF LaneSet
<1> QED
  BY <1>1, <1>2, <1>4

\* The counters say what their flows have there.
LEMMA LightsAreFlows ==
  ASSUME NEW s, NEW p, Final(s, p), NEW g, Weighing(g),
         NEW L, L = [k \in Keys |-> s.counters[PosOf[k]]]
  PROVE  /\ SumFunctionOnSet(Lights(s, g), Positions) \in Int
         /\ SumFunctionOnSet(Lights(s, g), Positions) = SumFunctionOnSet(Flows(L, g), Keys)
<1>1. PICK x : x = Lights(s, g)
  OBVIOUS
<1>2. PICK y : y = Flows(L, g)
  OBVIOUS
<1>3. PICK h : h = [k \in Keys |-> PosOf[k]]
  OBVIOUS
<1>4. PICK U : U = {PosOf[k] : k \in Keys}
  OBVIOUS
<1>5. U \subseteq Positions
  BY <1>4, Constants
<1>6. ASSUME NEW q \in Positions PROVE s.counters[q] \in Nat /\ x[q] = g[s.counters[q]] /\ x[q] \in Int
  <2>1. s.counters[q] \in Nat
    BY Constants DEF Final, WellTyped, Sketches
  <2> QED
    BY <1>1, <2>1 DEF Lights, Weighing
<1>7. ASSUME NEW q \in Positions \ U PROVE x[q] = 0
  <2>1. s.counters[q] = 0
    BY <1>4 DEF Final, Owned
  <2> QED
    BY <1>6, <2>1 DEF Weighing
<1>8. SumFunctionOnSet(x, Positions) \in Int
  BY <1>6, SumSets, SumType
<1>9. SumFunctionOnSet(x, Positions) = SumFunctionOnSet(x, U)
  BY <1>5, <1>6, <1>7, SumSets, SumRestrict
<1>10. Names(x, U, y, Keys, h)
  <2>1. ASSUME NEW k \in Keys PROVE h[k] \in U /\ y[k] = x[h[k]]
    <3>1. h[k] = PosOf[k] /\ PosOf[k] \in U /\ PosOf[k] \in Positions
      BY <1>3, <1>4, Constants
    <3>2. y[k] = g[s.counters[PosOf[k]]]
      BY <1>2 DEF Flows
    <3> QED
      BY <1>6, <3>1, <3>2
  <2>2. ASSUME NEW q \in U PROVE \E k \in Keys : h[k] = q
    BY <1>3, <1>4
  <2>3. ASSUME NEW j \in Keys, NEW k \in Keys, h[j] = h[k] PROVE j = k
    BY <1>3, <2>3 DEF Final, CollisionFree
  <2> QED
    BY <2>1, <2>2, <2>3 DEF Names
<1>11. SumFunctionOnSet(x, U) = SumFunctionOnSet(y, Keys)
  BY <1>5, <1>6, <1>10, SumSets, SumNames
<1> QED
  BY <1>1, <1>2, <1>8, <1>9, <1>11
\* What the lanes have more than the light part has of their flows.
LEMMA LanesAreFlows ==
  ASSUME NEW s, NEW p, Final(s, p), NEW g, Weighing(g),
         NEW L, L = [k \in Keys |-> s.counters[PosOf[k]]]
  PROVE  /\ SumFunctionOnSet(Extras(s, g), LaneSet) \in Int
         /\ SumFunctionOnSet(Flows(L, g), Keys) \in Int
         /\ SumFunctionOnSet(Wholes(s, g), LaneSet) - SumFunctionOnSet(Extras(s, g), LaneSet)
              = SumFunctionOnSet(Flows(p, g), Keys) - SumFunctionOnSet(Flows(L, g), Keys)
<1> DEFINE keyOf(l) == s.key[l[1]][l[2]]
           R == {l \in LaneSet : keyOf(l) # 0}
           U == {k \in Keys : ~Absent(s, BucketOf[k], k)}
           h == [l \in R |-> keyOf(l)]
           e == Extras(s, g)
           w == Wholes(s, g)
           x == Flows(L, g)
           y == Flows(p, g)
           d == [l \in LaneSet |-> w[l] - e[l]]
           f == [k \in Keys |-> y[k] - x[k]]
<1>1. ASSUME NEW k \in Keys
      PROVE  /\ y[k] \in Int /\ x[k] \in Int /\ f[k] = y[k] - x[k]
             /\ y[k] = g[p[k]] /\ x[k] = g[s.counters[PosOf[k]]]
  <2>1. p[k] \in Nat /\ s.counters[PosOf[k]] \in Nat
    BY FinalFlow
  <2> QED
    BY <2>1 DEF Flows, Weighing
<1>2. ASSUME NEW l \in LaneSet
      PROVE  /\ l[1] \in Buckets /\ l[2] \in Lanes
             /\ e[l] \in Int /\ w[l] \in Int /\ d[l] = w[l] - e[l]
             /\ keyOf(l) = 0 => d[l] = 0
             /\ keyOf(l) # 0 => /\ keyOf(l) \in Keys /\ BucketOf[keyOf(l)] = l[1]
                                /\ d[l] = f[keyOf(l)]
  <2>1. PICK b \in Buckets, i \in Lanes : l = <<b, i>>
    BY DEF LaneSet, Buckets
  <2>2. PICK k : k = keyOf(l)
    OBVIOUS
  <2>3. k = s.key[b][i] /\ l[1] = b /\ l[2] = i
    BY <2>1, <2>2
  <2>4. /\ e[l] = g[ExVal(s, b, i)] /\ w[l] = g[Whole(s, b, i)] /\ d[l] = w[l] - e[l]
    BY <2>3 DEF Extras, Wholes
  <2>5. CASE k = 0
    <3>1. ExVal(s, b, i) = 0 /\ Whole(s, b, i) = 0
      <4>1. k = 0 => ExVal(s, b, i) = 0 /\ Whole(s, b, i) = 0
        BY <2>3, FinalLane
      <4> QED
        BY <2>5, <4>1
    <3>2. e[l] = 0 /\ w[l] = 0
      BY <2>4, <3>1 DEF Weighing
    <3> HIDE DEF e, w, d
    <3> QED
      BY <2>2, <2>3, <2>4, <2>5, <3>2
  <2>6. CASE k # 0
    <3>1. /\ k \in Keys /\ BucketOf[k] = b
          /\ ExVal(s, b, i) = s.counters[PosOf[k]] /\ Whole(s, b, i) = p[k]
      BY <2>3, <2>6, FinalLane
    <3>2. e[l] = x[k] /\ w[l] = y[k] /\ x[k] \in Int /\ y[k] \in Int /\ f[k] = y[k] - x[k]
      BY <1>1, <2>4, <3>1
    <3> HIDE DEF e, w, d, x, y, f
    <3> QED
      BY <2>2, <2>3, <2>4, <2>6, <3>1, <3>2
  <2> QED
    BY <2>5, <2>6
<1>3. ASSUME NEW k \in U
      PROVE  \E l \in R : h[l] = k
  <2>1. PICK i \in Lanes : s.key[BucketOf[k]][i] = k
    BY DEF Absent
  <2>2. BucketOf[k] \in Buckets /\ k # 0
    BY Constants
  <2>3. PICK l : l = <<BucketOf[k], i>>
    OBVIOUS
  <2>4. l \in LaneSet /\ keyOf(l) = k
    BY <2>1, <2>2, <2>3 DEF LaneSet, Buckets
  <2> QED
    BY <2>2, <2>4
<1>4. ASSUME NEW l \in R PROVE h[l] \in U /\ h[l] = keyOf(l)
  <2>1. keyOf(l) \in Keys /\ BucketOf[keyOf(l)] = l[1] /\ l[2] \in Lanes
    BY <1>2
  <2> QED
    BY <2>1 DEF Absent
<1>5. ASSUME NEW l \in R, NEW m \in R, h[l] = h[m] PROVE l = m
  <2>1. /\ keyOf(l) = keyOf(m) /\ keyOf(l) # 0
        /\ l[1] = BucketOf[keyOf(l)] /\ m[1] = BucketOf[keyOf(m)]
        /\ l[1] \in Buckets /\ l[2] \in Lanes /\ m[2] \in Lanes
    BY <1>2, <1>4, <1>5
  <2>2. l[1] = m[1]
    BY <2>1
  <2>3. Seated(s)
    BY DEF Final
  <2>4. l[2] = m[2]
    BY <2>1, <2>2, <2>3 DEF Seated
  <2>5. l = <<l[1], l[2]>> /\ m = <<m[1], m[2]>>
    BY DEF LaneSet
  <2> QED
    BY <2>2, <2>4, <2>5
<1>6. ASSUME NEW k \in Keys \ U PROVE f[k] = 0
  <2>1. PICK light : light = s.counters[PosOf[k]]
    OBVIOUS
  <2>2. light = p[k]
    BY <2>1, FinalFlow
  <2>3. y[k] = x[k] /\ y[k] \in Int /\ f[k] = y[k] - x[k]
    <3>1. /\ y[k] \in Int /\ f[k] = y[k] - x[k]
          /\ y[k] = g[p[k]] /\ x[k] = g[s.counters[PosOf[k]]]
      BY <1>1
    <3> HIDE DEF x, y, f
    <3> QED
      BY <2>1, <2>2, <3>1
  <2> HIDE DEF x, y, f
  <2> QED
    BY <2>3
<1>7. U \subseteq Keys /\ R \subseteq LaneSet /\ IsFiniteSet(R)
  BY SumSets, FS_Subset
<1>8. \A l \in R : h[l] \in U /\ d[l] = f[h[l]]
  BY <1>2, <1>4
<1>9. \A l \in LaneSet \ R : d[l] = 0
  BY <1>2
<1>10. /\ \A k \in Keys : y[k] \in Int /\ x[k] \in Int /\ f[k] = y[k] - x[k]
       /\ \A l \in LaneSet : e[l] \in Int /\ w[l] \in Int /\ d[l] = w[l] - e[l]
  BY <1>1, <1>2
<1> HIDE DEF R, U, h, e, w, x, y, d, f
<1>11. Names(f, U, d, R, h)
  BY <1>3, <1>5, <1>8 DEF Names
<1>12. \A k \in Keys : f[k] \in Int
  BY <1>10
<1>13. \A l \in LaneSet : d[l] \in Int
  BY <1>10
<1>14. SumFunctionOnSet(f, U) = SumFunctionOnSet(d, R)
  BY <1>7, <1>11, <1>12, SumNames
<1>15. SumFunctionOnSet(f, Keys) = SumFunctionOnSet(f, U)
  BY <1>6, <1>7, <1>12, SumSets, SumRestrict
<1>16. SumFunctionOnSet(d, LaneSet) = SumFunctionOnSet(d, R)
  BY <1>7, <1>9, <1>13, SumSets, SumRestrict
<1>17. SumFunctionOnSet(y, Keys) = SumFunctionOnSet(x, Keys) + SumFunctionOnSet(f, Keys)
  <2>1. Adds(x, f, y, Keys)
    BY <1>10 DEF Adds
  <2> QED
    BY <2>1, SumSets, SumAdds
<1>18. SumFunctionOnSet(w, LaneSet) = SumFunctionOnSet(e, LaneSet) + SumFunctionOnSet(d, LaneSet)
  <2>1. Adds(e, d, w, LaneSet)
    BY <1>10 DEF Adds
  <2> QED
    BY <2>1, SumSets, SumAdds
<1>19. /\ SumFunctionOnSet(x, Keys) \in Int /\ SumFunctionOnSet(f, Keys) \in Int
       /\ SumFunctionOnSet(e, LaneSet) \in Int
  BY <1>10, <1>12, SumSets, SumType
<1>20. /\ SumFunctionOnSet(e, LaneSet) \in Int /\ SumFunctionOnSet(x, Keys) \in Int
       /\ SumFunctionOnSet(w, LaneSet) - SumFunctionOnSet(e, LaneSet)
            = SumFunctionOnSet(y, Keys) - SumFunctionOnSet(x, Keys)
  BY <1>14, <1>15, <1>16, <1>17, <1>18, <1>19
<1> QED
  BY <1>20 DEF e, w, x, y

\* The balance of the two parts, for any weighing.
LEMMA PartsBalance ==
  ASSUME NEW s, NEW p, Final(s, p), NEW g, Weighing(g)
  PROVE  /\ SumFunctionOnSet(Lights(s, g), Positions) \in Int
         /\ SumFunctionOnSet(Extras(s, g), LaneSet) \in Int
         /\ SumFunctionOnSet(Wholes(s, g), LaneSet) \in Int
         /\ SumFunctionOnSet(Flows(p, g), Keys)
              = SumFunctionOnSet(Lights(s, g), Positions)
                  - SumFunctionOnSet(Extras(s, g), LaneSet)
                  + SumFunctionOnSet(Wholes(s, g), LaneSet)
<1>1. PICK L : L = [k \in Keys |-> s.counters[PosOf[k]]]
  OBVIOUS
<1>2. PICK a : a = SumFunctionOnSet(Lights(s, g), Positions)
  OBVIOUS
<1>3. PICK e : e = SumFunctionOnSet(Extras(s, g), LaneSet)
  OBVIOUS
<1>4. PICK w : w = SumFunctionOnSet(Wholes(s, g), LaneSet)
  OBVIOUS
<1>5. PICK y : y = SumFunctionOnSet(Flows(p, g), Keys)
  OBVIOUS
<1>6. PICK x : x = SumFunctionOnSet(Flows(L, g), Keys)
  OBVIOUS
<1>7. a \in Int /\ a = x
  BY <1>1, <1>2, <1>6, LightsAreFlows
<1>8. e \in Int /\ w - e = y - x
  BY <1>1, <1>3, <1>4, <1>5, <1>6, LanesAreFlows
<1>9. w \in Int
  <2>1. ASSUME NEW l \in LaneSet PROVE Wholes(s, g)[l] \in Int
    <3>1. PICK b \in Buckets, i \in Lanes : l = <<b, i>>
      BY DEF LaneSet, Buckets
    <3>4. Whole(s, b, i) \in Nat
      BY FinalNumbers
    <3> QED
      BY <3>1, <3>4 DEF Wholes, Weighing
  <2> QED
    BY <1>4, <2>1, SumSets, SumType
<1>10. y \in Int
  <2>1. ASSUME NEW k \in Keys PROVE Flows(p, g)[k] \in Int
    <3>1. p[k] \in Nat
      BY FinalFlow
    <3> QED
      BY <3>1 DEF Flows, Weighing
  <2> QED
    BY <1>5, <2>1, SumSets, SumType
<1>11. y = a - e + w
  BY <1>7, <1>8, <1>9, <1>10
<1> QED
  BY <1>2, <1>3, <1>4, <1>5, <1>7, <1>8, <1>9, <1>11
\* A sum over the histogram is one over the counters.
LEMMA HistogramSum ==
  ASSUME NEW s, WellTyped(s), Histogram(s), NEW g, Weighing(g),
         NEW h, \A v \in 1 .. LightMax : h[v] = g[v] * s.mice_dist[v]
  PROVE  SumFunctionOnSet(h, 1 .. LightMax) = SumFunctionOnSet(Lights(s, g), Positions)
<1> DEFINE V == 1 .. LightMax
           x == Lights(s, g)
           At(S, v) == {q \in S : s.counters[q] = v}
           part(S) == [v \in V |-> g[v] * Cardinality(At(S, v))]
           Good == {S \in SUBSET Positions :
                      SumFunctionOnSet(part(S), V) = SumFunctionOnSet(x, S)}
<1>1. IsFiniteSet(V) /\ IsFiniteSet(Positions) /\ LightMax \in Nat /\ V \subseteq Nat /\ 0 \notin V
  BY SumSets, Constants
<1>2. ASSUME NEW q \in Positions
      PROVE  /\ s.counters[q] \in 0 .. LightMax /\ s.counters[q] \in Nat
             /\ x[q] = g[s.counters[q]] /\ x[q] \in Int
  <2>1. s.counters[q] \in 0 .. LightMax /\ s.counters[q] \in Nat
    BY <1>1 DEF WellTyped, Sketches
  <2> QED
    BY <2>1 DEF Lights, Weighing
<1>3. ASSUME NEW S \in SUBSET Positions, NEW v \in V
      PROVE  /\ IsFiniteSet(At(S, v)) /\ Cardinality(At(S, v)) \in Nat
             /\ part(S)[v] = g[v] * Cardinality(At(S, v)) /\ part(S)[v] \in Int
             /\ g[v] \in Nat
  <2>1. IsFiniteSet(At(S, v)) /\ Cardinality(At(S, v)) \in Nat
    BY <1>1, FS_Subset, FS_CardinalityType
  <2>2. g[v] \in Nat
    BY <1>1 DEF Weighing
  <2> HIDE DEF At
  <2> QED
    BY <2>1, <2>2
<1>4. {} \in Good
  <2>1. \A v \in V : part({})[v] = 0
    <3>1. ASSUME NEW v \in V PROVE part({})[v] = 0
      <4>1. At({}, v) = {}
        OBVIOUS
      <4>2. Cardinality(At({}, v)) = 0
        BY <4>1, FS_EmptySet
      <4>3. PICK n : n = Cardinality(At({}, v))
        OBVIOUS
      <4>4. part({})[v] = g[v] * n /\ n = 0 /\ g[v] \in Nat
        BY <1>3, <4>2, <4>3
      <4> QED
        BY <4>4
    <3> QED
      BY <3>1
  <2> HIDE DEF part, x
  <2>2. SumFunctionOnSet(part({}), V) = 0
    BY <1>1, <2>1, SumZero
  <2>3. SumFunctionOnSet(x, {}) = 0
    BY SumEmpty
  <2> QED
    BY <2>2, <2>3
<1>5. ASSUME NEW S \in SUBSET Positions, S # {}, \A q \in S : S \ {q} \in Good
      PROVE  S \in Good
  <2>1. PICK q \in S : TRUE
    BY <1>5
  <2>2. PICK T : T = S \ {q}
    OBVIOUS
  <2>3. T \in SUBSET Positions /\ T \in Good /\ q \in Positions /\ IsFiniteSet(S)
    BY <1>1, <1>5, <2>1, <2>2, FS_Subset
  <2>4. PICK c \in Nat : c = s.counters[q]
    BY <1>2, <2>3
  <2>5. PICK d \in Nat : d = g[c]
    BY DEF Weighing
  <2>6. ASSUME NEW v \in V
        PROVE  /\ part(T)[v] \in Int
               /\ part(S)[v] = IF v = c THEN part(T)[v] + d ELSE part(T)[v]
    <3>1. PICK n \in Nat : n = Cardinality(At(T, v))
      BY <1>3, <2>3
    <3>2. PICK m \in Nat : m = Cardinality(At(S, v))
      BY <1>3
    <3>3. IsFiniteSet(At(T, v))
      BY <1>3, <2>3
    <3>4. CASE v = c
      <4>1. At(S, v) = At(T, v) \cup {q} /\ q \notin At(T, v)
        BY <2>1, <2>2, <2>4, <3>4
      <4>2. m = n + 1
        BY <3>1, <3>2, <3>3, <4>1, FS_AddElement
      <4>3. part(T)[v] = d * n /\ part(S)[v] = d * m
        BY <1>3, <2>3, <2>5, <3>1, <3>2, <3>4
      <4>4. d * (n + 1) = d * n + d /\ d * n \in Int
        OBVIOUS
      <4> HIDE DEF part
      <4> QED
        BY <3>4, <4>2, <4>3, <4>4
    <3>5. CASE v # c
      <4>1. At(S, v) = At(T, v)
        BY <2>1, <2>2, <2>4, <3>5
      <4>2. part(T)[v] = g[v] * n /\ part(S)[v] = g[v] * m /\ part(T)[v] \in Int
        BY <1>3, <2>3, <3>1, <3>2
      <4>3. m = n
        BY <3>1, <3>2, <4>1
      <4> HIDE DEF part
      <4> QED
        BY <3>5, <4>2, <4>3
    <3> QED
      BY <3>4, <3>5
  <2>7. x[q] = d /\ \A z \in S : x[z] \in Int
    BY <1>2, <2>3, <2>4, <2>5
  <2>8. c \notin V => d = 0
    <3>1. c \in 0 .. LightMax
      BY <1>2, <2>3, <2>4
    <3>2. c \notin V => c = 0
      BY <1>1, <3>1
    <3> QED
      BY <2>5, <3>2 DEF Weighing
  <2>9. SumFunctionOnSet(part(T), V) = SumFunctionOnSet(x, T)
    BY <2>3
  <2> HIDE DEF part, x, V
  <2>10. PICK pS : pS = part(S)
    OBVIOUS
  <2>11. PICK pT : pT = part(T)
    OBVIOUS
  <2>12. Raised(pT, pS, V, c, d)
    BY <2>6, <2>10, <2>11 DEF Raised
  <2>13. /\ SumFunctionOnSet(pT, V) \in Int
         /\ SumFunctionOnSet(pS, V) = SumFunctionOnSet(pT, V) + (IF c \in V THEN d ELSE 0)
    BY <1>1, <2>12, SumRaise
  <2>14. SumFunctionOnSet(x, S) = d + SumFunctionOnSet(x, T)
    <3>1. SumFunctionOnSet(x, S) = x[q] + SumFunctionOnSet(x, S \ {q})
      BY <2>1, <2>3, <2>7, SumWithout
    <3> QED
      BY <2>2, <2>7, <3>1
  <2>15. SumFunctionOnSet(pS, V) = SumFunctionOnSet(x, S)
    BY <2>8, <2>9, <2>11, <2>13, <2>14
  <2> QED
    BY <2>10, <2>15
<1>6. Positions \in Good
  <2> HIDE DEF Good
  <2>1. SUBSET Positions \subseteq Good
    BY <1>1, <1>4, <1>5, SetInduction
  <2> QED
    BY <2>1
<1>7. ASSUME NEW v \in V PROVE h[v] = part(Positions)[v]
  <2>1. At(Positions, v) = ValuedAt(s.counters, v)
    BY DEF ValuedAt
  <2>2. s.mice_dist[v] = Cardinality(At(Positions, v))
    BY <2>1 DEF Histogram
  <2> QED
    BY <2>2
<1> HIDE DEF part
<1>8. SumFunctionOnSet(h, V) = SumFunctionOnSet(part(Positions), V)
  BY <1>1, <1>7, SumSame
<1> QED
  BY <1>6, <1>8
-----------------------------------------------------------------------------
(* The three tasks *)

LEMMA FinalState ==
  ASSUME ExactInvariant, NEW s, s = sketch["simd"], ~quick, CollisionFree, packets = mass,
         \A k \in Keys : LightQuery(s, k) < LightMax, NEW p, p = packets
  PROVE  Final(s, p)
<1>1. s = sketch["scalar"] /\ Sound(s) /\ Exact(s, packets, packets)
  BY DEF ExactInvariant, SplitInvariant, Builds
<1>2. p \in [Keys -> 0 .. MaxFlow]
  BY DEF ExactInvariant, SplitInvariant
<1> QED
  BY <1>1, <1>2 DEF Exact, Final, Sound, LightQuery

\* 1 for a value in N, which is not 0.
Among(N) == [v \in Nat |-> IF v \in N THEN 1 ELSE 0]

LightsIn(s, N) == {q \in Positions : s.counters[q] \in N}
ExtrasIn(s, N) == {l \in LaneSet : ExVal(s, l[1], l[2]) \in N}
WholesIn(s, N) == {l \in LaneSet : Whole(s, l[1], l[2]) \in N}
FlowsIn(p, N) == {k \in Keys : p[k] \in N}

LEMMA AmongCounts ==
  ASSUME NEW s, NEW p, Final(s, p), NEW N \in SUBSET Nat, 0 \notin N, NEW g, g = Among(N)
  PROVE  /\ Weighing(g)
         /\ SumFunctionOnSet(Lights(s, g), Positions) = Cardinality(LightsIn(s, N))
         /\ SumFunctionOnSet(Extras(s, g), LaneSet) = Cardinality(ExtrasIn(s, N))
         /\ SumFunctionOnSet(Wholes(s, g), LaneSet) = Cardinality(WholesIn(s, N))
         /\ SumFunctionOnSet(Flows(p, g), Keys) = Cardinality(FlowsIn(p, N))
<1>1. Weighing(g)
  BY DEF Among, Weighing
<1>2. \A v \in Nat : g[v] = IF v \in N THEN 1 ELSE 0
  BY DEF Among
<1>3. SumFunctionOnSet(Lights(s, g), Positions) = Cardinality(LightsIn(s, N))
  <2>1. PICK x : x = Lights(s, g)
    OBVIOUS
  <2>2. PICK T : T = LightsIn(s, N)
    OBVIOUS
  <2>3. \A q \in Positions : s.counters[q] \in Nat
    BY Constants DEF Final, WellTyped, Sketches
  <2>4. Counts(x, Positions, T)
    BY <1>2, <2>1, <2>2, <2>3 DEF Counts, Lights, LightsIn
  <2> QED
    BY <2>1, <2>2, <2>4, SumSets, SumCounts
<1>4. ASSUME NEW l \in LaneSet
      PROVE  ExVal(s, l[1], l[2]) \in Nat /\ Whole(s, l[1], l[2]) \in Nat
  <2>1. PICK b \in Buckets, i \in Lanes : l = <<b, i>>
    BY DEF LaneSet, Buckets
  <2>3. ExVal(s, b, i) \in Nat /\ Whole(s, b, i) \in Nat
    BY FinalNumbers
  <2> QED
    BY <2>1, <2>3
<1>5. SumFunctionOnSet(Extras(s, g), LaneSet) = Cardinality(ExtrasIn(s, N))
  <2>1. PICK x : x = Extras(s, g)
    OBVIOUS
  <2>2. PICK T : T = ExtrasIn(s, N)
    OBVIOUS
  <2>3. ASSUME NEW l \in LaneSet PROVE x[l] = IF l \in T THEN 1 ELSE 0
    <3>1. PICK v \in Nat : v = ExVal(s, l[1], l[2])
      BY <1>4
    <3>2. x[l] = g[v] /\ (l \in T <=> v \in N)
      BY <2>1, <2>2, <3>1 DEF Extras, ExtrasIn
    <3> QED
      BY <1>2, <3>2
  <2>4. Counts(x, LaneSet, T)
    BY <2>2, <2>3 DEF Counts, ExtrasIn
  <2> QED
    BY <2>1, <2>2, <2>4, SumSets, SumCounts
<1>6. SumFunctionOnSet(Wholes(s, g), LaneSet) = Cardinality(WholesIn(s, N))
  <2>1. PICK x : x = Wholes(s, g)
    OBVIOUS
  <2>2. PICK T : T = WholesIn(s, N)
    OBVIOUS
  <2>3. ASSUME NEW l \in LaneSet PROVE x[l] = IF l \in T THEN 1 ELSE 0
    <3>1. PICK v \in Nat : v = Whole(s, l[1], l[2])
      BY <1>4
    <3>2. x[l] = g[v] /\ (l \in T <=> v \in N)
      BY <2>1, <2>2, <3>1 DEF Wholes, WholesIn
    <3> QED
      BY <1>2, <3>2
  <2>4. Counts(x, LaneSet, T)
    BY <2>2, <2>3 DEF Counts, WholesIn
  <2> QED
    BY <2>1, <2>2, <2>4, SumSets, SumCounts
<1>7. SumFunctionOnSet(Flows(p, g), Keys) = Cardinality(FlowsIn(p, N))
  <2>1. PICK x : x = Flows(p, g)
    OBVIOUS
  <2>2. PICK T : T = FlowsIn(p, N)
    OBVIOUS
  <2>3. \A k \in Keys : p[k] \in Nat
    BY FinalFlow
  <2>4. Counts(x, Keys, T)
    BY <1>2, <2>1, <2>2, <2>3 DEF Counts, Flows, FlowsIn
  <2> QED
    BY <2>1, <2>2, <2>4, SumSets, SumCounts
<1> QED
  BY <1>1, <1>3, <1>5, <1>6, <1>7
LEMMA FinalCardinal ==
  ASSUME NEW s, NEW p, Final(s, p)
  PROVE  Cardinal(s) = Cardinality({k \in Keys : p[k] > 0})
<1>1. PICK N : N = Nat \ {0}
  OBVIOUS
<1>2. N \in SUBSET Nat /\ 0 \notin N
  BY <1>1
<1>3. PICK g : g = Among(N)
  OBVIOUS
<1>4. Weighing(g)
  BY <1>2, <1>3, AmongCounts
<1>5. SumFunctionOnSet(s.mice_dist, 1 .. LightMax) = SumFunctionOnSet(Lights(s, g), Positions)
  <2>1. PICK h : h = s.mice_dist
    OBVIOUS
  <2>2. ASSUME NEW v \in 1 .. LightMax PROVE h[v] = g[v] * s.mice_dist[v]
    <3>1. v \in 0 .. LightMax /\ v \in N
      BY <1>1, Constants
    <3>2. g[v] = 1
      BY <1>1, <1>3, <3>1 DEF Among
    <3>3. h[v] \in Int
      BY <2>1, <3>1 DEF Final, WellTyped, Sketches
    <3> QED
      BY <2>1, <3>2, <3>3
  <2>3. WellTyped(s) /\ Histogram(s)
    BY DEF Final
  <2> QED
    BY <1>4, <2>1, <2>2, <2>3, HistogramSum
<1>6. ASSUME NEW l \in LaneSet
      PROVE  /\ ExVal(s, l[1], l[2]) \in N <=> ExVal(s, l[1], l[2]) # 0
             /\ Whole(s, l[1], l[2]) \in N <=> Whole(s, l[1], l[2]) # 0
  <2>1. PICK b \in Buckets, i \in Lanes : l = <<b, i>>
    BY DEF LaneSet, Buckets
  <2>2. ExVal(s, b, i) \in Nat /\ Whole(s, b, i) \in Nat
    BY FinalNumbers
  <2> QED
    BY <1>1, <2>1, <2>2
<1>7. \A k \in Keys : p[k] \in N <=> p[k] > 0
  <2>1. \A k \in Keys : p[k] \in Nat
    BY FinalFlow
  <2> QED
    BY <1>1, <2>1
<1>8. PICK E : E = {l \in LaneSet : ExVal(s, l[1], l[2]) # 0}
  OBVIOUS
<1>9. PICK W : W = {l \in LaneSet : Whole(s, l[1], l[2]) # 0}
  OBVIOUS
<1>10. PICK F : F = {k \in Keys : p[k] > 0}
  OBVIOUS
<1>11. /\ SumFunctionOnSet(Extras(s, g), LaneSet) = Cardinality(E)
       /\ SumFunctionOnSet(Wholes(s, g), LaneSet) = Cardinality(W)
       /\ SumFunctionOnSet(Flows(p, g), Keys) = Cardinality(F)
  <2>1. E = ExtrasIn(s, N)
    BY <1>6, <1>8 DEF ExtrasIn
  <2>2. W = WholesIn(s, N)
    BY <1>6, <1>9 DEF WholesIn
  <2>3. F = FlowsIn(p, N)
    BY <1>7, <1>10 DEF FlowsIn
  <2> QED
    BY <1>2, <1>3, <2>1, <2>2, <2>3, AmongCounts
<1>12. Cardinality(F) = SumFunctionOnSet(Lights(s, g), Positions) - Cardinality(E) + Cardinality(W)
  BY <1>4, <1>11, PartsBalance
<1> QED
  BY <1>5, <1>8, <1>9, <1>10, <1>12 DEF Cardinal

LEMMA FinalTotal ==
  ASSUME NEW s, NEW p, Final(s, p)
  PROVE  EntropyTotal(s) = SumFunction(p)
<1>1. PICK g : g = [v \in Nat |-> v]
  OBVIOUS
<1>2. Weighing(g) /\ \A v \in Nat : g[v] = v
  BY <1>1 DEF Weighing
<1>3. PICK h : h = [v \in 1 .. LightMax |-> v * s.mice_dist[v]]
  OBVIOUS
<1>4. SumFunctionOnSet(h, 1 .. LightMax) = SumFunctionOnSet(Lights(s, g), Positions)
  <2>1. ASSUME NEW v \in 1 .. LightMax PROVE h[v] = g[v] * s.mice_dist[v]
    <3>1. v \in Nat
      BY Constants
    <3> QED
      BY <1>2, <1>3, <3>1
  <2>2. WellTyped(s) /\ Histogram(s)
    BY DEF Final
  <2> QED
    BY <1>2, <2>1, <2>2, HistogramSum
<1>5. PICK d : d = [l \in LaneSet |-> Whole(s, l[1], l[2]) - ExVal(s, l[1], l[2])]
  OBVIOUS
<1>6. PICK e : e = Extras(s, g)
  OBVIOUS
<1>7. PICK w : w = Wholes(s, g)
  OBVIOUS
<1>8. ASSUME NEW l \in LaneSet
      PROVE  e[l] \in Int /\ d[l] \in Int /\ w[l] = e[l] + d[l]
  <2>1. PICK b \in Buckets, i \in Lanes : l = <<b, i>>
    BY DEF LaneSet, Buckets
  <2>2. PICK x \in Nat : x = ExVal(s, b, i)
    BY FinalNumbers
  <2>3. PICK y \in Nat : y = Whole(s, b, i)
    BY FinalNumbers
  <2>4. d[l] = y - x /\ e[l] = x /\ w[l] = y
    BY <1>2, <1>5, <1>6, <1>7, <2>1, <2>2, <2>3 DEF Extras, Wholes
  <2> QED
    BY <2>4
<1>9. /\ SumFunctionOnSet(w, LaneSet) = SumFunctionOnSet(e, LaneSet) + SumFunctionOnSet(d, LaneSet)
      /\ SumFunctionOnSet(d, LaneSet) \in Int /\ SumFunctionOnSet(e, LaneSet) \in Int
  <2>1. Adds(e, d, w, LaneSet)
    BY <1>8 DEF Adds
  <2>2. SumFunctionOnSet(w, LaneSet) = SumFunctionOnSet(e, LaneSet) + SumFunctionOnSet(d, LaneSet)
    BY <2>1, SumSets, SumAdds
  <2>3. SumFunctionOnSet(d, LaneSet) \in Int
    BY <1>8, SumSets, SumType
  <2>4. SumFunctionOnSet(e, LaneSet) \in Int
    BY <1>8, SumSets, SumType
  <2> QED
    BY <2>2, <2>3, <2>4
<1>10. SumFunctionOnSet(Flows(p, g), Keys) = SumFunction(p)
  <2>1. PICK y : y = Flows(p, g)
    OBVIOUS
  <2>2. \A k \in Keys : p[k] \in Nat
    BY FinalFlow
  <2>3. \A k \in Keys : y[k] = p[k]
    BY <1>2, <2>1, <2>2 DEF Flows
  <2>4. DOMAIN p = Keys
    BY DEF Final
  <2>5. SumFunctionOnSet(y, Keys) = SumFunctionOnSet(p, Keys)
    BY <2>3, SumSets, SumSame
  <2> QED
    BY <2>1, <2>4, <2>5 DEF SumFunction
<1>11. SumFunctionOnSet(Lights(s, g), Positions) \in Int
       /\ SumFunctionOnSet(Flows(p, g), Keys) = SumFunctionOnSet(Lights(s, g), Positions)
            - SumFunctionOnSet(e, LaneSet) + SumFunctionOnSet(w, LaneSet)
  BY <1>2, <1>6, <1>7, PartsBalance
<1>12. SumFunctionOnSet(h, 1 .. LightMax) + SumFunctionOnSet(d, LaneSet) = SumFunction(p)
  BY <1>4, <1>9, <1>10, <1>11
<1> QED
  BY <1>3, <1>5, <1>12 DEF EntropyTotal

LEMMA FinalDistribution ==
  ASSUME NEW s, NEW p, Final(s, p), NEW n \in 1 .. MaxFlow
  PROVE  Distribution(s, n) = Cardinality({k \in Keys : p[k] = n})
<1>1. n \in Nat /\ n # 0 /\ LightMax \in Nat
  BY Constants
<1>2. PICK N : N = {n}
  OBVIOUS
<1>3. N \in SUBSET Nat /\ 0 \notin N
  BY <1>1, <1>2
<1>4. PICK g : g = Among(N)
  OBVIOUS
<1>5. PICK a : a = SumFunctionOnSet(Lights(s, g), Positions)
  OBVIOUS
<1>6. PICK E : E = {l \in LaneSet : ExVal(s, l[1], l[2]) = n}
  OBVIOUS
<1>7. PICK W : W = {l \in LaneSet : Whole(s, l[1], l[2]) = n}
  OBVIOUS
<1>8. PICK F : F = {k \in Keys : p[k] = n}
  OBVIOUS
<1>9. /\ Weighing(g)
      /\ a = Cardinality(ValuedAt(s.counters, n))
      /\ SumFunctionOnSet(Extras(s, g), LaneSet) = Cardinality(E)
      /\ SumFunctionOnSet(Wholes(s, g), LaneSet) = Cardinality(W)
      /\ SumFunctionOnSet(Flows(p, g), Keys) = Cardinality(F)
  <2>1. E = ExtrasIn(s, N)
    BY <1>2, <1>6 DEF ExtrasIn
  <2>2. W = WholesIn(s, N)
    BY <1>2, <1>7 DEF WholesIn
  <2>3. F = FlowsIn(p, N)
    BY <1>2, <1>8 DEF FlowsIn
  <2>4. ValuedAt(s.counters, n) = LightsIn(s, N)
    BY <1>2 DEF ValuedAt, LightsIn
  <2> QED
    BY <1>3, <1>4, <1>5, <2>1, <2>2, <2>3, <2>4, AmongCounts
<1>10. a = IF n <= LightMax THEN s.mice_dist[n] ELSE 0
  <2>1. CASE n <= LightMax
    <3>1. n \in 1 .. LightMax
      BY <1>1, <2>1
    <3> QED
      BY <1>9, <2>1, <3>1 DEF Final, Histogram
  <2>2. CASE ~(n <= LightMax)
    <3>1. \A q \in Positions : s.counters[q] \in 0 .. LightMax
      BY DEF Final, WellTyped, Sketches
    <3>2. ValuedAt(s.counters, n) = {}
      BY <1>1, <2>2, <3>1 DEF ValuedAt
    <3> QED
      BY <1>9, <2>2, <3>2, FS_EmptySet
  <2> QED
    BY <2>1, <2>2
<1>11. Cardinality(F) = a - Cardinality(E) + Cardinality(W)
  BY <1>5, <1>9, PartsBalance
<1> QED
  BY <1>6, <1>7, <1>8, <1>10, <1>11 DEF Distribution

(***************************************************************************)
(* TasksExact, for every instance: without collisions and with light       *)
(* counters to spare, cardinality, total and distribution are those of the *)
(* flows that came, however they were displaced and came back.             *)
(***************************************************************************)
THEOREM TasksAlwaysExact == Spec => []TasksExact
<1>1. ASSUME ExactInvariant, NEW s, s = sketch["simd"], ~quick, CollisionFree, packets = mass,
             \A k \in Keys : LightQuery(s, k) < LightMax
      PROVE  /\ Cardinal(s) = Cardinality({k \in Keys : packets[k] > 0})
             /\ EntropyTotal(s) = SumFunction(packets)
             /\ \A n \in 1 .. MaxFlow :
                  Distribution(s, n) = Cardinality({k \in Keys : packets[k] = n})
  <2>1. PICK p : p = packets
    OBVIOUS
  <2>2. Final(s, p)
    BY <1>1, <2>1, FinalState
  <2>3. Cardinal(s) = Cardinality({k \in Keys : p[k] > 0})
    BY <2>2, FinalCardinal
  <2>4. EntropyTotal(s) = SumFunction(p)
    BY <2>2, FinalTotal
  <2>5. \A n \in 1 .. MaxFlow : Distribution(s, n) = Cardinality({k \in Keys : p[k] = n})
    BY <2>2, FinalDistribution
  <2> QED
    BY <2>1, <2>3, <2>4, <2>5
<1>2. ExactInvariant => TasksExact
  BY <1>1 DEF TasksExact
<1> QED
  BY <1>2, ExactInductive, PTL
=============================================================================
