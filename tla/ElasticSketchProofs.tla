------------------------ MODULE ElasticSketchProofs ------------------------
(***************************************************************************)
(* Theorems about the Elastic sketch, for all keys, weights, hash tables   *)
(* and sizes that the assumptions of Param, HeavyPart, LightPart and       *)
(* ElasticSketch admit.                                                    *)
(*                                                                         *)
(* First come facts about the operators (minimum, remainder, words), then  *)
(* type correctness, then the inductive invariant Accounting.  Accounting  *)
(* is proved outcome by outcome of HeavyPart::insert (Match, Reject, Fill, *)
(* Swap), flow by flow: the packet's own flow, the displaced flow, and the *)
(* flows the call leaves alone.  The promises of query and of              *)
(* get_heavy_hitters follow from it.  Last comes Bookkeeping, on which the *)
(* tasks rest.                                                             *)
(***************************************************************************)
EXTENDS ElasticSketch, SumLemmas

\* A nonempty set of naturals has a least element, and Min is one.
LEMMA Least ==
  ASSUME NEW S \in SUBSET Nat, S # {}
  PROVE  Min(S) \in S /\ \A j \in S : Min(S) <= j
<1> DEFINE R == OpToRel(<, Nat)
<1>1. IsWellFoundedOn(R, Nat)
  BY NatLessThanWellFounded
<1>2. \A x, y \in Nat : x < y => <<x, y>> \in R
  BY DEF OpToRel
<1> HIDE DEF R
<1>3. PICK x \in S : \A y \in S : ~(<<y, x>> \in R)
  BY <1>1, WFMin
<1>4. \A y \in S : ~(y < x)
  BY <1>2, <1>3
<1>5. \A y \in S : x <= y
  BY <1>4
<1> QED
  BY <1>5 DEF Min

\* What % does on naturals.
LEMMA Remainder ==
  ASSUME NEW a \in Nat, NEW m \in Nat \ {0}
  PROVE  a % m \in 0 .. m - 1 /\ (a < m => a % m = a)
  OBVIOUS

\* The assumptions of the four modules, in the form the steps use them.
LEMMA Assumptions ==
  /\ Keys \subseteq Nat /\ Keys \cup {0} \subseteq Nat
  /\ HalfRange \in Nat /\ HalfRange > 1
  /\ Word = 2 * HalfRange /\ Word \in Nat
  /\ LightMax \in Nat /\ LightMax > 0
  /\ MaxFlow \in Nat /\ MaxFlow < HalfRange
  /\ Weights \subseteq Nat /\ \A f \in Weights : f >= 1
  /\ BucketOf \in [Keys \cup {0} -> Buckets]
  /\ PosOf \in [Keys \cup {0} -> Positions]
  /\ Lanes \subseteq Nat /\ Lanes # {} /\ Guard \notin Lanes
  /\ 0 .. Slots = Lanes \cup {Guard} /\ Lanes \subseteq 0 .. Slots
  /\ SIMD \in BOOLEAN
<1>1. 0 \in Lanes
  BY HeavyAssumption DEF Lanes
<1>2. Lanes \subseteq Nat /\ Lanes \subseteq 0 .. Slots /\ Guard \notin Lanes
  BY HeavyAssumption DEF Lanes, Guard
<1>3. 0 .. Slots = Lanes \cup {Guard}
  BY HeavyAssumption DEF Lanes, Guard
<1> QED
  BY <1>1, <1>2, <1>3, ParamAssumption, HeavyAssumption, LightAssumption, SketchAssumption
  DEF Word, Buckets, Positions

\* A word is its count and its flag.
LEMMA CountWord ==
  ASSUME NEW v \in 0 .. Word - 1
  PROVE  /\ Count(v) \in 0 .. HalfRange - 1
         /\ Flagged(v) => v = HalfRange + Count(v)
         /\ ~Flagged(v) => v = Count(v)
  BY Assumptions DEF Count, Flagged

\* val += f, and when it does not wrap.
LEMMA AddWord ==
  ASSUME NEW v \in Nat, NEW f \in Nat
  PROVE  Add(v, f) \in 0 .. Word - 1 /\ (v + f < Word => Add(v, f) = v + f)
<1>1. v + f \in Nat /\ Word \in Nat \ {0}
  BY Assumptions
<1> QED
  BY <1>1, Remainder DEF Add

\* A saturated sum is a byte and is no smaller than any byte below the sum.
LEMMA SaturateByte ==
  ASSUME NEW n \in Nat
  PROVE  /\ Saturate(n) \in 0 .. LightMax
         /\ Saturate(n) = LightMax \/ Saturate(n) = n
         /\ \A m \in 0 .. LightMax : m <= n => m <= Saturate(n)
  BY Assumptions DEF Saturate
-----------------------------------------------------------------------------
\* The victim is a lane that holds a smallest count.
LEMMA VictimLane ==
  ASSUME HeavyTypeOK, NEW b \in Buckets
  PROVE  /\ Victim(b) \in Lanes
         /\ \A j \in Lanes : Count(val[b][Victim(b)]) <= Count(val[b][j])
<1> DEFINE C(i) == Count(val[b][i])
           S == {C(i) : i \in Lanes}
<1>1. \A i \in Lanes : C(i) \in Nat
  <2>1. val[b] \in [0 .. Slots -> 0 .. Word - 1]
    BY DEF HeavyTypeOK
  <2>2. \A i \in Lanes : val[b][i] \in 0 .. Word - 1
    BY <2>1, Assumptions
  <2> QED
    BY <2>2, CountWord, Assumptions
<1>2. S \in SUBSET Nat /\ S # {}
  BY <1>1, Assumptions
<1>3. Min(S) \in S /\ \A m \in S : Min(S) <= m
  <2> HIDE DEF S
  <2> QED BY <1>2, Least
<1>4. PICK i \in Lanes : \A j \in Lanes : C(i) <= C(j)
  BY <1>3
<1>5. Smallest(b) \in SUBSET Nat /\ Smallest(b) # {}
  BY <1>4, Assumptions DEF Smallest
<1>6. Victim(b) \in Smallest(b)
  BY <1>5, Least DEF Victim
<1> QED
  BY <1>6 DEF Smallest

\* Storing a byte keeps the light part well typed.
LEMMA StoreType ==
  ASSUME LightTypeOK, NEW p \in Positions, NEW new \in 0 .. LightMax,
         Store(p, new)
  PROVE  LightTypeOK' /\ counters' = [counters EXCEPT ![p] = new]
<1>1. counters' \in [Positions -> 0 .. LightMax]
  BY DEF LightTypeOK, Store
<1>2. mice_dist' \in [0 .. LightMax -> Int]
  BY DEF LightTypeOK, Store, Recount
<1> QED
  BY <1>1, <1>2 DEF LightTypeOK, Store

\* What an insertion into the light part does to one flow's counter and at
\* most does to the others.
LEMMA LightInsertGrows ==
  ASSUME LightTypeOK, NEW k \in Keys \cup {0}, NEW f \in Nat,
         LightInsert(k, f)
  PROVE  /\ LightTypeOK'
         /\ LightQuery(k)' = Saturate(LightQuery(k) + f)
         /\ \A j \in Keys \cup {0} : LightQuery(j) <= LightQuery(j)'
<1> DEFINE p == PosOf[k]
           new == Saturate(counters[p] + f)
<1>1. p \in Positions /\ counters[p] \in 0 .. LightMax
  BY Assumptions DEF LightTypeOK
<1>2. counters[p] + f \in Nat /\ counters[p] <= counters[p] + f
  BY <1>1, Assumptions
<1>3. new \in 0 .. LightMax /\ counters[p] <= new
  BY <1>1, <1>2, SaturateByte
<1>4. LightTypeOK' /\ counters' = [counters EXCEPT ![p] = new]
  <2> HIDE DEF p, new
  <2>1. Store(p, new)
    BY DEF LightInsert, p, new
  <2> QED
    BY <1>1, <1>3, <2>1, StoreType
<1>5. ASSUME NEW j \in Keys \cup {0} PROVE LightQuery(j) <= LightQuery(j)'
  <2>1. PosOf[j] \in Positions /\ counters[PosOf[j]] \in 0 .. LightMax
    BY Assumptions DEF LightTypeOK
  <2> QED
    BY <1>3, <1>4, <2>1 DEF LightQuery, LightTypeOK
<1> QED
  BY <1>1, <1>4, <1>5 DEF LightQuery, LightTypeOK

\* The same for swap_insert.
LEMMA LightSwapInsertGrows ==
  ASSUME LightTypeOK, NEW k \in Keys \cup {0}, NEW f \in Nat,
         LightSwapInsert(k, f)
  PROVE  /\ LightTypeOK'
         /\ Saturate(f) <= LightQuery(k)'
         /\ \A j \in Keys \cup {0} : LightQuery(j) <= LightQuery(j)'
<1> DEFINE p == PosOf[k]
           new == Saturate(f)
<1>1. p \in Positions /\ counters[p] \in 0 .. LightMax
  BY Assumptions DEF LightTypeOK
<1>2. new \in 0 .. LightMax
  BY SaturateByte
<1>3. \A j \in Keys \cup {0} :
        PosOf[j] \in Positions /\ counters[PosOf[j]] \in 0 .. LightMax
  BY Assumptions DEF LightTypeOK
<1>4. CASE counters[p] < new
  <2>1. LightTypeOK' /\ counters' = [counters EXCEPT ![p] = new]
    <3> HIDE DEF p, new
    <3>1. Store(p, new)
      BY <1>4 DEF LightSwapInsert, p, new
    <3> QED
      BY <1>1, <1>2, <3>1, StoreType
  <2> QED
    BY <1>1, <1>2, <1>3, <1>4, <2>1 DEF LightQuery, LightTypeOK
<1>5. CASE ~(counters[p] < new)
  <2>1. UNCHANGED lightVars
    BY <1>5 DEF LightSwapInsert
  <2> QED
    BY <1>1, <1>2, <1>3, <1>5, <2>1, Assumptions
    DEF LightQuery, LightTypeOK, lightVars
<1> QED
  BY <1>4, <1>5
-----------------------------------------------------------------------------
(***************************************************************************)
(* Type correctness.                                                       *)
(***************************************************************************)

\* Each way out of the heavy part's insert and quick_insert leaves keys in
\* the key lanes and words in the val lanes.
LEMMA HeavyType ==
  ASSUME HeavyTypeOK, NEW k \in Keys, NEW f \in Weights, f <= MaxFlow,
         \/ HeavyMatch(k, f) \/ HeavyFill(k, f) \/ HeavyReject(k)
         \/ HeavySwap(k) \/ QuickSwap(k)
  PROVE  HeavyTypeOK'
<1> DEFINE W == 0 .. Word - 1
<1>1. ASSUME NEW v \in W, NEW n \in Nat PROVE Add(v, n) \in W
  <2>1. v \in Nat
    BY Assumptions
  <2> QED
    BY <2>1, AddWord
<1>2. f \in W /\ HalfRange + 1 \in W /\ 0 \in W /\ 1 \in Nat /\ f \in Nat
  BY Assumptions
<1>3. key \in [Buckets -> [0 .. Slots -> Keys \cup {0}]]
      /\ val \in [Buckets -> [0 .. Slots -> W]]
  BY DEF HeavyTypeOK
<1>4. BucketOf[k] \in Buckets /\ Guard \in 0 .. Slots
  BY Assumptions
<1> HIDE DEF W
<1>5. Votes(BucketOf[k]) \in W
  BY <1>1, <1>2, <1>3, <1>4 DEF Votes, UpdateGuardVal
<1>6. CASE HeavyMatch(k, f)
  BY <1>1, <1>2, <1>3, <1>6 DEF HeavyMatch, HeavyTypeOK, W
<1>7. CASE HeavyFill(k, f)
  BY <1>2, <1>3, <1>7 DEF HeavyFill, HeavyTypeOK, W
<1>8. CASE HeavyReject(k)
  BY <1>3, <1>5, <1>8 DEF HeavyReject, HeavyTypeOK, W
<1>9. CASE HeavySwap(k)
  BY <1>2, <1>3, <1>9 DEF HeavySwap, HeavyTypeOK, W
<1>10. CASE QuickSwap(k)
  BY <1>2, <1>3, <1>10 DEF QuickSwap, HeavyTypeOK, W
<1> QED
  BY <1>6, <1>7, <1>8, <1>9, <1>10

\* A packet keeps the history variables in their ranges.
LEMMA ReceivedType ==
  ASSUME packets \in [Keys -> Nat], mass \in [Keys -> 0 .. MaxFlow],
         NEW k \in Keys, NEW f \in Weights, Received(k, f)
  PROVE  /\ packets' \in [Keys -> Nat]
         /\ mass' \in [Keys -> 0 .. MaxFlow]
         /\ f <= MaxFlow
<1>1. mass[k] \in 0 .. MaxFlow /\ packets[k] \in Nat /\ f \in Nat
  BY Assumptions
<1>2. mass[k] + f \in 0 .. MaxFlow /\ packets[k] + 1 \in Nat /\ f <= MaxFlow
  BY <1>1, Assumptions DEF Received
<1> QED
  BY <1>2 DEF Received

\* Handing a displaced flow over keeps the light part well typed.
LEMMA HandOverType ==
  ASSUME LightTypeOK, NEW k \in Keys \cup {0}, NEW v \in 0 .. Word - 1,
         HandOver(k, v)
  PROVE  LightTypeOK'
<1>1. Count(v) \in Nat /\ v \in Nat
  BY CountWord, Assumptions
<1>2. CASE Flagged(v)
  BY <1>1, <1>2, LightInsertGrows DEF HandOver
<1>3. CASE ~Flagged(v)
  BY <1>1, <1>3, LightSwapInsertGrows DEF HandOver
<1> QED
  BY <1>2, <1>3

\* The constructors make a well-typed sketch.
LEMMA InitType == Init => TypeOK
<1> SUFFICES ASSUME Init PROVE TypeOK
  OBVIOUS
<1>1. HeavyTypeOK
  BY Assumptions DEF Init, HeavyInit, HeavyTypeOK
<1>2. LightTypeOK
  BY Assumptions DEF Init, LightInit, LightTypeOK
<1> QED
  BY <1>1, <1>2, Assumptions DEF Init, TypeOK

\* clear keeps it so.
LEMMA ClearType == Clear => TypeOK'
<1> SUFFICES ASSUME Clear PROVE TypeOK'
  OBVIOUS
<1>1. HeavyTypeOK'
  BY Assumptions DEF Clear, HeavyClear, HeavyTypeOK
<1>2. LightTypeOK'
  BY Assumptions DEF Clear, LightClear, LightTypeOK
<1> QED
  BY <1>1, <1>2, Assumptions DEF Clear, TypeOK

\* insert keeps it so.
LEMMA InsertType ==
  ASSUME TypeOK, NEW k \in Keys, NEW f \in Weights, Insert(k, f)
  PROVE  TypeOK'
<1> DEFINE b == BucketOf[k]
<1>1. Received(k, f)
  BY DEF Insert, Match, Fill, Swap, Reject
<1>2. /\ packets' \in [Keys -> Nat] /\ mass' \in [Keys -> 0 .. MaxFlow]
      /\ f <= MaxFlow
  BY <1>1, ReceivedType DEF TypeOK
<1>3. HeavyTypeOK'
  BY <1>2, HeavyType DEF Insert, Match, Fill, Swap, Reject, TypeOK
<1>4. LightTypeOK'
  <2>1. CASE Match(k, f) \/ Fill(k, f)
    BY <2>1 DEF Match, Fill, TypeOK, LightTypeOK, lightVars
  <2>2. CASE Reject(k, f)
    BY <2>2, LightInsertGrows, Assumptions DEF Reject, TypeOK
  <2>3. CASE Swap(k, f)
    <3>1. b \in Buckets /\ Victim(b) \in Lanes
      BY VictimLane, Assumptions DEF TypeOK
    <3>2. key[b] \in [0 .. Slots -> Keys \cup {0}] /\ val[b] \in [0 .. Slots -> 0 .. Word - 1]
      BY <3>1 DEF TypeOK, HeavyTypeOK
    <3>3. key[b][Victim(b)] \in Keys \cup {0} /\ val[b][Victim(b)] \in 0 .. Word - 1
      BY <3>1, <3>2, Assumptions
    <3> QED
      BY <2>3, <3>3, HandOverType DEF Swap, TypeOK
  <2> QED
    BY <2>1, <2>2, <2>3 DEF Insert
<1> QED
  BY <1>2, <1>3, <1>4 DEF TypeOK

\* So does a step that changes nothing.
LEMMA StutterType == TypeOK /\ UNCHANGED vars => TypeOK'
  BY DEF TypeOK, HeavyTypeOK, LightTypeOK, vars, heavyVars, lightVars, truthVars

(***************************************************************************)
(* insert, whatever path it takes, and clear keep every lane, counter and  *)
(* histogram entry in its range.                                           *)
(***************************************************************************)
THEOREM TypeCorrect == Spec => []TypeOK
<1>1. TypeOK /\ [Next]_vars => TypeOK'
  <2> SUFFICES ASSUME TypeOK, [Next]_vars PROVE TypeOK'
    OBVIOUS
  <2>1. ASSUME NEW k \in Keys, NEW f \in Weights, Insert(k, f) PROVE TypeOK'
    BY <2>1, InsertType
  <2>2. CASE Clear
    BY <2>2, ClearType
  <2>3. CASE UNCHANGED vars
    BY <2>3, StutterType
  <2> QED
    BY <2>1, <2>2, <2>3 DEF Next
<1> QED
  BY <1>1, InitType, PTL DEF Spec
-----------------------------------------------------------------------------
(***************************************************************************)
(* Accounting is inductive.                                                *)
(***************************************************************************)

\* The loop of HeavyPart-noSIMD.h treats key 0 as a free lane; the theorems
\* below are about programs where that cannot matter.
ZeroKeyHandled == SIMD \/ 0 \notin Keys

\* Inside and Outside for one flow.
InsideOf(k) ==
  \A i \in Residence(k) :
    LET v == val[BucketOf[k]][i]
    IN  /\ Count(v) \in 1 .. mass[k]
        /\ Flagged(v) => Covered(k, Count(v))
        /\ ~Flagged(v) => v = mass[k]

OutsideOf(k) ==
  Residence(k) = {} => /\ Covered(k, 0)
                       /\ mass[k] > 0 => Empty(BucketOf[k]) = {}

\* Inside and Outside, flow by flow.
LEMMA PerFlow ==
  /\ Inside <=> \A k \in Flows : InsideOf(k)
  /\ Outside <=> \A k \in Flows : OutsideOf(k)
  BY DEF Inside, Outside, InsideOf, OutsideOf

\* Adding to a word without reaching the flag bit.
LEMMA CountAdd ==
  ASSUME NEW v \in 0 .. Word - 1, NEW f \in Nat, Count(v) + f < HalfRange
  PROVE  /\ Add(v, f) = v + f
         /\ Flagged(Add(v, f)) <=> Flagged(v)
         /\ Count(Add(v, f)) = Count(v) + f
<1>1. v \in Nat /\ v + f < Word
  BY Assumptions DEF Count, Flagged
<1>2. Add(v, f) = v + f
  BY <1>1, AddWord
<1> QED
  BY <1>1, <1>2, Assumptions DEF Count, Flagged

\* The types in the form the steps below need them.
LEMMA Types ==
  ASSUME TypeOK
  PROVE  /\ key \in [Buckets -> [0 .. Slots -> Keys \cup {0}]]
         /\ val \in [Buckets -> [0 .. Slots -> 0 .. Word - 1]]
         /\ \A b \in Buckets, i \in Lanes :
              /\ key[b][i] \in Keys \cup {0}
              /\ val[b][i] \in 0 .. Word - 1
         /\ \A k \in Keys \cup {0} : LightQuery(k) \in 0 .. LightMax
         /\ packets \in [Keys -> Nat] /\ mass \in [Keys -> 0 .. MaxFlow]
<1>1. ASSUME NEW b \in Buckets, NEW i \in Lanes
      PROVE  key[b][i] \in Keys \cup {0} /\ val[b][i] \in 0 .. Word - 1
  <2>1. /\ key[b] \in [0 .. Slots -> Keys \cup {0}]
        /\ val[b] \in [0 .. Slots -> 0 .. Word - 1]
    BY DEF TypeOK, HeavyTypeOK
  <2> QED
    BY <2>1, Assumptions
<1>2. \A k \in Keys \cup {0} : LightQuery(k) \in 0 .. LightMax
  BY Assumptions DEF LightQuery, TypeOK, LightTypeOK
<1> QED
  BY <1>1, <1>2 DEF TypeOK, HeavyTypeOK

\* A flow stays accounted for when its lane is left alone, its light counter
\* does not shrink and its bucket has no new free lane.
LEMMA Untouched ==
  ASSUME TypeOK, TypeOK', NEW j \in Flows, InsideOf(j), OutsideOf(j),
         packets'[j] = packets[j], mass'[j] = mass[j],
         LightQuery(j) <= LightQuery(j)',
         \A i \in Lanes :
           /\ key'[BucketOf[j]][i] = j <=> key[BucketOf[j]][i] = j
           /\ key[BucketOf[j]][i] = j =>
                val'[BucketOf[j]][i] = val[BucketOf[j]][i],
         Empty(BucketOf[j]) = {} => Empty(BucketOf[j])' = {}
  PROVE  InsideOf(j)' /\ OutsideOf(j)'
<1>1. Residence(j)' = Residence(j)
  BY DEF Residence
<1>2. /\ LightQuery(j) \in 0 .. LightMax /\ LightQuery(j)' \in 0 .. LightMax
      /\ packets[j] \in Nat /\ mass[j] \in Nat
  <2>1. j \in Keys /\ PosOf[j] \in Positions
    BY Assumptions DEF Flows
  <2>2. LightQuery(j)' \in 0 .. LightMax
    BY <2>1 DEF TypeOK, LightTypeOK, LightQuery
  <2> QED
    BY <2>1, <2>2, Types
<1>3. \A n \in Nat : Covered(j, n) => Covered(j, n)'
  BY <1>2, Assumptions DEF Covered
<1>4. ASSUME NEW i \in Residence(j)
      PROVE  /\ val'[BucketOf[j]][i] = val[BucketOf[j]][i]
             /\ Count(val[BucketOf[j]][i]) \in 1 .. mass[j]
  BY DEF Residence, InsideOf
<1>5. InsideOf(j)'
  BY <1>1, <1>2, <1>3, <1>4 DEF InsideOf
<1>6. OutsideOf(j)'
  BY <1>1, <1>3 DEF OutsideOf
<1> QED
  BY <1>5, <1>6

\* A flow's lane in its bucket is its only residence.
LEMMA Located ==
  ASSUME TypeOK, Placed, NEW c \in Buckets, NEW i \in Lanes, key[c][i] # 0
  PROVE  /\ key[c][i] \in Flows
         /\ BucketOf[key[c][i]] = c
         /\ Residence(key[c][i]) = {i}
<1>1. key[c][i] \in Flows
  BY Types DEF Flows
<1>2. BucketOf[key[c][i]] = c
  BY DEF Placed
<1>3. \A j \in Lanes : key[c][j] = key[c][i] => j = i
  BY DEF Placed
<1> QED
  BY <1>1, <1>2, <1>3 DEF Residence

\* A lane's count leaves room for the next packets of the key it holds.
LEMMA Room ==
  ASSUME TypeOK, Accounting, NEW k \in Keys, NEW f \in Nat,
         mass[k] + f <= MaxFlow,
         NEW i \in Lanes, key[BucketOf[k]][i] = k
  PROVE  Count(val[BucketOf[k]][i]) + f < HalfRange
<1> DEFINE v == val[BucketOf[k]][i]
<1>1. BucketOf[k] \in Buckets /\ v \in 0 .. Word - 1 /\ mass[k] \in Nat
  BY Types, Assumptions
<1>2. Count(v) \in Nat
  BY <1>1, CountWord, Assumptions
<1>3. Count(v) <= mass[k]
  <2>1. CASE k = 0
    <3>1. v <= mass[0]
      BY <1>1, <2>1 DEF Accounting, Placed
    <3>2. v < HalfRange
      BY <1>1, <2>1, <3>1, Assumptions
    <3>3. Count(v) = v
      <4> HIDE DEF v
      <4> QED BY <1>1, <3>2, Assumptions DEF Count, Flagged
    <3> QED
      BY <2>1, <3>1, <3>3
  <2>2. CASE k # 0
    <3>1. k \in Flows /\ i \in Residence(k)
      BY <2>2 DEF Flows, Residence
    <3>2. Count(v) \in 1 .. mass[k]
      BY <3>1 DEF Accounting, Inside
    <3> QED
      BY <1>1, <3>2
  <2> QED
    BY <2>1, <2>2
<1> HIDE DEF v
<1>4. Count(v) + f < HalfRange
  BY <1>1, <1>2, <1>3, Assumptions
<1> QED
  BY <1>4 DEF v

\* A key that neither matches nor is 0 is outside the heavy part.
LEMMA Unmatched ==
  ASSUME ZeroKeyHandled, TypeOK, Placed, NEW k \in Keys, Matching(k) = {}
  PROVE  k \in Flows /\ Residence(k) = {}
<1>1. BucketOf[k] \in Buckets
  BY Assumptions
<1>2. key[BucketOf[k]][Guard] = 0
  BY <1>1 DEF Placed
<1>3. k # 0
  BY <1>2 DEF ZeroKeyHandled, Matching
<1> QED
  BY <1>3 DEF Flows, Residence, Matching

\* The lane that matches: a resident's, or the guard lane for key 0.
LEMMA MatchedLane ==
  ASSUME TypeOK, Placed, NEW k \in Keys, Matching(k) # {}
  PROVE  LET i == Min(Matching(k))
         IN  /\ i \in Lanes \cup {Guard}
             /\ key[BucketOf[k]][i] = k
             /\ i = Guard => k = 0
<1> DEFINE i == Min(Matching(k))
<1>1. BucketOf[k] \in Buckets
  BY Assumptions
<1>2. Matching(k) \subseteq Lanes \cup {Guard} /\ Guard \in Nat
  BY HeavyAssumption DEF Matching, Guard
<1>3. i \in Matching(k)
  BY <1>2, Least, Assumptions
<1>4. i \in Lanes \cup {Guard} /\ key[BucketOf[k]][i] = k
  BY <1>2, <1>3 DEF Matching
<1> HIDE DEF i
<1>5. i = Guard => k = 0
  BY <1>1, <1>4 DEF Placed
<1> QED
  BY <1>4, <1>5 DEF i

\* The lane that is filled is one of the free ones.
LEMMA EmptyLane ==
  ASSUME NEW b \in Buckets, Empty(b) # {}
  PROVE  Min(Empty(b)) \in Empty(b) /\ Min(Empty(b)) \in Lanes
<1>1. Empty(b) \in SUBSET Nat /\ Empty(b) \subseteq Lanes
  BY Assumptions DEF Empty
<1> QED
  BY <1>1, Least

\* The ghosts of a packet of k with weight f.
LEMMA ReceivedCounts ==
  ASSUME TypeOK, Weighed, NEW k \in Keys, NEW f \in Weights, Received(k, f)
  PROVE  /\ mass[k] + f <= MaxFlow /\ f \in Nat /\ f >= 1
         /\ packets'[k] = packets[k] + 1 /\ mass'[k] = mass[k] + f
         /\ \A j \in Keys \ {k} : packets'[j] = packets[j] /\ mass'[j] = mass[j]
         /\ Weighed'
<1>1. /\ packets' = [packets EXCEPT ![k] = @ + 1]
      /\ mass' = [mass EXCEPT ![k] = @ + f]
      /\ mass[k] + f <= MaxFlow
  BY DEF Received
<1>2. \A j \in Keys : packets[j] \in Nat /\ mass[j] \in Nat
  BY Types, Assumptions
<1>3. f \in Nat /\ f >= 1
  BY Assumptions
<1>4. /\ packets'[k] = packets[k] + 1 /\ mass'[k] = mass[k] + f
      /\ \A j \in Keys \ {k} : packets'[j] = packets[j] /\ mass'[j] = mass[j]
  BY <1>1, Types
<1>5. Weighed'
  BY <1>2, <1>3, <1>4 DEF Weighed
<1> QED
  BY <1>1, <1>3, <1>4, <1>5

\* A packet of a resident flow keeps the accounts.
LEMMA MatchAccounts ==
  ASSUME ZeroKeyHandled, TypeOK, TypeOK', Accounting,
         NEW k \in Keys, NEW f \in Weights, Match(k, f)
  PROVE  Accounting'
<1> DEFINE b == BucketOf[k]
           i == Min(Matching(k))
           v == val[b][i]
<1>1. Placed /\ Inside /\ Outside /\ Weighed
  BY DEF Accounting
<1>2. /\ Received(k, f) /\ Matching(k) # {}
      /\ key' = key /\ val' = [val EXCEPT ![b][i] = Add(@, f)]
      /\ UNCHANGED lightVars
  BY DEF Match, HeavyMatch
<1>3. b \in Buckets /\ i \in Lanes \cup {Guard} /\ key[b][i] = k
      /\ (i = Guard => k = 0)
  BY <1>1, <1>2, MatchedLane, Assumptions
<1>4. /\ mass[k] + f <= MaxFlow /\ f \in Nat /\ f >= 1
      /\ packets'[k] = packets[k] + 1 /\ mass'[k] = mass[k] + f
      /\ \A j \in Keys \ {k} : packets'[j] = packets[j] /\ mass'[j] = mass[j]
      /\ Weighed'
  BY <1>1, <1>2, ReceivedCounts
<1>5. \A j \in Keys \cup {0} : LightQuery(j)' = LightQuery(j)
  BY <1>2 DEF LightQuery, lightVars
<1>6. i \in Lanes => /\ v \in 0 .. Word - 1
                     /\ Count(v) + f < HalfRange
                     /\ v \in Nat /\ Count(v) \in Nat
  <2> SUFFICES ASSUME i \in Lanes
               PROVE  /\ v \in 0 .. Word - 1
                      /\ Count(v) + f < HalfRange
                      /\ v \in Nat /\ Count(v) \in Nat
    OBVIOUS
  <2>1. v \in 0 .. Word - 1
    BY <1>3, Types
  <2>2. Count(v) + f < HalfRange
    <3> HIDE DEF i
    <3> QED BY <1>3, <1>4, Room
  <2> HIDE DEF v
  <2> QED
    BY <2>1, <2>2, CountWord, Assumptions
<1> HIDE DEF i
<1>7. i \in Lanes => /\ Add(v, f) = v + f
                     /\ Flagged(Add(v, f)) <=> Flagged(v)
                     /\ Count(Add(v, f)) = Count(v) + f
  BY <1>4, <1>6, CountAdd
<1>8. \A c \in Buckets, j \in Lanes :
        val'[c][j] = IF c = b /\ j = i THEN Add(v, f) ELSE val[c][j]
  <2>1. i \in 0 .. Slots
    BY <1>3, Assumptions
  <2>2. val \in [Buckets -> [0 .. Slots -> 0 .. Word - 1]]
    BY Types
  <2> QED
    BY <1>2, <1>3, <2>1, <2>2, Assumptions
<1>9. ASSUME NEW c \in Buckets, Empty(c) = {} PROVE Empty(c)' = {}
  <2>1. \A j \in Lanes : key'[c][j] = key[c][j]
    BY <1>2
  <2>2. CASE SIMD
    <3>1. \A j \in Lanes : Count(val[c][j]) # 0
      BY <1>9, <2>2 DEF Empty
    <3>2. \A j \in Lanes : Count(val'[c][j]) # 0
      BY <1>4, <1>6, <1>7, <1>8, <3>1
    <3> QED
      BY <2>2, <3>2 DEF Empty
  <2>3. CASE ~SIMD
    BY <1>9, <2>1, <2>3 DEF Empty
  <2> QED
    BY <2>2, <2>3
<1>10. Placed'
  <2>1. ASSUME NEW c \in Buckets, NEW j \in Lanes, key[c][j] = 0, 0 \in Keys
        PROVE  val'[c][j] <= mass'[0]
    <3>1. val[c][j] <= mass[0] /\ val[c][j] \in Nat /\ mass[0] \in Nat
      <4>1. val[c][j] <= mass[0]
        BY <1>1, <2>1 DEF Placed
      <4>2. val[c][j] \in 0 .. Word - 1 /\ mass[0] \in 0 .. MaxFlow
        BY <2>1, Types
      <4> QED
        BY <4>1, <4>2, Assumptions
    <3>2. CASE c = b /\ j = i
      BY <1>3, <1>4, <1>7, <1>8, <2>1, <3>1, <3>2
    <3>3. CASE ~(c = b /\ j = i)
      BY <1>4, <1>8, <2>1, <3>1, <3>3
    <3> QED
      BY <3>2, <3>3
  <2> QED
    BY <1>1, <1>2, <2>1 DEF Placed
<1>11. ASSUME NEW j \in Flows PROVE InsideOf(j)' /\ OutsideOf(j)'
  <2>1. InsideOf(j) /\ OutsideOf(j) /\ j \in Keys /\ BucketOf[j] \in Buckets
    BY <1>1, PerFlow, Assumptions DEF Flows
  <2>2. CASE j # k
    <3>1. packets'[j] = packets[j] /\ mass'[j] = mass[j]
      BY <1>4, <2>1, <2>2
    <3>2. LightQuery(j) <= LightQuery(j)'
      BY <1>5, <2>1, Types, Assumptions
    <3>3. \A n \in Lanes : key[BucketOf[j]][n] = j =>
                            val'[BucketOf[j]][n] = val[BucketOf[j]][n]
      BY <1>3, <1>8, <2>1, <2>2
    <3> QED
      BY <1>2, <1>9, <2>1, <3>1, <3>2, <3>3, Untouched
  <2>3. CASE j = k
    <3>1. i \in Lanes /\ key[b][i] # 0
      BY <1>3, <2>3 DEF Flows
    <3>2. Residence(k) = {i}
      BY <1>1, <1>3, <3>1, Located
    <3>3. Residence(k)' = {i}
      BY <1>2, <3>2 DEF Residence
    <3>4. /\ Count(v) \in 1 .. mass[k]
          /\ Flagged(v) => Covered(k, Count(v))
          /\ ~Flagged(v) => v = mass[k]
      BY <2>1, <2>3, <3>2 DEF InsideOf
    <3>5. LightQuery(k) \in Nat /\ mass[k] \in Nat /\ packets[k] \in Nat
      BY Types, Assumptions
    <3>6. val'[b][i] = Add(v, f)
      BY <1>3, <1>8, <3>1
    <3> HIDE DEF v
    <3>7. Flagged(v) => \/ LightQuery(k)' = LightMax
                        \/ Count(v) + f + LightQuery(k)' >= packets'[k]
      BY <1>4, <1>5, <1>6, <3>1, <3>4, <3>5 DEF Covered
    <3>8. InsideOf(k)'
      BY <1>4, <1>6, <1>7, <3>1, <3>3, <3>4, <3>5, <3>6, <3>7 DEF InsideOf, Covered
    <3>9. OutsideOf(k)'
      BY <3>3 DEF OutsideOf
    <3> QED
      BY <2>3, <3>8, <3>9
  <2> QED
    BY <2>2, <2>3
<1> QED
  <2>1. Inside' /\ Outside'
    BY <1>11 DEF Inside, Outside, InsideOf, OutsideOf
  <2> QED
    BY <1>4, <1>10, <2>1 DEF Accounting

\* A packet that votes and goes to the light part keeps them.
LEMMA RejectAccounts ==
  ASSUME ZeroKeyHandled, TypeOK, TypeOK', Accounting,
         NEW k \in Keys, NEW f \in Weights, Reject(k, f)
  PROVE  Accounting'
<1> DEFINE b == BucketOf[k]
<1>1. Placed /\ Inside /\ Outside /\ Weighed
  BY DEF Accounting
<1>2. /\ Received(k, f) /\ Matching(k) = {} /\ Empty(b) = {}
      /\ key' = key /\ val' = [val EXCEPT ![b][Guard] = Votes(b)]
      /\ LightInsert(k, 1)
  BY DEF Reject, HeavyReject, Contends
<1>3. k \in Flows /\ Residence(k) = {} /\ b \in Buckets
  BY <1>1, <1>2, Unmatched, Assumptions
<1>4. /\ packets'[k] = packets[k] + 1 /\ mass'[k] = mass[k] + f
      /\ \A j \in Keys \ {k} : packets'[j] = packets[j] /\ mass'[j] = mass[j]
      /\ Weighed'
  BY <1>1, <1>2, ReceivedCounts
<1>5. /\ LightQuery(k)' = Saturate(LightQuery(k) + 1)
      /\ \A j \in Keys \cup {0} : LightQuery(j) <= LightQuery(j)'
  BY <1>2, LightInsertGrows DEF TypeOK
<1>6. \A c \in Buckets, j \in Lanes : val'[c][j] = val[c][j]
  BY <1>2, Types, Assumptions
<1>7. \A c \in Buckets : Empty(c)' = Empty(c)
  BY <1>2, <1>6 DEF Empty
<1>8. Placed'
  <2>1. 0 \in Keys => mass[0] \in Nat /\ mass'[0] = mass[0]
    BY <1>3, <1>4, Types, Assumptions DEF Flows
  <2> QED
    BY <1>1, <1>2, <1>6, <2>1 DEF Placed
<1>9. ASSUME NEW j \in Flows PROVE InsideOf(j)' /\ OutsideOf(j)'
  <2>1. InsideOf(j) /\ OutsideOf(j) /\ j \in Keys /\ BucketOf[j] \in Buckets
    BY <1>1, PerFlow, Assumptions DEF Flows
  <2>2. CASE j # k
    <3>1. packets'[j] = packets[j] /\ mass'[j] = mass[j]
      BY <1>4, <2>1, <2>2
    <3>2. LightQuery(j) <= LightQuery(j)'
      BY <1>5, <2>1
    <3> QED
      BY <1>2, <1>6, <1>7, <2>1, <3>1, <3>2, Untouched
  <2>3. CASE j = k
    <3>1. Residence(k)' = {}
      BY <1>2, <1>3 DEF Residence
    <3>2. LightQuery(k) \in 0 .. LightMax /\ packets[k] \in Nat
      BY Types, Assumptions
    <3>3. LightQuery(k) = LightMax \/ LightQuery(k) >= packets[k]
      BY <1>3, <2>1, <2>3, <3>2, Assumptions DEF OutsideOf, Covered
    <3>4. LightQuery(k)' = LightMax \/ LightQuery(k)' = LightQuery(k) + 1
      BY <1>5, <3>2, SaturateByte, Assumptions
    <3>5. LightQuery(k) = LightMax => LightQuery(k)' = LightMax
      BY <1>5, <3>2, Assumptions DEF Saturate
    <3>6. LightQuery(k)' = LightMax \/ LightQuery(k)' >= packets'[k]
      BY <1>4, <3>2, <3>3, <3>4, <3>5
    <3>7. Covered(k, 0)'
      BY <3>2, <3>4, <3>6, Assumptions DEF Covered
    <3> QED
      BY <1>2, <1>3, <1>7, <2>3, <3>1, <3>7 DEF InsideOf, OutsideOf
  <2> QED
    BY <2>2, <2>3
<1> QED
  <2>1. Inside' /\ Outside'
    BY <1>9 DEF Inside, Outside, InsideOf, OutsideOf
  <2> QED
    BY <1>4, <1>8, <2>1 DEF Accounting

\* A free lane holds no flow.
LEMMA FreeLane ==
  ASSUME TypeOK, Placed, Inside, NEW b \in Buckets, NEW i \in Empty(b)
  PROVE  key[b][i] = 0
<1>1. i \in Lanes
  BY DEF Empty
<1>2. CASE key[b][i] # 0
  <2>1. /\ key[b][i] \in Flows /\ BucketOf[key[b][i]] = b
        /\ i \in Residence(key[b][i])
    BY <1>1, <1>2, Located
  <2>2. Count(val[b][i]) # 0
    BY <2>1 DEF Inside
  <2> QED
    BY <1>2, <2>2 DEF Empty
<1> QED
  BY <1>2

\* A packet that takes a free lane keeps them.
LEMMA FillAccounts ==
  ASSUME ZeroKeyHandled, TypeOK, TypeOK', Accounting,
         NEW k \in Keys, NEW f \in Weights, Fill(k, f)
  PROVE  Accounting'
<1> DEFINE b == BucketOf[k]
           i == Min(Empty(b))
<1>1. Placed /\ Inside /\ Outside /\ Weighed
  BY DEF Accounting
<1>2. /\ Received(k, f) /\ Matching(k) = {} /\ Empty(b) # {}
      /\ key' = [key EXCEPT ![b][i] = k] /\ val' = [val EXCEPT ![b][i] = f]
      /\ UNCHANGED lightVars
  BY DEF Fill, HeavyFill
<1>3. k \in Flows /\ Residence(k) = {} /\ b \in Buckets
  BY <1>1, <1>2, Unmatched, Assumptions
<1>4. i \in Lanes /\ i \in Empty(b)
  BY <1>2, <1>3, EmptyLane
<1> HIDE DEF i
<1>5. /\ mass[k] + f <= MaxFlow /\ f \in Nat /\ f >= 1
      /\ packets'[k] = packets[k] + 1 /\ mass'[k] = mass[k] + f
      /\ \A j \in Keys \ {k} : packets'[j] = packets[j] /\ mass'[j] = mass[j]
      /\ Weighed'
  BY <1>1, <1>2, ReceivedCounts
<1>6. \A j \in Keys \cup {0} : LightQuery(j)' = LightQuery(j)
  BY <1>2 DEF LightQuery, lightVars

\* The lane is free, so no flow sits in it; and k is new, for a flow that
\* was seen before is outside only when its bucket is full.
<1>7. key[b][i] = 0
  BY <1>1, <1>3, <1>4, FreeLane
<1>8. mass[k] = 0 /\ packets[k] \in Nat
  <2>1. mass[k] \in Nat /\ packets[k] \in Nat
    BY Types, Assumptions
  <2> QED
    BY <1>1, <1>2, <1>3, <2>1 DEF Outside
<1>9. /\ \A c \in Buckets, j \in Lanes :
           /\ key'[c][j] = IF c = b /\ j = i THEN k ELSE key[c][j]
           /\ val'[c][j] = IF c = b /\ j = i THEN f ELSE val[c][j]
      /\ \A c \in Buckets : key'[c][Guard] = key[c][Guard]
  <2>1. i \in 0 .. Slots /\ Guard \in 0 .. Slots /\ i # Guard
    BY <1>4, Assumptions
  <2> QED
    BY <1>2, <1>3, <2>1, Types, Assumptions
<1>10. /\ Count(f) = f /\ ~Flagged(f)
       /\ mass'[k] = f /\ f > 0
  BY <1>5, <1>8, Assumptions DEF Count, Flagged
<1>11. ASSUME NEW c \in Buckets, Empty(c) = {} PROVE Empty(c)' = {}
  <2>1. c # b
    BY <1>2, <1>11
  <2> QED
    BY <1>9, <1>11, <2>1 DEF Empty
<1>12. Placed'
  <2>1. ASSUME NEW c \in Buckets PROVE key'[c][Guard] = 0
    BY <1>1, <1>9 DEF Placed
  <2>2. ASSUME NEW c \in Buckets, NEW j \in Lanes, key'[c][j] # 0
        PROVE  /\ BucketOf[key'[c][j]] = c
               /\ \A n \in Lanes : key'[c][n] = key'[c][j] => n = j
    <3>1. \A n \in Lanes : key[b][n] # k
      BY <1>3 DEF Residence
    <3> QED
      BY <1>1, <1>9, <2>2, <3>1 DEF Placed
  <2>3. ASSUME NEW c \in Buckets, NEW j \in Lanes, key'[c][j] = 0, 0 \in Keys
        PROVE  val'[c][j] <= mass'[0]
    <3>1. k # 0
      BY <1>3 DEF Flows
    <3> QED
      BY <1>1, <1>5, <1>9, <2>3, <3>1 DEF Placed
  <2> QED
    BY <2>1, <2>2, <2>3 DEF Placed
<1>13. ASSUME NEW j \in Flows PROVE InsideOf(j)' /\ OutsideOf(j)'
  <2>1. InsideOf(j) /\ OutsideOf(j) /\ j \in Keys /\ BucketOf[j] \in Buckets
    BY <1>1, PerFlow, Assumptions DEF Flows
  <2>2. CASE j # k
    <3>1. packets'[j] = packets[j] /\ mass'[j] = mass[j]
      BY <1>5, <2>1, <2>2
    <3>2. LightQuery(j) <= LightQuery(j)'
      BY <1>6, <2>1, Types, Assumptions
    <3>3. \A n \in Lanes : /\ key'[BucketOf[j]][n] = j <=> key[BucketOf[j]][n] = j
                           /\ key[BucketOf[j]][n] = j =>
                                val'[BucketOf[j]][n] = val[BucketOf[j]][n]
      BY <1>7, <1>9, <2>1, <2>2 DEF Flows
    <3> QED
      BY <1>11, <2>1, <3>1, <3>2, <3>3, Untouched
  <2>3. CASE j = k
    <3>1. Residence(k)' = {i}
      BY <1>3, <1>4, <1>9 DEF Residence
    <3>2. val'[b][i] = f
      BY <1>3, <1>4, <1>9
    <3>3. InsideOf(k)'
      BY <1>5, <1>10, <3>1, <3>2 DEF InsideOf
    <3> QED
      BY <2>3, <3>1, <3>3 DEF OutsideOf
  <2> QED
    BY <2>2, <2>3
<1> QED
  <2>1. Inside' /\ Outside'
    BY <1>13 DEF Inside, Outside, InsideOf, OutsideOf
  <2> QED
    BY <1>5, <1>12, <2>1 DEF Accounting

\* What the light part covers of a displaced flow.
LEMMA HandOverCovers ==
  ASSUME LightTypeOK, NEW k \in Keys \cup {0}, NEW v \in 0 .. Word - 1,
         NEW n \in Nat, HandOver(k, v), LightQuery(k) \in 0 .. LightMax,
         LightQuery(k)' \in 0 .. LightMax,
         Flagged(v) => LightQuery(k) = LightMax \/ Count(v) + LightQuery(k) >= n,
         ~Flagged(v) => v >= n
  PROVE  LightQuery(k)' = LightMax \/ LightQuery(k)' >= n
<1>1. Count(v) \in Nat /\ v \in Nat /\ LightQuery(k) \in Nat
  BY CountWord, Assumptions
<1>2. CASE Flagged(v)
  <2>1. LightQuery(k)' = Saturate(LightQuery(k) + Count(v))
    BY <1>1, <1>2, LightInsertGrows DEF HandOver
  <2>2. LightQuery(k) + Count(v) \in Nat
    BY <1>1
  <2> QED
    BY <1>1, <1>2, <2>1, <2>2, Assumptions DEF Saturate
<1>3. CASE ~Flagged(v)
  <2>1. Saturate(v) <= LightQuery(k)'
    BY <1>1, <1>3, LightSwapInsertGrows DEF HandOver
  <2> QED
    BY <1>1, <1>3, <2>1, Assumptions DEF Saturate
<1> QED
  BY <1>2, <1>3

\* Handing a displaced flow over lowers no light counter.
LEMMA HandOverGrows ==
  ASSUME LightTypeOK, NEW w \in Keys \cup {0}, NEW v \in 0 .. Word - 1,
         HandOver(w, v)
  PROVE  \A j \in Keys \cup {0} : /\ LightQuery(j) <= LightQuery(j)'
                                  /\ LightQuery(j) \in Nat /\ LightQuery(j)' \in Nat
<1>1. Count(v) \in Nat /\ v \in Nat
  BY CountWord, Assumptions
<1>2. LightTypeOK'
  BY HandOverType
<1>3. \A j \in Keys \cup {0} : LightQuery(j) <= LightQuery(j)'
  <2>1. CASE Flagged(v)
    BY <1>1, <2>1, LightInsertGrows DEF HandOver
  <2>2. CASE ~Flagged(v)
    BY <1>1, <2>2, LightSwapInsertGrows DEF HandOver
  <2> QED
    BY <2>1, <2>2
<1> QED
  BY <1>2, <1>3, Assumptions DEF LightQuery, LightTypeOK

\* A packet that displaces a resident keeps them: the newcomer starts
\* flagged with one packet, the victim is covered by the light part.
LEMMA SwapAccounts ==
  ASSUME ZeroKeyHandled, TypeOK, TypeOK', Accounting,
         NEW k \in Keys, NEW f \in Weights, Swap(k, f)
  PROVE  Accounting'
<1> DEFINE b == BucketOf[k]
<1>1. Placed /\ Inside /\ Outside /\ Weighed
  BY DEF Accounting
<1>2. /\ Received(k, f) /\ Matching(k) = {} /\ Empty(b) = {}
      /\ key' = [key EXCEPT ![b][Victim(b)] = k]
      /\ val' = [val EXCEPT ![b][Guard] = 0, ![b][Victim(b)] = HalfRange + 1]
      /\ HandOver(key[b][Victim(b)], val[b][Victim(b)])
  BY DEF Swap, HeavySwap, Contends
<1>3. k \in Flows /\ Residence(k) = {} /\ b \in Buckets
  BY <1>1, <1>2, Unmatched, Assumptions
<1>4. PICK i \in Lanes : i = Victim(b)
  BY <1>3, VictimLane DEF TypeOK
<1>5. PICK w \in Keys \cup {0}, v \in 0 .. Word - 1 : w = key[b][i] /\ v = val[b][i]
  BY <1>3, Types
<1>6. /\ mass[k] + f <= MaxFlow /\ f \in Nat /\ f >= 1
      /\ packets'[k] = packets[k] + 1 /\ mass'[k] = mass[k] + f
      /\ \A j \in Keys \ {k} : packets'[j] = packets[j] /\ mass'[j] = mass[j]
      /\ Weighed'
  BY <1>1, <1>2, ReceivedCounts
<1>7. /\ \A c \in Buckets, j \in Lanes :
           /\ key'[c][j] = IF c = b /\ j = i THEN k ELSE key[c][j]
           /\ val'[c][j] = IF c = b /\ j = i THEN HalfRange + 1 ELSE val[c][j]
      /\ \A c \in Buckets : key'[c][Guard] = key[c][Guard]
  <2>1. i \in 0 .. Slots /\ Guard \in 0 .. Slots /\ i # Guard /\ Guard \notin Lanes
    BY Assumptions
  <2>2. /\ key \in [Buckets -> [0 .. Slots -> Keys \cup {0}]]
        /\ val \in [Buckets -> [0 .. Slots -> 0 .. Word - 1]]
    BY Types
  <2>3. ASSUME NEW c \in Buckets, NEW j \in 0 .. Slots
        PROVE  key'[c][j] = IF c = b /\ j = i THEN k ELSE key[c][j]
    BY <1>2, <1>3, <1>4, <2>1, <2>2
  <2>4. ASSUME NEW c \in Buckets, NEW j \in Lanes
        PROVE  val'[c][j] = IF c = b /\ j = i THEN HalfRange + 1 ELSE val[c][j]
    <3>1. j \in 0 .. Slots /\ j # Guard
      BY Assumptions
    <3>2. CASE c = b
      <4>1. val'[b] = [val[b] EXCEPT ![Guard] = 0, ![i] = HalfRange + 1]
        BY <1>2, <1>3, <1>4, <2>2
      <4> QED
        BY <1>3, <2>1, <2>2, <3>1, <3>2, <4>1
    <3>3. CASE c # b
      BY <1>2, <2>2, <3>3
    <3> QED
      BY <3>2, <3>3
  <2> QED
    BY <2>1, <2>3, <2>4, Assumptions
<1>8. Count(HalfRange + 1) = 1 /\ Flagged(HalfRange + 1)
  BY Assumptions DEF Count, Flagged

\* The displaced flow, if the victim's lane holds one.
<1>9. ASSUME w # 0
      PROVE  /\ w \in Flows /\ w # k /\ BucketOf[w] = b /\ Residence(w) = {i}
             /\ Count(v) \in 1 .. mass[w]
             /\ Flagged(v) => Covered(w, Count(v))
             /\ ~Flagged(v) => v = mass[w]
  <2>1. w \in Flows /\ BucketOf[w] = b /\ Residence(w) = {i}
    BY <1>1, <1>3, <1>5, <1>9, Located
  <2>2. w # k
    BY <1>3, <2>1
  <2> QED
    BY <1>1, <1>5, <2>1, <2>2 DEF Inside
<1>10. HandOver(w, v)
  BY <1>2, <1>4, <1>5
<1>11. \A j \in Keys : /\ LightQuery(j) \in 0 .. LightMax
                       /\ LightQuery(j)' \in 0 .. LightMax
                       /\ packets[j] \in Nat /\ mass[j] \in Nat
  <2>1. \A j \in Keys : PosOf[j] \in Positions
    BY Assumptions
  <2> QED
    BY <2>1, Types, Assumptions DEF LightQuery, TypeOK, LightTypeOK
<1>12. \A j \in Keys \cup {0} : LightQuery(j) <= LightQuery(j)'
  BY <1>10, HandOverGrows DEF TypeOK
<1>13. ASSUME NEW c \in Buckets, Empty(c) = {} PROVE Empty(c)' = {}
  <2>1. k # 0
    BY <1>3 DEF Flows
  <2> QED
    BY <1>7, <1>8, <1>13, <2>1 DEF Empty
<1>14. Placed'
  <2>1. ASSUME NEW c \in Buckets PROVE key'[c][Guard] = 0
    BY <1>1, <1>7 DEF Placed
  <2>2. ASSUME NEW c \in Buckets, NEW j \in Lanes, key'[c][j] # 0
        PROVE  /\ BucketOf[key'[c][j]] = c
               /\ \A n \in Lanes : key'[c][n] = key'[c][j] => n = j
    <3>1. \A n \in Lanes : key[b][n] # k
      BY <1>3 DEF Residence
    <3> QED
      BY <1>1, <1>7, <2>2, <3>1 DEF Placed
  <2>3. ASSUME NEW c \in Buckets, NEW j \in Lanes, key'[c][j] = 0, 0 \in Keys
        PROVE  val'[c][j] <= mass'[0]
    <3>1. k # 0
      BY <1>3 DEF Flows
    <3> QED
      BY <1>1, <1>6, <1>7, <2>3, <3>1 DEF Placed
  <2> QED
    BY <2>1, <2>2, <2>3 DEF Placed
<1>15. ASSUME NEW j \in Flows PROVE InsideOf(j)' /\ OutsideOf(j)'
  <2>1. InsideOf(j) /\ OutsideOf(j) /\ j \in Keys /\ BucketOf[j] \in Buckets
        /\ j # 0
    BY <1>1, PerFlow, Assumptions DEF Flows
  <2>2. CASE j # k /\ j # w
    <3>1. packets'[j] = packets[j] /\ mass'[j] = mass[j]
      BY <1>6, <2>1, <2>2
    <3>2. LightQuery(j) <= LightQuery(j)'
      BY <1>12, <2>1
    <3>3. \A n \in Lanes : /\ key'[BucketOf[j]][n] = j <=> key[BucketOf[j]][n] = j
                           /\ key[BucketOf[j]][n] = j =>
                                val'[BucketOf[j]][n] = val[BucketOf[j]][n]
      BY <1>5, <1>7, <2>1, <2>2
    <3> QED
      BY <1>13, <2>1, <3>1, <3>2, <3>3, Untouched
  <2>3. CASE j = k
    <3>1. Residence(k)' = {i}
      BY <1>3, <1>7 DEF Residence
    <3>2. val'[b][i] = HalfRange + 1
      BY <1>3, <1>7
    <3>3. LightQuery(k) = LightMax \/ LightQuery(k) >= packets[k]
      BY <1>3, <1>11, <2>1, <2>3 DEF OutsideOf, Covered
    <3>4. LightQuery(k)' = LightMax \/ 1 + LightQuery(k)' >= packets'[k]
      BY <1>6, <1>11, <1>12, <3>3, Assumptions
    <3>5. mass'[k] \in Nat /\ mass'[k] >= 1
      BY <1>6, <1>11
    <3>6. InsideOf(k)'
      BY <1>8, <3>1, <3>2, <3>4, <3>5 DEF InsideOf, Covered
    <3> QED
      BY <2>3, <3>1, <3>6 DEF OutsideOf
  <2>4. CASE j = w
    <3>1. Residence(w)' = {}
      BY <1>7, <1>9, <2>1, <2>4 DEF Residence
    <3>2. packets'[w] = packets[w]
      BY <1>6, <1>9, <2>1, <2>4
    <3>3. packets[w] <= mass[w]
      BY <1>1, <2>1, <2>4 DEF Weighed
    <3>4. LightQuery(w)' = LightMax \/ LightQuery(w)' >= packets[w]
      BY <1>9, <1>10, <1>11, <2>1, <2>4, <3>3, HandOverCovers DEF Covered, TypeOK
    <3>5. Empty(BucketOf[w])' = {}
      BY <1>2, <1>3, <1>9, <1>13, <2>1, <2>4
    <3>6. Covered(w, 0)'
      BY <1>11, <2>1, <2>4, <3>2, <3>4 DEF Covered
    <3> QED
      BY <2>4, <3>1, <3>5, <3>6 DEF InsideOf, OutsideOf
  <2> QED
    BY <2>2, <2>3, <2>4
<1> QED
  <2>1. Inside' /\ Outside'
    BY <1>15 DEF Inside, Outside, InsideOf, OutsideOf
  <2> QED
    BY <1>6, <1>14, <2>1 DEF Accounting

\* The sketch before the first packet and after clear.
Cleared ==
  /\ HeavyInit
  /\ packets = [k \in Keys |-> 0]
  /\ mass = [k \in Keys |-> 0]

\* A cleared sketch has nothing to account for.
LEMMA ClearedAccounts == TypeOK /\ Cleared => Accounting
<1> SUFFICES ASSUME TypeOK, Cleared PROVE Accounting
  OBVIOUS
<1>1. /\ \A b \in Buckets, i \in 0 .. Slots : key[b][i] = 0 /\ val[b][i] = 0
      /\ \A k \in Keys : packets[k] = 0 /\ mass[k] = 0
  BY DEF Cleared, HeavyInit
<1>2. Placed
  BY <1>1, Assumptions DEF Placed
<1>3. ASSUME NEW k \in Flows
      PROVE  /\ Residence(k) = {} /\ packets[k] = 0 /\ mass[k] = 0
             /\ LightQuery(k) \in Nat
  <2>1. k \in Keys /\ k # 0 /\ BucketOf[k] \in Buckets
    BY Assumptions DEF Flows
  <2>2. Residence(k) = {}
    BY <1>1, <2>1, Assumptions DEF Residence
  <2> QED
    BY <1>1, <2>1, <2>2, Types, Assumptions
<1>4. Inside /\ Outside /\ Weighed
  BY <1>1, <1>3 DEF Inside, Outside, Weighed, Covered
<1> QED
  BY <1>2, <1>4 DEF Accounting

\* The accounts depend on the variables only.
LEMMA StutterAccounts ==
  ASSUME Accounting, UNCHANGED vars
  PROVE  Accounting'
<1>1. Placed'
  BY DEF Accounting, Placed, vars, heavyVars, truthVars
<1>2. /\ \A k \in Flows : Residence(k)' = Residence(k)
      /\ \A b \in Buckets : Empty(b)' = Empty(b)
      /\ \A k \in Flows, n \in Nat : Covered(k, n)' = Covered(k, n)
  BY DEF Residence, Empty, Covered, LightQuery, vars, heavyVars, lightVars, truthVars
<1>3. Inside' /\ Outside' /\ Weighed'
  BY <1>2 DEF Accounting, Inside, Outside, Weighed, Residence, Empty, Covered,
     LightQuery, vars, heavyVars, lightVars, truthVars
<1> QED
  BY <1>1, <1>3 DEF Accounting

(***************************************************************************)
(* The inductive invariant: after any sequence of insert and clear, every  *)
(* packet is accounted for by a lane, a light counter or both.             *)
(***************************************************************************)
THEOREM AccountingHolds ==
  ASSUME ZeroKeyHandled
  PROVE  Spec => [](TypeOK /\ Accounting)
<1>1. Init => TypeOK /\ Accounting
  BY InitType, ClearedAccounts DEF Init, Cleared
<1>2. (TypeOK /\ Cleared => Accounting)'
  BY ClearedAccounts, PTL
<1>3. TypeOK /\ Accounting /\ TypeOK' /\ [Next]_vars => Accounting'
  <2> SUFFICES ASSUME TypeOK, Accounting, TypeOK', [Next]_vars PROVE Accounting'
    OBVIOUS
  <2>1. ASSUME NEW k \in Keys, NEW f \in Weights, Insert(k, f) PROVE Accounting'
    BY <2>1, MatchAccounts, FillAccounts, SwapAccounts, RejectAccounts DEF Insert
  <2>2. CASE Clear
    BY <1>2, <2>2 DEF Clear, HeavyClear, Cleared, HeavyInit
  <2>3. CASE UNCHANGED vars
    BY <2>3, StutterAccounts
  <2> QED
    BY <2>1, <2>2, <2>3 DEF Next
<1> QED
  BY <1>1, <1>3, TypeCorrect, PTL DEF Spec
-----------------------------------------------------------------------------
(***************************************************************************)
(* What Accounting means for the answers.                                  *)
(***************************************************************************)

\* query finds a resident's lane.
LEMMA QueryResident ==
  ASSUME TypeOK, Accounting, NEW k \in Flows, Residence(k) # {}
  PROVE  \E i \in Residence(k), v \in 0 .. Word - 1 :
           /\ v = val[BucketOf[k]][i] /\ HeavyQuery(k) = v /\ v # 0
           /\ Count(v) \in Nat
           /\ Flagged(v) => Covered(k, Count(v))
           /\ ~Flagged(v) => v = mass[k]
<1> DEFINE i == Min(Residence(k))
<1>1. Residence(k) \in SUBSET Nat /\ Residence(k) \subseteq Lanes
      /\ BucketOf[k] \in Buckets
  BY Assumptions DEF Residence, Flows
<1>2. i \in Residence(k) /\ i \in Lanes
  BY <1>1, Least
<1>3. HeavyQuery(k) = val[BucketOf[k]][i]
  BY DEF HeavyQuery
<1> HIDE DEF i
<1>4. PICK v \in 0 .. Word - 1 : v = val[BucketOf[k]][i]
  BY <1>1, <1>2, Types
<1>5. /\ Count(v) \in 1 .. mass[k]
      /\ Flagged(v) => Covered(k, Count(v))
      /\ ~Flagged(v) => v = mass[k]
  BY <1>2, <1>4 DEF Accounting, Inside
<1>6. v # 0
  BY <1>5, Assumptions DEF Count, Flagged
<1> QED
  BY <1>2, <1>3, <1>4, <1>5, <1>6

\* query covers the flow, wherever it is.
LEMMA QueryCovers ==
  ASSUME TypeOK, Accounting, NEW k \in Flows
  PROVE  /\ Query(k) \in Nat
         /\ Query(k) >= packets[k] \/ LightQuery(k) = LightMax
<1>1. /\ LightQuery(k) \in Nat /\ packets[k] \in Nat /\ mass[k] \in Nat
      /\ packets[k] <= mass[k]
  BY Types, Assumptions DEF Flows, Accounting, Weighed
<1>2. CASE Residence(k) = {}
  <2>1. LightQuery(k) = LightMax \/ LightQuery(k) >= packets[k]
    BY <1>1, <1>2 DEF Accounting, Outside, Covered
  <2>2. HeavyQuery(k) = 0 /\ Count(0) = 0
    BY <1>2, Assumptions DEF HeavyQuery, Count, Flagged
  <2> QED
    BY <1>1, <2>1, <2>2 DEF Query
<1>3. CASE Residence(k) # {}
  <2>1. PICK v \in 0 .. Word - 1 :
          /\ HeavyQuery(k) = v /\ v # 0 /\ Count(v) \in Nat
          /\ Flagged(v) => Covered(k, Count(v))
          /\ ~Flagged(v) => v = mass[k]
    BY <1>3, QueryResident
  <2> QED
    BY <1>1, <2>1 DEF Query, Covered
<1> QED
  BY <1>2, <1>3

(***************************************************************************)
(* The sketch's promise, for every table size, hash function, threshold    *)
(* factor and trace: query never returns less than the packets of a flow   *)
(* that were inserted, unless the flow's light counter is saturated.       *)
(***************************************************************************)
THEOREM NeverUnderestimates ==
  ASSUME ZeroKeyHandled
  PROVE  Spec => []NoUnderestimate
<1>1. TypeOK /\ Accounting => NoUnderestimate
  BY QueryCovers DEF NoUnderestimate
<1> QED
  BY <1>1, AccountingHolds, PTL

(***************************************************************************)
(* A resident flow whose flag is clear is counted exactly.                 *)
(***************************************************************************)
THEOREM UnflaggedIsExact ==
  ASSUME ZeroKeyHandled
  PROVE  Spec => []ExactWhenUnflagged
<1>1. TypeOK /\ Accounting => ExactWhenUnflagged
  <2> SUFFICES ASSUME TypeOK, Accounting, NEW k \in Flows,
                      HeavyQuery(k) # 0, ~Flagged(HeavyQuery(k))
               PROVE  Query(k) = mass[k]
    BY DEF ExactWhenUnflagged
  <2>1. Residence(k) # {}
    BY DEF HeavyQuery
  <2>2. HeavyQuery(k) = mass[k]
    BY <2>1, QueryResident
  <2> QED
    BY <2>2 DEF Query
<1> QED
  BY <1>1, AccountingHolds, PTL

(***************************************************************************)
(* get_heavy_hitters reports every resident flow that has reached the      *)
(* threshold and whose light counter is not saturated.                     *)
(***************************************************************************)
THEOREM ReportsEveryHeavyResident ==
  ASSUME ZeroKeyHandled
  PROVE  Spec => []HeavyHittersComplete
<1>1. TypeOK /\ Accounting => HeavyHittersComplete
  <2> SUFFICES ASSUME TypeOK, Accounting, NEW k \in Flows,
                      NEW threshold \in 1 .. MaxFlow,
                      Residence(k) # {}, packets[k] >= threshold,
                      LightQuery(k) # LightMax
               PROVE  \E l \in HeavyHitterLanes(threshold) : key[l[1]][l[2]] = k
    BY DEF HeavyHittersComplete
  <2>1. PICK i \in Lanes : key[BucketOf[k]][i] = k
    BY DEF Residence
  <2>2. BucketOf[k] \in Buckets
    BY Assumptions DEF Flows
  <2>3. Query(k) >= threshold
    <3>1. Query(k) >= packets[k] /\ packets[k] \in Nat /\ Query(k) \in Nat
      BY QueryCovers, Types DEF Flows
    <3> QED
      BY <3>1
  <2>4. <<BucketOf[k], i>> \in HeavyHitterLanes(threshold)
    BY <2>1, <2>2, <2>3 DEF HeavyHitterLanes, LaneSet
  <2> QED
    BY <2>1, <2>4
<1> QED
  BY <1>1, AccountingHolds, PTL

(***************************************************************************)
(* get_heavy_hitters reports no flow twice, whatever the threshold.        *)
(***************************************************************************)
THEOREM ReportsOnce ==
  ASSUME ZeroKeyHandled
  PROVE  Spec => []ReportedOnce
<1>1. TypeOK /\ Accounting => ReportedOnce
  <2> SUFFICES ASSUME TypeOK, Accounting, NEW k \in Flows,
                      NEW threshold \in 1 .. MaxFlow
               PROVE  Cardinality({l \in HeavyHitterLanes(threshold) :
                                     key[l[1]][l[2]] = k}) <= 1
    BY DEF ReportedOnce
  <2> DEFINE Here == {l \in HeavyHitterLanes(threshold) : key[l[1]][l[2]] = k}
  <2>1. ASSUME NEW l \in Here, NEW m \in Here PROVE l = m
    <3>1. /\ l = <<l[1], l[2]>> /\ l[1] \in Buckets /\ l[2] \in Lanes
          /\ m = <<m[1], m[2]>> /\ m[1] \in Buckets /\ m[2] \in Lanes
          /\ key[l[1]][l[2]] = k /\ key[m[1]][m[2]] = k
      BY DEF HeavyHitterLanes, LaneSet
    <3>2. k # 0
      BY DEF Flows
    <3>3. l[1] = BucketOf[k] /\ m[1] = BucketOf[k] /\ l[2] = m[2]
      BY <3>1, <3>2 DEF Accounting, Placed
    <3> QED
      BY <3>1, <3>3
  <2> HIDE DEF Here
  <2>2. Cardinality(Here) <= 1
    <3>1. CASE Here = {}
      BY <3>1, FS_EmptySet
    <3>2. CASE Here # {}
      <4>1. PICK l \in Here : TRUE
        BY <3>2
      <4>2. Here = {l}
        BY <2>1, <4>1
      <4>3. Cardinality(Here) = 1
        BY <4>2, FS_Singleton
      <4> QED
        BY <4>3
    <3> QED
      BY <3>1, <3>2
  <2> QED
    BY <2>2 DEF Here
<1> QED
  BY <1>1, AccountingHolds, PTL
-----------------------------------------------------------------------------
(***************************************************************************)
(* What an insertion does to the estimates.                                *)
(***************************************************************************)

\* The estimate of a flow outside the heavy part, and of one inside.
LEMMA QueryOutside ==
  TypeOK => \A j \in Flows : Residence(j) = {} => Query(j) = LightQuery(j)
<1> SUFFICES ASSUME TypeOK, NEW j \in Flows, Residence(j) = {}
             PROVE  Query(j) = LightQuery(j)
  OBVIOUS
<1>1. LightQuery(j) \in Nat
  BY Types, Assumptions DEF Flows
<1>2. HeavyQuery(j) = 0 /\ Count(0) = 0
  BY Assumptions DEF HeavyQuery, Count, Flagged
<1> QED
  BY <1>1, <1>2 DEF Query

LEMMA QueryInside ==
  TypeOK /\ Accounting =>
    \A j \in Flows : \A i \in Lanes :
      key[BucketOf[j]][i] = j =>
        LET v == val[BucketOf[j]][i]
        IN  /\ v \in 0 .. Word - 1
            /\ Query(j) = IF Flagged(v) THEN Count(v) + LightQuery(j) ELSE Count(v)
<1> SUFFICES ASSUME TypeOK, Accounting, NEW j \in Flows, NEW i \in Lanes,
                    key[BucketOf[j]][i] = j
             PROVE  LET v == val[BucketOf[j]][i]
                    IN  /\ v \in 0 .. Word - 1
                        /\ Query(j) = IF Flagged(v) THEN Count(v) + LightQuery(j) ELSE Count(v)
  OBVIOUS
<1> DEFINE v == val[BucketOf[j]][i]
<1>1. BucketOf[j] \in Buckets /\ j # 0
  BY Assumptions DEF Flows
<1>2. Residence(j) = {i} /\ v \in 0 .. Word - 1
  BY <1>1, Located, Types DEF Accounting
<1>3. \E w \in 0 .. Word - 1 : w = v /\ HeavyQuery(j) = w /\ w # 0
  BY <1>2, QueryResident
<1> HIDE DEF v
<1>4. ~Flagged(v) => v = Count(v)
  BY <1>2, CountWord
<1>5. Query(j) = IF Flagged(v) THEN Count(v) + LightQuery(j) ELSE Count(v)
  BY <1>3, <1>4 DEF Query
<1> QED
  BY <1>2, <1>5 DEF v

\* The same of the state after a step.
LEMMA QueryOutsideNext ==
  (TypeOK => \A j \in Flows : Residence(j) = {} => Query(j) = LightQuery(j))'
  BY QueryOutside, PTL

LEMMA QueryInsideNext ==
  (TypeOK /\ Accounting =>
     \A j \in Flows : \A i \in Lanes :
       key[BucketOf[j]][i] = j =>
         LET v == val[BucketOf[j]][i]
         IN  /\ v \in 0 .. Word - 1
             /\ Query(j) = IF Flagged(v) THEN Count(v) + LightQuery(j) ELSE Count(v))'
  BY QueryInside, PTL

\* A flow's estimate does not fall when its light counter and its lane do not
\* and it keeps its lane, stays outside, or enters with the flag.
LEMMA EstimateGrows ==
  ASSUME TypeOK, Accounting, TypeOK', Accounting', NEW j \in Flows,
         LightQuery(j) <= LightQuery(j)',
         \/ Residence(j) = {} /\ Residence(j)' = {}
         \/ /\ Residence(j) = {}
            /\ \E i \in Lanes : key'[BucketOf[j]][i] = j /\ Flagged(val'[BucketOf[j]][i])
         \/ \E i \in Lanes :
              LET v == val[BucketOf[j]][i]  w == val'[BucketOf[j]][i]
              IN  /\ key[BucketOf[j]][i] = j /\ key'[BucketOf[j]][i] = j
                  /\ Flagged(w) <=> Flagged(v)
                  /\ Count(v) <= Count(w)
  PROVE  Query(j)' >= Query(j)
<1>1. LightQuery(j) \in Nat /\ LightQuery(j)' \in Nat
  <2>1. PosOf[j] \in Positions
    BY Assumptions DEF Flows
  <2>2. counters[PosOf[j]] \in 0 .. LightMax /\ counters'[PosOf[j]] \in 0 .. LightMax
    BY <2>1 DEF TypeOK, LightTypeOK
  <2> QED
    BY <2>2, Assumptions DEF LightQuery
<1>4. CASE Residence(j) = {} /\ Residence(j)' = {}
  BY <1>4, QueryOutside, QueryOutsideNext
<1>5. CASE /\ Residence(j) = {}
           /\ \E i \in Lanes : key'[BucketOf[j]][i] = j /\ Flagged(val'[BucketOf[j]][i])
  <2>1. PICK i \in Lanes : key'[BucketOf[j]][i] = j /\ Flagged(val'[BucketOf[j]][i])
    BY <1>5
  <2> DEFINE w == val'[BucketOf[j]][i]
  <2>2. w \in 0 .. Word - 1 /\ Query(j)' = Count(w) + LightQuery(j)'
    BY <2>1, QueryInsideNext
  <2> HIDE DEF w
  <2>3. Count(w) \in Nat
    BY <2>2, CountWord, Assumptions
  <2>4. Query(j) = LightQuery(j)
    BY <1>5, QueryOutside
  <2> QED
    BY <1>1, <2>2, <2>3, <2>4
<1>6. CASE \E i \in Lanes :
              LET v == val[BucketOf[j]][i]  w == val'[BucketOf[j]][i]
              IN  /\ key[BucketOf[j]][i] = j /\ key'[BucketOf[j]][i] = j
                  /\ Flagged(w) <=> Flagged(v)
                  /\ Count(v) <= Count(w)
  <2>1. PICK i \in Lanes :
          LET v == val[BucketOf[j]][i]  w == val'[BucketOf[j]][i]
          IN  /\ key[BucketOf[j]][i] = j /\ key'[BucketOf[j]][i] = j
              /\ Flagged(w) <=> Flagged(v)
              /\ Count(v) <= Count(w)
    BY <1>6
  <2> DEFINE v == val[BucketOf[j]][i]  w == val'[BucketOf[j]][i]
  <2>2. /\ v \in 0 .. Word - 1 /\ w \in 0 .. Word - 1
        /\ Query(j) = IF Flagged(v) THEN Count(v) + LightQuery(j) ELSE Count(v)
        /\ Query(j)' = IF Flagged(w) THEN Count(w) + LightQuery(j)' ELSE Count(w)
    BY <2>1, QueryInside, QueryInsideNext
  <2>3. (Flagged(w) <=> Flagged(v)) /\ Count(v) <= Count(w)
    BY <2>1
  <2> HIDE DEF v, w
  <2>4. Count(v) \in Nat /\ Count(w) \in Nat
    BY <2>2, CountWord, Assumptions
  <2> QED
    BY <1>1, <2>2, <2>3, <2>4
<1> QED
  BY <1>4, <1>5, <1>6

\* Counting a packet in its lane lowers no estimate.
LEMMA MatchRaises ==
  ASSUME ZeroKeyHandled, TypeOK, Accounting, TypeOK', Accounting',
         NEW k \in Keys, NEW f \in Weights, Match(k, f), NEW j \in Flows
  PROVE  Query(j)' >= Query(j)
<1> DEFINE b == BucketOf[k]
           i == Min(Matching(k))
<1>1. /\ Received(k, f) /\ Matching(k) # {}
      /\ key' = key /\ val' = [val EXCEPT ![b][i] = Add(@, f)]
      /\ UNCHANGED lightVars
  BY DEF Match, HeavyMatch
<1>2. b \in Buckets /\ i \in Lanes \cup {Guard} /\ key[b][i] = k
  BY <1>1, MatchedLane, Assumptions DEF Accounting
<1>3. mass[k] + f <= MaxFlow /\ f \in Nat
  BY <1>1, ReceivedCounts DEF Accounting
<1> HIDE DEF i
<1>4. LightQuery(j) <= LightQuery(j)'
  <2>1. LightQuery(j) \in 0 .. LightMax
    BY Types DEF Flows
  <2>2. LightQuery(j)' = LightQuery(j)
    BY <1>1 DEF LightQuery, lightVars
  <2> QED
    BY <2>1, <2>2, Assumptions
<1>5. \A c \in Buckets, l \in Lanes :
        val'[c][l] = IF c = b /\ l = i THEN Add(val[c][l], f) ELSE val[c][l]
  <2>1. i \in 0 .. Slots
    BY <1>2, Assumptions
  <2>2. val \in [Buckets -> [0 .. Slots -> 0 .. Word - 1]]
    BY Types
  <2> QED
    BY <1>1, <1>2, <2>1, <2>2, Assumptions
<1>6. CASE Residence(j) = {}
  <2>1. Residence(j)' = {}
    BY <1>1, <1>6 DEF Residence
  <2> QED
    BY <1>4, <1>6, <2>1, EstimateGrows
<1>7. CASE Residence(j) # {}
  <2>1. PICK l \in Lanes : key[BucketOf[j]][l] = j
    BY <1>7 DEF Residence
  <2> DEFINE v == val[BucketOf[j]][l]  w == val'[BucketOf[j]][l]
  <2>2. BucketOf[j] \in Buckets /\ v \in 0 .. Word - 1
    BY Types, Assumptions DEF Flows
  <2>3. (Flagged(w) <=> Flagged(v)) /\ Count(v) <= Count(w)
    <3>1. CASE BucketOf[j] = b /\ l = i
      <4>1. key[b][l] = k /\ l \in Lanes /\ w = Add(v, f)
        BY <1>2, <1>5, <2>2, <3>1
      <4>2. Count(val[b][l]) + f < HalfRange
        BY <1>3, <4>1, Room
      <4>3. Count(v) + f < HalfRange
        BY <3>1, <4>2
      <4> HIDE DEF v, w
      <4>4. (Flagged(Add(v, f)) <=> Flagged(v)) /\ Count(Add(v, f)) = Count(v) + f
        BY <1>3, <2>2, <4>3, CountAdd
      <4>5. Count(v) \in Nat
        BY <2>2, CountWord, Assumptions
      <4> QED
        BY <1>3, <4>1, <4>4, <4>5
    <3>2. CASE ~(BucketOf[j] = b /\ l = i)
      <4>1. w = v
        BY <1>5, <2>2, <3>2
      <4> HIDE DEF v, w
      <4>2. Count(v) \in Nat
        BY <2>2, CountWord, Assumptions
      <4> QED
        BY <4>1, <4>2
    <3> QED
      BY <3>1, <3>2
  <2>4. key'[BucketOf[j]][l] = j
    BY <1>1, <2>1
  <2> QED
    BY <1>4, <2>1, <2>3, <2>4, EstimateGrows
<1> QED
  BY <1>6, <1>7

\* Nor does voting and going to the light part.
LEMMA RejectRaises ==
  ASSUME ZeroKeyHandled, TypeOK, Accounting, TypeOK', Accounting',
         NEW k \in Keys, NEW f \in Weights, Reject(k, f), NEW j \in Flows
  PROVE  Query(j)' >= Query(j)
<1> DEFINE b == BucketOf[k]
<1>1. /\ key' = key /\ val' = [val EXCEPT ![b][Guard] = Votes(b)]
      /\ LightInsert(k, 1)
  BY DEF Reject, HeavyReject
<1>2. LightQuery(j) <= LightQuery(j)'
  BY <1>1, LightInsertGrows, Assumptions DEF TypeOK, Flows
<1>3. \A c \in Buckets, l \in Lanes : val'[c][l] = val[c][l]
  BY <1>1, Types, Assumptions
<1>4. CASE Residence(j) = {}
  <2>1. Residence(j)' = {}
    BY <1>1, <1>4 DEF Residence
  <2> QED
    BY <1>2, <1>4, <2>1, EstimateGrows
<1>5. CASE Residence(j) # {}
  <2>1. PICK l \in Lanes : key[BucketOf[j]][l] = j
    BY <1>5 DEF Residence
  <2>2. BucketOf[j] \in Buckets
    BY Assumptions DEF Flows
  <2>3. val'[BucketOf[j]][l] = val[BucketOf[j]][l] /\ key'[BucketOf[j]][l] = j
    BY <1>1, <1>3, <2>1, <2>2
  <2>4. Count(val[BucketOf[j]][l]) \in Nat
    <3>1. val[BucketOf[j]][l] \in 0 .. Word - 1
      BY <2>2, Types
    <3> QED
      BY <3>1, CountWord, Assumptions
  <2> QED
    BY <1>2, <2>1, <2>3, <2>4, EstimateGrows
<1> QED
  BY <1>4, <1>5

\* Whoever takes a lane, the flows in the other lanes and those that stay
\* outside keep their estimates.
LEMMA BystandersKeep ==
  ASSUME TypeOK, Accounting, TypeOK', Accounting',
         NEW k \in Flows, NEW j \in Flows \ {k}, NEW i \in Lanes,
         key[BucketOf[k]][i] # j, LightQuery(j) <= LightQuery(j)',
         \A l \in Lanes : key'[BucketOf[j]][l] =
            IF BucketOf[j] = BucketOf[k] /\ l = i THEN k ELSE key[BucketOf[j]][l],
         \A l \in Lanes : ~(BucketOf[j] = BucketOf[k] /\ l = i) =>
            val'[BucketOf[j]][l] = val[BucketOf[j]][l]
  PROVE  Query(j)' >= Query(j)
<1>1. CASE Residence(j) = {}
  <2>1. Residence(j)' = {}
    BY <1>1 DEF Residence
  <2> QED
    BY <1>1, <2>1, EstimateGrows
<1>2. CASE Residence(j) # {}
  <2>1. PICK l \in Lanes : key[BucketOf[j]][l] = j
    BY <1>2 DEF Residence
  <2>2. ~(BucketOf[j] = BucketOf[k] /\ l = i)
    BY <2>1
  <2>3. val'[BucketOf[j]][l] = val[BucketOf[j]][l] /\ key'[BucketOf[j]][l] = j
    BY <2>1, <2>2
  <2>4. Count(val[BucketOf[j]][l]) \in Nat
    <3>1. BucketOf[j] \in Buckets
      BY Assumptions DEF Flows
    <3>2. val[BucketOf[j]][l] \in 0 .. Word - 1
      BY <3>1, Types
    <3> QED
      BY <3>2, CountWord, Assumptions
  <2> QED
    BY <2>1, <2>3, <2>4, EstimateGrows
<1> QED
  BY <1>1, <1>2

\* Taking a free lane.
LEMMA FillRaises ==
  ASSUME ZeroKeyHandled, TypeOK, Accounting, TypeOK', Accounting',
         NEW k \in Keys, NEW f \in Weights, Fill(k, f),
         NEW j \in Flows, packets[j] > 0
  PROVE  Query(j)' >= Query(j)
<1> DEFINE b == BucketOf[k]
           i == Min(Empty(b))
<1>1. Placed /\ Inside /\ Outside /\ Weighed
  BY DEF Accounting
<1>2. /\ Received(k, f) /\ Matching(k) = {} /\ Empty(b) # {}
      /\ key' = [key EXCEPT ![b][i] = k] /\ val' = [val EXCEPT ![b][i] = f]
      /\ UNCHANGED lightVars
  BY DEF Fill, HeavyFill
<1>3. k \in Flows /\ Residence(k) = {} /\ b \in Buckets
  BY <1>1, <1>2, Unmatched, Assumptions
<1>4. i \in Lanes /\ i \in Empty(b)
  BY <1>2, <1>3, EmptyLane
<1> HIDE DEF i
<1>5. key[b][i] = 0
  BY <1>1, <1>3, <1>4, FreeLane
<1>6. j # k
  <2>1. mass[k] \in Nat /\ packets[k] \in Nat /\ packets[k] <= mass[k]
    BY <1>1, Types, Assumptions DEF Weighed
  <2>2. mass[k] = 0
    BY <1>1, <1>2, <1>3, <2>1 DEF Outside
  <2> QED
    BY <2>1, <2>2
<1>7. LightQuery(j) <= LightQuery(j)'
  <2>1. LightQuery(j) \in 0 .. LightMax
    BY Types DEF Flows
  <2>2. LightQuery(j)' = LightQuery(j)
    BY <1>2 DEF LightQuery, lightVars
  <2> QED
    BY <2>1, <2>2, Assumptions
<1>8. \A c \in Buckets, l \in Lanes :
        /\ key'[c][l] = IF c = b /\ l = i THEN k ELSE key[c][l]
        /\ ~(c = b /\ l = i) => val'[c][l] = val[c][l]
  <2>1. i \in 0 .. Slots
    BY <1>4, Assumptions
  <2> QED
    BY <1>2, <1>3, <2>1, Types, Assumptions
<1> QED
  <2>1. BucketOf[j] \in Buckets /\ j \in Flows \ {k} /\ key[b][i] # j
    BY <1>5, <1>6, Assumptions DEF Flows
  <2> QED
    BY <1>3, <1>4, <1>7, <1>8, <2>1, BystandersKeep

\* Displacing a resident: the victim's estimate falls at most to what a
\* light counter can hold, the others' do not fall.
LEMMA SwapRaises ==
  ASSUME ZeroKeyHandled, TypeOK, Accounting, TypeOK', Accounting',
         NEW k \in Keys, NEW f \in Weights, Swap(k, f), NEW j \in Flows
  PROVE  Query(j)' >= Query(j) \/ LightQuery(j)' = LightMax
<1> DEFINE b == BucketOf[k]
<1>1. Placed /\ Inside /\ Outside /\ Weighed
  BY DEF Accounting
<1>2. /\ Received(k, f) /\ Matching(k) = {} /\ Empty(b) = {}
      /\ key' = [key EXCEPT ![b][Victim(b)] = k]
      /\ val' = [val EXCEPT ![b][Guard] = 0, ![b][Victim(b)] = HalfRange + 1]
      /\ HandOver(key[b][Victim(b)], val[b][Victim(b)])
  BY DEF Swap, HeavySwap, Contends
<1>3. k \in Flows /\ Residence(k) = {} /\ b \in Buckets
  BY <1>1, <1>2, Unmatched, Assumptions
<1>4. PICK i \in Lanes : i = Victim(b)
  BY <1>3, VictimLane DEF TypeOK
<1>5. PICK w \in Keys \cup {0}, v \in 0 .. Word - 1 : w = key[b][i] /\ v = val[b][i]
  BY <1>3, Types
<1>6. HandOver(w, v)
  BY <1>2, <1>4, <1>5
<1>7. Count(v) \in Nat /\ v \in Nat
  BY CountWord, Assumptions
<1>8. LightQuery(j) <= LightQuery(j)' /\ LightQuery(j) \in Nat /\ LightQuery(j)' \in Nat
  BY <1>6, HandOverGrows, Assumptions DEF TypeOK, Flows
<1>9. /\ \A c \in Buckets, l \in Lanes :
           /\ key'[c][l] = IF c = b /\ l = i THEN k ELSE key[c][l]
           /\ ~(c = b /\ l = i) => val'[c][l] = val[c][l]
      /\ val'[b][i] = HalfRange + 1
  <2>1. i \in 0 .. Slots /\ Guard \in 0 .. Slots /\ i # Guard /\ Guard \notin Lanes
        /\ Lanes \subseteq 0 .. Slots
    BY Assumptions
  <2>2. /\ key \in [Buckets -> [0 .. Slots -> Keys \cup {0}]]
        /\ val \in [Buckets -> [0 .. Slots -> 0 .. Word - 1]]
    BY Types
  <2> QED
    BY <1>2, <1>3, <1>4, <2>1, <2>2
<1>10. CASE j # k /\ j # w
  <2>1. BucketOf[j] \in Buckets /\ j \in Flows \ {k} /\ key[b][i] # j
    BY <1>5, <1>10, Assumptions DEF Flows
  <2> QED
    BY <1>3, <1>8, <1>9, <2>1, BystandersKeep
<1>11. CASE j = k
  <2>1. key'[BucketOf[j]][i] = j /\ Flagged(val'[BucketOf[j]][i])
    BY <1>3, <1>9, <1>11, Assumptions DEF Flagged
  <2> QED
    BY <1>3, <1>8, <1>11, <2>1, EstimateGrows
<1>12. CASE j # k /\ j = w
  <2>1. BucketOf[j] = b /\ Residence(j) = {i} /\ key[b][i] = j
    BY <1>1, <1>3, <1>5, <1>12, Located DEF Flows
  <2>2. Residence(j)' = {}
    BY <1>3, <1>9, <1>12, <2>1 DEF Residence
  <2>3. Query(j)' = LightQuery(j)'
    BY <2>2, QueryOutsideNext
  <2>4. Query(j) = IF Flagged(v) THEN Count(v) + LightQuery(j) ELSE Count(v)
    BY <1>5, <2>1, QueryInside
  <2>5. Flagged(v) => LightQuery(j)' = Saturate(LightQuery(j) + Count(v))
    BY <1>6, <1>7, <1>12, LightInsertGrows DEF HandOver, TypeOK
  <2>6. ~Flagged(v) => Saturate(v) <= LightQuery(j)' /\ v = Count(v)
    BY <1>6, <1>7, <1>12, LightSwapInsertGrows, CountWord DEF HandOver, TypeOK
  <2>7. LightQuery(j)' \in 0 .. LightMax
    BY Assumptions DEF TypeOK, LightTypeOK, LightQuery, Flows
  <2> QED
    BY <1>7, <1>8, <2>3, <2>4, <2>5, <2>6, <2>7, Assumptions DEF Saturate
<1> QED
  BY <1>10, <1>11, <1>12

(***************************************************************************)
(* An insertion never lowers the estimate of a flow already seen, except   *)
(* that a displaced flow keeps at most what a light counter can hold.      *)
(***************************************************************************)
THEOREM EstimatesGrow ==
  ASSUME ZeroKeyHandled
  PROVE  Spec => EstimateMonotone
<1>1. ASSUME TypeOK, Accounting, TypeOK', Accounting',
             NEW k \in Keys, NEW f \in Weights, Insert(k, f),
             NEW j \in Flows, packets[j] > 0
      PROVE  Query(j)' >= Query(j) \/ LightQuery(j)' = LightMax
  BY <1>1, MatchRaises, FillRaises, SwapRaises, RejectRaises DEF Insert
<1>2. TypeOK /\ Accounting /\ TypeOK' /\ Accounting' =>
        ((\E k \in Keys, f \in Weights : Insert(k, f)) =>
           \A j \in Flows :
             packets[j] > 0 => Query(j)' >= Query(j) \/ LightQuery(j)' = LightMax)
  BY <1>1
<1> QED
  BY <1>2, AccountingHolds, PTL DEF EstimateMonotone
-----------------------------------------------------------------------------
(***************************************************************************)
(* Compression.                                                            *)
(***************************************************************************)

\* A nonempty set of bounded naturals has a largest element, and Max is one.
LEMMA Greatest ==
  ASSUME NEW n \in Nat, NEW S \in SUBSET (0 .. n), S # {}
  PROVE  Max(S) \in S /\ \A j \in S : j <= Max(S)
<1> DEFINE T == {n - x : x \in S}
<1>1. T \in SUBSET Nat /\ T # {}
  <2>1. \A x \in S : x \in 0 .. n /\ n - x \in Nat
    OBVIOUS
  <2>2. T \subseteq Nat
    BY <2>1
  <2> QED
    BY <2>2
<1>2. Min(T) \in T /\ \A y \in T : Min(T) <= y
  <2> HIDE DEF T
  <2> QED
    BY <1>1, Least
<1>3. PICK x \in S : \A y \in S : n - x <= n - y
  BY <1>2
<1>4. \A y \in S : x >= y
  BY <1>3
<1>5. Max(S) \in S /\ \A y \in S : Max(S) >= y
  BY <1>4 DEF Max
<1> QED
  BY <1>5

\* A position's place in the compressed array, and its distance from there.
LEMMA Strides ==
  ASSUME NEW n \in Nat \ {0}, NEW ratio \in 1 .. n, NEW p \in 0 .. n - 1
  PROVE  LET w == n \div ratio
         IN  /\ w \in Nat \ {0}
             /\ p % w \in 0 .. w - 1
             /\ p >= p % w
             /\ (p - (p % w)) % w = 0
<1> DEFINE w == n \div ratio
<1>1. w \in Nat \ {0}
  OBVIOUS
<1> HIDE DEF w
<1>2. p \in Nat /\ p % w \in 0 .. w - 1 /\ p >= p % w
  BY <1>1
<1>3. p = w * (p \div w) + (p % w)
  BY <1>1, <1>2
<1>4. p \div w \in Nat
  BY <1>1, <1>2
<1>5. (w * (p \div w)) % w = 0
  <2> DEFINE q == p \div w
  <2> HIDE DEF q
  <2> SUFFICES (w * q) % w = 0
    BY DEF q
  <2> QED
    BY <1>1, <1>4 DEF q
<1>6. p - (p % w) = w * (p \div w)
  BY <1>1, <1>2, <1>3
<1> QED
  BY <1>1, <1>2, <1>5, <1>6 DEF w

\* A flow's compressed counter is no smaller than its counter.
LEMMA CompressedCovers ==
  ASSUME TypeOK, NEW k \in Keys, NEW ratio \in 1 .. CounterNum
  PROVE  /\ LightQueryCompressed(k, Compress(ratio), CompressWidth(ratio)) \in Nat
         /\ LightQuery(k) \in Nat
         /\ LightQuery(k) <= LightQueryCompressed(k, Compress(ratio), CompressWidth(ratio))
<1> DEFINE w == CompressWidth(ratio)
           p == PosOf[k]
           i == p % w
           J == {q \in Positions : q >= i /\ (q - i) % w = 0}
           S == {counters[q] : q \in J}
<1>1. p \in 0 .. CounterNum - 1 /\ p \in Positions /\ CounterNum \in Nat \ {0}
  BY LightAssumption DEF Positions
<1>2. p \in J /\ i \in 0 .. w - 1
  <2> HIDE DEF p
  <2> QED
    BY <1>1, Strides DEF CompressWidth
<1>3. \A q \in Positions : counters[q] \in 0 .. LightMax
  BY DEF TypeOK, LightTypeOK
<1> HIDE DEF p, w, i
<1>4. S \in SUBSET (0 .. LightMax) /\ counters[p] \in S
  BY <1>2, <1>3
<1>5. Max(S) \in S /\ counters[p] <= Max(S)
  <2> HIDE DEF S, J
  <2>1. LightMax \in Nat
    BY Assumptions
  <2> QED
    BY <1>4, <2>1, Greatest
<1>6. LightQueryCompressed(k, Compress(ratio), w) = Max(S)
  BY <1>2 DEF LightQueryCompressed, Compress, p, w, i
<1>7. Max(S) \in Nat /\ counters[p] \in Nat
  BY <1>1, <1>3, <1>4, <1>5, Assumptions
<1>8. LightQuery(k) = counters[p]
  BY DEF LightQuery, p
<1> HIDE DEF S, J
<1> QED
  BY <1>5, <1>6, <1>7, <1>8 DEF w

(***************************************************************************)
(* Compressing the light part lowers no estimate, whatever the ratio.      *)
(***************************************************************************)
THEOREM CompressionIsSafe == Spec => []CompressNeverLower
<1>1. TypeOK => CompressNeverLower
  <2> SUFFICES ASSUME TypeOK, NEW k \in Keys, NEW ratio \in 1 .. CounterNum
               PROVE  QueryCompressed(k, ratio) >= Query(k)
    BY DEF CompressNeverLower
  <2> DEFINE u == LightQueryCompressed(k, Compress(ratio), CompressWidth(ratio))
             v == HeavyQuery(k)
  <2>1. u \in Nat /\ LightQuery(k) \in Nat /\ LightQuery(k) <= u
    BY CompressedCovers
  <2>2. v \in 0 .. Word - 1
    <3>1. CASE Residence(k) = {}
      BY <3>1, Assumptions DEF HeavyQuery
    <3>2. CASE Residence(k) # {}
      <4>1. Residence(k) \in SUBSET Nat /\ Residence(k) \subseteq Lanes
        BY Assumptions DEF Residence
      <4>2. Min(Residence(k)) \in Lanes
        BY <3>2, <4>1, Least
      <4> QED
        BY <3>2, <4>2, Types, Assumptions DEF HeavyQuery
    <3> QED
      BY <3>1, <3>2
  <2> HIDE DEF u, v
  <2>3. Count(v) \in Nat /\ v \in Nat
    BY <2>2, CountWord, Assumptions
  <2>4. Query(k) = IF v = 0 \/ Flagged(v) THEN Count(v) + LightQuery(k) ELSE v
    BY DEF Query, v
  <2>5. QueryCompressed(k, ratio) = IF v = 0 \/ Flagged(v) THEN Count(v) + u ELSE v
    BY DEF QueryCompressed, u, v
  <2> QED
    BY <2>1, <2>3, <2>4, <2>5
<1> QED
  BY <1>1, TypeCorrect, PTL
-----------------------------------------------------------------------------
(***************************************************************************)
(* What es_simd checks under these names, for every value of the           *)
(* constants: the inductive invariant, the two promises of query, and the  *)
(* two of get_heavy_hitters.                                               *)
(***************************************************************************)
(***************************************************************************)
(* A query is never too low, and exact for a resident without the flag.    *)
(***************************************************************************)
THEOREM QueriesAreBounded ==
  ASSUME ZeroKeyHandled
  PROVE  Spec => []QueryBounds
<1>1. NoUnderestimate /\ ExactWhenUnflagged => QueryBounds
  BY DEF QueryBounds
<1> QED
  BY <1>1, NeverUnderestimates, UnflaggedIsExact, PTL

(***************************************************************************)
(* get_heavy_hitters reports every heavy resident, and none twice.         *)
(***************************************************************************)
THEOREM HittersAreReported ==
  ASSUME ZeroKeyHandled
  PROVE  Spec => []HittersReported
<1>1. ReportedOnce /\ HeavyHittersComplete => HittersReported
  BY DEF HittersReported
<1> QED
  BY <1>1, ReportsOnce, ReportsEveryHeavyResident, PTL
-----------------------------------------------------------------------------
(***************************************************************************)
(* The tasks.  Bookkeeping is inductive, and with Accounting it bounds     *)
(* what get_cardinality, get_entropy and the histogram report              *)
(* (TasksBounded).                                                         *)
(*                                                                         *)
(* A call of insert raises one light counter (of the packet's flow, or of  *)
(* the flow it displaces) and changes one lane.  RaisedTo and Balanced say *)
(* what the two have to do with each other for the sums to stay below the  *)
(* packets; there is one lemma for each way insert returns.                *)
(***************************************************************************)
-----------------------------------------------------------------------------
(***************************************************************************)
(* What is summed over.                                                    *)
(***************************************************************************)

\* What is summed over is finite.
LEMMA Finite ==
  /\ IsFiniteSet(Keys) /\ IsFiniteSet(LaneSet) /\ IsFiniteSet(Positions)
  /\ IsFiniteSet(1 .. LightMax)
  /\ \A S \in SUBSET Keys : IsFiniteSet(S)
<1>1. IsFiniteSet(Buckets) /\ IsFiniteSet(Lanes)
  BY HeavyAssumption, FS_Interval DEF Buckets, Lanes
<1>2. IsFiniteSet(LaneSet)
  BY <1>1, FS_Product DEF LaneSet
<1>3. IsFiniteSet(Positions) /\ IsFiniteSet(1 .. LightMax)
  BY LightAssumption, FS_Interval DEF Positions
<1> QED
  BY <1>2, <1>3, ParamAssumption, FS_Subset

\* What a lane counts for the flows in S.
Share(S, b, i) == IF key[b][i] \in S THEN Count(val[b][i]) ELSE 0

\* A lane's share is a count.
LEMMA ShareType ==
  ASSUME TypeOK, NEW S
  PROVE  \A b \in Buckets, i \in Lanes :
           Share(S, b, i) \in Nat /\ Count(val[b][i]) \in Nat
<1> SUFFICES ASSUME NEW b \in Buckets, NEW i \in Lanes
             PROVE  Share(S, b, i) \in Nat /\ Count(val[b][i]) \in Nat
  OBVIOUS
<1>1. val[b][i] \in 0 .. Word - 1
  BY Types
<1>2. Count(val[b][i]) \in Nat
  BY <1>1, CountWord, Assumptions
<1> QED
  BY <1>2 DEF Share

\* The same of the state after a step.
LEMMA ShareNext ==
  (TypeOK => \A S : \A b \in Buckets, i \in Lanes : Share(S, b, i) \in Nat)'
<1>1. TypeOK => \A S : \A b \in Buckets, i \in Lanes : Share(S, b, i) \in Nat
  BY ShareType
<1> QED
  BY <1>1, PTL

\* When at most one lane changes, what the lanes hold changes by its share.
LEMMA HeldChange ==
  ASSUME TypeOK, TypeOK', NEW b \in Buckets, NEW i \in Lanes,
         \A c \in Buckets, j \in Lanes :
           ~(c = b /\ j = i) => key'[c][j] = key[c][j] /\ val'[c][j] = val[c][j],
         NEW S
  PROVE  /\ Held(S) \in Int /\ Held(S)' \in Int
         /\ Held(S)' = Held(S) - Share(S, b, i) + Share(S, b, i)'
<1> DEFINE g == [l \in LaneSet |-> Share(S, l[1], l[2])]
           h == [l \in LaneSet |-> Share(S, l[1], l[2])']
<1>1. Held(S) = SumFunctionOnSet(g, LaneSet)
  BY DEF Held, Share
<1>2. Held(S)' = SumFunctionOnSet(h, LaneSet)
  BY DEF Held, Share
<1>3. \A l \in LaneSet : l[1] \in Buckets /\ l[2] \in Lanes /\ l = <<l[1], l[2]>>
  BY DEF LaneSet
<1>4. \A l \in LaneSet : g[l] \in Int
  BY <1>3, ShareType
<1>5. \A l \in LaneSet : h[l] \in Int
  <2>2. \A l \in LaneSet : Share(S, l[1], l[2])' \in Int
    BY <1>3, ShareNext
  <2> QED
    BY <2>2
<1>6. <<b, i>> \in LaneSet /\ g[<<b, i>>] = Share(S, b, i) /\ h[<<b, i>>] = Share(S, b, i)'
  BY DEF LaneSet
<1>7. \A l \in LaneSet \ {<<b, i>>} : h[l] = g[l]
  <2> SUFFICES ASSUME NEW l \in LaneSet \ {<<b, i>>} PROVE h[l] = g[l]
    OBVIOUS
  <2>1. l[1] \in Buckets /\ l[2] \in Lanes /\ ~(l[1] = b /\ l[2] = i)
    BY <1>3
  <2>2. Share(S, l[1], l[2])' = Share(S, l[1], l[2])
    BY <2>1 DEF Share
  <2> QED
    BY <2>2
<1> HIDE DEF g, h
<1>8. SumFunctionOnSet(h, LaneSet) = SumFunctionOnSet(g, LaneSet) - g[<<b, i>>] + h[<<b, i>>]
  <2>1. \A l \in LaneSet : g[l] \in Int /\ h[l] \in Int
    BY <1>4, <1>5
  <2>2. IsFiniteSet(LaneSet)
    BY Finite
  <2>3. PICK x \in LaneSet : x = <<b, i>>
    BY <1>6
  <2>4. \A l \in LaneSet \ {x} : h[l] = g[l]
    BY <1>7, <2>3
  <2>5. SumFunctionOnSet(h, LaneSet) = SumFunctionOnSet(g, LaneSet) - g[x] + h[x]
    BY ONLY <2>1, <2>2, <2>4, SumChange
  <2> QED
    BY <2>3, <2>5
<1>9. SumFunctionOnSet(g, LaneSet) \in Int /\ SumFunctionOnSet(h, LaneSet) \in Int
  BY <1>4, <1>5, Finite, SumType
<1> QED
  BY <1>1, <1>2, <1>6, <1>8, <1>9

\* A packet of k is a packet of every set of flows that k is in.
LEMMA MassChange ==
  ASSUME TypeOK, TypeOK', NEW k \in Keys, NEW f \in Weights,
         mass' = [mass EXCEPT ![k] = @ + f], NEW S, S \subseteq Keys
  PROVE  /\ SumFunctionOnSet(mass, S) \in Int
         /\ SumFunctionOnSet(mass', S) =
              SumFunctionOnSet(mass, S) + (IF k \in S THEN f ELSE 0)
<1>1. \A j \in S : mass[j] \in Int /\ mass'[j] \in Int
  <2>1. mass \in [Keys -> 0 .. MaxFlow] /\ mass' \in [Keys -> 0 .. MaxFlow]
    BY DEF TypeOK
  <2> QED
    BY <2>1
<1>2. \A j \in S : mass'[j] = IF j = k THEN mass[j] + f ELSE mass[j]
  BY DEF TypeOK
<1>3. IsFiniteSet(S)
  BY Finite
<1>4. f \in Int
  BY Assumptions
<1>5. Raised(mass, mass', S, k, f)
  BY ONLY <1>1, <1>2, <1>4 DEF Raised
<1> QED
  BY ONLY <1>3, <1>5, SumRaise

\* Multiplication distributes over a difference of one.
LEMMA OneMore ==
  ASSUME NEW v \in Int, NEW a \in Int
  PROVE  /\ v * (a + 1) = (v * a) + v /\ v * (a - 1) = (v * a) - v
         /\ v * a \in Int
  OBVIOUS

\* The positions whose value is in T.
Class(c, T) == {q \in Positions : c[q] \in T}

\* d is c but for the value at p.
Stored(c, d, p, byte) ==
  p \in Positions /\ \A q \in Positions : d[q] = IF q = p THEN byte ELSE c[q]

\* Storing a value moves its position from one class of values to another.
LEMMA ClassSizes ==
  ASSUME NEW p, NEW byte, NEW c, NEW d, Stored(c, d, p, byte), NEW T
  PROVE  /\ Cardinality(Class(c, T)) \in Nat
         /\ Cardinality(Class(d, T)) =
              Cardinality(Class(c, T)) + (IF byte \in T THEN 1 ELSE 0)
                                       - (IF c[p] \in T THEN 1 ELSE 0)
<1> DEFINE C == Class(c, T)
           D == Class(d, T)
<1>1. IsFiniteSet(C) /\ Cardinality(C) \in Nat
  BY Finite, FS_Subset, FS_CardinalityType DEF Class
<1>2. CASE byte \in T /\ c[p] \notin T
  <2>1. D = C \cup {p} /\ p \notin C
    BY <1>2 DEF Class, Stored
  <2> HIDE DEF C, D
  <2>2. Cardinality(D) = Cardinality(C) + 1
    BY <1>1, <2>1, FS_AddElement
  <2> QED
    BY <1>1, <1>2, <2>2 DEF C, D
<1>3. CASE byte \notin T /\ c[p] \in T
  <2>1. D = C \ {p} /\ p \in C
    BY <1>3 DEF Class, Stored
  <2> HIDE DEF C, D
  <2>2. Cardinality(D) = Cardinality(C) - 1
    BY <1>1, <2>1, FS_RemoveElement
  <2> QED
    BY <1>1, <1>3, <2>2 DEF C, D
<1>4. CASE byte \in T <=> c[p] \in T
  <2>1. D = C
    BY <1>4 DEF Class, Stored
  <2> HIDE DEF C, D
  <2>2. Cardinality(D) =
          Cardinality(C) + (IF byte \in T THEN 1 ELSE 0) - (IF c[p] \in T THEN 1 ELSE 0)
    BY ONLY <1>1, <1>4, <2>1
  <2> QED
    BY ONLY <1>1, <2>2 DEF C, D
<1> QED
  BY <1>2, <1>3, <1>4

\* What storing a byte does to the histogram's counts.
LEMMA StoreBooks ==
  ASSUME LightTypeOK, LightTypeOK', NEW p \in Positions, NEW byte \in 0 .. LightMax,
         Store(p, byte)
  PROVE  /\ MiceTotal \in Int /\ MiceTotal' = MiceTotal - counters[p] + byte
         /\ MiceCounted => MiceCounted'
         /\ MiceDistConsistent => MiceDistConsistent'
<1> DEFINE old == counters[p]
<1>1. /\ old \in 0 .. LightMax /\ LightMax \in Nat
      /\ counters' = [counters EXCEPT ![p] = byte]
      /\ mice_dist' = Recount(mice_dist, old, byte)
  BY Assumptions DEF Store, LightTypeOK
<1>2. \A q \in Positions : counters'[q] = IF q = p THEN byte ELSE counters[q]
  BY <1>1 DEF LightTypeOK
<1>3. \A v \in 0 .. LightMax :
        /\ mice_dist[v] \in Int /\ mice_dist'[v] \in Int
        /\ mice_dist'[v] =
             mice_dist[v] + (IF v = byte THEN 1 ELSE 0) - (IF v = old THEN 1 ELSE 0)
  <2>1. CASE old = byte
    BY <1>1, <2>1 DEF LightTypeOK, Recount
  <2>2. CASE old # byte
    <3>1. mice_dist' = [mice_dist EXCEPT ![old] = @ - 1, ![byte] = @ + 1]
      BY <1>1, <2>2 DEF Recount
    <3>2. mice_dist \in [0 .. LightMax -> Int]
      BY DEF LightTypeOK
    <3> HIDE DEF old
    <3> QED
      BY <1>1, <2>2, <3>1, <3>2
  <2> QED
    BY <2>1, <2>2
<1>4. /\ \A v \in 1 .. LightMax : mice_dist[v] \in Int
      /\ \A v \in 1 .. LightMax : mice_dist'[v] =
             mice_dist[v] + (IF v = byte THEN 1 ELSE 0) - (IF v = old THEN 1 ELSE 0)
  BY <1>1, <1>3
<1> HIDE DEF old
<1>5. IsFiniteSet(1 .. LightMax) /\ byte \in Int /\ old \in Int
      /\ (byte \in 1 .. LightMax <=> byte # 0) /\ (old \in 1 .. LightMax <=> old # 0)
  BY <1>1, Finite
<1>6. /\ MiceCard \in Int
      /\ MiceCard' = MiceCard + (IF byte = 0 THEN 0 ELSE 1) - (IF old = 0 THEN 0 ELSE 1)
  <2>1. 1 \in Int /\ IsFiniteSet(1 .. LightMax)
    BY <1>5
  <2>2. /\ SumFunctionOnSet(mice_dist, 1 .. LightMax) \in Int
        /\ SumFunctionOnSet(mice_dist', 1 .. LightMax) =
             SumFunctionOnSet(mice_dist, 1 .. LightMax)
               + (IF byte \in 1 .. LightMax THEN 1 ELSE 0)
               - (IF old \in 1 .. LightMax THEN 1 ELSE 0)
    <3>1. Moved(mice_dist, mice_dist', 1 .. LightMax, byte, 1, old, 1)
      BY <1>4 DEF Moved
    <3> QED
      BY ONLY <2>1, <3>1, SumMove
  <2> QED
    BY <1>5, <2>2 DEF MiceCard
<1>7. /\ MiceTotal \in Int
      /\ MiceTotal' = MiceTotal + byte - old
  <2> DEFINE x == [v \in 1 .. LightMax |-> v * mice_dist[v]]
             y == [v \in 1 .. LightMax |-> v * mice_dist'[v]]
  <2>1. MiceTotal = SumFunctionOnSet(x, 1 .. LightMax)
        /\ MiceTotal' = SumFunctionOnSet(y, 1 .. LightMax)
    BY DEF MiceTotal
  <2>2. ASSUME NEW v \in 1 .. LightMax
        PROVE  /\ x[v] \in Int
               /\ y[v] = x[v] + (IF v = byte THEN byte ELSE 0) - (IF v = old THEN old ELSE 0)
    <3>1. mice_dist[v] \in Int /\ v \in Int
      BY <1>4
    <3>2. x[v] = v * mice_dist[v] /\ y[v] = v * mice_dist'[v] /\ x[v] \in Int
      BY <3>1, OneMore
    <3> HIDE DEF x, y
    <3>3. CASE (v = byte) <=> (v = old)
      <4>1. mice_dist'[v] = mice_dist[v]
        BY <1>4, <3>1, <3>3
      <4>2. y[v] = x[v]
        BY ONLY <3>2, <4>1, Zenon
      <4> QED
        BY <1>5, <3>2, <3>3, <4>2
    <3>4. CASE v = byte /\ v # old
      <4>1. mice_dist'[v] = mice_dist[v] + 1
        BY <1>4, <3>1, <3>4
      <4>2. y[v] = x[v] + v
        BY <3>1, <3>2, <4>1, OneMore
      <4> QED
        BY <3>1, <3>2, <3>4, <4>2
    <3>5. CASE v # byte /\ v = old
      <4>1. mice_dist'[v] = mice_dist[v] - 1
        BY <1>4, <3>1, <3>5
      <4>2. y[v] = x[v] - v
        BY <3>1, <3>2, <4>1, OneMore
      <4> QED
        BY <3>1, <3>2, <3>5, <4>2
    <3> QED
      BY <3>3, <3>4, <3>5
  <2> HIDE DEF x, y
  <2>3. /\ SumFunctionOnSet(x, 1 .. LightMax) \in Int
        /\ SumFunctionOnSet(y, 1 .. LightMax) =
             SumFunctionOnSet(x, 1 .. LightMax)
               + (IF byte \in 1 .. LightMax THEN byte ELSE 0)
               - (IF old \in 1 .. LightMax THEN old ELSE 0)
    <3>1. \A v \in 1 .. LightMax :
            y[v] = x[v] + (IF v = byte THEN byte ELSE 0) - (IF v = old THEN old ELSE 0)
      BY <2>2
    <3>2. \A v \in 1 .. LightMax : x[v] \in Int
      BY <2>2
    <3>3. IsFiniteSet(1 .. LightMax)
      BY <1>5
    <3>4. byte \in Int /\ old \in Int
      BY <1>5
    <3>5. Moved(x, y, 1 .. LightMax, byte, byte, old, old)
      BY ONLY <3>1, <3>2, <3>4 DEF Moved
    <3> QED
      BY ONLY <3>3, <3>5, SumMove
  <2> QED
    BY <1>5, <2>1, <2>3
<1>8. MiceTotal' = MiceTotal - counters[p] + byte
  BY ONLY <1>5, <1>7 DEF old
<1>9. \A T : /\ Cardinality(Class(counters, T)) \in Nat
             /\ Cardinality(Class(counters', T)) =
                  Cardinality(Class(counters, T)) + (IF byte \in T THEN 1 ELSE 0)
                                                  - (IF old \in T THEN 1 ELSE 0)
  <2>1. Stored(counters, counters', p, byte)
    BY <1>2 DEF Stored
  <2> QED
    BY <2>1, ClassSizes DEF old
<1>10. MiceCounted => MiceCounted'
  <2> DEFINE T == 1 .. LightMax
  <2>1. /\ {q \in Positions : counters[q] # 0} = Class(counters, T)
        /\ {q \in Positions : counters'[q] # 0} = Class(counters', T)
    BY DEF Class, LightTypeOK
  <2>2. (byte \in T <=> byte # 0) /\ (old \in T <=> old # 0)
    BY <1>1
  <2> HIDE DEF T
  <2> QED
    BY <1>6, <1>9, <2>1, <2>2 DEF MiceCounted
<1>11. MiceDistConsistent => MiceDistConsistent'
  <2> SUFFICES ASSUME MiceDistConsistent, NEW v \in 0 .. LightMax
               PROVE  mice_dist'[v] =
                        Cardinality({q \in Positions : counters'[q] = v})
                          - (IF v = 0 THEN CounterNum ELSE 0)
    BY DEF MiceDistConsistent
  <2>1. /\ {q \in Positions : counters[q] = v} = Class(counters, {v})
        /\ {q \in Positions : counters'[q] = v} = Class(counters', {v})
    BY DEF Class
  <2>2. PICK n \in Nat : n = Cardinality(Class(counters, {v}))
    BY <1>9
  <2>3. Cardinality(Class(counters', {v})) =
          n + (IF v = byte THEN 1 ELSE 0) - (IF v = old THEN 1 ELSE 0)
    BY <1>9, <2>2
  <2>4. CounterNum \in Nat
    BY LightAssumption
  <2>5. mice_dist[v] = n - (IF v = 0 THEN CounterNum ELSE 0)
    BY <2>1, <2>2 DEF MiceDistConsistent
  <2>6. mice_dist'[v] = mice_dist[v] + (IF v = byte THEN 1 ELSE 0) - (IF v = old THEN 1 ELSE 0)
    BY <1>3
  <2>7. mice_dist'[v] = Cardinality(Class(counters', {v})) - (IF v = 0 THEN CounterNum ELSE 0)
    BY ONLY <2>2, <2>3, <2>4, <2>5, <2>6
  <2> QED
    BY <2>1, <2>7
<1> QED
  BY <1>7, <1>8, <1>10, <1>11

\* x's counter is set to a byte no smaller, at most d more.
RaisedTo(x, byte, d) ==
  /\ byte \in 0 .. LightMax
  /\ Store(PosOf[x], byte)
  /\ counters[PosOf[x]] <= byte /\ byte <= counters[PosOf[x]] + d

\* What insert and swap_insert do to their key's counter.
LEMMA InsertStores ==
  ASSUME LightTypeOK, NEW x \in Keys \cup {0}, NEW f \in Nat, LightInsert(x, f)
  PROVE  \E byte : RaisedTo(x, byte, f)
<1> DEFINE c == counters[PosOf[x]]
           byte == Saturate(c + f)
<1>1. c \in 0 .. LightMax /\ c \in Nat /\ LightMax \in Nat
  BY Assumptions DEF LightTypeOK
<1>2. Store(PosOf[x], byte)
  BY DEF LightInsert
<1> HIDE DEF c
<1>3. byte \in 0 .. LightMax /\ c <= byte /\ byte <= c + f
  BY <1>1 DEF Saturate
<1> HIDE DEF byte
<1> QED
  BY <1>2, <1>3 DEF RaisedTo, c

LEMMA SwapInsertStores ==
  ASSUME LightTypeOK, NEW x \in Keys \cup {0}, NEW f \in Nat, LightSwapInsert(x, f)
  PROVE  \E byte : RaisedTo(x, byte, f)
<1> DEFINE c == counters[PosOf[x]]
           byte == IF c < Saturate(f) THEN Saturate(f) ELSE c
<1>1. /\ c \in 0 .. LightMax /\ c \in Nat /\ LightMax \in Nat /\ PosOf[x] \in Positions
      /\ counters \in [Positions -> 0 .. LightMax]
  BY Assumptions DEF LightTypeOK
<1>2. Store(PosOf[x], byte)
  <2>1. CASE c < Saturate(f)
    BY <2>1 DEF LightSwapInsert
  <2>2. CASE ~(c < Saturate(f))
    BY <1>1, <2>2 DEF LightSwapInsert, Store, Recount, lightVars
  <2> QED
    BY <2>1, <2>2
<1> HIDE DEF c
<1>3. byte \in 0 .. LightMax /\ c <= byte /\ byte <= c + f
  BY <1>1 DEF Saturate
<1> HIDE DEF byte
<1> QED
  BY <1>2, <1>3 DEF RaisedTo, c

\* Handing a displaced flow over raises its counter by at most its count.
LEMMA HandOverStores ==
  ASSUME LightTypeOK, NEW w \in Keys \cup {0}, NEW v \in 0 .. Word - 1, HandOver(w, v)
  PROVE  \E byte : RaisedTo(w, byte, Count(v))
<1>1. Count(v) \in Nat /\ (~Flagged(v) => Count(v) = v)
  BY CountWord, Assumptions
<1>2. CASE Flagged(v)
  BY <1>1, <1>2, InsertStores DEF HandOver
<1>3. CASE ~Flagged(v)
  BY <1>1, <1>3, SwapInsertStores DEF HandOver
<1> QED
  BY <1>2, <1>3

\* Leaving the light part alone is storing what is there.
LEMMA NothingStored ==
  ASSUME LightTypeOK, NEW x \in Keys \cup {0}, UNCHANGED lightVars
  PROVE  RaisedTo(x, counters[PosOf[x]], 0)
<1>1. /\ PosOf[x] \in Positions /\ counters \in [Positions -> 0 .. LightMax]
      /\ counters[PosOf[x]] \in 0 .. LightMax /\ LightMax \in Nat
  BY Assumptions DEF LightTypeOK
<1>2. Store(PosOf[x], counters[PosOf[x]])
  BY <1>1 DEF Store, Recount, lightVars
<1> QED
  BY <1>1, <1>2 DEF RaisedTo

\* The histogram follows.
LEMMA HistogramFollows ==
  ASSUME LightTypeOK, LightTypeOK', NEW x \in Keys \cup {0}, NEW byte, NEW d,
         RaisedTo(x, byte, d)
  PROVE  /\ MiceTotal \in Int
         /\ MiceTotal' = MiceTotal - counters[PosOf[x]] + byte
         /\ MiceCounted => MiceCounted'
         /\ MiceDistConsistent => MiceDistConsistent'
<1>1. PosOf[x] \in Positions /\ byte \in 0 .. LightMax /\ Store(PosOf[x], byte)
  BY Assumptions DEF RaisedTo
<1> QED
  BY <1>1, StoreBooks

\* What is added to the light part for x and to the lanes is no more than the
\* packet of k weighs, whichever flows are looked at.
Balanced(x, byte, k, f) ==
  \A S : /\ Held(S) \in Int /\ Held(S)' \in Int
         /\ Held(S)' + (IF x \in S THEN byte - counters[PosOf[x]] ELSE 0)
              <= Held(S) + (IF k \in S THEN f ELSE 0)

LEMMA Conserves ==
  ASSUME TypeOK, TypeOK', NEW k \in Keys, NEW f \in Weights, Received(k, f),
         NEW x \in Keys \cup {0}, NEW byte, NEW d,
         RaisedTo(x, byte, d), Balanced(x, byte, k, f),
         LightConservation, EntropyBounded
  PROVE  LightConservation' /\ EntropyBounded'
<1> DEFINE p == PosOf[x]
           old == counters[p]
           M(S) == SumFunctionOnSet(mass, S)
           N(S) == SumFunctionOnSet(mass', S)
<1>1. /\ p \in Positions /\ old \in Int /\ byte \in Int /\ f \in Int
      /\ \A q \in Positions : counters[q] \in Int
      /\ \A q \in Positions : counters'[q] = IF q = p THEN byte ELSE counters[q]
  <2>1. p \in Positions /\ byte \in 0 .. LightMax /\ counters' = [counters EXCEPT ![p] = byte]
    BY Assumptions DEF RaisedTo, Store
  <2>2. counters \in [Positions -> 0 .. LightMax]
    BY DEF TypeOK, LightTypeOK
  <2> QED
    BY <2>1, <2>2, Assumptions
<1>2. \A S : S \subseteq Keys =>
        M(S) \in Int /\ N(S) = M(S) + (IF k \in S THEN f ELSE 0)
  <2>1. mass' = [mass EXCEPT ![k] = @ + f]
    BY DEF Received
  <2> QED
    BY <2>1, MassChange
<1>3. \A S : /\ Held(S) \in Int /\ Held(S)' \in Int
             /\ Held(S)' + (IF x \in S THEN byte - old ELSE 0)
                  <= Held(S) + (IF k \in S THEN f ELSE 0)
  BY DEF Balanced
<1> HIDE DEF old
<1>4. ASSUME NEW q \in Positions
      PROVE  counters'[q] + Held(Sharing(q))' <= N(Sharing(q) \cap Keys)
  <2> DEFINE S == Sharing(q)
  <2>1. counters[q] + Held(S) <= M(S \cap Keys)
    BY DEF LightConservation
  <2>2. x \in S <=> q = p
    BY DEF Sharing
  <2>3. k \in S <=> k \in S \cap Keys
    OBVIOUS
  <2>4. counters'[q] = counters[q] + (IF x \in S THEN byte - old ELSE 0)
    BY <1>1, <2>2 DEF old
  <2>5. /\ M(S \cap Keys) \in Int
        /\ N(S \cap Keys) = M(S \cap Keys) + (IF k \in S THEN f ELSE 0)
    BY <1>2, <2>3
  <2>6. /\ Held(S) \in Int /\ Held(S)' \in Int
        /\ Held(S)' + (IF x \in S THEN byte - old ELSE 0)
             <= Held(S) + (IF k \in S THEN f ELSE 0)
    BY <1>3
  <2>7. counters[q] \in Int
    BY <1>1
  <2> HIDE DEF S, M, N
  <2>8. counters'[q] + Held(S)' <= N(S \cap Keys)
    BY ONLY <1>1, <2>1, <2>4, <2>5, <2>6, <2>7
  <2> QED
    BY <2>8 DEF S
<1>5. LightConservation'
  BY <1>4 DEF LightConservation, Sharing
<1>6. EntropyBounded'
  <2> DEFINE S == Keys \cup {0}
  <2>1. MiceTotal + Held(S) <= M(Keys)
    BY DEF EntropyBounded, EntropyTotal
  <2>2. MiceTotal \in Int /\ MiceTotal' = MiceTotal - old + byte
    BY HistogramFollows DEF TypeOK, old
  <2>3. M(Keys) \in Int /\ N(Keys) = M(Keys) + f
    BY <1>2
  <2>4. Held(S) \in Int /\ Held(S)' \in Int /\ Held(S)' + byte - old <= Held(S) + f
    BY <1>1, <1>3
  <2> HIDE DEF S, M, N
  <2>5. MiceTotal' + Held(S)' <= N(Keys)
    BY ONLY <1>1, <2>1, <2>2, <2>3, <2>4
  <2> QED
    BY <2>5 DEF EntropyBounded, EntropyTotal, S, N
<1> QED
  BY <1>5, <1>6

\* Nothing but the packet's flow changes in the history.
LEMMA CameAgain ==
  ASSUME TypeOK, Came, NEW k \in Keys, NEW f \in Weights, Received(k, f)
  PROVE  /\ Came'
         /\ \A j \in Keys : packets[j] > 0 => packets'[j] > 0
         /\ packets'[k] > 0
<1>1. /\ packets \in [Keys -> Nat]
      /\ packets' = [packets EXCEPT ![k] = @ + 1] /\ mass' = [mass EXCEPT ![k] = @ + f]
      /\ mass \in [Keys -> 0 .. MaxFlow]
  BY DEF Received, TypeOK
<1>2. packets'[k] = packets[k] + 1 /\ packets[k] \in Nat
  BY <1>1
<1>3. \A j \in Keys \ {k} : packets'[j] = packets[j] /\ mass'[j] = mass[j]
  BY <1>1
<1>4. packets'[k] > 0
  BY <1>2
<1> QED
  BY <1>3, <1>4 DEF Came

\* No new lane with key 0, and the old ones count what they did.
LEMMA ZeroLaneKept ==
  ASSUME ZeroLane,
         \A c \in Buckets, j \in Lanes :
           key'[c][j] = 0 => key[c][j] = 0 /\ val'[c][j] = val[c][j]
  PROVE  ZeroLane'
  BY DEF ZeroLane

\* The flows that came and may be in the light part stay so, and the counter
\* that was raised, if it was, is in use for one of them.
LEMMA WitnessedStep ==
  ASSUME TypeOK, Witnessed, NEW x \in Keys \cup {0}, NEW byte, NEW d,
         RaisedTo(x, byte, d),
         byte # counters[PosOf[x]] =>
           \E j \in Keys : PosOf[j] = PosOf[x] /\ packets'[j] > 0 /\ Lent(j)',
         \A j \in Keys : packets[j] > 0 /\ Lent(j) => packets'[j] > 0 /\ Lent(j)'
  PROVE  Witnessed'
<1>1. \A p \in Positions :
        counters'[p] = IF p = PosOf[x] THEN byte ELSE counters[p]
  BY Assumptions DEF RaisedTo, Store, TypeOK, LightTypeOK
<1>2. ASSUME NEW p \in Positions, counters'[p] # 0
      PROVE  \E j \in Keys : PosOf[j] = p /\ packets'[j] > 0 /\ Lent(j)'
  <2>1. CASE counters[p] # 0
    BY <2>1 DEF Witnessed
  <2>2. CASE counters[p] = 0
    BY <1>1, <1>2, <2>2
  <2> QED
    BY <2>1, <2>2
<1> QED
  BY <1>2 DEF Witnessed

\* The books after a step of insert that raises the light counter of x.
LEMMA BooksStep ==
  ASSUME TypeOK, TypeOK', Bookkeeping, NEW k \in Keys, NEW f \in Weights, Received(k, f),
         NEW x \in Keys \cup {0}, NEW byte, NEW d,
         RaisedTo(x, byte, d), Balanced(x, byte, k, f), ZeroLane',
         byte # counters[PosOf[x]] =>
           \E j \in Keys : PosOf[j] = PosOf[x] /\ packets'[j] > 0 /\ Lent(j)',
         \A j \in Keys : packets[j] > 0 /\ Lent(j) => Lent(j)'
  PROVE  Bookkeeping'
<1>1. LightConservation' /\ EntropyBounded'
  BY Conserves DEF Bookkeeping
<1>2. MiceCounted' /\ MiceDistConsistent'
  BY HistogramFollows DEF Bookkeeping, TypeOK
<1>3. Came' /\ \A j \in Keys : packets[j] > 0 => packets'[j] > 0
  BY CameAgain DEF Bookkeeping
<1>4. Witnessed'
  BY <1>3, WitnessedStep DEF Bookkeeping
<1> QED
  BY <1>1, <1>2, <1>3, <1>4 DEF Bookkeeping

\* When no lane changes, what they hold does not.
LEMMA HeldSame ==
  ASSUME TypeOK, TypeOK',
         \A c \in Buckets, j \in Lanes : key'[c][j] = key[c][j] /\ val'[c][j] = val[c][j]
  PROVE  \A S : Held(S) \in Int /\ Held(S)' \in Int /\ Held(S)' = Held(S)
<1>1. PICK b \in Buckets : TRUE
  BY HeavyAssumption DEF Buckets
<1>2. PICK i \in Lanes : TRUE
  BY Assumptions
<1> SUFFICES ASSUME NEW S
             PROVE  Held(S) \in Int /\ Held(S)' \in Int /\ Held(S)' = Held(S)
  OBVIOUS
<1>3. /\ Held(S) \in Int /\ Held(S)' \in Int
      /\ Held(S)' = Held(S) - Share(S, b, i) + Share(S, b, i)'
  BY HeldChange
<1>4. Share(S, b, i)' = Share(S, b, i)
  BY DEF Share
<1>5. Share(S, b, i) \in Nat
  BY ShareType
<1> QED
  BY <1>3, <1>4, <1>5

\* A vote that goes to the light part.
LEMMA RejectBooks ==
  ASSUME ZeroKeyHandled, TypeOK, TypeOK', Accounting, Bookkeeping,
         NEW k \in Keys, NEW f \in Weights, Reject(k, f)
  PROVE  Bookkeeping'
<1> DEFINE b == BucketOf[k]
<1>1. Placed
  BY DEF Accounting
<1>2. /\ Received(k, f) /\ Matching(k) = {}
      /\ key' = key /\ val' = [val EXCEPT ![b][Guard] = Votes(b)]
      /\ LightInsert(k, 1)
  BY DEF Reject, HeavyReject, Contends
<1>3. k \in Flows /\ Residence(k) = {} /\ b \in Buckets
  BY <1>1, <1>2, Unmatched, Assumptions
<1>4. \A c \in Buckets, j \in Lanes : key'[c][j] = key[c][j] /\ val'[c][j] = val[c][j]
  BY <1>2, Types, Assumptions
<1>5. PICK byte : RaisedTo(k, byte, 1)
  <2>1. 1 \in Nat /\ LightTypeOK /\ k \in Keys \cup {0}
    BY DEF TypeOK
  <2> QED
    BY <1>2, <2>1, InsertStores
<1>6. Balanced(k, byte, k, f)
  <2>1. byte - counters[PosOf[k]] \in Int /\ byte - counters[PosOf[k]] <= f /\ f \in Int
    <3>1. counters[PosOf[k]] \in 0 .. LightMax /\ f \in Nat /\ f >= 1 /\ LightMax \in Nat
      BY Types, Assumptions DEF LightQuery
    <3>2. byte \in 0 .. LightMax /\ byte <= counters[PosOf[k]] + 1
      BY <1>5 DEF RaisedTo
    <3> QED
      BY ONLY <3>1, <3>2
  <2>2. \A S : Held(S) \in Int /\ Held(S)' \in Int /\ Held(S)' = Held(S)
    BY <1>4, HeldSame
  <2>3. PICK m : m = byte - counters[PosOf[k]]
    OBVIOUS
  <2>4. \A S : /\ Held(S) \in Int /\ Held(S)' \in Int
               /\ Held(S)' + (IF k \in S THEN m ELSE 0) <= Held(S) + (IF k \in S THEN f ELSE 0)
    BY ONLY <2>1, <2>2, <2>3
  <2> QED
    BY <2>3, <2>4 DEF Balanced
<1>7. ZeroLane'
  BY <1>4, ZeroLaneKept DEF Bookkeeping
<1>8. \A j \in Keys : Lent(j) => Lent(j)'
  BY <1>4, Assumptions DEF Lent, Residence
<1>9. packets'[k] > 0
  BY <1>2, CameAgain DEF Bookkeeping
<1>10. Lent(k)'
  BY <1>3, <1>4 DEF Lent, Residence
<1> QED
  BY <1>2, <1>5, <1>6, <1>7, <1>8, <1>9, <1>10, BooksStep

\* What a lane that changes alone must look like for the books to balance.
LEMMA BalancedStep ==
  ASSUME TypeOK, TypeOK', NEW b \in Buckets, NEW i \in Lanes,
         \A c \in Buckets, j \in Lanes :
           ~(c = b /\ j = i) => key'[c][j] = key[c][j] /\ val'[c][j] = val[c][j],
         NEW x, NEW byte, NEW k, NEW f \in Nat, byte - counters[PosOf[x]] \in Int,
         \A S : Share(S, b, i)' + (IF x \in S THEN byte - counters[PosOf[x]] ELSE 0)
                  <= Share(S, b, i) + (IF k \in S THEN f ELSE 0)
  PROVE  Balanced(x, byte, k, f)
<1> DEFINE m == byte - counters[PosOf[x]]
<1> HIDE DEF m
<1>1. ASSUME NEW S
      PROVE  /\ Held(S) \in Int /\ Held(S)' \in Int
             /\ Held(S)' + (IF x \in S THEN m ELSE 0) <= Held(S) + (IF k \in S THEN f ELSE 0)
  <2>1. /\ Held(S) \in Int /\ Held(S)' \in Int
        /\ Held(S)' = Held(S) - Share(S, b, i) + Share(S, b, i)'
    BY HeldChange
  <2>2. Share(S, b, i) \in Nat
    BY ShareType
  <2>3. Share(S, b, i)' \in Nat
    BY ShareNext
  <2>4. m \in Int /\ f \in Int
    BY DEF m
  <2>5. Share(S, b, i)' + (IF x \in S THEN m ELSE 0) <= Share(S, b, i) + (IF k \in S THEN f ELSE 0)
    BY DEF m
  <2>6. PICK a \in Int : a = IF x \in S THEN m ELSE 0
    BY <2>4
  <2>7. PICK e \in Int : e = IF k \in S THEN f ELSE 0
    BY <2>4
  <2>8. Share(S, b, i)' + a <= Share(S, b, i) + e
    BY <2>5, <2>6, <2>7
  <2>9. Held(S)' + a <= Held(S) + e
    BY ONLY <2>1, <2>2, <2>3, <2>6, <2>7, <2>8
  <2> QED
    BY <2>1, <2>6, <2>7, <2>9
<1> QED
  BY <1>1 DEF Balanced, m

\* A packet counted in its lane.
LEMMA MatchBooks ==
  ASSUME ZeroKeyHandled, TypeOK, TypeOK', Accounting, Bookkeeping,
         NEW k \in Keys, NEW f \in Weights, Match(k, f)
  PROVE  Bookkeeping'
<1> DEFINE b == BucketOf[k]
<1>1. Placed
  BY DEF Accounting
<1>2. /\ Received(k, f) /\ Matching(k) # {}
      /\ key' = key /\ val' = [val EXCEPT ![b][Min(Matching(k))] = Add(@, f)]
      /\ UNCHANGED lightVars
  BY DEF Match, HeavyMatch
<1>3. PICK i \in Lanes \cup {Guard} : i = Min(Matching(k)) /\ b \in Buckets /\ key[b][i] = k
  BY <1>1, <1>2, MatchedLane, Assumptions
<1> DEFINE v == val[b][i]
<1>4. f \in Nat /\ f >= 1 /\ mass[k] + f <= MaxFlow /\ k \in Keys \cup {0}
  BY <1>2, Assumptions DEF Received
<1>5. RaisedTo(k, counters[PosOf[k]], 0)
  BY <1>2, <1>4, NothingStored DEF TypeOK
<1>6. \A c \in Buckets, j \in Lanes :
        val'[c][j] = IF c = b /\ j = i THEN Add(v, f) ELSE val[c][j]
  <2>1. i \in 0 .. Slots
    BY <1>3, Assumptions
  <2>2. val \in [Buckets -> [0 .. Slots -> 0 .. Word - 1]]
    BY Types
  <2> QED
    BY <1>2, <1>3, <2>1, <2>2, Assumptions
<1>7. i \in Lanes => /\ v \in Nat /\ Count(v) \in Nat /\ Add(v, f) = v + f
                     /\ Flagged(Add(v, f)) <=> Flagged(v)
                     /\ Count(Add(v, f)) = Count(v) + f
  <2> SUFFICES ASSUME i \in Lanes
               PROVE  /\ v \in Nat /\ Count(v) \in Nat /\ Add(v, f) = v + f
                      /\ Flagged(Add(v, f)) <=> Flagged(v)
                      /\ Count(Add(v, f)) = Count(v) + f
    OBVIOUS
  <2>1. v \in 0 .. Word - 1 /\ Count(v) + f < HalfRange
    BY <1>3, <1>4, Room, Types
  <2>2. v \in Nat /\ Count(v) \in Nat
    <3> HIDE DEF v
    <3> QED
      BY <2>1, CountWord, Assumptions
  <2> HIDE DEF v
  <2> QED
    BY <1>4, <2>1, <2>2, CountAdd
<1>8. i \notin Lanes => \A c \in Buckets, j \in Lanes : val'[c][j] = val[c][j]
  BY <1>6
<1>9. Balanced(k, counters[PosOf[k]], k, f)
  <2>1. counters[PosOf[k]] - counters[PosOf[k]] = 0
    BY <1>4, Types, Assumptions DEF LightQuery
  <2>2. CASE i \in Lanes
    <3>1. \A c \in Buckets, j \in Lanes :
            ~(c = b /\ j = i) => key'[c][j] = key[c][j] /\ val'[c][j] = val[c][j]
      BY <1>2, <1>6
    <3>2. ASSUME NEW S
          PROVE  Share(S, b, i)' + (IF k \in S THEN 0 ELSE 0)
                   <= Share(S, b, i) + (IF k \in S THEN f ELSE 0)
      <4>1. val'[b][i] = Add(v, f) /\ key'[b][i] = k
        BY <1>2, <1>3, <1>6, <2>2
      <4>2. Share(S, b, i)' = IF k \in S THEN Count(v) + f ELSE 0
        BY <1>7, <2>2, <4>1 DEF Share
      <4>3. Share(S, b, i) = IF k \in S THEN Count(v) ELSE 0
        BY <1>3 DEF Share
      <4> QED
        BY <1>4, <1>7, <2>2, <4>2, <4>3
    <3> QED
      BY <1>3, <1>4, <2>1, <2>2, <3>1, <3>2, BalancedStep
  <2>3. CASE i \notin Lanes
    <3>1. \A S : Held(S) \in Int /\ Held(S)' \in Int /\ Held(S)' = Held(S)
      BY <1>2, <1>8, <2>3, HeldSame
    <3>2. \A S : /\ Held(S) \in Int /\ Held(S)' \in Int
                 /\ Held(S)' + (IF k \in S THEN 0 ELSE 0) <= Held(S) + (IF k \in S THEN f ELSE 0)
      BY ONLY <1>4, <3>1
    <3> QED
      BY <2>1, <3>2 DEF Balanced
  <2> QED
    BY <2>2, <2>3
<1>10. \A j \in Keys : Lent(j) => Lent(j)'
  <2> SUFFICES ASSUME NEW j \in Keys, Lent(j), NEW n \in Lanes, key'[BucketOf[j]][n] = j
               PROVE  Flagged(val'[BucketOf[j]][n])
    BY DEF Lent, Residence
  <2>1. BucketOf[j] \in Buckets /\ Flagged(val[BucketOf[j]][n])
    BY <1>2, Assumptions DEF Lent, Residence
  <2> QED
    BY <1>6, <1>7, <2>1
<1>11. ZeroLane'
  <2>1. CASE k # 0 \/ i \notin Lanes
    BY <1>2, <1>3, <1>6, <1>8, <2>1, ZeroLaneKept DEF Bookkeeping
  <2>2. CASE k = 0 /\ i \in Lanes
    <3>1. \A j \in Lanes : key[b][j] = 0 => i <= j
      <4>1. \A j \in Lanes : key[b][j] = 0 => j \in Matching(k)
        BY <2>2 DEF Matching
      <4>2. Matching(k) \in SUBSET Nat
        <5>1. Guard \in Nat
          BY HeavyAssumption DEF Guard
        <5> QED
          BY <5>1, Assumptions DEF Matching
      <4> QED
        BY <1>2, <1>3, <4>1, <4>2, Least
    <3>2. \A j \in Lanes : key[b][j] = 0 /\ j # i => i < j
      BY <2>2, <3>1, Assumptions
    <3>3. \A j \in Lanes : key[b][j] = 0 /\ j # i => val[b][j] = 0
      <4> SUFFICES ASSUME NEW j \in Lanes, key[b][j] = 0, j # i, val[b][j] # 0 PROVE FALSE
        OBVIOUS
      <4>1. j < i
        BY <1>3, <2>2 DEF Bookkeeping, ZeroLane
      <4>2. i < j /\ i \in Nat /\ j \in Nat
        BY <2>2, <3>2, Assumptions
      <4> QED
        BY <4>1, <4>2
    <3>4. ASSUME NEW c \in Buckets, NEW n \in Lanes, key'[c][n] = 0, val'[c][n] # 0
          PROVE  /\ 0 \in Keys /\ BucketOf[0] = c
                 /\ \A j \in Lanes : key'[c][j] = 0 /\ j # n => n < j /\ val'[c][j] = 0
      <4>1. CASE c = b /\ n = i
        BY <1>2, <1>3, <1>6, <2>2, <3>2, <3>3, <4>1
      <4>2. CASE c = b /\ n # i
        BY <1>2, <1>3, <1>6, <3>3, <3>4, <4>2
      <4>3. CASE c # b
        BY <1>2, <1>6, <3>4, <4>3 DEF Bookkeeping, ZeroLane
      <4> QED
        BY <4>1, <4>2, <4>3
    <3> QED
      BY <3>4 DEF ZeroLane
  <2> QED
    BY <2>1, <2>2
<1> QED
  BY <1>2, <1>4, <1>5, <1>9, <1>10, <1>11, BooksStep

\* A packet that takes a free lane.
LEMMA FillBooks ==
  ASSUME ZeroKeyHandled, TypeOK, TypeOK', Accounting, Bookkeeping,
         NEW k \in Keys, NEW f \in Weights, Fill(k, f)
  PROVE  Bookkeeping'
<1> DEFINE b == BucketOf[k]
<1>1. Placed /\ Inside /\ Outside /\ Weighed
  BY DEF Accounting
<1>2. /\ Received(k, f) /\ Matching(k) = {} /\ Empty(b) # {}
      /\ key' = [key EXCEPT ![b][Min(Empty(b))] = k]
      /\ val' = [val EXCEPT ![b][Min(Empty(b))] = f]
      /\ UNCHANGED lightVars
  BY DEF Fill, HeavyFill
<1>3. k \in Flows /\ k # 0 /\ Residence(k) = {} /\ b \in Buckets
  BY <1>1, <1>2, Unmatched, Assumptions DEF Flows
<1>4. PICK i \in Lanes : i = Min(Empty(b)) /\ i \in Empty(b)
  BY <1>2, <1>3, EmptyLane
<1>5. key[b][i] = 0
  BY <1>1, <1>3, <1>4, FreeLane
<1>6. \A c \in Buckets, j \in Lanes :
         /\ key'[c][j] = IF c = b /\ j = i THEN k ELSE key[c][j]
         /\ val'[c][j] = IF c = b /\ j = i THEN f ELSE val[c][j]
  <2>1. i \in 0 .. Slots
    BY <1>4, Assumptions
  <2> QED
    BY <1>2, <1>3, <1>4, <2>1, Types, Assumptions
<1>7. f \in Nat /\ Count(f) = f
  BY <1>2, Types, Assumptions DEF Received, Count, Flagged
<1>8. RaisedTo(k, counters[PosOf[k]], 0)
  BY <1>2, NothingStored DEF TypeOK
<1>9. Balanced(k, counters[PosOf[k]], k, f)
  <2>1. counters[PosOf[k]] - counters[PosOf[k]] = 0
    BY Types, Assumptions DEF LightQuery
  <2>2. \A c \in Buckets, j \in Lanes :
          ~(c = b /\ j = i) => key'[c][j] = key[c][j] /\ val'[c][j] = val[c][j]
    BY <1>6
  <2>3. ASSUME NEW S
        PROVE  Share(S, b, i)' + (IF k \in S THEN 0 ELSE 0)
                 <= Share(S, b, i) + (IF k \in S THEN f ELSE 0)
    <3>1. val'[b][i] = f /\ key'[b][i] = k
      BY <1>3, <1>6
    <3>2. Share(S, b, i)' = IF k \in S THEN f ELSE 0
      BY <1>7, <3>1 DEF Share
    <3>3. Share(S, b, i) \in Nat
      BY <1>3, ShareType
    <3> QED
      BY <1>7, <3>2, <3>3
  <2> QED
    BY <1>3, <1>7, <2>1, <2>2, <2>3, BalancedStep
<1>10. ASSUME NEW j \in Keys, packets[j] > 0, Lent(j) PROVE Lent(j)'
  <2>1. j # k
    <3>1. mass[k] \in Nat /\ packets[k] \in Nat
      BY Types, Assumptions
    <3>2. packets[k] <= mass[k]
      BY <1>1 DEF Weighed
    <3>3. ~(mass[k] > 0)
      BY <1>1, <1>2, <1>3 DEF Outside
    <3> QED
      BY <1>10, <3>1, <3>2, <3>3
  <2>2. BucketOf[j] \in Buckets
    BY Assumptions
  <2> QED
    BY <1>6, <1>10, <2>1, <2>2 DEF Lent, Residence
<1>11. ZeroLane'
  BY <1>3, <1>6, ZeroLaneKept DEF Bookkeeping
<1> QED
  BY <1>2, <1>8, <1>9, <1>10, <1>11, BooksStep

\* A packet that displaces a resident.
LEMMA SwapBooks ==
  ASSUME ZeroKeyHandled, TypeOK, TypeOK', Accounting, Bookkeeping,
         NEW k \in Keys, NEW f \in Weights, Swap(k, f)
  PROVE  Bookkeeping'
<1> DEFINE b == BucketOf[k]
<1>1. Placed /\ Inside /\ Outside /\ Weighed
  BY DEF Accounting
<1>2. /\ Received(k, f) /\ Matching(k) = {} /\ Empty(b) = {}
      /\ key' = [key EXCEPT ![b][Victim(b)] = k]
      /\ val' = [val EXCEPT ![b][Guard] = 0, ![b][Victim(b)] = HalfRange + 1]
      /\ HandOver(key[b][Victim(b)], val[b][Victim(b)])
  BY DEF Swap, HeavySwap, Contends
<1>3. k \in Flows /\ k # 0 /\ Residence(k) = {} /\ b \in Buckets
  BY <1>1, <1>2, Unmatched, Assumptions DEF Flows
<1>4. PICK i \in Lanes : i = Victim(b)
  BY <1>3, VictimLane DEF TypeOK
<1>5. PICK w \in Keys \cup {0}, v \in 0 .. Word - 1 : w = key[b][i] /\ v = val[b][i]
  BY <1>3, Types
<1>6. \A c \in Buckets, j \in Lanes :
         /\ key'[c][j] = IF c = b /\ j = i THEN k ELSE key[c][j]
         /\ val'[c][j] = IF c = b /\ j = i THEN HalfRange + 1 ELSE val[c][j]
  <2>1. i \in 0 .. Slots /\ Guard \in 0 .. Slots /\ i # Guard /\ Guard \notin Lanes
    BY Assumptions
  <2>2. /\ key \in [Buckets -> [0 .. Slots -> Keys \cup {0}]]
        /\ val \in [Buckets -> [0 .. Slots -> 0 .. Word - 1]]
    BY Types
  <2>3. ASSUME NEW c \in Buckets, NEW j \in Lanes
        PROVE  key'[c][j] = IF c = b /\ j = i THEN k ELSE key[c][j]
    BY <1>2, <1>3, <1>4, <2>1, <2>2, Assumptions
  <2>4. ASSUME NEW c \in Buckets, NEW j \in Lanes
        PROVE  val'[c][j] = IF c = b /\ j = i THEN HalfRange + 1 ELSE val[c][j]
    <3>1. j \in 0 .. Slots /\ j # Guard
      BY Assumptions
    <3>2. CASE c = b
      <4>1. val'[b] = [val[b] EXCEPT ![Guard] = 0, ![i] = HalfRange + 1]
        BY <1>2, <1>3, <1>4, <2>2
      <4> QED
        BY <1>3, <2>1, <2>2, <3>1, <3>2, <4>1
    <3>3. CASE c # b
      BY <1>2, <2>2, <3>3
    <3> QED
      BY <3>2, <3>3
  <2> QED
    BY <2>3, <2>4
<1>7. /\ Count(HalfRange + 1) = 1 /\ Flagged(HalfRange + 1)
      /\ f \in Nat /\ f >= 1 /\ Count(v) \in Nat
  BY CountWord, Assumptions DEF Count, Flagged
<1>8. PICK byte : RaisedTo(w, byte, Count(v))
  BY <1>2, <1>4, <1>5, HandOverStores DEF TypeOK
<1>9. Balanced(w, byte, k, f)
  <2>1. PICK m \in Int : m = byte - counters[PosOf[w]] /\ m <= Count(v)
    <3>1. counters[PosOf[w]] \in 0 .. LightMax /\ LightMax \in Nat
      BY Types, Assumptions DEF LightQuery
    <3>2. byte \in 0 .. LightMax /\ byte <= counters[PosOf[w]] + Count(v)
      BY <1>8 DEF RaisedTo
    <3> QED
      BY ONLY <1>7, <3>1, <3>2
  <2>2. \A c \in Buckets, j \in Lanes :
          ~(c = b /\ j = i) => key'[c][j] = key[c][j] /\ val'[c][j] = val[c][j]
    BY <1>6
  <2>3. ASSUME NEW S
        PROVE  Share(S, b, i)' + (IF w \in S THEN m ELSE 0)
                 <= Share(S, b, i) + (IF k \in S THEN f ELSE 0)
    <3>1. val'[b][i] = HalfRange + 1 /\ key'[b][i] = k
      BY <1>3, <1>6
    <3>2. Share(S, b, i)' = IF k \in S THEN 1 ELSE 0
      BY <1>7, <3>1 DEF Share
    <3>3. Share(S, b, i) = IF w \in S THEN Count(v) ELSE 0
      BY <1>5 DEF Share
    <3> QED
      BY ONLY <1>7, <2>1, <3>2, <3>3
  <2> QED
    BY <1>3, <1>7, <2>1, <2>2, <2>3, BalancedStep
<1>10. ASSUME NEW j \in Keys, Lent(j) PROVE Lent(j)'
  <2>1. BucketOf[j] \in Buckets
    BY Assumptions
  <2> QED
    BY <1>6, <1>7, <1>10, <2>1 DEF Lent, Residence
<1>11. ZeroLane'
  BY <1>3, <1>6, ZeroLaneKept DEF Bookkeeping

\* The displaced flow came, and nothing of it is left in the bucket.
<1>12. w \in Keys /\ mass[w] > 0 /\ BucketOf[w] = b /\ Residence(w) = {i}
  <2>1. CASE w # 0
    <3>1. w \in Flows /\ BucketOf[w] = b /\ Residence(w) = {i}
      BY <1>1, <1>3, <1>5, <2>1, Located
    <3>2. Count(v) \in 1 .. mass[w]
      BY <1>1, <1>5, <3>1 DEF Inside
    <3>3. w \in Keys
      BY <3>1 DEF Flows
    <3>4. mass[w] \in Nat
      BY <3>3, Types, Assumptions
    <3> QED
      BY <3>1, <3>2, <3>3, <3>4
  <2>2. CASE w = 0
    <3>1. SIMD
      BY <1>2, <1>5, <2>2 DEF Empty
    <3>2. \A j \in Lanes : Count(val[b][j]) # 0
      BY <1>2, <3>1 DEF Empty
    <3>3. Count(0) = 0
      BY Assumptions DEF Count, Flagged
    <3>4. \A j \in Lanes : val[b][j] # 0
      BY <3>2, <3>3
    <3>5. /\ 0 \in Keys /\ BucketOf[0] = b
          /\ \A j \in Lanes : key[b][j] = 0 => j = i
      <4>1. ZeroLane
        BY DEF Bookkeeping
      <4>2. key[b][i] = 0 /\ val[b][i] # 0
        BY <1>5, <2>2, <3>4
      <4> QED
        BY <1>3, <3>4, <4>1, <4>2 DEF ZeroLane
    <3>6. Residence(w) = {i}
      BY <1>5, <2>2, <3>5 DEF Residence
    <3>7. val[b][i] <= mass[0]
      BY <1>1, <1>3, <1>5, <2>2, <3>5 DEF Placed
    <3>8. mass[0] \in Nat /\ v # 0 /\ v \in Nat
      BY <1>5, <3>4, <3>5, Types, Assumptions
    <3> QED
      BY <1>5, <2>2, <3>5, <3>6, <3>7, <3>8
  <2> QED
    BY <2>1, <2>2
<1>13. packets'[w] > 0
  BY <1>2, <1>12, CameAgain DEF Bookkeeping, Came
<1>14. Lent(w)'
  <2>1. w # k
    BY <1>3, <1>12
  <2> QED
    BY <1>3, <1>6, <1>12, <2>1 DEF Lent, Residence
<1> QED
  BY <1>2, <1>8, <1>9, <1>10, <1>11, <1>12, <1>13, <1>14, BooksStep

\* In an empty sketch the books are in order.
LEMMA InitBooks == Init => Bookkeeping
<1> SUFFICES ASSUME Init PROVE Bookkeeping
  OBVIOUS
<1>1. TypeOK
  BY InitType
<1>2. /\ \A b \in Buckets, i \in Lanes : key[b][i] = 0 /\ val[b][i] = 0
      /\ counters = [p \in Positions |-> 0]
      /\ mice_dist = [v \in 0 .. LightMax |-> 0]
      /\ mass = [k \in Keys |-> 0]
  BY Assumptions DEF Init, HeavyInit, LightInit
<1>3. \A S : Held(S) = 0
  <2> SUFFICES ASSUME NEW S PROVE Held(S) = 0
    OBVIOUS
  <2> DEFINE g == [l \in LaneSet |->
                     IF key[l[1]][l[2]] \in S THEN Count(val[l[1]][l[2]]) ELSE 0]
  <2>1. Count(0) = 0
    BY Assumptions DEF Count, Flagged
  <2>2. \A l \in LaneSet : g[l] = 0
    BY <1>2, <2>1 DEF LaneSet
  <2>3. IsFiniteSet(LaneSet)
    BY Finite
  <2>4. Held(S) = SumFunctionOnSet(g, LaneSet)
    BY DEF Held
  <2> HIDE DEF g
  <2> QED
    BY <2>2, <2>3, <2>4, SumZero
<1>4. \A S : S \subseteq Keys => SumFunctionOnSet(mass, S) = 0
  <2> SUFFICES ASSUME NEW S, S \subseteq Keys PROVE SumFunctionOnSet(mass, S) = 0
    OBVIOUS
  <2>1. IsFiniteSet(S) /\ \A k \in S : mass[k] = 0
    BY <1>2, Finite
  <2> QED
    BY <2>1, SumZero
<1>5. LightConservation
  <2> SUFFICES ASSUME NEW p \in Positions
               PROVE  counters[p] + Held(Sharing(p))
                        <= SumFunctionOnSet(mass, Sharing(p) \cap Keys)
    BY DEF LightConservation
  <2>1. counters[p] = 0 /\ Held(Sharing(p)) = 0
    BY <1>2, <1>3
  <2>2. SumFunctionOnSet(mass, Sharing(p) \cap Keys) = 0
    BY <1>4
  <2> QED
    BY <2>1, <2>2
<1>6. MiceCard = 0 /\ MiceTotal = 0
  <2> DEFINE x == [v \in 1 .. LightMax |-> v * mice_dist[v]]
  <2>1. IsFiniteSet(1 .. LightMax) /\ LightMax \in Nat
    BY Finite, Assumptions
  <2>2. \A v \in 1 .. LightMax : mice_dist[v] = 0 /\ x[v] = 0
    BY <1>2, <2>1
  <2>3. MiceTotal = SumFunctionOnSet(x, 1 .. LightMax)
    BY DEF MiceTotal
  <2> HIDE DEF x
  <2> QED
    BY <2>1, <2>2, <2>3, SumZero DEF MiceCard
<1>7. EntropyBounded
  <2>1. SumFunctionOnSet(mass, Keys) = 0
    BY <1>4
  <2> QED
    BY <1>3, <1>6, <2>1 DEF EntropyBounded, EntropyTotal
<1>8. MiceCounted
  <2>1. {p \in Positions : counters[p] # 0} = {}
    BY <1>2
  <2> QED
    BY <1>6, <2>1, FS_EmptySet DEF MiceCounted
<1>9. MiceDistConsistent
  <2> SUFFICES ASSUME NEW v \in 0 .. LightMax
               PROVE  mice_dist[v] = Cardinality({p \in Positions : counters[p] = v})
                                       - (IF v = 0 THEN CounterNum ELSE 0)
    BY DEF MiceDistConsistent
  <2>1. mice_dist[v] = 0 /\ CounterNum \in Nat \ {0}
    BY <1>2, LightAssumption
  <2>2. CASE v = 0
    <3>1. {p \in Positions : counters[p] = v} = 0 .. CounterNum - 1
      BY <1>2, <2>2 DEF Positions
    <3>2. 0 \in Int /\ CounterNum - 1 \in Int /\ ~(0 > CounterNum - 1)
      BY <2>1
    <3>3. Cardinality(0 .. CounterNum - 1) = CounterNum - 1 - 0 + 1
      BY <3>2, FS_Interval
    <3>4. CounterNum - 1 - 0 + 1 = CounterNum
      BY <2>1
    <3>5. Cardinality({p \in Positions : counters[p] = v}) = CounterNum
      BY ONLY <3>1, <3>3, <3>4, Zenon
    <3> QED
      BY <2>1, <2>2, <3>5
  <2>3. CASE v # 0
    <3>1. {p \in Positions : counters[p] = v} = {}
      BY <1>2, <2>3
    <3> QED
      BY <2>1, <2>3, <3>1, FS_EmptySet
  <2> QED
    BY <2>2, <2>3
<1>10. ZeroLane /\ Witnessed /\ Came
  BY <1>2 DEF ZeroLane, Witnessed, Came
<1> QED
  BY <1>5, <1>7, <1>8, <1>9, <1>10 DEF Bookkeeping

\* The books depend on the variables only.
LEMMA StutterBooks ==
  ASSUME Bookkeeping, UNCHANGED vars
  PROVE  Bookkeeping'
<1>1. /\ key' = key /\ val' = val /\ counters' = counters /\ mice_dist' = mice_dist
      /\ packets' = packets /\ mass' = mass
  BY DEF vars, heavyVars, lightVars, truthVars
<1>2. MiceDistConsistent' /\ MiceCounted'
  BY <1>1 DEF Bookkeeping, MiceDistConsistent, MiceCounted, MiceCard
<1>3. \A S : Held(S)' = Held(S)
  BY <1>1 DEF Held
<1>4. LightConservation' /\ EntropyBounded'
  BY <1>1, <1>3 DEF Bookkeeping, LightConservation, EntropyBounded, EntropyTotal,
     MiceTotal, Sharing
<1>5. ZeroLane' /\ Witnessed' /\ Came'
  BY <1>1 DEF Bookkeeping, ZeroLane, Witnessed, Came, Lent, Residence
<1> QED
  BY <1>2, <1>4, <1>5 DEF Bookkeeping

(***************************************************************************)
(* The whole inductive invariant: after any sequence of insert and clear   *)
(* every packet is accounted for, the histogram is the one of the light    *)
(* counters, the parts hold no more than what came, and a light counter is *)
(* in use only for flows that came and whose lane, if they have one, says  *)
(* so.                                                                     *)
(***************************************************************************)
THEOREM InvariantHolds ==
  ASSUME ZeroKeyHandled
  PROVE  Spec => []SketchInvariant
<1>1. Init => TypeOK /\ Accounting /\ Bookkeeping
  BY InitType, ClearedAccounts, InitBooks DEF Init, Cleared
<1>2. (Init => Bookkeeping)'
  BY InitBooks, PTL
<1>3. TypeOK /\ TypeOK' /\ Accounting /\ Bookkeeping /\ [Next]_vars => Bookkeeping'
  <2> SUFFICES ASSUME TypeOK, TypeOK', Accounting, Bookkeeping, [Next]_vars
               PROVE  Bookkeeping'
    OBVIOUS
  <2>1. ASSUME NEW k \in Keys, NEW f \in Weights, Insert(k, f) PROVE Bookkeeping'
    BY <2>1, MatchBooks, FillBooks, SwapBooks, RejectBooks DEF Insert
  <2>2. CASE Clear
    BY <1>2, <2>2 DEF Clear, HeavyClear, LightClear, Init, HeavyInit, LightInit
  <2>3. CASE UNCHANGED vars
    BY <2>3, StutterBooks
  <2> QED
    BY <2>1, <2>2, <2>3 DEF Next
<1>4. TypeOK /\ Accounting /\ Bookkeeping => SketchInvariant
  BY DEF SketchInvariant
<1>5. Spec => [](TypeOK /\ Accounting)
  BY AccountingHolds
<1> QED
  BY <1>1, <1>3, <1>4, <1>5, PTL DEF Spec
-----------------------------------------------------------------------------
(***************************************************************************)
(* What the books mean for get_cardinality.                                *)
(***************************************************************************)

\* The lanes in use.
Used == {l \in LaneSet : Count(val[l[1]][l[2]]) # 0}

\* The flows that came.
Arrived == {k \in Keys : packets[k] > 0}

\* A lane in use holds a flow that came, and no other such lane holds it.
LEMMA UsedLanes ==
  ASSUME TypeOK, Accounting, Bookkeeping, NEW l \in Used
  PROVE  LET k == key[l[1]][l[2]]
         IN  /\ k \in Arrived /\ l[2] \in Residence(k) /\ BucketOf[k] = l[1]
             /\ \A m \in Used : key[m[1]][m[2]] = k => m = l
<1>1. Placed /\ Inside /\ ZeroLane /\ Came
  BY DEF Accounting, Bookkeeping
<1>2. \A m \in Used : /\ m[1] \in Buckets /\ m[2] \in Lanes /\ m = <<m[1], m[2]>>
                      /\ Count(val[m[1]][m[2]]) # 0
  BY DEF Used, LaneSet
<1>3. PICK b \in Buckets, i \in Lanes : l = <<b, i>> /\ l[1] = b /\ l[2] = i
  BY <1>2
<1>4. PICK k \in Keys \cup {0}, v \in 0 .. Word - 1 : k = key[b][i] /\ v = val[b][i]
  BY Types
<1>5. Count(0) = 0
  BY Assumptions DEF Count, Flagged
<1>6. Count(v) # 0 /\ v # 0
  BY <1>2, <1>3, <1>4, <1>5
<1>7. /\ k \in Keys /\ mass[k] > 0 /\ BucketOf[k] = b
      /\ \A m \in Used : key[m[1]][m[2]] = k => m[1] = b /\ m[2] = i
  <2>1. CASE k # 0
    <3>1. k \in Flows /\ BucketOf[k] = b /\ Residence(k) = {i}
      BY <1>1, <1>4, <2>1, Located
    <3>2. Count(v) \in 1 .. mass[k]
      BY <1>1, <1>4, <3>1 DEF Inside
    <3>3. k \in Keys
      BY <3>1 DEF Flows
    <3>4. mass[k] \in Nat
      BY <3>3, Types, Assumptions
    <3>5. ASSUME NEW m \in Used, key[m[1]][m[2]] = k PROVE m[1] = b /\ m[2] = i
      <4>1. PICK c \in Buckets, j \in Lanes : m[1] = c /\ m[2] = j
        BY <1>2
      <4>2. BucketOf[k] = c /\ Residence(k) = {j}
        BY <1>1, <2>1, <3>5, <4>1, Located
      <4> QED
        BY <3>1, <4>1, <4>2
    <3> QED
      BY <3>1, <3>2, <3>3, <3>4, <3>5
  <2>2. CASE k = 0
    <3>1. /\ 0 \in Keys /\ BucketOf[0] = b
          /\ \A j \in Lanes : key[b][j] = 0 /\ j # i => val[b][j] = 0
      BY <1>1, <1>4, <1>6, <2>2 DEF ZeroLane
    <3>2. val[b][i] <= mass[0]
      BY <1>1, <1>4, <2>2, <3>1 DEF Placed
    <3>3. mass[0] \in Nat /\ v \in Nat
      BY <3>1, Types, Assumptions
    <3>4. ASSUME NEW m \in Used, key[m[1]][m[2]] = k PROVE m[1] = b /\ m[2] = i
      <4>1. PICK c \in Buckets, j \in Lanes :
              m[1] = c /\ m[2] = j /\ Count(val[c][j]) # 0 /\ key[c][j] = 0
        BY <1>2, <2>2, <3>4
      <4>2. val[c][j] # 0
        BY <1>5, <4>1
      <4>3. BucketOf[0] = c
        BY <1>1, <4>1, <4>2 DEF ZeroLane
      <4> QED
        BY <3>1, <4>1, <4>2, <4>3
    <3> QED
      BY <1>4, <1>6, <2>2, <3>1, <3>2, <3>3, <3>4
  <2> QED
    BY <2>1, <2>2
<1>8. k \in Arrived
  BY <1>1, <1>7 DEF Arrived, Came
<1>9. i \in Residence(k)
  BY <1>4, <1>7 DEF Residence
<1>10. \A m \in Used : key[m[1]][m[2]] = k => m = l
  BY <1>2, <1>3, <1>7
<1> QED
  BY <1>3, <1>4, <1>7, <1>8, <1>9, <1>10

\* A resident that the light part is asked about is in a lane in use.
LEMMA JoinedUsed ==
  ASSUME TypeOK, Accounting, Bookkeeping
  PROVE  Joined \subseteq Used
<1> SUFFICES ASSUME NEW b \in Buckets, NEW i \in Lanes, Flagged(val[b][i])
             PROVE  Count(val[b][i]) # 0
  BY DEF Joined, Used, LaneSet
<1>1. Placed /\ Inside /\ ZeroLane
  BY DEF Accounting, Bookkeeping
<1>2. val[b][i] \in 0 .. Word - 1 /\ val[b][i] >= HalfRange
  BY Types DEF Flagged
<1>3. CASE key[b][i] # 0
  <2>1. key[b][i] \in Flows /\ BucketOf[key[b][i]] = b /\ i \in Residence(key[b][i])
    BY <1>1, <1>3, Located
  <2> QED
    BY <1>1, <2>1 DEF Inside
<1>4. CASE key[b][i] = 0
  <2>1. val[b][i] # 0
    BY <1>2, Assumptions
  <2>2. 0 \in Keys
    BY <1>1, <1>4, <2>1 DEF ZeroLane
  <2>3. val[b][i] <= mass[0]
    BY <1>1, <1>4, <2>2 DEF Placed
  <2>4. mass[0] \in 0 .. MaxFlow
    BY <2>2, Types
  <2> QED
    BY <1>2, <2>3, <2>4, Assumptions
<1> QED
  BY <1>3, <1>4

\* A set has no more elements than another when each has its own partner there.
LEMMA Partners ==
  ASSUME NEW S, NEW T, IsFiniteSet(T), NEW g, g \in [S -> T],
         \A x, y \in S : g[x] = g[y] => x = y
  PROVE  IsFiniteSet(S) /\ Cardinality(S) <= Cardinality(T)
<1>1. g \in Injection(S, T)
  BY DEF Injection, IsInjective
<1> QED
  BY <1>1, FS_Injection

\* Counters in use and lanes that are not joined with one stand for different
\* flows.
LEMMA CardinalBounded ==
  ASSUME TypeOK, Accounting, Bookkeeping
  PROVE  Cardinal <= Cardinality(Arrived)
<1> DEFINE C == {p \in Positions : counters[p] # 0}
           R == Used \ Joined
<1>1. PICK g \in [C -> Keys] :
        \A p \in C : PosOf[g[p]] = p /\ packets[g[p]] > 0 /\ Lent(g[p])
  <2> DEFINE W(p) == {k \in Keys : PosOf[k] = p /\ packets[k] > 0 /\ Lent(k)}
             g == [p \in C |-> CHOOSE k \in Keys : k \in W(p)]
  <2>1. \A p \in C : \E k \in Keys : k \in W(p)
    BY DEF Bookkeeping, Witnessed
  <2> HIDE DEF W
  <2>2. \A p \in C : g[p] \in Keys /\ g[p] \in W(p)
    BY <2>1
  <2>3. g \in [C -> Keys]
    BY <2>2
  <2> QED
    BY <2>2, <2>3 DEF W
<1> DEFINE A == {k \in Arrived : \E p \in C : k = g[p]}
           B == {k \in Arrived : \E l \in R : k = key[l[1]][l[2]]}
           h == [l \in R |-> key[l[1]][l[2]]]
<1>2. IsFiniteSet(Arrived) /\ IsFiniteSet(A) /\ IsFiniteSet(B)
      /\ IsFiniteSet(Used) /\ IsFiniteSet(C)
  BY Finite, FS_Subset DEF Arrived, Used
<1>3. Cardinality(C) <= Cardinality(A)
  <2>1. g \in [C -> A]
    BY <1>1 DEF Arrived
  <2>2. \A p, q \in C : g[p] = g[q] => p = q
    BY <1>1
  <2> HIDE DEF A, C
  <2> QED
    BY <1>2, <2>1, <2>2, Partners
<1>4. Cardinality(R) <= Cardinality(B)
  <2>1. h \in [R -> B]
    BY UsedLanes
  <2>2. \A l, m \in R : h[l] = h[m] => l = m
    BY UsedLanes
  <2> HIDE DEF B, R, h
  <2> QED
    BY <1>2, <2>1, <2>2, Partners
<1>5. A \cap B = {}
  <2> SUFFICES ASSUME NEW p \in C, NEW l \in R, g[p] = key[l[1]][l[2]] PROVE FALSE
    OBVIOUS
  <2>1. PICK k \in Keys : k = g[p] /\ k = key[l[1]][l[2]]
    BY <1>1
  <2>2. l[2] \in Residence(k) /\ BucketOf[k] = l[1] /\ l \in LaneSet
    BY <2>1, UsedLanes DEF Used
  <2>3. Flagged(val[l[1]][l[2]])
    BY <1>1, <2>1, <2>2 DEF Lent
  <2>4. LightQuery(k) # 0
    BY <1>1, <2>1 DEF LightQuery
  <2> QED
    BY <2>1, <2>2, <2>3, <2>4 DEF Joined
<1>6. Cardinality(A) + Cardinality(B) <= Cardinality(Arrived)
  <2>1. Cardinality(A \cup B) = Cardinality(A) + Cardinality(B) - Cardinality(A \cap B)
    BY <1>2, FS_Union
  <2>2. A \cup B \subseteq Arrived
    OBVIOUS
  <2> HIDE DEF A, B
  <2>3. Cardinality(A \cup B) <= Cardinality(Arrived)
    BY <1>2, <2>2, FS_Subset
  <2>4. Cardinality(A \cap B) = 0
    BY <1>5, FS_EmptySet
  <2>5. Cardinality(A) \in Nat /\ Cardinality(B) \in Nat
    BY <1>2, FS_CardinalityType
  <2> QED
    BY <2>1, <2>3, <2>4, <2>5
<1>7. Cardinality(Used) = Cardinality(R) + Cardinality(Joined)
      /\ Cardinality(R) \in Nat /\ Cardinality(Joined) \in Nat
  <2>1. Joined \subseteq Used
    BY JoinedUsed
  <2>2. IsFiniteSet(Joined) /\ IsFiniteSet(R)
    BY <1>2, <2>1, FS_Subset
  <2>3. R \cup Joined = Used /\ R \cap Joined = {}
    BY <2>1
  <2> HIDE DEF R
  <2>4. Cardinality(Used) = Cardinality(R) + Cardinality(Joined) - 0
    BY <2>2, <2>3, FS_Union, FS_EmptySet
  <2> QED
    BY <2>2, <2>4, FS_CardinalityType
<1>8. MiceCard = Cardinality(C)
  BY DEF Bookkeeping, MiceCounted
<1>9. /\ Cardinality(A) \in Nat /\ Cardinality(B) \in Nat
      /\ Cardinality(C) \in Nat /\ Cardinality(Arrived) \in Nat
  BY <1>2, FS_CardinalityType
<1>10. Cardinal = Cardinality(C) - Cardinality(Joined) + Cardinality(Used)
  BY <1>8 DEF Cardinal, Used
<1> HIDE DEF A, B, C, R
<1> QED
  BY <1>3, <1>4, <1>6, <1>7, <1>9, <1>10

(***************************************************************************)
(* What the tasks report errs on one side: get_cardinality's count is at   *)
(* most the number of flows that came, get_entropy's total at most their   *)
(* packets, and so are each counter and the lanes of its flows; and the    *)
(* histogram is that of the counters.                                      *)
(***************************************************************************)
THEOREM TasksAreBounded ==
  ASSUME ZeroKeyHandled
  PROVE  Spec => []TasksBounded
<1>1. SketchInvariant => TasksBounded
  <2> SUFFICES ASSUME SketchInvariant PROVE TasksBounded
    OBVIOUS
  <2>1. TypeOK /\ Accounting /\ Bookkeeping
    BY DEF SketchInvariant
  <2>2. Cardinal <= Cardinality(Arrived)
    BY <2>1, CardinalBounded
  <2> QED
    BY <2>1, <2>2 DEF TasksBounded, Bookkeeping, Arrived
<1>2. Spec => []SketchInvariant
  BY InvariantHolds
<1> QED
  BY <1>1, <1>2, PTL
=============================================================================
