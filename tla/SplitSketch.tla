---------------------------- MODULE SplitSketch ----------------------------
(***************************************************************************)
(* The copy of the Elastic sketch in CPU/ElasticSketch, whose HeavyPart    *)
(* chooses between vector and scalar code with USING_SIMD_ACCELERATION.    *)
(* Here the two builds run side by side on the same packets, each with a   *)
(* sketch of its own, statement by statement where they differ: how a      *)
(* bucket is searched.  A sketch is a record: the buckets' key and val     *)
(* arrays, whose last lane holds the votes, the light counters and their   *)
(* histogram mice_dist.                                                    *)
(***************************************************************************)
EXTENDS Integers, FiniteSets, FiniteSetsExt, Functions

CONSTANTS
  Keys, Lambda, HalfRange,         (* as in ElasticSketch                   *)
  BucketNum, Slots, BucketOf,
  CounterNum, LightMax, PosOf,
  Weights, MaxFlow,
  Programs   (* TRUE: one that uses quick_insert, FALSE: one that uses insert *)

(* quick_insert leaves all packets of a bucket's flows in the bucket: for it *)
(* the bound of one flow's weight is one of their common weight.             *)
QuickFits ==
  \A b \in 0 .. BucketNum - 1 :
    Cardinality({k \in Keys : BucketOf[k] = b}) * MaxFlow < HalfRange

ASSUME SplitAssumption ==
  /\ Keys \subseteq Nat \ {0} /\ IsFiniteSet(Keys)     \* 0 marks an empty lane
  /\ {Lambda, HalfRange, BucketNum, Slots, CounterNum, LightMax} \subseteq Nat \ {0}
  /\ BucketOf \in [Keys \cup {0} -> 0 .. BucketNum - 1]
  /\ PosOf \in [Keys \cup {0} -> 0 .. CounterNum - 1]
  /\ Weights \subseteq Nat \ {0}
  /\ MaxFlow \in Nat /\ MaxFlow + LightMax < HalfRange
  /\ Programs \subseteq BOOLEAN /\ (TRUE \in Programs => QuickFits)

VARIABLES
  quick,      \* the program inserts with quick_insert
  sketch,     \* the sketch of each build
  packets,    \* history: calls by flow,
  mass        \* and the weight inserted

vars == <<quick, sketch, packets, mass>>
Builds == {"simd", "scalar"}
Guard == Slots
Lanes == 0 .. Slots - 1
None == -1

First(S) == IF S = {} THEN None ELSE Min(S)
Flagged(v) == v >= HalfRange
GetCounterVal(v) == v % HalfRange
-----------------------------------------------------------------------------
(* Where a key may go in a bucket with keys and vals: the lane that holds  *)
(* it, a free lane, the lane of the smallest count.                        *)

\* The vector code: the comparisons cover all lanes; the guard lane is masked
\* with the largest count.
VectorScan(keys, vals, k) ==
  LET results == [i \in 0 .. Slots |-> IF i = Guard THEN HalfRange - 1 ELSE GetCounterVal(vals[i])]
      least == Min(Range(results))
      min == First({i \in 0 .. Slots : results[i] = least})
  IN  [matched |-> First({i \in 0 .. Slots : keys[i] = k}),
       empty |-> IF least = 0 THEN min ELSE None,
       min |-> min]

Unseen == [matched |-> None, empty |-> None, min |-> 0]

\* The scalar code: one pass over the lanes, left at a match.
Look(keys, vals, k, a, i) ==
  IF a.matched # None THEN a
  ELSE IF keys[i] = k THEN [a EXCEPT !.matched = i]
  ELSE [a EXCEPT !.empty = IF @ = None /\ keys[i] = 0 THEN i ELSE @,
                 !.min = IF GetCounterVal(vals[@]) > GetCounterVal(vals[i]) THEN i ELSE @]

\* Slip: the last of the smallest counts.
LookLast(keys, vals, k, a, i) ==
  IF a.matched # None THEN a
  ELSE IF keys[i] = k THEN [a EXCEPT !.matched = i]
  ELSE [a EXCEPT !.empty = IF @ = None /\ keys[i] = 0 THEN i ELSE @,
                 !.min = IF GetCounterVal(vals[@]) >= GetCounterVal(vals[i]) THEN i ELSE @]

ScalarScanLast(keys, vals, k) ==
  LET seen[n \in 0 .. Slots] ==
        IF n = 0 THEN Unseen ELSE LookLast(keys, vals, k, seen[n - 1], n - 1)
  IN  seen[Slots]

ScalarScan(keys, vals, k) ==
  LET seen[n \in 0 .. Slots] ==
        IF n = 0 THEN Unseen ELSE Look(keys, vals, k, seen[n - 1], n - 1)
  IN  seen[Slots]

Scan(build, s, k) ==
  LET b == BucketOf[k]
  IN  IF build = "simd" THEN VectorScan(s.key[b], s.val[b], k)
                        ELSE ScalarScan(s.key[b], s.val[b], k)

HeavyQuery(build, s, k) ==
  LET b == BucketOf[k]
      lane == First({i \in IF build = "simd" THEN 0 .. Slots ELSE Lanes : s.key[b][i] = k})
  IN  IF lane = None THEN 0 ELSE s.val[b][lane]
-----------------------------------------------------------------------------
(* The light part. *)

\* mice_dist[old]--; mice_dist[new]++ (nothing changes when they are equal)
Recount(dist, old, new) ==
  IF old = new THEN dist ELSE [dist EXCEPT ![old] = @ - 1, ![new] = @ + 1]

Store(s, p, new) ==
  [s EXCEPT !.counters[p] = new, !.mice_dist = Recount(@, s.counters[p], new)]

LightInsert(s, k, f) ==
  Store(s, PosOf[k], Min({s.counters[PosOf[k]] + f, LightMax}))

LightSwapInsert(s, k, f) ==
  Store(s, PosOf[k], Max({s.counters[PosOf[k]], Min({f, LightMax})}))

LightQuery(s, k) == s.counters[PosOf[k]]
-----------------------------------------------------------------------------
(* An insertion: what the two programs do once the bucket is searched. *)

Fresh ==
  [key |-> [b \in 0 .. BucketNum - 1 |-> [i \in 0 .. Slots |-> 0]],
   val |-> [b \in 0 .. BucketNum - 1 |-> [i \in 0 .. Slots |-> 0]],
   counters |-> [p \in 0 .. CounterNum - 1 |-> 0],
   mice_dist |-> [v \in 0 .. LightMax |-> 0]]

InLane(s, b, i, k, v) == [s EXCEPT !.key[b][i] = k, !.val[b][i] = v]

\* Returns 0: the key is resident, or takes a free lane.
Kept(s, k, f, at) ==
  LET b == BucketOf[k]
  IN  IF at.matched # None THEN [s EXCEPT !.val[b][at.matched] = (@ + f) % (2 * HalfRange)]
                           ELSE InLane(s, b, at.empty, k, f)

Voted(s, b) == [s EXCEPT !.val[b][Guard] = (@ + 1) % (2 * HalfRange)]

JudgeIfSwap(s, b, min) ==
  Voted(s, b).val[b][Guard] > (GetCounterVal(s.val[b][min]) * Lambda) % (2 * HalfRange)

HandOver(s, k, v) ==
  IF Flagged(v) THEN LightInsert(s, k, GetCounterVal(v)) ELSE LightSwapInsert(s, k, v)

\* Slip: a displacement keeps the votes.
InsertKeepingVotes(build, s, k, f) ==
  LET b == BucketOf[k]
      at == Scan(build, s, k)
  IN  IF at.matched # None \/ at.empty # None THEN Kept(s, k, f, at)
      ELSE IF ~JudgeIfSwap(s, b, at.min) THEN LightInsert(Voted(s, b), k, 1)
      ELSE HandOver(InLane(Voted(s, b), b, at.min, k, HalfRange + 1),
                    s.key[b][at.min], s.val[b][at.min])

\* insert: a packet that is not kept is a vote, and goes to the light part
\* unless the votes suffice to displace the smallest resident.
InsertInto(build, s, k, f) ==
  LET b == BucketOf[k]
      at == Scan(build, s, k)
  IN  IF at.matched # None \/ at.empty # None THEN Kept(s, k, f, at)
      ELSE IF ~JudgeIfSwap(s, b, at.min) THEN LightInsert(Voted(s, b), k, 1)
      ELSE HandOver(InLane([s EXCEPT !.val[b][Guard] = 0], b, at.min, k, HalfRange + 1),
                    s.key[b][at.min], s.val[b][at.min])

\* Slip: the votes of the newcomer stay beside the count it inherits.
QuickInsertKeepingVotes(build, s, k, f) ==
  LET b == BucketOf[k]
      at == Scan(build, s, k)
  IN  IF at.matched # None \/ at.empty # None THEN Kept(s, k, f, at)
      ELSE IF ~JudgeIfSwap(s, b, at.min) THEN Voted(s, b)
      ELSE [Voted(s, b) EXCEPT !.key[b][at.min] = k, !.val[b][at.min] = @ + 1]

\* quick_insert: the newcomer inherits the count of the one it displaces.
QuickInsertInto(build, s, k, f) ==
  LET b == BucketOf[k]
      at == Scan(build, s, k)
  IN  IF at.matched # None \/ at.empty # None THEN Kept(s, k, f, at)
      ELSE IF ~JudgeIfSwap(s, b, at.min) THEN Voted(s, b)
      ELSE [s EXCEPT !.val[b][Guard] = 0, !.key[b][at.min] = k]
-----------------------------------------------------------------------------
Init ==
  /\ quick \in Programs
  /\ sketch = [build \in Builds |-> Fresh]
  /\ packets = [k \in Keys |-> 0]
  /\ mass = [k \in Keys |-> 0]

Insert(k, f) ==
  /\ mass[k] + f <= MaxFlow
  /\ sketch' = [build \in Builds |-> IF quick THEN QuickInsertInto(build, sketch[build], k, f)
                                              ELSE InsertInto(build, sketch[build], k, f)]
  /\ packets' = [packets EXCEPT ![k] = @ + 1]
  /\ mass' = [mass EXCEPT ![k] = @ + f]
  /\ UNCHANGED quick

Clear ==
  /\ sketch' = [build \in Builds |-> Fresh]
  /\ packets' = [k \in Keys |-> 0]
  /\ mass' = [k \in Keys |-> 0]
  /\ UNCHANGED quick

Next == Clear \/ \E k \in Keys, f \in Weights : Insert(k, f)

Spec == Init /\ [][Next]_vars
-----------------------------------------------------------------------------
(* The queries and the tasks, of a sketch s. *)

Query(build, s, k) ==
  LET v == HeavyQuery(build, s, k)
  IN  IF v = 0 \/ Flagged(v) THEN GetCounterVal(v) + LightQuery(s, k) ELSE v

LaneSet == (0 .. BucketNum - 1) \X Lanes

\* get_heavy_hitters, one pair for every lane that reaches the threshold
HeavyHitters(build, s, threshold) ==
  {l \in LaneSet : Query(build, s, s.key[l[1]][l[2]]) >= threshold}

\* Slip: a flow is taken to be in both parts whenever its lane is flagged.
ExValFlagged(s, b, i) == IF Flagged(s.val[b][i]) THEN 1 ELSE 0

\* ex_val where the flow of a lane is in the light part too, else 0
ExVal(s, b, i) ==
  IF Flagged(s.val[b][i]) THEN LightQuery(s, s.key[b][i]) ELSE 0

\* val += ex_val, without the flag
Whole(s, b, i) == GetCounterVal(s.val[b][i] + ExVal(s, b, i))

\* get_cardinality, with the number of counters in use for the estimate that
\* the light part makes from it
Cardinal(s) ==
  SumFunctionOnSet(s.mice_dist, 1 .. LightMax)
    - Cardinality({l \in LaneSet : ExVal(s, l[1], l[2]) # 0})
    + Cardinality({l \in LaneSet : Whole(s, l[1], l[2]) # 0})

\* tot of get_entropy
EntropyTotal(s) ==
  SumFunctionOnSet([v \in 1 .. LightMax |-> v * s.mice_dist[v]], 1 .. LightMax)
    + SumFunctionOnSet([l \in LaneSet |-> Whole(s, l[1], l[2]) - ExVal(s, l[1], l[2])], LaneSet)

\* get_distribution, with the histogram of the light counters for what the
\* expectation maximisation makes of it: how many flows have n packets
Distribution(s, n) ==
  (IF n <= LightMax THEN s.mice_dist[n] ELSE 0)
    - Cardinality({l \in LaneSet : ExVal(s, l[1], l[2]) = n})
    + Cardinality({l \in LaneSet : Whole(s, l[1], l[2]) = n})
-----------------------------------------------------------------------------
(***************************************************************************)
(* The compile-time switch does not change what is measured: on flows with *)
(* nonzero keys the two builds have the same tables after any packets,     *)
(* whatever the ties between lanes, and report the same heavy hitters.     *)
(* (Of an empty lane get_heavy_hitters asks for key 0, which the vector    *)
(* query finds in the guard lane of a full bucket and takes the votes for  *)
(* its packets; the scalar query looks into the light part.)               *)
(***************************************************************************)
FlowsReported(build, threshold) ==
  LET s == sketch[build] IN {l \in HeavyHitters(build, s, threshold) : s.key[l[1]][l[2]] # 0}

BuildsAgree ==
  /\ sketch["simd"] = sketch["scalar"]
  /\ \A threshold \in 1 .. MaxFlow :
       FlowsReported("simd", threshold) = FlowsReported("scalar", threshold)

Simd == INSTANCE ElasticSketch WITH
  SIMD <- TRUE, key <- sketch["simd"].key, val <- sketch["simd"].val,
  counters <- sketch["simd"].counters, mice_dist <- sketch["simd"].mice_dist

Scalar == INSTANCE ElasticSketch WITH
  SIMD <- FALSE, key <- sketch["scalar"].key, val <- sketch["scalar"].val,
  counters <- sketch["scalar"].counters, mice_dist <- sketch["scalar"].mice_dist

(***************************************************************************)
(* Each build of the split copy does what the corresponding template class *)
(* does (module ElasticSketch), so that what is proved of the class holds  *)
(* of the copy.  HeavyPart-noSIMD.h has no quick_insert: that of the copy's*)
(* scalar build is compared with the vector build's on the scalar search.  *)
(***************************************************************************)
ImplementsSketch ==
  /\ Simd!Init /\ [][IF quick THEN Simd!QuickNext ELSE Simd!Next]_(Simd!vars)
  /\ Scalar!Init /\ [][IF quick THEN Scalar!QuickNext ELSE Scalar!Next]_(Scalar!vars)

(***************************************************************************)
(* Votes never outlive the residents they were cast against: they are at   *)
(* most Lambda times the smallest count of the bucket, through any         *)
(* sequence of displacements by insert.                                    *)
(***************************************************************************)
GuardBounded ==
  \A build \in Builds, b \in 0 .. BucketNum - 1, i \in Lanes :
    sketch[build].val[b][Guard] <= Lambda * GetCounterVal(sketch[build].val[b][i])

(***************************************************************************)
(* A flow whose packets lie in both parts is counted once and with all its *)
(* packets by get_cardinality, get_entropy and get_distribution: were the  *)
(* light part's own estimates exact, so would theirs be.                   *)
(***************************************************************************)
CollisionFree == \A j, k \in Keys : PosOf[j] = PosOf[k] => j = k

TasksExact ==
  LET s == sketch["simd"] IN
  ~quick /\ CollisionFree /\ packets = mass /\ (\A k \in Keys : LightQuery(s, k) < LightMax)
    => /\ Cardinal(s) = Cardinality({k \in Keys : packets[k] > 0})
       /\ EntropyTotal(s) = SumFunction(packets)
       /\ \A n \in 1 .. MaxFlow :
            Distribution(s, n) = Cardinality({k \in Keys : packets[k] = n})

(***************************************************************************)
(* quick_insert makes up no packets: the counts and votes of a bucket are  *)
(* at most its flows' packets although counts are inherited.               *)
(***************************************************************************)
BucketConservation ==
  quick =>
    \A b \in 0 .. BucketNum - 1 :
      SumFunctionOnSet([i \in 0 .. Slots |-> GetCounterVal(sketch["scalar"].val[b][i])], 0 .. Slots)
        <= SumFunctionOnSet(mass, {k \in Keys : BucketOf[k] = b})
=============================================================================
