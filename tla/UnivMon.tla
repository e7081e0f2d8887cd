------------------------------ MODULE UnivMon ------------------------------
(***************************************************************************)
(* CPU/UnivMon/UnivMon.h: a CountHeap for every level.  Every flow is in   *)
(* level 0, and in level i when it is in level i - 1 and polar_hash[i] is  *)
(* 1 for it.  The tasks sum a function of the counts from the last level   *)
(* up (g_sum).  Levels have the numbers of the code.                       *)
(***************************************************************************)
EXTENDS CounterRows, Functions

CONSTANTS Keys, capacity,
  level,       (* number of levels                                         *)
  Polar        (* Polar[i][k] \in {0, 1}: polar_hash[i]                    *)

VARIABLES
  sketches,    \* rows and heap of every level
  packets      \* packets[k]: packets of flow k so far

PairBefore(a, b) == a.count < b.count \/ (a.count = b.count /\ a.flow < b.flow)
Heap == INSTANCE TopKHeap WITH Before <- PairBefore, NoFlow <- 0
-----------------------------------------------------------------------------
Init == sketches = [i \in 0 .. level - 1 |-> [rows |-> Zeros, heap |-> Heap!HeapInit]]

\* CountHeap::insert
CountHeapInsert(h, k) ==
  LET rows == CountInsert(h.rows, k, 1)
      tmin == Max({1, CountQuery(rows, k)})
  IN  [rows |-> rows, heap |-> Heap!Offer(h.heap, k, tmin, tmin)]

\* Slip: a level does not ask for the levels before it.
ReachesAlone(k, i) == i = 0 \/ Polar[i][k] = 1

\* insert breaks off at the first level whose bit is 0.
Reaches(k, i) == \A j \in 1 .. i : Polar[j][k] = 1

Insert(k) ==
  sketches' = [i \in 0 .. level - 1 |->
                 IF Reaches(k, i) THEN CountHeapInsert(sketches[i], k) ELSE sketches[i]]

\* What get_top_k_with_frequency(k, ...) returns of level i, without the
\* elements that are not in use.
Top(i) == {e \in Range(Heap!TopK(sketches[i].heap, capacity)) : e.count # 0}

\* The weight of a flow of level i: at all but the last level a flow that
\* goes on is taken off what the next level's sum counts twice.
Coe(i, k) == IF i = level - 1 THEN 1 ELSE 1 - 2 * Polar[i + 1][k]

\* g is a function of the counts.
GSum(g) ==
  LET Y[i \in 0 .. level - 1] ==
        (IF i = level - 1 THEN 0 ELSE 2 * Y[i + 1])
        + MapThenSumSet(LAMBDA e : Coe(i, e.flow) * g[e.count], Top(i))
  IN  Y[0]

get_cardinality == GSum([x \in Int |-> 1])

\* get_heavy_hitters: a flow is reported with the count of its last level.
HeavyHitters(threshold) ==
  {e \in UNION {Top(i) : i \in 0 .. level - 1} :
     /\ e.count >= threshold
     /\ \E i \in 0 .. level - 1 :
          e \in Top(i) /\ \A j \in i + 1 .. level - 1 : \A f \in Top(j) : f.flow # e.flow}
-----------------------------------------------------------------------------
AtLevel(i) == {k \in Keys : packets[k] > 0 /\ Reaches(k, i)}

\* In most rows k shares its counter with no flow of its level.
Clean(k, i) ==
  2 * Cardinality({r \in 1 .. d :
        \A j \in AtLevel(i) \ {k} : Hash[r][j] # Hash[r][k]}) > d

(***************************************************************************)
(* What the doubling and the signs of g_sum are for: as long as the heaps  *)
(* hold all the flows of their levels, the sums of the levels telescope.   *)
(* get_cardinality is then the number of flows however much the counters   *)
(* collide, and the sum over the counts (that of get_entropy with another  *)
(* g) is the number of packets when the counters are right.  A flow is     *)
(* reported once.                                                          *)
(***************************************************************************)
LevelsTelescope ==
  /\ (\A i \in 0 .. level - 1 : Cardinality(AtLevel(i)) <= capacity) =>
       /\ get_cardinality = Cardinality(AtLevel(0))
       /\ (\A i \in 0 .. level - 1 : \A k \in AtLevel(i) : Clean(k, i)) =>
            GSum([x \in Int |-> x]) = FoldFunction(LAMBDA x, y : x + y, 0, packets)
  /\ \A e, f \in HeavyHitters(1) : e.flow = f.flow => e = f
=============================================================================
