--------------------------- MODULE ElasticSketch ---------------------------
(***************************************************************************)
(* The Elastic sketch (class ElasticSketch): the heavy part and the light  *)
(* part composed.  A packet goes to the heavy part first; what the heavy   *)
(* part returns decides what the light part receives: nothing, the packet  *)
(* itself, or the resident it displaced.  query joins the two.             *)
(*                                                                         *)
(* Two history variables say what really happened since the last clear:    *)
(* packets[k] calls of insert for key k, weighing mass[k] together.        *)
(***************************************************************************)
EXTENDS HeavyPart, LightPart

CONSTANTS
  Weights,   (* the values f of insert(key, f) the callers use              *)
  MaxFlow    (* bound: the largest total weight of one flow                 *)

(***************************************************************************)
(* A flow stays so small that neither its word reaches the flag bit nor    *)
(* LightPart's int arithmetic overflows (2^31 - 256 packets in the code).  *)
(***************************************************************************)
ASSUME SketchAssumption ==
  /\ Weights \subseteq Nat \ {0}
  /\ MaxFlow \in Nat
  /\ MaxFlow + LightMax < HalfRange

VARIABLES packets, mass

truthVars == <<packets, mass>>
vars == <<heavyVars, lightVars, truthVars>>
-----------------------------------------------------------------------------
Init ==
  /\ HeavyInit
  /\ LightInit
  /\ packets = [k \in Keys |-> 0]
  /\ mass    = [k \in Keys |-> 0]

Received(k, f) ==
  /\ mass[k] + f <= MaxFlow
  /\ packets' = [packets EXCEPT ![k] = @ + 1]
  /\ mass'    = [mass EXCEPT ![k] = @ + f]

Match(k, f) ==
  /\ Received(k, f)
  /\ HeavyMatch(k, f)
  /\ UNCHANGED lightVars

Fill(k, f) ==
  /\ Received(k, f)
  /\ HeavyFill(k, f)
  /\ UNCHANGED lightVars

\* Slip: the flag ignored.
HandOverAlwaysMax(victim, v) == LightSwapInsert(victim, Count(v))

\* A flagged victim's count is added to its light counter; an unflagged one
\* has nothing there, so its light counter is raised to its count.
HandOver(victim, v) ==
  IF Flagged(v) THEN LightInsert(victim, Count(v))
                ELSE LightSwapInsert(victim, v)

Swap(k, f) ==
  LET b == BucketOf[k]
  IN  /\ Received(k, f)
      /\ HeavySwap(k)
      /\ HandOver(key[b][Victim(b)], val[b][Victim(b)])

\* The packet goes to the light part, with weight 1 whatever f is.
Reject(k, f) ==
  /\ Received(k, f)
  /\ HeavyReject(k)
  /\ LightInsert(k, 1)

Insert(k, f) ==
  \/ Match(k, f)
  \/ Fill(k, f)
  \/ Swap(k, f)
  \/ Reject(k, f)

QuickInsert(k, f) ==
  /\ Received(k, f)
  /\ \/ HeavyMatch(k, f)
     \/ HeavyFill(k, f)
     \/ QuickSwap(k)
     \/ HeavyReject(k)
  /\ UNCHANGED lightVars

Clear ==
  /\ HeavyClear
  /\ LightClear
  /\ packets' = [k \in Keys |-> 0]
  /\ mass'    = [k \in Keys |-> 0]

Next == (\E k \in Keys, f \in Weights : Insert(k, f)) \/ Clear

Spec == Init /\ [][Next]_vars

\* A program that uses quick_insert, the alternative demo/elastic.cpp names.
QuickNext == (\E k \in Keys, f \in Weights : QuickInsert(k, f)) \/ Clear
-----------------------------------------------------------------------------
\* Slip of query: a flagged resident is not joined with the light part.
QueryHeavyAlone(k) ==
  LET v == HeavyQuery(k)
  IN  IF v = 0 THEN LightQuery(k) ELSE Count(v)

Query(k) ==
  LET v == HeavyQuery(k)
  IN  IF v = 0 \/ Flagged(v) THEN Count(v) + LightQuery(k) ELSE v

QueryCompressed(k, ratio) ==
  LET v == HeavyQuery(k)
  IN  IF v = 0 \/ Flagged(v)
      THEN Count(v) + LightQueryCompressed(k, Compress(ratio), CompressWidth(ratio))
      ELSE v

LaneSet == Buckets \X Lanes

\* What the lanes of the flows in S count together.
Held(S) ==
  SumFunctionOnSet([l \in LaneSet |->
     IF key[l[1]][l[2]] \in S THEN Count(val[l[1]][l[2]]) ELSE 0], LaneSet)

\* get_heavy_hitters: every lane whose key's estimate reaches the threshold
\* (a free lane holds key 0, which is queried like any other)
HeavyHitterLanes(threshold) ==
  {l \in LaneSet : Query(key[l[1]][l[2]]) >= threshold}

\* The residents whose light counter the tasks report as theirs.
Joined ==
  {l \in LaneSet :
     Flagged(val[l[1]][l[2]]) /\ LightQuery(key[l[1]][l[2]]) # 0}

\* get_cardinality, with the number of nonzero counters where the code has
\* the linear-counting estimate made from it
Cardinal ==
  MiceCard - Cardinality(Joined)
    + Cardinality({l \in LaneSet : Count(val[l[1]][l[2]]) # 0})

\* get_entropy's total: a joined resident's light count is added and
\* subtracted, so only the resident's own count remains
EntropyTotal == MiceTotal + Held(Keys \cup {0})
-----------------------------------------------------------------------------
TypeOK ==
  /\ HeavyTypeOK
  /\ LightTypeOK
  /\ packets \in [Keys -> Nat]
  /\ mass \in [Keys -> 0 .. MaxFlow]

Flows == Keys \ {0}   \* key 0 marks a free lane and is not a flow below
-----------------------------------------------------------------------------
(***************************************************************************)
(* The promise of the sketch: query never returns less than the number of  *)
(* packets of the flow that were inserted, unless the flow's light counter *)
(* is saturated.  It takes the heavy part's return codes, the flag bit,    *)
(* add-versus-max in the light part and the join in query to get it right, *)
(* over a flow's whole history of displacements and returns.               *)
(***************************************************************************)
NoUnderestimate ==
  \A k \in Flows : Query(k) >= packets[k] \/ LightQuery(k) = LightMax

(***************************************************************************)
(* A flow that never left the heavy part is counted exactly: no flag means *)
(* no packet of the flow was ever sent elsewhere.                          *)
(***************************************************************************)
ExactWhenUnflagged ==
  \A k \in Flows :
    HeavyQuery(k) # 0 /\ ~Flagged(HeavyQuery(k)) => Query(k) = mass[k]

(***************************************************************************)
(* The two promises of query together: never too low, and exact for a flow *)
(* that never left the heavy part.                                         *)
(***************************************************************************)
QueryBounds == NoUnderestimate /\ ExactWhenUnflagged

(***************************************************************************)
(* Overestimation comes from collisions only: a light counter and the      *)
(* lanes of the flows that hash to it never add up to more than those      *)
(* flows' packets.  A displaced count is never counted twice.              *)
(***************************************************************************)
Sharing(p) == {k \in Keys \cup {0} : PosOf[k] = p}

LightConservation ==
  \A p \in Positions :
    counters[p] + Held(Sharing(p)) <= SumFunctionOnSet(mass, Sharing(p) \cap Keys)

EntropyBounded == EntropyTotal <= SumFunctionOnSet(mass, Keys)

(***************************************************************************)
(* What the tasks report errs on one side: the histogram agrees with the   *)
(* counters, get_cardinality counts no flow that did not come (one in both *)
(* parts once, also when others share its light counter), and the total    *)
(* of get_entropy exceeds neither the packets nor, counter by counter,     *)
(* those of the flows that hash there.                                     *)
(***************************************************************************)
TasksBounded ==
  /\ MiceDistConsistent
  /\ LightConservation
  /\ Cardinal <= Cardinality({k \in Keys : packets[k] > 0})
  /\ EntropyBounded

(***************************************************************************)
(* get_heavy_hitters reports no flow twice: the lanes of a bucket hold     *)
(* distinct flows through every fill and displacement.                     *)
(***************************************************************************)
ReportedOnce ==
  \A k \in Flows, threshold \in 1 .. MaxFlow :
    Cardinality({l \in HeavyHitterLanes(threshold) : key[l[1]][l[2]] = k}) <= 1

(***************************************************************************)
(* get_heavy_hitters misses no resident flow that reached the threshold,   *)
(* also one that was displaced in between (up to light saturation).        *)
(***************************************************************************)
HeavyHittersComplete ==
  \A k \in Flows, threshold \in 1 .. MaxFlow :
    /\ Residence(k) # {}
    /\ packets[k] >= threshold
    /\ LightQuery(k) # LightMax
    => \E l \in HeavyHitterLanes(threshold) : key[l[1]][l[2]] = k

(***************************************************************************)
(* get_heavy_hitters reports every resident flow that reached the          *)
(* threshold, and none twice.                                              *)
(***************************************************************************)
HittersReported == ReportedOnce /\ HeavyHittersComplete

(***************************************************************************)
(* Compressing the light part by any ratio, also one that does not divide  *)
(* its size, never lowers an estimate.                                     *)
(***************************************************************************)
CompressNeverLower ==
  \A k \in Keys, ratio \in 1 .. CounterNum : QueryCompressed(k, ratio) >= Query(k)

(***************************************************************************)
(* An insertion never lowers the estimate of a flow already seen, except   *)
(* that a displaced flow's estimate drops to what a light counter can      *)
(* hold.  (Displacement moves counts between the parts; the flag and the   *)
(* join in query have to follow in the same call.)                         *)
(***************************************************************************)
EstimateMonotone ==
  [][(\E k \in Keys, f \in Weights : Insert(k, f)) =>
       \A j \in Flows :
         packets[j] > 0 => Query(j)' >= Query(j) \/ LightQuery(j)' = LightMax]_vars
-----------------------------------------------------------------------------
\* What the light part knows of flow k, with n packets of it known besides.
Covered(k, n) ==
  LightQuery(k) = LightMax \/ n + LightQuery(k) >= packets[k]

\* The guard lane's key is never written, a flow sits in one lane of its
\* own bucket, and a lane with key 0 counts packets of key 0 only.
Placed ==
  \A b \in Buckets :
    /\ key[b][Guard] = 0
    /\ \A i \in Lanes :
         /\ key[b][i] # 0 => BucketOf[key[b][i]] = b
         /\ \A j \in Lanes : key[b][i] # 0 /\ key[b][j] = key[b][i] => j = i
         /\ key[b][i] = 0 /\ 0 \in Keys => val[b][i] <= mass[0]

\* What a resident flow's lane says of the flow.
Inside ==
  \A k \in Flows : \A i \in Residence(k) :
    LET v == val[BucketOf[k]][i]
    IN  /\ Count(v) \in 1 .. mass[k]
        /\ Flagged(v) => Covered(k, Count(v))
        /\ ~Flagged(v) => v = mass[k]

\* What is known of a flow outside the heavy part: the light part covers it,
\* and it can only be outside when its bucket has no free lane.
Outside ==
  \A k \in Flows :
    Residence(k) = {} => /\ Covered(k, 0)
                         /\ mass[k] > 0 => Empty(BucketOf[k]) = {}

Weighed == \A k \in Keys : packets[k] <= mass[k]

(***************************************************************************)
(* Every packet of a flow is accounted for by the lane that holds the      *)
(* flow, by its light counter, or by the two together: the inductive form  *)
(* of NoUnderestimate and ExactWhenUnflagged.                              *)
(***************************************************************************)
Accounting == Placed /\ Inside /\ Outside /\ Weighed

\* A lane with key 0 has counted nothing unless 0 is a flow of the bucket, and
\* then only the first such lane has.
ZeroLane ==
  \A b \in Buckets, i \in Lanes :
    key[b][i] = 0 /\ val[b][i] # 0 =>
      /\ 0 \in Keys /\ BucketOf[0] = b
      /\ \A j \in Lanes : key[b][j] = 0 /\ j # i => i < j /\ val[b][j] = 0

\* Some packets of k may be in the light part.
Lent(k) == \A i \in Residence(k) : Flagged(val[BucketOf[k]][i])

\* A light counter is in use for the sake of such a flow that came.
Witnessed ==
  \A p \in Positions : counters[p] # 0 =>
    \E k \in Keys : PosOf[k] = p /\ packets[k] > 0 /\ Lent(k)

\* The histogram's count of the counters in use.
MiceCounted == MiceCard = Cardinality({p \in Positions : counters[p] # 0})

Came == \A k \in Keys : mass[k] > 0 => packets[k] > 0

(***************************************************************************)
(* What the tasks rely on: the inductive form of TasksBounded.             *)
(***************************************************************************)
Bookkeeping ==
  /\ MiceDistConsistent /\ MiceCounted
  /\ LightConservation /\ EntropyBounded
  /\ ZeroLane /\ Witnessed /\ Came

(***************************************************************************)
(* The inductive invariant of the proofs: every state is well typed, every *)
(* packet is accounted for, and the tasks find their books in order.       *)
(***************************************************************************)
SketchInvariant == TypeOK /\ Accounting /\ Bookkeeping
=============================================================================
