----------------------------- MODULE LightPart -----------------------------
(***************************************************************************)
(* The light part of the Elastic sketch (class LightPart): one row of      *)
(* saturating byte counters indexed by a hash of the key, and the          *)
(* histogram mice_dist of the counters' values, which the code maintains   *)
(* incrementally from an all-zero start (so that mice_dist[0] goes         *)
(* negative) and which the measurement tasks read instead of the counters. *)
(***************************************************************************)
EXTENDS Param, Functions

CONSTANTS
  CounterNum,  (* counter_num                                               *)
  LightMax,    (* 255: the largest value of a counter                       *)
  PosOf        (* BOBHash32 modulo counter_num: the counter of a key        *)

ASSUME LightAssumption ==
  /\ CounterNum \in Nat \ {0}
  /\ LightMax \in Nat \ {0}
  /\ PosOf \in [Keys \cup {0} -> 0 .. CounterNum - 1]

VARIABLES counters, mice_dist

lightVars == <<counters, mice_dist>>
-----------------------------------------------------------------------------
Positions == 0 .. CounterNum - 1

Saturate(n) == IF n < LightMax THEN n ELSE LightMax

\* mice_dist[old]--; mice_dist[new]++ (nothing changes when they are equal)
Recount(dist, old, new) ==
  IF old = new THEN dist
  ELSE [dist EXCEPT ![old] = @ - 1, ![new] = @ + 1]

\* counters[p] = new, with the histogram kept up to date
Store(p, new) ==
  /\ counters'  = [counters EXCEPT ![p] = new]
  /\ mice_dist' = Recount(mice_dist, counters[p], new)
-----------------------------------------------------------------------------
LightInit ==
  /\ counters  = [p \in Positions |-> 0]
  /\ mice_dist = [v \in 0 .. LightMax |-> 0]

LightClear ==
  /\ counters'  = [p \in Positions |-> 0]
  /\ mice_dist' = [v \in 0 .. LightMax |-> 0]

\* insert: add f, up to the largest value
LightInsert(k, f) ==
  Store(PosOf[k], Saturate(counters[PosOf[k]] + f))

\* swap_insert: raise the counter to f if it is below
LightSwapInsert(k, f) ==
  IF counters[PosOf[k]] < Saturate(f)
    THEN Store(PosOf[k], Saturate(f))
    ELSE UNCHANGED lightVars
-----------------------------------------------------------------------------
LightQuery(k) == counters[PosOf[k]]

\* get_compress_width, compress and query_compressed_part: position i of the
\* compressed array holds the largest counter among i, i + width, ...
CompressWidth(ratio) == CounterNum \div ratio

\* Slip: the strides stop before the last, shorter one.
CompressWholeStrides(ratio) ==
  LET width == CompressWidth(ratio)
  IN  [i \in 0 .. width - 1 |->
         Max({counters[i + width * r] : r \in 0 .. (CounterNum \div width) - 1})]

Compress(ratio) ==
  LET width == CompressWidth(ratio)
  IN  [i \in 0 .. width - 1 |->
         Max({counters[j] : j \in {p \in Positions : p >= i /\ (p - i) % width = 0}})]

LightQueryCompressed(k, part, width) == part[PosOf[k] % width]

\* get_cardinality before the linear-counting estimate: nonzero counters
MiceCard == SumFunctionOnSet(mice_dist, 1 .. LightMax)

\* the total that get_entropy accumulates
MiceTotal ==
  SumFunctionOnSet([v \in 1 .. LightMax |-> v * mice_dist[v]], 1 .. LightMax)

LightTypeOK ==
  /\ counters \in [Positions -> 0 .. LightMax]
  /\ mice_dist \in [0 .. LightMax -> Int]
-----------------------------------------------------------------------------
(***************************************************************************)
(* The histogram the tasks read agrees with the counters: entry v # 0 is   *)
(* the number of counters with value v, and entry 0 is minus the number of *)
(* counters that have left 0.  (LightPart::insert and swap_insert update   *)
(* the two separately; clear must reset both.)                             *)
(***************************************************************************)
MiceDistConsistent ==
  \A v \in 0 .. LightMax :
    mice_dist[v] = Cardinality({p \in Positions : counters[p] = v})
                   - (IF v = 0 THEN CounterNum ELSE 0)
=============================================================================
