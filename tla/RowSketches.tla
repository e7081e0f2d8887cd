---------------------------- MODULE RowSketches ----------------------------
(***************************************************************************)
(* CPU/CMSketch/CM.h, CPU/CUSketch/CU.h and CPU/CountSketch/Count.h, fed   *)
(* with the same packets: count-min, conservative update and Count sketch. *)
(***************************************************************************)
EXTENDS CounterRows

CONSTANT Keys

VARIABLES
  cm, cu, cs,    \* the rows of CMSketch, CUSketch and CountSketch
  packets        \* packets[k]: packets of flow k so far

RowsAssumption ==
  /\ IsFiniteSet(Keys)
  /\ d \in Nat \ {0} /\ w \in Nat \ {0}
  /\ \A i \in 1 .. d, k \in Keys : Hash[i][k] \in 0 .. w - 1 /\ Sign[i][k] \in {0, 1}
-----------------------------------------------------------------------------
Init == cm = Zeros /\ cu = Zeros /\ cs = Zeros

Insert(k) ==
  /\ cm' = CmInsert(cm, k, 1)
  /\ cu' = CuInsert(cu, k, 1)
  /\ cs' = CountInsert(cs, k, 1)
-----------------------------------------------------------------------------
\* In most rows no flow that came shares k's counter.
Clean(k) ==
  2 * Cardinality({i \in 1 .. d :
        \A j \in Keys \ {k} : packets[j] > 0 => Hash[i][j] # Hash[i][k]}) > d

(***************************************************************************)
(* The three estimates of one stream: conservative update never falls      *)
(* below the packets and never rises above count-min, in whatever order    *)
(* the flows raise their shared counters; the Count sketch is exact for a  *)
(* flow that is alone in most of its rows.                                 *)
(***************************************************************************)
EstimatesOrdered ==
  \A k \in Keys : /\ packets[k] <= CuQuery(cu, k)
                  /\ CuQuery(cu, k) <= CmQuery(cm, k)
                  /\ Clean(k) => CountQuery(cs, k) = packets[k]
=============================================================================
