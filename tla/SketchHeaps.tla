---------------------------- MODULE SketchHeaps ----------------------------
(***************************************************************************)
(* CPU/CMHeap/CMHeap.h, CPU/CUSketch/CUHeap.h and                          *)
(* CPU/CountHeap/CountHeap.h, fed with the same packets.  Each has rows of *)
(* its own, with the loops of CM.h, CU.h or Count.h, and a heap of flows   *)
(* with large estimates.  A call of insert is one action.  packets is what *)
(* the demos count in Real_Freq.  Flows are numbers, in the order in which *)
(* the code compares keys; 0 stands for no flow.                           *)
(***************************************************************************)
EXTENDS RowSketches

CONSTANT capacity

VARIABLES cm_heap, cu_heap, cs_heap    \* the heaps of CMHeap, CUHeap and CountHeap

CountBefore(a, b) == a.count < b.count
PairBefore(a, b) == a.count < b.count \/ (a.count = b.count /\ a.flow < b.flow)

ByCount == INSTANCE TopKHeap WITH Before <- CountBefore, NoFlow <- 0
ByPair == INSTANCE TopKHeap WITH Before <- PairBefore, NoFlow <- 0
-----------------------------------------------------------------------------
HeapsInit ==
  /\ Init
  /\ cm_heap = ByCount!HeapInit
  /\ cu_heap = ByPair!HeapInit
  /\ cs_heap = ByPair!HeapInit

\* Once the heap is full the root is replaced whatever its count: the code
\* compares it with tmin, which is still 1 << 30, not with ans.
CmOffer(k) == cm_heap' = ByCount!Offer(cm_heap, k, CmQuery(cm', k), 2^30)

\* A new element starts with the estimate from before the packet.
CuOffer(k) ==
  LET tmin == CuQuery(cu, k) IN cu_heap' = ByPair!Offer(cu_heap, k, tmin, tmin)

CountOffer(k) ==
  LET tmin == Max({1, CountQuery(cs', k)}) IN cs_heap' = ByPair!Offer(cs_heap, k, tmin, tmin)

HeapsInsert(k) == Insert(k) /\ CmOffer(k) /\ CuOffer(k) /\ CountOffer(k)

\* get_heavy_hitters and the two get_top_k.
HeavyHitters(threshold) ==
  <<ByCount!HeavyHitters(cm_heap, threshold), ByPair!HeavyHitters(cs_heap, threshold)>>
-----------------------------------------------------------------------------
(***************************************************************************)
(* Through increments, entries, evictions and returns each heap stays      *)
(* ordered (but for element 1, which is not compared with the root when it *)
(* enters), and its table points at the element of every flow of the heap  *)
(* and of no other.                                                        *)
(***************************************************************************)
HeapsWellFormed ==
  /\ ByCount!WellFormed(cm_heap)
  /\ ByPair!WellFormed(cu_heap)
  /\ ByPair!WellFormed(cs_heap)

(***************************************************************************)
(* What get_heavy_hitters and get_top_k report of a flow: CMHeap no less   *)
(* than its packets and no more than the sketch's estimate; CUHeap, which  *)
(* takes the estimate before the packet, one less at both ends; CountHeap  *)
(* the packets of a flow that is alone in most of its rows.                *)
(***************************************************************************)
ReportsBounded ==
  /\ \A e \in ByCount!HeavyHitters(cm_heap, 1) :
       packets[e.flow] <= e.count /\ e.count <= CmQuery(cm, e.flow)
  /\ \A i \in 0 .. cu_heap.heap_element_num - 1 :
       LET e == cu_heap.heap[i]
       IN  packets[e.flow] <= e.count + 1 /\ e.count + 1 <= CuQuery(cu, e.flow)
  /\ \A e \in ByPair!HeavyHitters(cs_heap, 1) :
       Clean(e.flow) => e.count = packets[e.flow]
=============================================================================
