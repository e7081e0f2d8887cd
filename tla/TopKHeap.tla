------------------------------ MODULE TopKHeap ------------------------------
(***************************************************************************)
(* The heap of CPU/CMHeap/CMHeap.h, CPU/CUSketch/CUHeap.h and              *)
(* CPU/CountHeap/CountHeap.h, the same code three times: an array of       *)
(* (count, flow) pairs whose first heap_element_num elements are a heap    *)
(* with the least pair at the root, and the table ht with the index of     *)
(* every flow in it.  A heap is a record; the operators return the heap    *)
(* the code leaves.  CMHeap compares counts, the others pairs.             *)
(***************************************************************************)
EXTENDS Integers, Functions, SequencesExt

CONSTANTS
  capacity,       (* elements of the array                                  *)
  NoFlow,         (* the flow of an element that is not in use              *)
  Before(_, _)    (* operator < of the elements                             *)
-----------------------------------------------------------------------------
HeapInit ==
  [heap |-> [i \in 0 .. capacity - 1 |-> [count |-> 0, flow |-> NoFlow]],
   heap_element_num |-> 0,
   ht |-> <<>>]

\* Slip: the table keeps the old indices.
SwapHeapAlone(h, i, j) == [h EXCEPT !.heap[i] = h.heap[j], !.heap[j] = h.heap[i]]

\* swap(heap[i], heap[j]), and the swap of the two flows' indices.
SwapElements(h, i, j) ==
  LET a == h.heap[i].flow  b == h.heap[j].flow
  IN  [h EXCEPT !.heap[i] = h.heap[j], !.heap[j] = h.heap[i],
                !.ht = [@ EXCEPT ![a] = h.ht[b], ![b] = h.ht[a]]]

\* The least of element i and its children (larger_one in the code).
Smaller(h, i, c) ==
  IF c < h.heap_element_num /\ Before(h.heap[c], h.heap[i]) THEN c ELSE i

SmallestChild(h, i) == Smaller(h, Smaller(h, i, 2 * i + 1), 2 * i + 2)

RECURSIVE AdjustDown(_, _)
AdjustDown(h, i) ==
  LET c == SmallestChild(h, i) IN
  IF i < h.heap_element_num \div 2 /\ c # i
  THEN AdjustDown(AdjustDown(SwapElements(h, i, c), c), i)
  ELSE h

\* The loop runs while i > 1: element 1 is not compared with the root.
RECURSIVE AdjustUp(_, _)
AdjustUp(h, i) ==
  LET parent == (i - 1) \div 2 IN
  IF i > 1 /\ Before(h.heap[i], h.heap[parent])
  THEN AdjustUp(SwapElements(h, i, parent), parent)
  ELSE h

\* A flow of the heap gets another packet.
Again(h, k) ==
  AdjustDown([h EXCEPT !.heap[h.ht[k]].count = @ + 1], h.ht[k])

Enter(h, k, count) ==
  LET n == h.heap_element_num
  IN  AdjustUp([h EXCEPT !.heap[n] = [count |-> count, flow |-> k],
                         !.heap_element_num = n + 1,
                         !.ht = (k :> n) @@ @], n)

ReplaceRoot(h, k, count) ==
  AdjustDown([h EXCEPT !.heap[0] = [count |-> count, flow |-> k],
                       !.ht = (k :> 0) @@ Restrict(@, DOMAIN @ \ {h.heap[0].flow})], 0)

\* What insert does with the heap: count is what a new element starts with,
\* test what is compared with the root once the heap is full.
Offer(h, k, count, test) ==
  IF k \in DOMAIN h.ht THEN Again(h, k)
  ELSE IF h.heap_element_num < capacity THEN Enter(h, k, count)
  ELSE IF test > h.heap[0].count THEN ReplaceRoot(h, k, count)
  ELSE h

\* get_heavy_hitters: the pairs of at least threshold.
HeavyHitters(h, threshold) == {e \in Range(h.heap) : e.count >= threshold}

\* get_top_k(_with_frequency) for k <= capacity: the elements from the last
\* in the order, the unused ones at the end.
TopK(h, k) ==
  LET a == SortSeq([i \in 1 .. capacity |-> h.heap[i - 1]],
                   LAMBDA x, y : Before(y, x))
  IN  SubSeq(a, 1, k)
-----------------------------------------------------------------------------
\* No element is before its parent, except perhaps element 1 before the root,
\* and the table has the flows of the heap, each with its index.
WellFormed(h) ==
  LET used == 0 .. h.heap_element_num - 1 IN
  /\ \A i \in used \ {0, 1} : ~Before(h.heap[i], h.heap[(i - 1) \div 2])
  /\ DOMAIN h.ht = {h.heap[i].flow : i \in used}
  /\ \A i \in used : h.ht[h.heap[i].flow] = i
=============================================================================
