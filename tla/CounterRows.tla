---------------------------- MODULE CounterRows ----------------------------
(***************************************************************************)
(* The counters of CPU/CMSketch/CM.h, CPU/CUSketch/CU.h and                *)
(* CPU/CountSketch/Count.h: d rows of w ints, in each of which a flow has  *)
(* one counter.  The three classes differ in what insert does to the       *)
(* flow's counters and in what query makes of them; the classes with a     *)
(* heap repeat the same loops over rows of their own.                      *)
(***************************************************************************)
EXTENDS Integers, FiniteSetsExt

CONSTANTS
  d, w,      (* rows, counters of a row                                    *)
  Hash,      (* Hash[i][k]: the counter of flow k in row i                 *)
  Sign       (* Sign[i][k] \in {0, 1}: sign_hash (Count sketch)            *)
-----------------------------------------------------------------------------
Zeros == [i \in 1 .. d |-> [j \in 0 .. w - 1 |-> 0]]

\* The least of the flow's counters, and of 1 << 30.
CmQuery(rows, k) == Min({2^30} \cup {rows[i][Hash[i][k]] : i \in 1 .. d})

CmInsert(rows, k, f) == [i \in 1 .. d |-> [rows[i] EXCEPT ![Hash[i][k]] = @ + f]]

CuQuery(rows, k) == CmQuery(rows, k)

\* Slip: of several least counters only the first is raised.
CuInsertFirst(rows, k, f) ==
  LET min_val == CmQuery(rows, k)
      first == CHOOSE i \in 1 .. d : /\ rows[i][Hash[i][k]] = min_val
                                     /\ \A j \in 1 .. i - 1 : rows[j][Hash[j][k]] # min_val
  IN  [rows EXCEPT ![first][Hash[first][k]] = min_val + f]

CuInsert(rows, k, f) ==
  LET temp == CmQuery(rows, k) + f
  IN  [i \in 1 .. d |-> [rows[i] EXCEPT ![Hash[i][k]] = Max({@, temp})]]

CountInsert(rows, k, f) ==
  [i \in 1 .. d |-> [rows[i] EXCEPT ![Hash[i][k]] = IF Sign[i][k] = 1 THEN @ + f ELSE @ - f]]

\* Integer division by two as C++ has it.
Halved(x) == IF x < 0 THEN -((-x) \div 2) ELSE x \div 2

\* sort: the numbers in another order.
Sorted(votes) ==
  LET order == CHOOSE o \in Bijection(1 .. d, 1 .. d) :
                 \A i, j \in 1 .. d : i < j => votes[o[i]] <= votes[o[j]]
  IN  [i \in 1 .. d |-> votes[order[i]]]

Median(votes) ==
  LET result == Sorted(votes)
      mid == d \div 2
  IN  IF d % 2 = 0 THEN Halved(result[mid + 1] + result[mid]) ELSE result[mid + 1]

CountQuery(rows, k) ==
  Median([i \in 1 .. d |->
            IF Sign[i][k] = 1 THEN rows[i][Hash[i][k]] ELSE -rows[i][Hash[i][k]]])
=============================================================================
