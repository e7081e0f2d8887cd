--------------------------- MODULE ElephantPart4 ---------------------------
(***************************************************************************)
(* P4_cpu_implementation/Elephant_part_4.h: the heavy part as the P4       *)
(* program has it, a pipeline of stages with one cell each for a flow.  A  *)
(* flow that is turned out of a stage tries the next one; what insert      *)
(* returns says whether a flow has to go to the light part, and which.     *)
(***************************************************************************)
EXTENDS Integers, FiniteSets, Functions

CONSTANTS
  Keys,
  CEIL_PER_BUCKET,   (* stages                                             *)
  bucket_num,
  PosOf,             (* PosOf[k]: CalculateBucketPos                       *)
  FACTOR             (* of JUDGE_IF_SWAP, 8 in param.h                     *)

VARIABLES
  buckets,           \* key and val of every cell
  sentry,            \* the votes of every cell
  handed,            \* history: the flows that insert gave to the light part
  rejected,          \* history: the calls that returned 2
  packets            \* packets[k]: packets of flow k so far

Stages == 0 .. CEIL_PER_BUCKET - 1
CellsOf == {c \in (0 .. bucket_num - 1) \X Stages : c[1] < bucket_num - c[2]}

\* 0, the key of a cell at the start, is that of no flow, and no stage is empty.
P4Assumption ==
  /\ IsFiniteSet(Keys) /\ 0 \notin Keys
  /\ CEIL_PER_BUCKET \in Nat /\ bucket_num \in Nat /\ CEIL_PER_BUCKET <= bucket_num
  /\ \A k \in Keys : PosOf[k] \in Nat
-----------------------------------------------------------------------------
Init ==
  /\ buckets = [c \in CellsOf |-> [key |-> 0, val |-> 0]]
  /\ sentry = [c \in CellsOf |-> 0]
  /\ handed = {}
  /\ rejected = 0

\* The cell of a flow in stage i.
Cell(k, i) == <<PosOf[k] % (bucket_num - i), i>>

JudgeIfSwap(val, guard) == guard > FACTOR * val

\* The cell c counts one more, for the flow s.key.
Counted(s, c) == [s.buckets EXCEPT ![c] = [key |-> s.key, val |-> @.val + 1]]

Voted(s, c) == [s.sentry EXCEPT ![c] = @ + 1]

\* Slip: the victim is forgotten.
StageForgets(s, i) ==
  LET c == Cell(s.key, i)
      cell == s.buckets[c]
  IN  IF cell.key = s.key \/ cell.val = 0 \/ JudgeIfSwap(cell.val, Voted(s, c)[c])
      THEN [buckets |-> Counted(s, c), sentry |-> Voted(s, c),
            key |-> s.key, initial |-> s.initial, ret |-> 0]
      ELSE [s EXCEPT !.sentry = Voted(s, c)]

\* The flow s.key comes to stage i; ret is -1 while it has found no cell.  A
\* new resident starts with the count of the one it turns out, which goes on
\* in its place; the votes are not reset.
Stage(s, i) ==
  LET c == Cell(s.key, i)
      cell == s.buckets[c]
  IN  IF cell.key = s.key \/ cell.val = 0
      THEN [buckets |-> Counted(s, c), sentry |-> Voted(s, c),
            key |-> s.key, initial |-> s.initial, ret |-> 0]
      ELSE IF ~JudgeIfSwap(cell.val, Voted(s, c)[c])
      THEN [s EXCEPT !.sentry = Voted(s, c)]
      ELSE [buckets |-> Counted(s, c), sentry |-> Voted(s, c),
            key |-> cell.key, initial |-> FALSE, ret |-> -1]

\* The loop over the stages, and what it returns: ret is 0 when the last flow
\* found a cell, 2 when that was the packet's own flow and it found none, 1
\* when another one has to leave.
Call(k) ==
  LET pass[n \in 0 .. CEIL_PER_BUCKET] ==
        IF n = 0 THEN [buckets |-> buckets, sentry |-> sentry, key |-> k,
                       initial |-> TRUE, ret |-> -1]
        ELSE LET s == pass[n - 1] IN IF s.ret = 0 THEN s ELSE Stage(s, n - 1)
      s == pass[CEIL_PER_BUCKET]
  IN  IF s.ret = 0 THEN s ELSE [s EXCEPT !.ret = IF s.initial THEN 2 ELSE 1]

Insert(k) ==
  LET s == Call(k) IN
  /\ buckets' = s.buckets
  /\ sentry' = s.sentry
  /\ handed' = IF s.ret = 0 THEN handed ELSE handed \cup {s.key}
  /\ rejected' = IF s.ret = 2 THEN rejected + 1 ELSE rejected

\* query: the sum over the stages.
Resident(k) == {i \in Stages : buckets[Cell(k, i)].key = k}
Query(k) == SumFunctionOnSet([i \in Stages |-> buckets[Cell(k, i)].val], Resident(k))
-----------------------------------------------------------------------------
(***************************************************************************)
(* A flow that came and is in no stage was given to the light part when it *)
(* left, after however many displacements down the pipeline; a packet that *)
(* was not rejected is in the counts at least once, and no cell has more   *)
(* than the packets that came by it.                                       *)
(***************************************************************************)
LeavesAreHanded ==
  /\ \A k \in Keys : packets[k] > 0 /\ Resident(k) = {} => k \in handed
  /\ SumFunction([c \in CellsOf |-> buckets[c].val]) >= SumFunction(packets) - rejected
  /\ \A c \in CellsOf : buckets[c].val <= sentry[c] /\ sentry[c] <= SumFunction(packets)
=============================================================================
