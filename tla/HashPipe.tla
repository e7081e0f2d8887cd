------------------------------ MODULE HashPipe ------------------------------
(***************************************************************************)
(* CPU/Hashpipe/hashpipe.h: d stages of slots with a flow and a count.     *)
(* The first stage always takes the packet; whom it turns out goes down    *)
(* the other stages, where the larger count stays, and what comes out at   *)
(* the end is lost.                                                        *)
(***************************************************************************)
EXTENDS Integers, FiniteSets, Functions

CONSTANTS
  Keys, d, M,
  PipeHash     (* PipeHash[i][k]: the slot of flow k in stage i            *)

VARIABLES
  pipe,        \* pipe[<<i, j>>]: flow and count of slot j of stage i
  packets      \* packets[k]: packets of flow k so far

Stages == 0 .. d - 1

Places == Stages \X (0 .. M - 1)

\* 0, the key of a slot at the start, is that of no flow.
PipeAssumption ==
  /\ IsFiniteSet(Keys) /\ 0 \notin Keys
  /\ d \in Nat \ {0} /\ M \in Nat \ {0}
  /\ \A i \in Stages, k \in Keys : PipeHash[i][k] \in 0 .. M - 1

PlaceOf(i, k) == <<i, PipeHash[i][k]>>

Init == pipe = [s \in Places |-> [key |-> 0, val |-> 0]]

\* One pass of the loop of work: x with its count y comes to stage i.  A
\* count of 0 has found its place.
WorkStage(t, i) ==
  LET slot == PlaceOf(i, t.x)
      held == t.pipe[slot]
  IN  IF held.key = t.x
      THEN [pipe |-> [t.pipe EXCEPT ![slot].val = @ + t.y], x |-> t.x, y |-> 0]
      ELSE IF held.val = 0 \/ held.val < t.y
      THEN [pipe |-> [t.pipe EXCEPT ![slot] = [key |-> t.x, val |-> t.y]],
            x |-> held.key, y |-> held.val]
      ELSE t

\* Slip: a match does not end the loop.
WorkOn(x, y) ==
  LET pass[i \in Stages] ==
        IF i = 0 THEN [pipe |-> pipe, x |-> x, y |-> y]
        ELSE [WorkStage(pass[i - 1], i) EXCEPT !.x = x, !.y = y]
  IN  pass[d - 1].pipe

Work(x, y) ==
  LET pass[i \in Stages] ==
        IF i = 0 THEN [pipe |-> pipe, x |-> x, y |-> y]
        ELSE LET t == pass[i - 1] IN IF t.y = 0 THEN t ELSE WorkStage(t, i)
  IN  pass[d - 1].pipe

Insert(k) ==
  LET slot == PlaceOf(0, k)
      held == pipe[slot]
  IN  \/ /\ held.key = k
         /\ pipe' = [pipe EXCEPT ![slot].val = @ + 1]
      \/ /\ held.key # k /\ held.val = 0
         /\ pipe' = [pipe EXCEPT ![slot] = [key |-> k, val |-> 1]]
      \/ /\ held.key # k /\ held.val # 0
         /\ pipe' = [Work(held.key, held.val) EXCEPT ![slot] = [key |-> k, val |-> 1]]

\* mp in get_heavy_hitters: the sum over the slots that hold k.
Reported(k) ==
  SumFunction([s \in Places |-> IF pipe[s].key = k THEN pipe[s].val ELSE 0])
-----------------------------------------------------------------------------
\* k has a slot that no flow of the trace shares.
AloneSomewhere(k) ==
  \E i \in Stages : \A j \in Keys \ {k} : packets[j] > 0 => PipeHash[i][j] # PipeHash[i][k]

(***************************************************************************)
(* A flow whose count is torn apart, parts of it in several stages, turned *)
(* out and merged again, is never reported with more packets than came,    *)
(* and with none less when some stage has a slot that is its own.          *)
(***************************************************************************)
PipeReports ==
  \A k \in Keys : /\ Reported(k) <= packets[k]
                  /\ AloneSomewhere(k) => Reported(k) = packets[k]
=============================================================================
