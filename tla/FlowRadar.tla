----------------------------- MODULE FlowRadar -----------------------------
(***************************************************************************)
(* CPU/FlowRadar/insertable_iblt.h: a Bloom filter tells new flows, and a  *)
(* new flow is entered in iblt_k cells, each of which sums the keys (with  *)
(* exclusive or), the flows and the packets of all its flows.  dump takes  *)
(* the flows out again, one cell with a single flow after the other.       *)
(*                                                                         *)
(* The exclusive or of keys is the set of the keys that occur an odd       *)
(* number of times.                                                        *)
(***************************************************************************)
EXTENDS Integers, FiniteSetsExt, SequencesExt, TLC

CONSTANTS
  Keys,
  BfPos,       (* BfPos[k]: the sequence of k's bits in the filter         *)
  w_iblt,      (* cells                                                    *)
  IbltPos      (* IbltPos[k]: the sequence of k's cells                    *)

VARIABLES
  bf,          \* the bits that are set
  iblt,        \* flow_sum, flow_num and packet_num of every cell
  num_flow,
  entered,     \* history: the flows the filter took for new
  packets      \* packets[k]: packets of flow k so far

RadarVars == <<bf, iblt, num_flow, entered>>

Cells == 0 .. w_iblt - 1
-----------------------------------------------------------------------------
Init ==
  /\ bf = {}
  /\ iblt = [c \in Cells |-> [flow_sum |-> {}, flow_num |-> 0, packet_num |-> 0]]
  /\ num_flow = 0
  /\ entered = {}

\* A cell with sign times a flow of count packets added; flow says whether
\* the key is added too.
AddTo(cell, k, flow, sign, count) ==
  [flow_sum |-> IF flow THEN SymDiff(cell.flow_sum, {k}) ELSE cell.flow_sum,
   flow_num |-> IF flow THEN cell.flow_num + sign ELSE cell.flow_num,
   packet_num |-> cell.packet_num + sign * count]

\* The loop over the cells of a flow, which may be twice the same.
AddToAll(cells, k, flow, sign, count) ==
  FoldLeft(LAMBDA t, c : [t EXCEPT ![c] = AddTo(@, k, flow, sign, count)], cells, IbltPos[k])

New(k) == ToSet(BfPos[k]) \ bf # {}

Insert(k) ==
  /\ bf' = bf \cup ToSet(BfPos[k])
  /\ iblt' = AddToAll(iblt, k, New(k), 1, 1)
  /\ num_flow' = IF New(k) THEN num_flow + Len(IbltPos[k]) ELSE num_flow
  /\ entered' = IF New(k) THEN entered \cup {k} ELSE entered

\* Slip: the packets stay in the flow's other cells.
PeelKeepingPackets(s, c) ==
  IF s.iblt[c].flow_num # 1 THEN s
  ELSE LET key == CHOOSE k \in s.iblt[c].flow_sum : TRUE
           count == s.iblt[c].packet_num
       IN  [iblt |-> AddToAll(s.iblt, key, TRUE, -1, 0),
            result |-> (key :> count) @@ s.result]

\* dump comes to cell c.
Peel(s, c) ==
  IF s.iblt[c].flow_num # 1 THEN s
  ELSE LET key == CHOOSE k \in s.iblt[c].flow_sum : TRUE
           count == s.iblt[c].packet_num
       IN  [iblt |-> AddToAll(s.iblt, key, TRUE, -1, count),
            result |-> (key :> count) @@ s.result]

\* The passes of dump, until one finds no cell with a single flow.
RECURSIVE Passes(_)
Passes(s) ==
  LET t == FoldLeft(Peel, s, [i \in 1 .. w_iblt |-> i - 1])
  IN  IF t = s THEN s ELSE Passes(t)

Dump == Passes([iblt |-> iblt, result |-> <<>>]).result

\* approximate_query: -1 for a flow that may have come.
ApproximateQuery(k) == IF New(k) THEN 0 ELSE -1
-----------------------------------------------------------------------------
\* The entries of a flow in a cell.
Times(k, c) == Cardinality({i \in 1 .. Len(IbltPos[k]) : IbltPos[k][i] = c})

\* The flows of S that cannot be told apart: the greatest subset in which no
\* cell has a single entry of a single flow.
Core(S) ==
  UNION {T \in SUBSET S :
           \A k \in T : \A c \in ToSet(IbltPos[k]) :
             Times(k, c) > 1 \/ \E j \in T \ {k} : Times(j, c) > 0}

(***************************************************************************)
(* In whatever order the cells become decodable, dump finds the flows that *)
(* were entered and are outside the core of the cells, no other, and if    *)
(* the filter took no new flow for an old one it finds them with the       *)
(* packets they had.                                                       *)
(***************************************************************************)
DumpDecodes ==
  /\ DOMAIN Dump = entered \ Core(entered)
  /\ (\A k \in Keys : packets[k] > 0 => k \in entered) =>
       \A k \in entered \ Core(entered) : Dump[k] = packets[k]
  /\ \A k \in Keys : packets[k] > 0 => ApproximateQuery(k) = -1
=============================================================================
