---------------------------- MODULE SpaceSaving ----------------------------
(***************************************************************************)
(* CPU/SpaceSaving/SpaceSaving.h: the counters of the Space-Saving         *)
(* algorithm, kept sorted in two levels of linked lists.  A value node     *)
(* stands for a value that some counters have, and holds the first of a    *)
(* ring of key nodes, the counters; the value nodes are a list from the    *)
(* greatest value to the least, which tail_node points at.  Value nodes    *)
(* that are not in the list wait in a pool.  hash_table finds the key node *)
(* of a flow.                                                              *)
(*                                                                         *)
(* Pointers are indices of the two arrays, or NULL.  The class is used by  *)
(* one thread: a call of insert is one action.                             *)
(***************************************************************************)
EXTENDS Trace, SequencesExt, FiniteSetsExt

CONSTANTS
  Zero,       (* the key of all zero bytes, in every key node at the start  *)
  Capacity,   (* counters                                                   *)
  MaxPackets  (* bound: packets inserted                                    *)

\* append_new_key erases the key of its victim from the table, for a counter
\* that was never used the zero key: the guarantees are those of the flows of
\* a trace without it.
ASSUME SpaceSavingAssumption ==
  /\ IsFiniteSet(Keys) /\ Zero \notin Keys
  /\ Capacity \in Nat \ {0}
  /\ MaxPackets \in Nat

VARIABLES
  val_nodes,      \* prev, next, first, val of every value node
  key_nodes,      \* parent, prev, next, key of every key node
  val_node_pool,  \* the free value nodes
  tail_node,      \* the value node of the least value
  hash_table      \* the key node of every flow it knows

vars == <<val_nodes, key_nodes, val_node_pool, tail_node, hash_table, packets>>
-----------------------------------------------------------------------------
Nodes == 0 .. Capacity - 1
NULL == -1

\* The first value node is taken, the others are free.
FreeAtStart == [i \in 1 .. Capacity - 1 |-> i]

Init ==
  /\ val_nodes = [v \in Nodes |->
       [prev |-> NULL, next |-> NULL, first |-> IF v = 0 THEN 0 ELSE NULL, val |-> 0]]
  /\ key_nodes = [n \in Nodes |->
       [parent |-> 0, prev |-> (n - 1 + Capacity) % Capacity,
        next |-> (n + 1) % Capacity, key |-> Zero]]
  /\ val_node_pool = FreeAtStart
  /\ tail_node = 0
  /\ hash_table = <<>>
  /\ packets = [k \in Keys |-> 0]
-----------------------------------------------------------------------------
(***************************************************************************)
(* add_counter(my): the counter my gets the next value.  nodes stands for  *)
(* the key nodes, whose keys append_new_key may just have changed.         *)
(***************************************************************************)
Brother(my) == val_nodes[key_nodes[my].parent].prev

Alone(my) == key_nodes[my].next = my

\* The value that my gets is that of the next value node up.
BrotherHasNext(my) ==
  /\ Brother(my) # NULL
  /\ val_nodes[Brother(my)].val = val_nodes[key_nodes[my].parent].val + 1

\* my becomes the first of v's ring.
JoinRing(nodes, my, v) ==
  LET f == val_nodes[v].first IN
  [nodes EXCEPT ![my].parent = v,
                ![my].next = f,
                ![my].prev = nodes[f].prev,
                ![nodes[f].prev].next = my,
                ![f].prev = my]

LeaveRing(nodes, my) ==
  [nodes EXCEPT ![nodes[my].next].prev = nodes[my].prev,
                ![nodes[my].prev].next = nodes[my].next]

\* The pool with the value node old given back.
Release(old) == Append(val_node_pool, old)

\* Slip: tail_node stays on a node that has left the list.
TailStays(old) == tail_node

TailWithout(old) == IF old = tail_node THEN val_nodes[old].prev ELSE tail_node

\* Alone with its value, and the next value has a node: my moves there, and
\* its own node leaves the list for the pool.
MergeUp(nodes, my) ==
  LET old == key_nodes[my].parent
      brother == Brother(my)
      below == val_nodes[old].next
      list == [val_nodes EXCEPT ![old].val = @ + 1,
                                ![brother].next = below,
                                ![brother].first = my]
  IN /\ Alone(my) /\ BrotherHasNext(my)
     /\ val_node_pool' = Release(old)
     /\ tail_node' = TailWithout(old)
     /\ val_nodes' = IF below = NULL THEN list
                     ELSE [list EXCEPT ![below].prev = brother]
     /\ key_nodes' = JoinRing(nodes, my, brother)

\* Alone with its value, and no node for the next: the node takes the value.
RaiseNode(nodes, my) ==
  /\ Alone(my) /\ ~BrotherHasNext(my)
  /\ val_nodes' = [val_nodes EXCEPT ![key_nodes[my].parent].val = @ + 1]
  /\ key_nodes' = nodes
  /\ UNCHANGED <<val_node_pool, tail_node>>

\* The value nodes once my has left its ring.
WithoutFirst(my) ==
  LET old == key_nodes[my].parent IN
  IF val_nodes[old].first = my
  THEN [val_nodes EXCEPT ![old].first = key_nodes[my].next]
  ELSE val_nodes

\* Others share its value, and the next value has a node.
MoveUp(nodes, my) ==
  /\ ~Alone(my) /\ BrotherHasNext(my)
  /\ key_nodes' = JoinRing(LeaveRing(nodes, my), my, Brother(my))
  /\ val_nodes' = [WithoutFirst(my) EXCEPT ![Brother(my)].first = my]
  /\ UNCHANGED <<val_node_pool, tail_node>>

\* Others share its value, and no node for the next: one is taken from the
\* pool and put between the two.
SplitUp(nodes, my) ==
  LET old == key_nodes[my].parent
      brother == Brother(my)
      new == Last(val_node_pool)
      list == [WithoutFirst(my) EXCEPT
                 ![new] = [prev |-> brother, next |-> old, first |-> my,
                           val |-> val_nodes[old].val + 1],
                 ![old].prev = new]
  IN /\ ~Alone(my) /\ ~BrotherHasNext(my)
     /\ val_node_pool' = Front(val_node_pool)
     /\ val_nodes' = IF brother = NULL THEN list
                     ELSE [list EXCEPT ![brother].next = new]
     /\ key_nodes' = [LeaveRing(nodes, my) EXCEPT
                        ![my].parent = new, ![my].next = my, ![my].prev = my]
     /\ UNCHANGED tail_node

AddCounter(nodes, my) ==
  MergeUp(nodes, my) \/ RaiseNode(nodes, my) \/ MoveUp(nodes, my) \/ SplitUp(nodes, my)
-----------------------------------------------------------------------------
(***************************************************************************)
(* insert, and the loop of demo/spacesaving.cpp that calls it              *)
(***************************************************************************)
Received(k) ==
  /\ Total < MaxPackets
  /\ packets' = [packets EXCEPT ![k] = @ + 1]

Counted(k) ==
  /\ Received(k)
  /\ k \in DOMAIN hash_table
  /\ AddCounter(key_nodes, hash_table[k])
  /\ UNCHANGED hash_table

\* Slip: the flow that loses its counter stays in the table.
KnownAfterKeeping(k, victim) ==
  [j \in DOMAIN hash_table \cup {k} |-> IF j = k THEN victim ELSE hash_table[j]]

\* hash_table after append_new_key
KnownAfter(k, victim) ==
  [j \in (DOMAIN hash_table \ {key_nodes[victim].key}) \cup {k} |->
     IF j = k THEN victim ELSE hash_table[j]]

Appended(k) ==
  LET victim == val_nodes[tail_node].first
  IN /\ Received(k)
     /\ k \notin DOMAIN hash_table
     /\ hash_table' = KnownAfter(k, victim)
     /\ AddCounter([key_nodes EXCEPT ![victim].key = k], victim)

Next == \E k \in Keys : Counted(k) \/ Appended(k)

Spec == Init /\ [][Next]_vars
-----------------------------------------------------------------------------
(***************************************************************************)
(* get_top_k and get_heavy_hitters                                         *)
(***************************************************************************)
\* The value node above v, or v when it is the head; from tail_node the head
\* is at most Capacity steps away.
Above(v) == IF val_nodes[v].prev = NULL THEN v ELSE val_nodes[v].prev

Climb[i \in 0 .. Capacity] == IF i = 0 THEN tail_node ELSE Above(Climb[i - 1])

HeadNode == Climb[Capacity]

\* Where the two loops are: p is the value node, v the key node.
Enter(node) == [p |-> node, v |-> val_nodes[node].first]

Done == [p |-> NULL, v |-> NULL]

Below(node) == IF val_nodes[node].next = NULL THEN Done ELSE Enter(val_nodes[node].next)

\* Slip: a ring is left after its first key.
AfterFirst(t) == Below(t.p)

\* The next key node of the ring, until the first comes again.
After(t) ==
  IF key_nodes[t.v].next # val_nodes[t.p].first
  THEN [p |-> t.p, v |-> key_nodes[t.v].next]
  ELSE Below(t.p)

Visit[i \in 1 .. Capacity] ==
  IF i = 1 THEN Enter(HeadNode)
  ELSE IF Visit[i - 1] = Done THEN Done ELSE After(Visit[i - 1])

GetTopK(k) ==
  [i \in 1 .. k |-> IF Visit[i] # Done
                    THEN [key |-> key_nodes[Visit[i].v].key, val |-> val_nodes[Visit[i].p].val]
                    ELSE [key |-> Zero, val |-> 0]]

GetHeavyHitters(threshold) ==
  LET all == GetTopK(Capacity)
      below == {i \in DOMAIN all : all[i].val < threshold}
  IN IF below = {} THEN all
     ELSE SubSeq(all, 1, Min(below) - 1)
-----------------------------------------------------------------------------
(***************************************************************************)
(* Properties                                                              *)
(***************************************************************************)
TypeOK ==
  /\ val_nodes \in [Nodes -> [prev : Nodes \cup {NULL}, next : Nodes \cup {NULL},
                              first : Nodes \cup {NULL}, val : Nat]]
  /\ key_nodes \in [Nodes -> [parent : Nodes, prev : Nodes, next : Nodes,
                              key : Keys \cup {Zero}]]
  /\ val_node_pool \in Seq(Nodes)
  /\ tail_node \in Nodes
  /\ DOMAIN hash_table \subseteq Keys
  /\ \A k \in DOMAIN hash_table : hash_table[k] \in Nodes
  /\ packets \in [Keys -> Nat]

\* The value nodes that prev leads to from tail_node.
InList ==
  {v \in Nodes : \A S \in SUBSET Nodes :
     /\ tail_node \in S
     /\ \A u \in S : val_nodes[u].prev # NULL => val_nodes[u].prev \in S
     => v \in S}

\* The key nodes that next leads to from the first of v.
Ring(v) ==
  {n \in Nodes : \A S \in SUBSET Nodes :
     val_nodes[v].first \in S /\ (\A m \in S : key_nodes[m].next \in S) => n \in S}

\* The lists hang together through every pointer move: the value nodes form
\* one list of strictly falling values that links both ways and ends in
\* tail_node, and every key node is in the ring of exactly its parent.
ListsWellFormed ==
  /\ val_nodes[tail_node].next = NULL
  /\ \A v \in InList \ {tail_node} :
       LET below == val_nodes[v].next IN
       /\ below \in InList /\ val_nodes[below].prev = v
       /\ val_nodes[v].val > val_nodes[below].val
  /\ \A v \in InList : Ring(v) = {n \in Nodes : key_nodes[n].parent = v}
  /\ \A n \in Nodes :
       /\ key_nodes[key_nodes[n].next].prev = n
       /\ key_nodes[n].parent \in InList

\* A value node is in the list or in the pool, once: SplitUp never finds the
\* pool empty, and no node leaks.
PoolConserved ==
  /\ IsInjective(val_node_pool)
  /\ ToSet(val_node_pool) = Nodes \ InList

\* What add_counter relies on when it rewires the lists: they hang together
\* and no node is lost, also in every state from which it takes one.
StructureSound == TypeOK /\ ListsWellFormed /\ PoolConserved

\* The lists and the table do what the algorithm says.
Algorithm == INSTANCE StreamSummary WITH
  Blank <- Zero, Counters <- Nodes,
  counter <- [n \in Nodes |-> [key |-> key_nodes[n].key,
                               val |-> val_nodes[key_nodes[n].parent].val]]

ImplementsAlgorithm == Algorithm!Spec

\* get_heavy_hitters reports, once and with at least its packets, every flow
\* that has the threshold's share of the trace, when the threshold is above
\* the average counter.
HeavyHittersComplete ==
  \A threshold \in 1 .. Total :
    threshold * Capacity > Total =>
      \A k \in Keys :
        packets[k] >= threshold =>
          LET found == {i \in DOMAIN GetHeavyHitters(threshold) :
                          GetHeavyHitters(threshold)[i].key = k}
          IN \E i \in found : /\ found = {i}
                              /\ GetHeavyHitters(threshold)[i].val >= packets[k]
=============================================================================
