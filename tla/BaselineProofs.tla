-------------------------- MODULE BaselineProofs --------------------------
(***************************************************************************)
(* Theorems about the algorithms the Elastic sketch is compared with, for  *)
(* any constants and any trace: SpaceSaving, with its linked lists,        *)
(* HashPipe, the P4 program's heavy part, the sketches of rows, Sieving.   *)
(*                                                                         *)
(* SpaceSaving.  The linked lists stay whole and the pool suffices, an     *)
(* insertion is a step of the Space-Saving algorithm, and                  *)
(* get_heavy_hitters reports what it promises.                             *)
(*                                                                         *)
(* The inductive invariant is IInv: the lists and the pool (Lists), the    *)
(* hash table (Table) and the sum of the counters (AddsUp).  Lists says    *)
(* nothing of reachability, which a pointer move disturbs far away: that a *)
(* node is in its ring is said of the sets that next does not leave, and   *)
(* the order of the list by what prev leads to.  The module proves in      *)
(* turn: how a ring changes when a node leaves and joins; how the list     *)
(* changes; each of the four ways through add_counter; insert; that        *)
(* StructureSound follows; the refinement; the guarantee of the algorithm, *)
(* which the code inherits; the two loops of get_top_k.                    *)
(***************************************************************************)
EXTENDS SpaceSaving, ArrayBaselines, SumLemmas, SequenceTheorems

Pointers == Nodes \cup {NULL}
ValNodes == [Nodes -> [prev : Pointers, next : Pointers, first : Pointers, val : Nat]]
KeyNodes == [Nodes -> [parent : Nodes, prev : Nodes, next : Nodes, key : Keys \cup {Zero}]]

LEMMA NodeNumbers ==
  /\ Capacity \in Nat /\ Capacity >= 1 /\ NULL \notin Nodes /\ 0 \in Nodes
  /\ Zero \notin Keys /\ IsFiniteSet(Keys)
  /\ Nodes \subseteq Nat /\ IsFiniteSet(Nodes) /\ Cardinality(Nodes) = Capacity
<1>1. Capacity \in Nat /\ Capacity >= 1 /\ Zero \notin Keys /\ IsFiniteSet(Keys)
  BY SpaceSavingAssumption
<1>2. NULL \notin Nodes /\ 0 \in Nodes /\ Nodes \subseteq Nat
  BY <1>1 DEF NULL, Nodes
<1>3. IsFiniteSet(0 .. Capacity - 1) /\ Cardinality(0 .. Capacity - 1) = Capacity
  <2>1. IsFiniteSet(0 .. Capacity - 1) /\ Cardinality(0 .. Capacity - 1)
          = IF 0 > Capacity - 1 THEN 0 ELSE Capacity - 1 - 0 + 1
    BY <1>1, FS_Interval
  <2> QED
    BY <1>1, <2>1
<1> QED
  BY <1>1, <1>2, <1>3 DEF Nodes
-----------------------------------------------------------------------------
(***************************************************************************)
(* The rings of key nodes.  Rings(K, N) speaks of the nodes N of K: next   *)
(* and prev lead back and forth, within one parent, and a set that next    *)
(* does not leave holds a parent's nodes all or not at all, so that each   *)
(* parent has one ring.                                                    *)
(***************************************************************************)
Whole(K, N) ==
  \A S \in SUBSET N :
    (\A n \in S : K[n].next \in S) =>
      \A n \in S, m \in N : K[m].parent = K[n].parent => m \in S

Rings(K, N) ==
  /\ \A n \in N : /\ K[n].next \in N /\ K[n].prev \in N
                  /\ K[K[n].next].prev = n /\ K[K[n].prev].next = n
                  /\ K[K[n].next].parent = K[n].parent
  /\ Whole(K, N)

\* L is K without my in a ring.
Left(K, L, my) ==
  \A n \in Nodes \ {my} :
    /\ L[n].parent = K[n].parent
    /\ L[n].next = IF K[n].next = my THEN K[my].next ELSE K[n].next
    /\ L[n].prev = IF K[n].prev = my THEN K[my].prev ELSE K[n].prev

\* L is K with my before f.
Joined(K, L, my, f) ==
  /\ L[my].next = f /\ L[my].prev = K[f].prev /\ L[my].parent = K[f].parent
  /\ \A n \in Nodes \ {my} :
       /\ L[n].parent = K[n].parent
       /\ L[n].next = IF n = K[f].prev THEN my ELSE K[n].next
       /\ L[n].prev = IF n = f THEN my ELSE K[n].prev

LEMMA RingLeft ==
  ASSUME NEW K, NEW L, NEW my \in Nodes, Rings(K, Nodes), Left(K, L, my)
  PROVE  Rings(L, Nodes \ {my})
<1> DEFINE N == Nodes \ {my}
<1>1. ASSUME NEW n \in N
      PROVE  /\ L[n].next \in N /\ L[n].prev \in N
             /\ L[L[n].next].prev = n /\ L[L[n].prev].next = n
             /\ L[L[n].next].parent = L[n].parent
  <2>1. n # my /\ n \in Nodes
    OBVIOUS
  <2>2. /\ K[n].next \in Nodes /\ K[n].prev \in Nodes /\ K[my].next \in Nodes
        /\ K[my].prev \in Nodes
        /\ K[K[n].next].prev = n /\ K[K[n].prev].next = n
        /\ K[K[my].next].prev = my /\ K[K[my].prev].next = my
        /\ K[K[n].next].parent = K[n].parent /\ K[K[my].next].parent = K[my].parent
    BY DEF Rings
  <2>3. CASE K[n].next = my
    BY <2>1, <2>2, <2>3 DEF Left
  <2>4. CASE K[n].next # my
    BY <2>1, <2>2, <2>4 DEF Left
  <2> QED
    BY <2>3, <2>4
<1>2. ASSUME NEW S \in SUBSET N, \A n \in S : L[n].next \in S, NEW n \in S, NEW m \in N,
             L[m].parent = L[n].parent
      PROVE  m \in S
  <2>1. K[m].parent = K[n].parent
    BY <1>2 DEF Left
  <2>2. CASE \E p \in S : K[p].next = my
    <3>1. PICK p \in S : K[p].next = my
      BY <2>2
    <3>2. PICK T : T = S \cup {my}
      OBVIOUS
    <3>3. T \in SUBSET Nodes
      BY <3>2
    <3>4. K[my].next \in S
      BY <1>2, <3>1 DEF Left
    <3>5. \A t \in T : K[t].next \in T
      BY <1>2, <3>2, <3>4 DEF Left
    <3>6. m \in T
      BY <2>1, <3>2, <3>3, <3>5 DEF Rings, Whole
    <3> QED
      BY <3>2, <3>6
  <2>3. CASE \A p \in S : K[p].next # my
    <3>1. \A t \in S : K[t].next \in S
      BY <1>2, <2>3 DEF Left
    <3>2. S \in SUBSET Nodes
      OBVIOUS
    <3> QED
      BY <2>1, <3>1, <3>2 DEF Rings, Whole
  <2> QED
    BY <2>2, <2>3
<1>3. Whole(L, N)
  BY <1>2 DEF Whole
<1> QED
  BY <1>1, <1>3 DEF Rings

LEMMA RingJoined ==
  ASSUME NEW K, NEW L, NEW my \in Nodes, NEW f \in Nodes \ {my},
         Rings(K, Nodes \ {my}), Joined(K, L, my, f)
  PROVE  Rings(L, Nodes)
<1> DEFINE N == Nodes \ {my}
<1>0. PICK p : p = K[f].prev
  OBVIOUS
<1>1. /\ f \in N /\ p \in N /\ K[p].next = f /\ K[f].prev = p /\ K[p].parent = K[f].parent
  <2>1. p \in N /\ K[p].next = f
    BY <1>0 DEF Rings
  <2> QED
    BY <1>0, <2>1 DEF Rings
<1>2. ASSUME NEW n \in N, n # p PROVE K[n].next # f
  BY <1>1, <1>2 DEF Rings
<1>3. ASSUME NEW n \in N, n # f PROVE K[n].prev # p
  BY <1>1, <1>3 DEF Rings
<1>4. /\ L[my].next = f /\ L[my].prev = p /\ L[my].parent = K[f].parent
      /\ L[p].next = my /\ L[f].prev = my
      /\ L[p].parent = K[p].parent /\ L[f].parent = K[f].parent
  BY <1>0, <1>1 DEF Joined
<1>5. ASSUME NEW n \in Nodes
      PROVE  /\ L[n].next \in Nodes /\ L[n].prev \in Nodes
             /\ L[L[n].next].prev = n /\ L[L[n].prev].next = n
             /\ L[L[n].next].parent = L[n].parent
  <2>1. CASE n = my
    BY <1>1, <1>4, <2>1
  <2>2. CASE n # my
    <3>1. n \in N /\ L[n].parent = K[n].parent
      BY <2>2 DEF Joined
    <3>2. /\ K[n].next \in N /\ K[n].prev \in N /\ K[K[n].next].prev = n
          /\ K[K[n].prev].next = n /\ K[K[n].next].parent = K[n].parent
      BY <3>1 DEF Rings
    <3>3. L[n].next \in Nodes /\ L[L[n].next].prev = n /\ L[L[n].next].parent = L[n].parent
      <4>1. CASE n = p
        BY <1>1, <1>4, <4>1
      <4>2. CASE n # p
        <5>1. L[n].next = K[n].next /\ K[n].next # f
          BY <1>0, <1>2, <3>1, <4>2 DEF Joined
        <5>2. L[K[n].next].prev = n /\ L[K[n].next].parent = K[n].parent
          BY <3>2, <5>1 DEF Joined
        <5> QED
          BY <3>1, <3>2, <5>1, <5>2
      <4> QED
        BY <4>1, <4>2
    <3>4. L[n].prev \in Nodes /\ L[L[n].prev].next = n
      <4>1. CASE n = f
        BY <1>1, <1>4, <4>1
      <4>2. CASE n # f
        <5>1. L[n].prev = K[n].prev /\ K[n].prev # p
          BY <1>3, <3>1, <4>2 DEF Joined
        <5>2. L[K[n].prev].next = n
          BY <1>0, <3>2, <5>1 DEF Joined
        <5> QED
          BY <3>1, <3>2, <5>1, <5>2
      <4> QED
        BY <4>1, <4>2
    <3> QED
      BY <3>3, <3>4
  <2> QED
    BY <2>1, <2>2
<1>6. ASSUME NEW S \in SUBSET Nodes, \A n \in S : L[n].next \in S, NEW n \in S,
             NEW m \in Nodes, L[m].parent = L[n].parent
      PROVE  m \in S
  <2>1. PICK T : T = S \ {my}
    OBVIOUS
  <2>2. T \in SUBSET N
    BY <2>1
  <2>3. \A t \in T : K[t].next \in T
    <3>1. ASSUME NEW t \in T PROVE K[t].next \in T
      <4>1. t \in S /\ t \in N /\ K[t].next \in N
        BY <2>1 DEF Rings
      <4>2. CASE t = p
        <5>1. my \in S
          BY <1>4, <1>6, <4>1, <4>2
        <5>2. f \in S
          BY <1>4, <1>6, <5>1
        <5> QED
          BY <1>1, <2>1, <4>2, <5>2
      <4>3. CASE t # p
        <5>1. L[t].next = K[t].next
          BY <1>0, <4>1, <4>3 DEF Joined
        <5> QED
          BY <1>6, <2>1, <4>1, <5>1
      <4> QED
        BY <4>2, <4>3
    <3> QED
      BY <3>1
  <2>4. ASSUME NEW a \in T, NEW b \in N, K[b].parent = K[a].parent PROVE b \in T
    BY <2>2, <2>3, <2>4 DEF Rings, Whole
  <2>5. PICK a : a = IF n = my THEN f ELSE n
    OBVIOUS
  <2>6. a \in T /\ K[a].parent = L[n].parent
    <3>1. CASE n = my
      BY <1>1, <1>4, <1>6, <2>1, <2>5, <3>1
    <3>2. CASE n # my
      BY <2>1, <2>5, <3>2 DEF Joined
    <3> QED
      BY <3>1, <3>2
  <2>7. CASE m = my
    <3>1. K[p].parent = K[a].parent
      BY <1>1, <1>4, <1>6, <2>6, <2>7
    <3>2. p \in S
      BY <1>1, <2>1, <2>4, <2>6, <3>1
    <3> QED
      BY <1>4, <1>6, <2>7, <3>2
  <2>8. CASE m # my
    <3>1. m \in N /\ K[m].parent = K[a].parent
      BY <1>6, <2>6, <2>8 DEF Joined
    <3> QED
      BY <2>1, <2>4, <2>6, <3>1
  <2> QED
    BY <2>7, <2>8
<1>7. Whole(L, Nodes)
  BY <1>6 DEF Whole
<1> QED
  BY <1>5, <1>7 DEF Rings

\* L is K with my alone in a ring of its own.
Lone(K, L, my) ==
  /\ L[my].next = my /\ L[my].prev = my
  /\ \A n \in Nodes \ {my} :
       /\ L[n].parent = K[n].parent /\ L[n].parent # L[my].parent
       /\ L[n].next = K[n].next /\ L[n].prev = K[n].prev

LEMMA RingLone ==
  ASSUME NEW K, NEW L, NEW my \in Nodes, Rings(K, Nodes \ {my}), Lone(K, L, my)
  PROVE  Rings(L, Nodes)
<1> DEFINE N == Nodes \ {my}
<1>1. ASSUME NEW n \in Nodes
      PROVE  /\ L[n].next \in Nodes /\ L[n].prev \in Nodes
             /\ L[L[n].next].prev = n /\ L[L[n].prev].next = n
             /\ L[L[n].next].parent = L[n].parent
  <2>1. CASE n = my
    BY <2>1 DEF Lone
  <2>2. CASE n # my
    <3>1. /\ K[n].next \in N /\ K[n].prev \in N /\ K[K[n].next].prev = n
          /\ K[K[n].prev].next = n /\ K[K[n].next].parent = K[n].parent
      BY <2>2 DEF Rings
    <3> QED
      BY <2>2, <3>1 DEF Lone
  <2> QED
    BY <2>1, <2>2
<1>2. ASSUME NEW S \in SUBSET Nodes, \A n \in S : L[n].next \in S, NEW n \in S,
             NEW m \in Nodes, L[m].parent = L[n].parent
      PROVE  m \in S
  <2>1. CASE n = my \/ m = my
    BY <1>2, <2>1 DEF Lone
  <2>2. CASE n # my /\ m # my
    <3>1. PICK T : T = S \ {my}
      OBVIOUS
    <3>2. \A t \in T : K[t].next \in T
      BY <1>2, <3>1 DEF Lone, Rings
    <3>3. T \in SUBSET N /\ n \in T /\ m \in N
      BY <2>2, <3>1
    <3>4. K[m].parent = K[n].parent
      BY <1>2, <2>2 DEF Lone
    <3>5. m \in T
      BY <3>2, <3>3, <3>4 DEF Rings, Whole
    <3> QED
      BY <3>1, <3>5
  <2> QED
    BY <2>1, <2>2
<1>3. Whole(L, Nodes)
  BY <1>2 DEF Whole
<1> QED
  BY <1>1, <1>3 DEF Rings

\* A node that is its own next is alone with its parent.
LEMMA OwnNext ==
  ASSUME NEW K, Rings(K, Nodes), NEW my \in Nodes, K[my].next = my,
         NEW n \in Nodes, K[n].parent = K[my].parent
  PROVE  n = my
<1>1. {my} \in SUBSET Nodes /\ \A m \in {my} : K[m].next \in {my}
  OBVIOUS
<1> QED
  BY <1>1 DEF Rings, Whole
-----------------------------------------------------------------------------
(* What the assignments of add_counter do to the key nodes. *)

SameKeys(K, L) == \A n \in Nodes : L[n].key = K[n].key

LEMMA LeaveRingLeaves ==
  ASSUME NEW K \in KeyNodes, Rings(K, Nodes), NEW my \in Nodes, NEW L, L = LeaveRing(K, my)
  PROVE  L \in KeyNodes /\ Left(K, L, my) /\ SameKeys(K, L)
<1>1. PICK a \in Nodes : a = K[my].next
  BY DEF KeyNodes
<1>2. PICK b \in Nodes : b = K[my].prev
  BY DEF KeyNodes
<1>3. PICK J : J = [K EXCEPT ![a].prev = b]
  OBVIOUS
<1>4. L = [J EXCEPT ![b].next = a]
  BY <1>1, <1>2, <1>3 DEF LeaveRing
<1>5. J \in KeyNodes
  BY <1>3 DEF KeyNodes
<1>6. L \in KeyNodes
  BY <1>4, <1>5 DEF KeyNodes
<1>7. \A n \in Nodes : /\ J[n].parent = K[n].parent /\ J[n].next = K[n].next
                       /\ J[n].key = K[n].key
                       /\ J[n].prev = IF n = a THEN b ELSE K[n].prev
  BY <1>3 DEF KeyNodes
<1>8. \A n \in Nodes : /\ L[n].parent = J[n].parent /\ L[n].prev = J[n].prev
                       /\ L[n].key = J[n].key
                       /\ L[n].next = IF n = b THEN a ELSE J[n].next
  BY <1>4, <1>5 DEF KeyNodes
<1>9. \A n \in Nodes : (K[n].next = my <=> n = b) /\ (K[n].prev = my <=> n = a)
  BY <1>1, <1>2 DEF Rings
<1>10. Left(K, L, my)
  BY <1>1, <1>2, <1>7, <1>8, <1>9 DEF Left
<1>11. SameKeys(K, L)
  BY <1>7, <1>8 DEF SameKeys
<1> QED
  BY <1>6, <1>10, <1>11

LEMMA JoinRingJoins ==
  ASSUME NEW K \in KeyNodes, NEW my \in Nodes, NEW v \in Nodes, NEW f \in Nodes \ {my},
         f = val_nodes[v].first, K[f].parent = v, Rings(K, Nodes \ {my}),
         NEW L, L = JoinRing(K, my, v)
  PROVE  L \in KeyNodes /\ Joined(K, L, my, f) /\ SameKeys(K, L)
<1>1. PICK p \in Nodes : p = K[f].prev
  BY DEF KeyNodes
<1>2. p # my
  BY <1>1 DEF Rings
<1>3. PICK J1 : J1 = [K EXCEPT ![my].parent = v]
  OBVIOUS
<1>4. PICK J2 : J2 = [J1 EXCEPT ![my].next = f]
  OBVIOUS
<1>5. PICK J3 : J3 = [J2 EXCEPT ![my].prev = p]
  OBVIOUS
<1>6. PICK J4 : J4 = [J3 EXCEPT ![p].next = my]
  OBVIOUS
<1>7. L = [J4 EXCEPT ![f].prev = my]
  BY <1>1, <1>3, <1>4, <1>5, <1>6 DEF JoinRing
<1>8. J1 \in KeyNodes
  BY <1>3 DEF KeyNodes
<1>9. J2 \in KeyNodes
  BY <1>4, <1>8 DEF KeyNodes
<1>10. J3 \in KeyNodes
  BY <1>5, <1>9 DEF KeyNodes
<1>11. J4 \in KeyNodes
  BY <1>6, <1>10 DEF KeyNodes
<1>12. L \in KeyNodes
  BY <1>7, <1>11 DEF KeyNodes
<1>13. \A n \in Nodes : /\ J1[n].parent = IF n = my THEN v ELSE K[n].parent
                        /\ J1[n].next = K[n].next /\ J1[n].prev = K[n].prev
                        /\ J1[n].key = K[n].key
  BY <1>3 DEF KeyNodes
<1>14. \A n \in Nodes : /\ J2[n].parent = J1[n].parent
                        /\ J2[n].next = IF n = my THEN f ELSE J1[n].next
                        /\ J2[n].prev = J1[n].prev /\ J2[n].key = J1[n].key
  BY <1>4, <1>8 DEF KeyNodes
<1>15. \A n \in Nodes : /\ J3[n].parent = J2[n].parent /\ J3[n].next = J2[n].next
                        /\ J3[n].prev = IF n = my THEN p ELSE J2[n].prev
                        /\ J3[n].key = J2[n].key
  BY <1>5, <1>9 DEF KeyNodes
<1>16. \A n \in Nodes : /\ J4[n].parent = J3[n].parent /\ J4[n].prev = J3[n].prev
                        /\ J4[n].next = IF n = p THEN my ELSE J3[n].next
                        /\ J4[n].key = J3[n].key
  BY <1>6, <1>10 DEF KeyNodes
<1>17. \A n \in Nodes : /\ L[n].parent = J4[n].parent /\ L[n].next = J4[n].next
                        /\ L[n].prev = IF n = f THEN my ELSE J4[n].prev
                        /\ L[n].key = J4[n].key
  BY <1>7, <1>11 DEF KeyNodes
<1>18. Joined(K, L, my, f)
  BY <1>1, <1>2, <1>13, <1>14, <1>15, <1>16, <1>17 DEF Joined
<1>19. SameKeys(K, L)
  BY <1>13, <1>14, <1>15, <1>16, <1>17 DEF SameKeys
<1> QED
  BY <1>12, <1>18, <1>19
-----------------------------------------------------------------------------
(***************************************************************************)
(* The list of value nodes.  Linked(V, L, t): the nodes L form one list of *)
(* V that ends in t, and prev leads to the next greater value of all.      *)
(***************************************************************************)
Ordered(V, L) ==
  /\ \A v \in L : V[v].prev # NULL => V[v].val < V[V[v].prev].val
  /\ \A v, w \in L : V[v].val = V[w].val => v = w
  /\ \A v, w \in L :
       V[v].val < V[w].val => V[v].prev # NULL /\ V[V[v].prev].val <= V[w].val

TwoWays(V, L) ==
  \A v \in L :
    /\ V[v].prev \in L \cup {NULL} /\ V[v].next \in L \cup {NULL}
    /\ V[v].prev # NULL => V[V[v].prev].next = v
    /\ V[v].next # NULL => V[V[v].next].prev = v

EndsIn(V, L, t) ==
  /\ t \in L
  /\ \A v \in L : (V[v].next = NULL <=> v = t) /\ V[t].val <= V[v].val

Linked(V, L, t) == TwoWays(V, L) /\ Ordered(V, L) /\ EndsIn(V, L, t)

\* The value of old is raised, and there was no node with the new value.
Lifted(V, W, old) ==
  /\ W[old].val = V[old].val + 1
  /\ \A v \in Nodes : /\ W[v].prev = V[v].prev /\ W[v].next = V[v].next
                      /\ v # old => W[v].val = V[v].val

\* Neither links nor values change.
SameList(V, W) ==
  \A v \in Nodes : W[v].prev = V[v].prev /\ W[v].next = V[v].next /\ W[v].val = V[v].val

\* old is taken out of the list.
Unlinked(V, W, old) ==
  \A v \in Nodes \ {old} :
    /\ W[v].val = V[v].val
    /\ W[v].next = IF v = V[old].prev THEN V[old].next ELSE V[v].next
    /\ W[v].prev = IF v = V[old].next THEN V[old].prev ELSE V[v].prev

\* new comes before old, with the next value.
Inserted(V, W, new, old) ==
  /\ W[new].prev = V[old].prev /\ W[new].next = old /\ W[new].val = V[old].val + 1
  /\ \A v \in Nodes \ {new} :
       /\ W[v].val = V[v].val
       /\ W[v].next = IF v = V[old].prev THEN new ELSE V[v].next
       /\ W[v].prev = IF v = old THEN new ELSE V[v].prev

\* There is no node for the next value above old's.
NoneAbove(V, old) == V[old].prev = NULL \/ V[V[old].prev].val # V[old].val + 1

LEMMA GapAbove ==
  ASSUME NEW V \in ValNodes, NEW L \in SUBSET Nodes, Ordered(V, L), TwoWays(V, L),
         NEW old \in L, NoneAbove(V, old), NEW w \in L, V[old].val < V[w].val
  PROVE  V[old].val + 1 < V[w].val
<1>1. /\ V[old].prev # NULL /\ V[V[old].prev].val <= V[w].val
      /\ V[old].val < V[V[old].prev].val
  BY DEF Ordered
<1>2. V[old].prev \in Nodes
  BY <1>1 DEF TwoWays
<1>3. V[old].val \in Nat /\ V[w].val \in Nat /\ V[V[old].prev].val \in Nat
  BY <1>2 DEF ValNodes
<1> QED
  BY <1>1, <1>3 DEF NoneAbove

LEMMA Values ==
  ASSUME NEW V \in ValNodes
  PROVE  \A v \in Nodes : V[v].val \in Nat /\ V[v].prev \in Pointers /\ V[v].next \in Pointers
                          /\ V[v].first \in Pointers
  BY DEF ValNodes

LEMMA LinkedSame ==
  ASSUME NEW V, NEW W, NEW L \in SUBSET Nodes, NEW t, Linked(V, L, t), SameList(V, W)
  PROVE  Linked(W, L, t)
<1>1. \A v \in L : /\ W[v].prev = V[v].prev /\ W[v].next = V[v].next /\ W[v].val = V[v].val
                   /\ V[v].prev # NULL => V[v].prev \in L
                   /\ V[v].next # NULL => V[v].next \in L
  BY DEF SameList, Linked, TwoWays
<1>2. TwoWays(W, L)
  BY <1>1 DEF Linked, TwoWays
<1>3. Ordered(W, L)
  BY <1>1 DEF Linked, Ordered
<1>4. EndsIn(W, L, t)
  BY <1>1 DEF Linked, EndsIn
<1> QED
  BY <1>2, <1>3, <1>4 DEF Linked

LEMMA LinkedLifted ==
  ASSUME NEW V \in ValNodes, NEW W, NEW L \in SUBSET Nodes, NEW t, Linked(V, L, t),
         NEW old \in L, NoneAbove(V, old), Lifted(V, W, old)
  PROVE  Linked(W, L, t)
<1>0. \A v \in L : V[v].val \in Nat
  BY Values
<1>1. \A v \in L : /\ W[v].prev = V[v].prev /\ W[v].next = V[v].next
                   /\ W[v].val = IF v = old THEN V[v].val + 1 ELSE V[v].val
                   /\ V[v].prev # NULL => V[v].prev \in L
                   /\ V[v].next # NULL => V[v].next \in L
  BY DEF Lifted, Linked, TwoWays
<1>2. TwoWays(W, L)
  BY <1>1 DEF Linked, TwoWays
<1>3. \A w \in L : V[old].val < V[w].val => V[old].val + 1 < V[w].val
  BY GapAbove DEF Linked
<1>4. \A v, w \in L : V[v].val = V[w].val => v = w
  BY DEF Linked, Ordered
<1>5. \A v, w \in L : W[v].val < W[w].val <=> V[v].val < V[w].val
  BY <1>0, <1>1, <1>3, <1>4
<1>6. \A v, w \in L : W[v].val <= W[w].val <=> V[v].val <= V[w].val
  BY <1>0, <1>1, <1>3, <1>4
<1>7. \A v, w \in L : W[v].val = W[w].val => v = w
  BY <1>0, <1>1, <1>3, <1>4
<1>8. Ordered(W, L)
  BY <1>1, <1>5, <1>6, <1>7 DEF Linked, Ordered
<1>9. EndsIn(W, L, t)
  BY <1>1, <1>6 DEF Linked, EndsIn
<1> QED
  BY <1>2, <1>8, <1>9 DEF Linked

LEMMA LinkedUnlinked ==
  ASSUME NEW V \in ValNodes, NEW W, NEW L \in SUBSET Nodes, NEW t, Linked(V, L, t),
         NEW old \in L, NEW b, b = V[old].prev, b # NULL, Unlinked(V, W, old),
         NEW u, u = IF old = t THEN b ELSE t
  PROVE  Linked(W, L \ {old}, u)
<1> DEFINE M == L \ {old}
<1>1. PICK c : c = V[old].next
  OBVIOUS
<1>2. /\ b \in L /\ V[b].next = old /\ b # old
      /\ c # NULL => c \in L /\ V[c].prev = old /\ c # old /\ c # b
  <2>1. b \in L /\ V[b].next = old /\ c \in L \cup {NULL} /\ (c # NULL => V[c].prev = old)
    BY <1>1 DEF Linked, TwoWays
  <2>2. V[old].val < V[b].val /\ V[old].val \in Nat /\ V[b].val \in Nat
    BY <2>1, Values DEF Linked, Ordered
  <2>3. c # NULL => V[c].val < V[old].val /\ V[c].val \in Nat
    BY <2>1, Values, NodeNumbers DEF Linked, Ordered
  <2> QED
    BY <2>1, <2>2, <2>3
<1>3. \A v \in M : /\ W[v].val = V[v].val /\ V[v].val \in Nat
                   /\ W[v].next = IF v = b THEN c ELSE V[v].next
                   /\ W[v].prev = IF v = c THEN b ELSE V[v].prev
  BY <1>1, Values DEF Unlinked
<1>4. \A v \in M : (V[v].prev = old => v = c) /\ (V[v].next = old => v = b)
  BY <1>1, NodeNumbers DEF Linked, TwoWays
<1>5. \A v \in M : /\ V[v].prev # NULL => V[v].prev \in L /\ V[V[v].prev].next = v
                   /\ V[v].next # NULL => V[v].next \in L /\ V[V[v].next].prev = v
  BY DEF Linked, TwoWays
<1>6. TwoWays(W, M)
  <2>1. ASSUME NEW v \in M
        PROVE  /\ W[v].prev \in M \cup {NULL} /\ W[v].next \in M \cup {NULL}
               /\ W[v].prev # NULL => W[W[v].prev].next = v
               /\ W[v].next # NULL => W[W[v].next].prev = v
    <3>1. W[v].prev \in M \cup {NULL} /\ (W[v].prev # NULL => W[W[v].prev].next = v)
      <4>1. CASE v = c
        BY <1>2, <1>3, <4>1
      <4>2. CASE v # c
        BY <1>2, <1>3, <1>4, <1>5, <4>2
      <4> QED
        BY <4>1, <4>2
    <3>2. W[v].next \in M \cup {NULL} /\ (W[v].next # NULL => W[W[v].next].prev = v)
      <4>1. CASE v = b
        BY <1>2, <1>3, <4>1, NodeNumbers
      <4>2. CASE v # b
        BY <1>2, <1>3, <1>4, <1>5, <4>2
      <4> QED
        BY <4>1, <4>2
    <3> QED
      BY <3>1, <3>2
  <2> QED
    BY <2>1 DEF TwoWays
<1>7. Ordered(W, M)
  <2>1. V[old].val < V[b].val /\ V[old].val \in Nat
    BY <1>2, Values DEF Linked, Ordered
  <2>2. \A w \in M : V[old].val < V[w].val => V[b].val <= V[w].val
    BY <1>2 DEF Linked, Ordered
  <2>3. ASSUME NEW v \in M, W[v].prev # NULL PROVE W[v].val < W[W[v].prev].val
    <3>1. W[v].prev \in M
      BY <1>6, <2>3 DEF TwoWays
    <3>2. CASE v = c
      <4>1. V[c].val < V[old].val
        BY <1>2, <3>2, NodeNumbers DEF Linked, Ordered
      <4> QED
        BY <1>2, <1>3, <2>1, <3>1, <3>2, <4>1
    <3>3. CASE v # c
      <4>1. W[v].prev = V[v].prev
        BY <1>3, <3>3
      <4> QED
        BY <1>3, <2>3, <3>1, <4>1 DEF Linked, Ordered
    <3> QED
      BY <3>2, <3>3
  <2>4. \A v, w \in M : W[v].val = W[w].val => v = w
    BY <1>3 DEF Linked, Ordered
  <2>5. ASSUME NEW v \in M, NEW w \in M, W[v].val < W[w].val
        PROVE  W[v].prev # NULL /\ W[W[v].prev].val <= W[w].val
    <3>1. V[v].val < V[w].val
      BY <1>3, <2>5
    <3>2. V[v].prev # NULL /\ V[V[v].prev].val <= V[w].val
      BY <3>1 DEF Linked, Ordered
    <3>3. CASE v = c
      <4>1. V[old].val <= V[w].val /\ V[old].val # V[w].val
        BY <1>2, <3>2, <3>3, NodeNumbers DEF Linked, Ordered
      <4>2. V[b].val <= V[w].val
        BY <1>3, <2>1, <2>2, <4>1
      <4> QED
        BY <1>2, <1>3, <3>3, <4>2
    <3>4. CASE v # c
      <4>1. W[v].prev = V[v].prev /\ V[v].prev \in M
        BY <1>3, <1>4, <1>5, <3>2, <3>4
      <4> QED
        BY <1>3, <3>2, <4>1
    <3> QED
      BY <3>3, <3>4
  <2> QED
    BY <2>3, <2>4, <2>5 DEF Ordered
<1>8. EndsIn(W, M, u)
  <2>1. \A v \in L : (V[v].next = NULL <=> v = t) /\ V[t].val <= V[v].val /\ t \in L
    BY DEF Linked, EndsIn
  <2>2. CASE old = t
    <3>1. c = NULL /\ u = b
      BY <1>1, <2>1, <2>2
    <3>2. \A v \in M : V[b].val <= V[v].val
      <4>1. ASSUME NEW v \in M PROVE V[b].val <= V[v].val
        <5>1. V[old].val <= V[v].val /\ V[old].val # V[v].val
          BY <2>1, <2>2 DEF Linked, Ordered
        <5>2. V[old].val < V[v].val
          BY <1>3, <5>1, Values
        <5> QED
          BY <1>2, <5>2 DEF Linked, Ordered
      <4> QED
        BY <4>1
    <3> QED
      BY <1>2, <1>3, <2>1, <2>2, <3>1, <3>2 DEF EndsIn
  <2>3. CASE old # t
    <3>1. c # NULL /\ u = t
      BY <1>1, <2>1, <2>3
    <3>2. t \in M /\ b # t
      <4>1. V[b].next # NULL
        BY <1>2, NodeNumbers
      <4> QED
        BY <1>2, <2>1, <2>3, <4>1
    <3>3. \A v \in M : W[v].next = NULL <=> v = t
      BY <1>3, <2>1, <3>1, <3>2
    <3>4. \A v \in M : W[t].val <= W[v].val
      BY <1>3, <2>1, <3>2
    <3> QED
      BY <3>1, <3>2, <3>3, <3>4 DEF EndsIn
  <2> QED
    BY <2>2, <2>3
<1> QED
  BY <1>6, <1>7, <1>8 DEF Linked

LEMMA LinkedInserted ==
  ASSUME NEW V \in ValNodes, NEW W, NEW L \in SUBSET Nodes, NEW t, Linked(V, L, t),
         NEW old \in L, NEW new \in Nodes \ L, NoneAbove(V, old), Inserted(V, W, new, old)
  PROVE  Linked(W, L \cup {new}, t)
<1> DEFINE M == L \cup {new}
<1>1. PICK b : b = V[old].prev
  OBVIOUS
<1>2. b # NULL => b \in L /\ V[b].next = old /\ b # old
  <2>1. b # NULL => b \in L /\ V[b].next = old /\ V[old].val < V[b].val
    BY <1>1 DEF Linked, TwoWays, Ordered
  <2> QED
    BY <2>1, Values
<1>3. /\ W[new].prev = b /\ W[new].next = old /\ W[new].val = V[old].val + 1
      /\ \A v \in L : /\ W[v].val = V[v].val /\ V[v].val \in Nat
                      /\ W[v].next = IF v = b THEN new ELSE V[v].next
                      /\ W[v].prev = IF v = old THEN new ELSE V[v].prev
  BY <1>1, Values DEF Inserted
<1>4. \A v \in L : (V[v].prev = old => v = V[old].next) /\ (V[v].next = old => v = b)
  BY <1>1, NodeNumbers DEF Linked, TwoWays
<1>5. \A v \in L : /\ V[v].prev # NULL => V[v].prev \in L /\ V[V[v].prev].next = v
                   /\ V[v].next # NULL => V[v].next \in L /\ V[V[v].next].prev = v
  BY DEF Linked, TwoWays
<1>6. TwoWays(W, M)
  <2>1. ASSUME NEW v \in M
        PROVE  /\ W[v].prev \in M \cup {NULL} /\ W[v].next \in M \cup {NULL}
               /\ W[v].prev # NULL => W[W[v].prev].next = v
               /\ W[v].next # NULL => W[W[v].next].prev = v
    <3>1. CASE v = new
      BY <1>2, <1>3, <3>1, NodeNumbers
    <3>2. CASE v # new
      <4>1. v \in L
        BY <3>2
      <4>2. W[v].prev \in M \cup {NULL} /\ (W[v].prev # NULL => W[W[v].prev].next = v)
        <5>1. CASE v = old
          BY <1>3, <5>1
        <5>2. CASE v # old
          <6>1. W[v].prev = V[v].prev
            BY <1>3, <4>1, <5>2
          <6>2. ASSUME V[v].prev # NULL PROVE V[v].prev \in L /\ W[V[v].prev].next = v
            <7>1. V[v].prev \in L /\ V[V[v].prev].next = v
              BY <1>5, <4>1, <6>2
            <7>2. V[v].prev # b
              BY <1>2, <5>2, <6>2, <7>1
            <7> QED
              BY <1>3, <7>1, <7>2
          <6> QED
            BY <6>1, <6>2
        <5> QED
          BY <5>1, <5>2
      <4>3. W[v].next \in M \cup {NULL} /\ (W[v].next # NULL => W[W[v].next].prev = v)
        <5>1. CASE v = b
          BY <1>3, <4>1, <5>1
        <5>2. CASE v # b
          <6>1. W[v].next = V[v].next
            BY <1>3, <4>1, <5>2
          <6>2. ASSUME V[v].next # NULL PROVE V[v].next \in L /\ W[V[v].next].prev = v
            <7>1. V[v].next \in L /\ V[V[v].next].prev = v /\ V[v].next # old
              BY <1>4, <1>5, <4>1, <5>2, <6>2
            <7> QED
              BY <1>3, <7>1
          <6> QED
            BY <6>1, <6>2
        <5> QED
          BY <5>1, <5>2
      <4> QED
        BY <4>2, <4>3
    <3> QED
      BY <3>1, <3>2
  <2> QED
    BY <2>1 DEF TwoWays
<1>7. \A w \in L : V[old].val < V[w].val => V[old].val + 1 < V[w].val
  BY GapAbove DEF Linked
<1>8. /\ \A v, w \in L : V[v].val = V[w].val => v = w
      /\ \A v \in L : V[v].prev # NULL => V[v].val < V[V[v].prev].val
      /\ \A v, w \in L :
           V[v].val < V[w].val => V[v].prev # NULL /\ V[V[v].prev].val <= V[w].val
  BY DEF Linked, Ordered
<1>9. Ordered(W, M)
  <2>1. ASSUME NEW v \in M, W[v].prev # NULL PROVE W[v].val < W[W[v].prev].val
    <3>1. CASE v = new
      BY <1>1, <1>2, <1>3, <1>7, <1>8, <2>1, <3>1
    <3>2. CASE v = old
      BY <1>3, <3>2
    <3>3. CASE v # new /\ v # old
      <4>1. v \in L /\ W[v].prev = V[v].prev /\ V[v].prev \in L
        BY <1>3, <1>5, <2>1, <3>3
      <4> QED
        BY <1>3, <1>8, <2>1, <4>1
    <3> QED
      BY <3>1, <3>2, <3>3
  <2>2. ASSUME NEW v \in L PROVE W[v].val # W[new].val
    BY <1>3, <1>7
  <2>3. \A v, w \in M : W[v].val = W[w].val => v = w
    BY <1>3, <1>8, <2>2
  <2>4. ASSUME NEW v \in M, NEW w \in M, W[v].val < W[w].val
        PROVE  W[v].prev # NULL /\ W[W[v].prev].val <= W[w].val
    <3>1. CASE v = old
      <4>1. W[v].prev = new /\ new # NULL
        BY <1>3, <3>1, NodeNumbers
      <4>2. W[new].val <= W[w].val
        BY <1>3, <1>7, <2>4, <3>1
      <4> QED
        BY <4>1, <4>2
    <3>2. CASE v = new
      <4>1. w \in L /\ V[old].val < V[w].val
        BY <1>3, <2>4, <3>2
      <4>2. b # NULL /\ V[b].val <= V[w].val
        BY <1>1, <1>8, <4>1
      <4> QED
        BY <1>2, <1>3, <3>2, <4>1, <4>2
    <3>3. CASE v # old /\ v # new
      <4>1. v \in L /\ W[v].prev = V[v].prev
        BY <1>3, <3>3
      <4>2. CASE w = new
        <5>1. V[v].val < V[old].val
          BY <1>3, <1>8, <2>4, <3>3, <4>1, <4>2
        <5>2. V[v].prev # NULL /\ V[V[v].prev].val <= V[old].val /\ V[v].prev \in L
          BY <1>5, <1>8, <4>1, <5>1
        <5> QED
          BY <1>3, <4>1, <4>2, <5>2
      <4>3. CASE w # new
        <5>1. w \in L /\ V[v].val < V[w].val
          BY <1>3, <2>4, <4>1, <4>3
        <5>2. V[v].prev # NULL /\ V[V[v].prev].val <= V[w].val /\ V[v].prev \in L
          BY <1>5, <1>8, <4>1, <5>1
        <5> QED
          BY <1>3, <4>1, <5>1, <5>2
      <4> QED
        BY <4>2, <4>3
    <3> QED
      BY <3>1, <3>2, <3>3
  <2> QED
    BY <2>1, <2>3, <2>4 DEF Ordered
<1>10. EndsIn(W, M, t)
  <2>1. t \in L /\ \A v \in L : (V[v].next = NULL <=> v = t) /\ V[t].val <= V[v].val
    BY DEF Linked, EndsIn
  <2>2. V[t].val <= V[old].val + 1
    BY <1>3, <2>1
  <2>3. ASSUME NEW v \in M PROVE (W[v].next = NULL <=> v = t) /\ W[t].val <= W[v].val
    <3>1. CASE v = new
      BY <1>3, <2>1, <2>2, <3>1, NodeNumbers
    <3>2. CASE v = b
      <4>1. v \in L /\ V[v].next = old
        BY <1>2, <3>2, NodeNumbers
      <4> QED
        BY <1>3, <2>1, <3>2, <4>1, NodeNumbers
    <3>3. CASE v # new /\ v # b
      BY <1>3, <2>1, <3>3
    <3> QED
      BY <3>1, <3>2, <3>3
  <2> QED
    BY <2>1, <2>3 DEF EndsIn
<1> QED
  BY <1>6, <1>9, <1>10 DEF Linked
-----------------------------------------------------------------------------
(* The pool *)

LEMMA PoolGets ==
  ASSUME NEW pool \in Seq(Nodes), IsInjective(pool), NEW x \in Nodes \ ToSet(pool),
         NEW q, q = Append(pool, x)
  PROVE  q \in Seq(Nodes) /\ IsInjective(q) /\ ToSet(q) = ToSet(pool) \cup {x}
<1>1. /\ q \in Seq(Nodes) /\ Len(q) = Len(pool) + 1 /\ Len(pool) \in Nat
      /\ \A i \in 1 .. Len(pool) : q[i] = pool[i]
      /\ q[Len(pool) + 1] = x
  OBVIOUS
<1>2. DOMAIN pool = 1 .. Len(pool) /\ DOMAIN q = 1 .. Len(q)
  BY <1>1
<1>3. \A i \in DOMAIN q : (i \in DOMAIN pool /\ q[i] = pool[i]) \/ (i = Len(q) /\ q[i] = x)
  BY <1>1, <1>2
<1>4. \A i \in DOMAIN pool : i \in DOMAIN q /\ q[i] = pool[i] /\ pool[i] # x /\ i # Len(q)
  BY <1>1, <1>2 DEF ToSet
<1>5. Len(q) \in DOMAIN q /\ q[Len(q)] = x
  BY <1>1, <1>2
<1>6. ToSet(q) = ToSet(pool) \cup {x}
  BY <1>3, <1>4, <1>5 DEF ToSet
<1>7. IsInjective(q)
  BY <1>3, <1>4, <1>5 DEF IsInjective
<1> QED
  BY <1>1, <1>6, <1>7

LEMMA PoolGives ==
  ASSUME NEW pool \in Seq(Nodes), IsInjective(pool), pool # <<>>,
         NEW x, x = Last(pool), NEW q, q = Front(pool)
  PROVE  /\ q \in Seq(Nodes) /\ IsInjective(q) /\ x \in Nodes /\ x \in ToSet(pool)
         /\ ToSet(q) = ToSet(pool) \ {x}
<1>1. Len(pool) \in Nat /\ Len(pool) >= 1 /\ DOMAIN pool = 1 .. Len(pool)
  BY EmptySeq
<1>2. x = pool[Len(pool)] /\ x \in Nodes
  BY <1>1 DEF Last
<1>3. q = SubSeq(pool, 1, Len(pool) - 1)
  BY DEF Front
<1>4. /\ q \in Seq(Nodes) /\ Len(q) = Len(pool) - 1
      /\ \A i \in 1 .. Len(pool) - 1 : q[i] = pool[i]
  BY <1>1, <1>3, SubSeqProperties
<1>5. DOMAIN q = 1 .. Len(pool) - 1
  BY <1>1, <1>4
<1>6. \A i \in DOMAIN pool : i = Len(pool) \/ (i \in DOMAIN q /\ q[i] = pool[i])
  BY <1>1, <1>4, <1>5
<1>7. \A i \in DOMAIN q : i \in DOMAIN pool /\ q[i] = pool[i] /\ i # Len(pool)
  BY <1>1, <1>4, <1>5
<1>8. \A i, j \in DOMAIN pool : pool[i] = pool[j] => i = j
  BY DEF IsInjective
<1>9. Len(pool) \in DOMAIN pool
  BY <1>1
<1>10. ToSet(q) = ToSet(pool) \ {x}
  BY <1>2, <1>6, <1>7, <1>8, <1>9 DEF ToSet
<1>11. IsInjective(q)
  BY <1>7, <1>8 DEF IsInjective
<1> QED
  BY <1>2, <1>4, <1>9, <1>10, <1>11 DEF ToSet
-----------------------------------------------------------------------------
(***************************************************************************)
(* The invariant of the lists                                              *)
(***************************************************************************)
Listed == Nodes \ ToSet(val_node_pool)

\* Every listed value node has a first key node, and every key node a listed
\* parent.
Parents(V, K, L) ==
  /\ \A v \in L : V[v].first \in Nodes /\ K[V[v].first].parent = v
  /\ \A n \in Nodes : K[n].parent \in L

ListTypes ==
  /\ val_nodes \in ValNodes /\ key_nodes \in KeyNodes
  /\ val_node_pool \in Seq(Nodes) /\ IsInjective(val_node_pool)

Lists ==
  /\ ListTypes
  /\ Rings(key_nodes, Nodes)
  /\ Linked(val_nodes, Listed, tail_node)
  /\ Parents(val_nodes, key_nodes, Listed)

\* nodes has the pointers of key_nodes.
SamePointers(K, L) ==
  \A n \in Nodes : /\ L[n].parent = K[n].parent
                   /\ L[n].prev = K[n].prev /\ L[n].next = K[n].next

ValueOf(n) == val_nodes[key_nodes[n].parent].val

\* What add_counter is for.
Raises(nodes, my) ==
  /\ SameKeys(nodes, key_nodes')
  /\ ValueOf(my)' = ValueOf(my) + 1
  /\ \A n \in Nodes \ {my} : ValueOf(n)' = ValueOf(n)

LEMMA RingsSame ==
  ASSUME NEW K, NEW L, Rings(K, Nodes), SamePointers(K, L)
  PROVE  Rings(L, Nodes)
<1>1. \A n \in Nodes : /\ L[n].parent = K[n].parent
                       /\ L[n].prev = K[n].prev /\ L[n].next = K[n].next
                       /\ K[n].next \in Nodes /\ K[n].prev \in Nodes
  BY DEF SamePointers, Rings
<1>2. Whole(L, Nodes)
  BY <1>1 DEF Rings, Whole
<1> QED
  BY <1>1, <1>2 DEF Rings

\* A node and the nodes around it, as add_counter finds them.
LEMMA Around ==
  ASSUME Lists, NEW my \in Nodes, NEW old, old = key_nodes[my].parent, NEW b, b = val_nodes[old].prev
  PROVE  /\ old \in Listed /\ old \in Nodes /\ val_nodes[old].val \in Nat
         /\ b # NULL => /\ b \in Listed /\ b \in Nodes /\ b # old
                        /\ val_nodes[b].next = old /\ val_nodes[b].val \in Nat
                        /\ val_nodes[b].first \in Nodes /\ val_nodes[b].first # my
                        /\ key_nodes[val_nodes[b].first].parent = b
         /\ (BrotherHasNext(my) <=> b # NULL /\ val_nodes[b].val = val_nodes[old].val + 1)
         /\ (~BrotherHasNext(my) <=> NoneAbove(val_nodes, old))
<1>1. old \in Listed /\ Listed \subseteq Nodes
  BY DEF Lists, Parents, Listed
<1>2. val_nodes[old].val \in Nat
  BY <1>1, Values DEF Lists, ListTypes
<1>3. (BrotherHasNext(my) <=> b # NULL /\ val_nodes[b].val = val_nodes[old].val + 1)
      /\ (~BrotherHasNext(my) <=> NoneAbove(val_nodes, old))
  BY DEF BrotherHasNext, Brother, NoneAbove
<1>4. ASSUME b # NULL
      PROVE  /\ b \in Listed /\ b \in Nodes /\ b # old
             /\ val_nodes[b].next = old /\ val_nodes[b].val \in Nat
             /\ val_nodes[b].first \in Nodes /\ val_nodes[b].first # my
             /\ key_nodes[val_nodes[b].first].parent = b
  <2>1. b \in Listed /\ val_nodes[b].next = old /\ val_nodes[old].val < val_nodes[b].val
    BY <1>1, <1>4 DEF Lists, Linked, TwoWays, Ordered
  <2>2. val_nodes[b].val \in Nat
    BY <1>1, <2>1, Values DEF Lists, ListTypes
  <2>3. val_nodes[b].first \in Nodes /\ key_nodes[val_nodes[b].first].parent = b
    BY <2>1 DEF Lists, Parents
  <2>4. b # old
    BY <1>2, <2>1, <2>2
  <2> QED
    BY <1>1, <2>1, <2>2, <2>3, <2>4
<1> QED
  BY <1>1, <1>2, <1>3, <1>4

\* my in another ring, whatever it leaves behind.
LEMMA Rejoined ==
  ASSUME NEW K \in KeyNodes, Rings(K, Nodes), NEW my \in Nodes, NEW J \in KeyNodes,
         Left(K, J, my), SameKeys(K, J), NEW b \in Nodes, NEW f \in Nodes \ {my},
         f = val_nodes[b].first, K[f].parent = b, NEW L, L = JoinRing(J, my, b)
  PROVE  /\ L \in KeyNodes /\ Rings(L, Nodes) /\ SameKeys(K, L) /\ L[my].parent = b
         /\ \A n \in Nodes \ {my} : L[n].parent = K[n].parent
<1>1. Rings(J, Nodes \ {my})
  BY RingLeft
<1>2. J[f].parent = b
  BY DEF Left
<1>3. L \in KeyNodes /\ Joined(J, L, my, f) /\ SameKeys(J, L)
  BY <1>1, <1>2, JoinRingJoins
<1>4. Rings(L, Nodes)
  BY <1>1, <1>3, RingJoined
<1> QED
  BY <1>2, <1>3, <1>4 DEF Joined, SameKeys, Left

LEMMA MergeUpKeeps ==
  ASSUME Lists, NEW my \in Nodes, NEW nodes \in KeyNodes, SamePointers(key_nodes, nodes),
         MergeUp(nodes, my)
  PROVE  Lists' /\ Raises(nodes, my)
<1>1. PICK old : old = key_nodes[my].parent
  OBVIOUS
<1>2. PICK b : b = val_nodes[old].prev
  OBVIOUS
<1>3. PICK c : c = val_nodes[old].next
  OBVIOUS
<1>4. /\ old \in Listed /\ old \in Nodes /\ val_nodes[old].val \in Nat
      /\ b # NULL /\ b \in Listed /\ b \in Nodes /\ b # old
      /\ val_nodes[b].next = old /\ val_nodes[b].val = val_nodes[old].val + 1
  <2>1. BrotherHasNext(my)
    BY DEF MergeUp
  <2> QED
    BY <1>1, <1>2, <2>1, Around
<1>5. PICK f \in Nodes \ {my} : f = val_nodes[b].first /\ key_nodes[f].parent = b
  <2>1. val_nodes[b].first \in Nodes /\ key_nodes[val_nodes[b].first].parent = b
    BY <1>4 DEF Lists, Parents
  <2> QED
    BY <1>1, <1>4, <2>1
<1>6. /\ val_node_pool' = Append(val_node_pool, old)
      /\ tail_node' = IF old = tail_node THEN b ELSE tail_node
      /\ key_nodes' = JoinRing(nodes, my, b)
  BY <1>1, <1>2 DEF MergeUp, Release, TailWithout, Brother
<1>7. key_nodes[my].next = my
  BY DEF MergeUp, Alone
<1>8. \A n \in Nodes \ {my} : key_nodes[n].parent # old
  BY <1>1, <1>7, OwnNext DEF Lists
<1>9. Rings(nodes, Nodes) /\ nodes[my].next = my /\ nodes[f].parent = b
  BY <1>5, <1>7, RingsSame DEF SamePointers, Lists
<1>10. Left(nodes, nodes, my) /\ SameKeys(nodes, nodes)
  BY <1>9 DEF Left, Rings, SameKeys
<1>11. /\ key_nodes' \in KeyNodes /\ Rings(key_nodes', Nodes) /\ SameKeys(nodes, key_nodes')
       /\ key_nodes'[my].parent = b
       /\ \A n \in Nodes \ {my} : key_nodes'[n].parent = nodes[n].parent
  BY <1>4, <1>5, <1>6, <1>9, <1>10, Rejoined
<1>12. \A n \in Nodes \ {my} : key_nodes'[n].parent = key_nodes[n].parent
  BY <1>11 DEF SamePointers
<1>13. c # NULL => c \in Nodes /\ c # old /\ c # b
  <2>1. c # NULL => c \in Listed /\ val_nodes[c].prev = old
    BY <1>3, <1>4 DEF Lists, Linked, TwoWays
  <2>2. c # NULL => val_nodes[c].val < val_nodes[old].val /\ c \in Nodes
    BY <1>4, <2>1, NodeNumbers DEF Lists, Linked, Ordered, Listed
  <2>3. c # NULL => val_nodes[c].val \in Nat
    BY <2>2, Values DEF Lists, ListTypes
  <2> QED
    BY <1>4, <2>2, <2>3
<1>14. /\ val_nodes' \in ValNodes
       /\ \A v \in Nodes \ {old} :
            /\ val_nodes'[v].val = val_nodes[v].val
            /\ val_nodes'[v].next = IF v = b THEN c ELSE val_nodes[v].next
            /\ val_nodes'[v].prev = IF v = c THEN b ELSE val_nodes[v].prev
            /\ val_nodes'[v].first = IF v = b THEN my ELSE val_nodes[v].first
  <2>1. PICK W1 : W1 = [val_nodes EXCEPT ![old].val = @ + 1]
    OBVIOUS
  <2>2. PICK W2 : W2 = [W1 EXCEPT ![b].next = c]
    OBVIOUS
  <2>3. PICK W3 : W3 = [W2 EXCEPT ![b].first = my]
    OBVIOUS
  <2>4. val_nodes' = IF c = NULL THEN W3 ELSE [W3 EXCEPT ![c].prev = b]
    BY <1>1, <1>2, <1>3, <2>1, <2>2, <2>3 DEF MergeUp, Brother
  <2>5. val_nodes \in ValNodes /\ c \in Pointers /\ b \in Pointers /\ my \in Pointers
    BY <1>3, <1>4, Values DEF Lists, ListTypes, Pointers
  <2>6. W1 \in ValNodes /\ \A v \in Nodes \ {old} : W1[v] = val_nodes[v]
    BY <1>4, <2>1, <2>5 DEF ValNodes
  <2>7. /\ W2 \in ValNodes /\ \A v \in Nodes \ {b} : W2[v] = W1[v]
        /\ W2[b].val = W1[b].val /\ W2[b].next = c /\ W2[b].prev = W1[b].prev
    BY <1>4, <2>2, <2>5, <2>6 DEF ValNodes
  <2>8. /\ W3 \in ValNodes /\ \A v \in Nodes \ {b} : W3[v] = W2[v]
        /\ W3[b].val = W2[b].val /\ W3[b].next = W2[b].next /\ W3[b].prev = W2[b].prev
        /\ W3[b].first = my
    BY <1>4, <2>3, <2>5, <2>7 DEF ValNodes
  <2>9. CASE c = NULL
    BY <1>4, <2>4, <2>6, <2>7, <2>8, <2>9, NodeNumbers
  <2>10. CASE c # NULL
    <3>1. val_nodes' = [W3 EXCEPT ![c].prev = b]
      BY <2>4, <2>10
    <3>2. /\ val_nodes' \in ValNodes /\ \A v \in Nodes \ {c} : val_nodes'[v] = W3[v]
          /\ val_nodes'[c].val = W3[c].val /\ val_nodes'[c].next = W3[c].next
          /\ val_nodes'[c].prev = b /\ val_nodes'[c].first = W3[c].first
      BY <1>13, <2>5, <2>8, <2>10, <3>1 DEF ValNodes
    <3> QED
      BY <1>4, <1>13, <2>6, <2>7, <2>8, <2>10, <3>2
  <2> QED
    BY <2>9, <2>10
<1>15. Unlinked(val_nodes, val_nodes', old)
  BY <1>2, <1>3, <1>14 DEF Unlinked
<1>16. /\ val_node_pool' \in Seq(Nodes) /\ IsInjective(val_node_pool')
       /\ Listed' = Listed \ {old}
  <2>1. old \in Nodes \ ToSet(val_node_pool)
    BY <1>4 DEF Listed
  <2>2. /\ val_node_pool' \in Seq(Nodes) /\ IsInjective(val_node_pool')
        /\ ToSet(val_node_pool') = ToSet(val_node_pool) \cup {old}
    BY <1>6, <2>1, PoolGets DEF Lists, ListTypes
  <2> QED
    BY <2>2 DEF Listed, Nodes
<1>17. Linked(val_nodes', Listed', tail_node')
  <2>1. Listed \in SUBSET Nodes
    BY DEF Listed
  <2>2. Linked(val_nodes', Listed \ {old}, tail_node')
    BY <1>2, <1>4, <1>6, <1>15, <2>1, LinkedUnlinked DEF Lists, ListTypes
  <2> QED
    BY <1>16, <2>2
<1>18. Parents(val_nodes', key_nodes', Listed')
  <2>1. ASSUME NEW v \in Listed, v # old
        PROVE  val_nodes'[v].first \in Nodes /\ key_nodes'[val_nodes'[v].first].parent = v
    <3>1. val_nodes[v].first \in Nodes /\ key_nodes[val_nodes[v].first].parent = v /\ v \in Nodes
      BY DEF Lists, Parents, Listed
    <3>2. val_nodes[v].first # my
      BY <1>1, <2>1, <3>1
    <3> QED
      BY <1>11, <1>12, <1>14, <2>1, <3>1, <3>2
  <2>2. ASSUME NEW n \in Nodes PROVE key_nodes'[n].parent \in Listed \ {old}
    <3>1. CASE n = my
      BY <1>4, <1>11, <3>1
    <3>2. CASE n # my
      BY <1>8, <1>12, <3>2 DEF Lists, Parents
    <3> QED
      BY <3>1, <3>2
  <2> QED
    BY <1>16, <2>1, <2>2 DEF Parents
<1>19. Raises(nodes, my)
  <2>1. ValueOf(my)' = ValueOf(my) + 1
    BY <1>1, <1>4, <1>11, <1>14 DEF ValueOf
  <2>2. ASSUME NEW n \in Nodes \ {my} PROVE ValueOf(n)' = ValueOf(n)
    <3>1. key_nodes[n].parent \in Nodes /\ key_nodes[n].parent # old
      BY <1>8 DEF Lists, Parents, Listed
    <3> QED
      BY <1>12, <1>14, <3>1 DEF ValueOf
  <2> QED
    BY <1>11, <2>1, <2>2 DEF Raises
<1>20. ListTypes'
  BY <1>11, <1>14, <1>16 DEF ListTypes, ValNodes, KeyNodes, Pointers, Nodes
<1>21. Lists'
  BY <1>11, <1>17, <1>18, <1>20 DEF Lists, Rings, Whole, Linked, TwoWays, Ordered, EndsIn, Parents, Nodes
<1> QED
  BY <1>19, <1>21

LEMMA RaiseNodeKeeps ==
  ASSUME Lists, NEW my \in Nodes, NEW nodes \in KeyNodes, SamePointers(key_nodes, nodes),
         RaiseNode(nodes, my)
  PROVE  Lists' /\ Raises(nodes, my)
<1>1. PICK old : old = key_nodes[my].parent
  OBVIOUS
<1>2. PICK b : b = val_nodes[old].prev
  OBVIOUS
<1>3. old \in Listed /\ old \in Nodes /\ NoneAbove(val_nodes, old)
  <2>1. ~BrotherHasNext(my)
    BY DEF RaiseNode
  <2> QED
    BY <1>1, <1>2, <2>1, Around
<1>4. /\ val_nodes' = [val_nodes EXCEPT ![old].val = @ + 1]
      /\ key_nodes' = nodes /\ UNCHANGED <<val_node_pool, tail_node>>
  BY <1>1 DEF RaiseNode
<1>5. /\ val_nodes' \in ValNodes
      /\ \A v \in Nodes : /\ val_nodes'[v].prev = val_nodes[v].prev
                          /\ val_nodes'[v].next = val_nodes[v].next
                          /\ val_nodes'[v].first = val_nodes[v].first
                          /\ v # old => val_nodes'[v].val = val_nodes[v].val
      /\ val_nodes'[old].val = val_nodes[old].val + 1
  BY <1>3, <1>4 DEF Lists, ListTypes, ValNodes
<1>6. key_nodes[my].next = my
  BY DEF RaiseNode, Alone
<1>7. \A n \in Nodes \ {my} : key_nodes[n].parent # old
  BY <1>1, <1>6, OwnNext DEF Lists
<1>8. Listed' = Listed
  BY <1>4 DEF Listed, Nodes
<1>9. Linked(val_nodes', Listed', tail_node')
  <2>1. Listed \in SUBSET Nodes /\ Lifted(val_nodes, val_nodes', old)
    BY <1>5 DEF Listed, Lifted
  <2>2. Linked(val_nodes', Listed, tail_node)
    BY <1>3, <2>1, LinkedLifted DEF Lists, ListTypes
  <2> QED
    BY <1>4, <1>8, <2>2
<1>10. Rings(key_nodes', Nodes)
  BY <1>4, RingsSame DEF Lists
<1>11. Parents(val_nodes', key_nodes', Listed')
  <2>1. \A n \in Nodes : key_nodes'[n].parent = key_nodes[n].parent
    BY <1>4 DEF SamePointers
  <2>2. \A v \in Listed : v \in Nodes
    BY DEF Listed
  <2> QED
    BY <1>5, <1>8, <2>1, <2>2 DEF Lists, Parents
<1>12. Raises(nodes, my)
  <2>1. \A n \in Nodes : key_nodes'[n].parent = key_nodes[n].parent /\ key_nodes[n].parent \in Nodes
    BY <1>4 DEF SamePointers, Lists, Parents, Listed
  <2>2. SameKeys(nodes, key_nodes')
    BY <1>4 DEF SameKeys
  <2> QED
    BY <1>1, <1>5, <1>7, <2>1, <2>2 DEF Raises, ValueOf
<1>13. ListTypes'
  BY <1>4, <1>5 DEF ListTypes, Lists, ValNodes, KeyNodes, Pointers, Nodes
<1>14. Lists'
  BY <1>9, <1>10, <1>11, <1>13 DEF Lists, Rings, Whole, Linked, TwoWays, Ordered, EndsIn, Parents, Nodes
<1> QED
  BY <1>12, <1>14

LEMMA MoveUpKeeps ==
  ASSUME Lists, NEW my \in Nodes, NEW nodes \in KeyNodes, SamePointers(key_nodes, nodes),
         MoveUp(nodes, my)
  PROVE  Lists' /\ Raises(nodes, my)
<1>1. PICK old : old = key_nodes[my].parent
  OBVIOUS
<1>2. PICK b : b = val_nodes[old].prev
  OBVIOUS
<1>3. /\ old \in Listed /\ old \in Nodes
      /\ b # NULL /\ b \in Listed /\ b \in Nodes /\ b # old
      /\ val_nodes[b].val = val_nodes[old].val + 1
  <2>1. BrotherHasNext(my)
    BY DEF MoveUp
  <2> QED
    BY <1>1, <1>2, <2>1, Around
<1>4. PICK f \in Nodes \ {my} : f = val_nodes[b].first /\ key_nodes[f].parent = b
  <2>1. val_nodes[b].first \in Nodes /\ key_nodes[val_nodes[b].first].parent = b
    BY <1>3 DEF Lists, Parents
  <2> QED
    BY <1>1, <1>3, <2>1
<1>5. PICK a : a = key_nodes[my].next
  OBVIOUS
<1>6. a \in Nodes /\ a # my /\ key_nodes[a].parent = old
  <2>1. a # my
    BY <1>5 DEF MoveUp, Alone
  <2> QED
    BY <1>1, <1>5, <2>1 DEF Lists, Rings
<1>7. Rings(nodes, Nodes)
  BY RingsSame DEF Lists
<1>8. PICK J : J = LeaveRing(nodes, my)
  OBVIOUS
<1>9. J \in KeyNodes /\ Left(nodes, J, my) /\ SameKeys(nodes, J)
  BY <1>7, <1>8, LeaveRingLeaves
<1>10. key_nodes' = JoinRing(J, my, b)
  BY <1>1, <1>2, <1>8 DEF MoveUp, Brother
<1>11. nodes[f].parent = b
  BY <1>4 DEF SamePointers
<1>12. /\ key_nodes' \in KeyNodes /\ Rings(key_nodes', Nodes) /\ SameKeys(nodes, key_nodes')
       /\ key_nodes'[my].parent = b
       /\ \A n \in Nodes \ {my} : key_nodes'[n].parent = nodes[n].parent
  BY <1>3, <1>4, <1>7, <1>9, <1>10, <1>11, Rejoined
<1>13. \A n \in Nodes \ {my} : key_nodes'[n].parent = key_nodes[n].parent
  BY <1>12 DEF SamePointers
<1>14. /\ val_nodes' \in ValNodes
       /\ SameList(val_nodes, val_nodes')
       /\ \A v \in Nodes : val_nodes'[v].first =
                             IF v = b THEN my
                             ELSE IF v = old /\ val_nodes[v].first = my THEN a
                             ELSE val_nodes[v].first
  <2>1. PICK W : W = WithoutFirst(my)
    OBVIOUS
  <2>2. W = IF val_nodes[old].first = my THEN [val_nodes EXCEPT ![old].first = a] ELSE val_nodes
    BY <1>1, <1>5, <2>1 DEF WithoutFirst
  <2>3. val_nodes' = [W EXCEPT ![b].first = my]
    BY <1>1, <1>2, <2>1 DEF MoveUp, Brother
  <2>4. val_nodes \in ValNodes /\ a \in Pointers /\ my \in Pointers
    BY <1>6 DEF Lists, ListTypes, Pointers
  <2>5. /\ W \in ValNodes /\ SameList(val_nodes, W)
        /\ \A v \in Nodes : W[v].first = IF v = old /\ val_nodes[v].first = my THEN a
                                         ELSE val_nodes[v].first
    <3>1. CASE val_nodes[old].first = my
      <4>1. W = [val_nodes EXCEPT ![old].first = a]
        BY <2>2, <3>1
      <4> QED
        BY <1>3, <2>4, <3>1, <4>1 DEF ValNodes, SameList
    <3>2. CASE val_nodes[old].first # my
      BY <2>2, <2>4, <3>2 DEF SameList
    <3> QED
      BY <3>1, <3>2
  <2>6. /\ val_nodes' \in ValNodes /\ SameList(W, val_nodes')
        /\ \A v \in Nodes : val_nodes'[v].first = IF v = b THEN my ELSE W[v].first
    BY <1>3, <2>3, <2>4, <2>5 DEF ValNodes, SameList
  <2> QED
    BY <2>5, <2>6 DEF SameList
<1>15. val_node_pool' = val_node_pool /\ tail_node' = tail_node
  BY DEF MoveUp
<1>16. Listed' = Listed
  BY <1>15 DEF Listed, Nodes
<1>17. Linked(val_nodes', Listed', tail_node')
  <2>1. Listed \in SUBSET Nodes
    BY DEF Listed
  <2>2. Linked(val_nodes', Listed, tail_node)
    BY <1>14, <2>1, LinkedSame DEF Lists
  <2> QED
    BY <1>15, <1>16, <2>2
<1>18. Parents(val_nodes', key_nodes', Listed')
  <2>1. ASSUME NEW v \in Listed
        PROVE  val_nodes'[v].first \in Nodes /\ key_nodes'[val_nodes'[v].first].parent = v
    <3>1. val_nodes[v].first \in Nodes /\ key_nodes[val_nodes[v].first].parent = v /\ v \in Nodes
      BY DEF Lists, Parents, Listed
    <3>2. CASE v = b
      BY <1>12, <1>14, <3>1, <3>2
    <3>3. CASE v # b /\ val_nodes[v].first = my
      <4>1. v = old
        BY <1>1, <3>1, <3>3
      <4> QED
        BY <1>6, <1>13, <1>14, <3>1, <3>3, <4>1
    <3>4. CASE v # b /\ val_nodes[v].first # my
      BY <1>13, <1>14, <3>1, <3>4
    <3> QED
      BY <3>2, <3>3, <3>4
  <2>2. ASSUME NEW n \in Nodes PROVE key_nodes'[n].parent \in Listed
    BY <1>3, <1>12, <1>13 DEF Lists, Parents
  <2> QED
    BY <1>16, <2>1, <2>2 DEF Parents
<1>19. Raises(nodes, my)
  <2>1. ValueOf(my)' = ValueOf(my) + 1
    BY <1>1, <1>3, <1>12, <1>14 DEF ValueOf, SameList
  <2>2. ASSUME NEW n \in Nodes \ {my} PROVE ValueOf(n)' = ValueOf(n)
    <3>1. key_nodes[n].parent \in Nodes
      BY DEF Lists, Parents, Listed
    <3> QED
      BY <1>13, <1>14, <3>1 DEF ValueOf, SameList
  <2> QED
    BY <1>12, <2>1, <2>2 DEF Raises
<1>20. ListTypes'
  BY <1>12, <1>14, <1>15 DEF Lists, ListTypes, ValNodes, KeyNodes, Pointers, Nodes
<1>21. Lists'
  BY <1>12, <1>17, <1>18, <1>20 DEF Lists, Rings, Whole, Linked, TwoWays, Ordered, EndsIn, Parents, Nodes
<1> QED
  BY <1>19, <1>21

\* The pool is not empty when a parent has two key nodes: each value node in
\* the list has a first of its own, so that some value node is not.
LEMMA PoolHasOne ==
  ASSUME Lists, NEW my \in Nodes, ~Alone(my)
  PROVE  val_node_pool # <<>>
<1>1. SUFFICES ASSUME val_node_pool = <<>> PROVE FALSE
  OBVIOUS
<1>2. Listed = Nodes
  BY <1>1 DEF Listed, ToSet
<1>3. PICK g : g = [v \in Nodes |-> val_nodes[v].first]
  OBVIOUS
<1>4. \A v \in Nodes : g[v] \in Nodes /\ key_nodes[g[v]].parent = v
  BY <1>2, <1>3 DEF Lists, Parents
<1>5. g \in [Nodes -> Nodes]
  BY <1>3, <1>4
<1>6. g \in Injection(Nodes, Nodes)
  BY <1>4, <1>5 DEF Injection, IsInjective
<1>7. PICK a : a = key_nodes[my].next
  OBVIOUS
<1>8. a \in Nodes /\ a # my /\ key_nodes[a].parent = key_nodes[my].parent
  BY <1>7 DEF Alone, Lists, Rings
<1>9. g \in Surjection(Nodes, Nodes)
  BY <1>6, NodeNumbers, FS_Injection
<1>10. PICK v \in Nodes, u \in Nodes : g[v] = my /\ g[u] = a
  BY <1>8, <1>9 DEF Surjection
<1>11. v = key_nodes[my].parent /\ u = key_nodes[my].parent
  BY <1>4, <1>8, <1>10
<1> QED
  BY <1>8, <1>10, <1>11

LEMMA SplitUpKeeps ==
  ASSUME Lists, NEW my \in Nodes, NEW nodes \in KeyNodes, SamePointers(key_nodes, nodes),
         SplitUp(nodes, my)
  PROVE  Lists' /\ Raises(nodes, my)
<1>1. PICK old : old = key_nodes[my].parent
  OBVIOUS
<1>2. PICK b : b = val_nodes[old].prev
  OBVIOUS
<1>3. PICK new : new = Last(val_node_pool)
  OBVIOUS
<1>4. ~Alone(my) /\ ~BrotherHasNext(my)
  BY DEF SplitUp
<1>5. /\ val_node_pool' \in Seq(Nodes) /\ IsInjective(val_node_pool')
      /\ new \in Nodes /\ new \in ToSet(val_node_pool)
      /\ ToSet(val_node_pool') = ToSet(val_node_pool) \ {new}
  <2>1. val_node_pool # <<>>
    BY <1>4, PoolHasOne
  <2>2. val_node_pool' = Front(val_node_pool)
    BY DEF SplitUp
  <2> QED
    BY <1>3, <2>1, <2>2, PoolGives DEF Lists, ListTypes
<1>6. new \notin Listed /\ Listed' = Listed \cup {new}
  BY <1>5 DEF Listed, Nodes
<1>7. /\ old \in Listed /\ old \in Nodes /\ val_nodes[old].val \in Nat
      /\ NoneAbove(val_nodes, old) /\ (b # NULL => b \in Nodes /\ b # old /\ b # new)
  BY <1>1, <1>2, <1>4, <1>6, Around
<1>8. PICK a : a = key_nodes[my].next
  OBVIOUS
<1>9. a \in Nodes /\ a # my /\ key_nodes[a].parent = old
  BY <1>1, <1>4, <1>8 DEF Alone, Lists, Rings
<1>10. PICK J : J = LeaveRing(nodes, my)
  OBVIOUS
<1>11. Rings(nodes, Nodes)
  BY RingsSame DEF Lists
<1>12. J \in KeyNodes /\ Left(nodes, J, my) /\ SameKeys(nodes, J)
  BY <1>10, <1>11, LeaveRingLeaves
<1>13. Rings(J, Nodes \ {my})
  BY <1>11, <1>12, RingLeft
<1>14. /\ key_nodes' \in KeyNodes /\ SameKeys(nodes, key_nodes')
       /\ key_nodes'[my].parent = new /\ key_nodes'[my].next = my /\ key_nodes'[my].prev = my
       /\ \A n \in Nodes \ {my} : key_nodes'[n] = J[n]
  <2>1. PICK K1 : K1 = [J EXCEPT ![my].parent = new]
    OBVIOUS
  <2>2. PICK K2 : K2 = [K1 EXCEPT ![my].next = my]
    OBVIOUS
  <2>3. key_nodes' = [K2 EXCEPT ![my].prev = my]
    BY <1>3, <1>10, <2>1, <2>2 DEF SplitUp
  <2>4. /\ K1 \in KeyNodes /\ K1[my].parent = new /\ K1[my].key = J[my].key
        /\ \A n \in Nodes \ {my} : K1[n] = J[n]
    BY <1>5, <1>12, <2>1 DEF KeyNodes
  <2>5. /\ K2 \in KeyNodes /\ K2[my].parent = new /\ K2[my].key = J[my].key
        /\ K2[my].next = my /\ \A n \in Nodes \ {my} : K2[n] = K1[n]
    BY <2>2, <2>4 DEF KeyNodes
  <2>6. /\ key_nodes' \in KeyNodes /\ key_nodes'[my].parent = new /\ key_nodes'[my].key = J[my].key
        /\ key_nodes'[my].next = my /\ key_nodes'[my].prev = my
        /\ \A n \in Nodes \ {my} : key_nodes'[n] = K2[n]
    BY <2>3, <2>5 DEF KeyNodes
  <2> QED
    BY <1>12, <2>4, <2>5, <2>6 DEF SameKeys
<1>15. \A n \in Nodes \ {my} : /\ key_nodes'[n].parent = key_nodes[n].parent
                               /\ J[n].parent = key_nodes[n].parent
                               /\ key_nodes[n].parent \in Listed
  BY <1>12, <1>14 DEF Left, SamePointers, Lists, Parents
<1>16. Rings(key_nodes', Nodes)
  <2>1. Lone(J, key_nodes', my)
    BY <1>6, <1>14, <1>15 DEF Lone
  <2> QED
    BY <1>13, <2>1, RingLone
<1>17. /\ val_nodes' \in ValNodes
       /\ val_nodes'[new].prev = b /\ val_nodes'[new].next = old
       /\ val_nodes'[new].val = val_nodes[old].val + 1 /\ val_nodes'[new].first = my
       /\ \A v \in Nodes \ {new} :
            /\ val_nodes'[v].val = val_nodes[v].val
            /\ val_nodes'[v].next = IF v = b THEN new ELSE val_nodes[v].next
            /\ val_nodes'[v].prev = IF v = old THEN new ELSE val_nodes[v].prev
            /\ val_nodes'[v].first = IF v = old /\ val_nodes[v].first = my THEN a
                                     ELSE val_nodes[v].first
  <2>1. PICK W : W = WithoutFirst(my)
    OBVIOUS
  <2>2. W = IF val_nodes[old].first = my THEN [val_nodes EXCEPT ![old].first = a] ELSE val_nodes
    BY <1>1, <1>8, <2>1 DEF WithoutFirst
  <2>3. PICK r : r = [prev |-> b, next |-> old, first |-> my, val |-> val_nodes[old].val + 1]
    OBVIOUS
  <2>4. PICK W1 : W1 = [W EXCEPT ![new] = r]
    OBVIOUS
  <2>5. PICK W2 : W2 = [W1 EXCEPT ![old].prev = new]
    OBVIOUS
  <2>6. val_nodes' = IF b = NULL THEN W2 ELSE [W2 EXCEPT ![b].next = new]
    BY <1>1, <1>2, <1>3, <2>1, <2>3, <2>4, <2>5 DEF SplitUp, Brother
  <2>7. val_nodes \in ValNodes /\ a \in Pointers /\ my \in Pointers /\ old \in Pointers
        /\ b \in Pointers /\ new \in Pointers
    BY <1>2, <1>5, <1>7, <1>9, Values DEF Lists, ListTypes, Pointers
  <2>8. /\ W \in ValNodes /\ SameList(val_nodes, W)
        /\ \A v \in Nodes : W[v].first = IF v = old /\ val_nodes[v].first = my THEN a
                                         ELSE val_nodes[v].first
    <3>1. CASE val_nodes[old].first = my
      <4>1. W = [val_nodes EXCEPT ![old].first = a]
        BY <2>2, <3>1
      <4> QED
        BY <1>7, <2>7, <3>1, <4>1 DEF ValNodes, SameList
    <3>2. CASE val_nodes[old].first # my
      BY <2>2, <2>7, <3>2 DEF SameList
    <3> QED
      BY <3>1, <3>2
  <2>9. r \in [prev : Pointers, next : Pointers, first : Pointers, val : Nat]
    BY <1>7, <2>3, <2>7
  <2>10. W1 \in ValNodes /\ W1[new] = r /\ \A v \in Nodes \ {new} : W1[v] = W[v]
    BY <1>5, <2>4, <2>8, <2>9 DEF ValNodes
  <2>11. old # new
    BY <1>6, <1>7
  <2>12. /\ W2 \in ValNodes /\ \A v \in Nodes \ {old} : W2[v] = W1[v]
         /\ W2[old].val = W1[old].val /\ W2[old].next = W1[old].next
         /\ W2[old].first = W1[old].first /\ W2[old].prev = new
    BY <1>7, <2>5, <2>7, <2>10 DEF ValNodes
  <2>13. /\ W2[new] = r
         /\ \A v \in Nodes \ {new} :
              /\ W2[v].val = W[v].val /\ W2[v].next = W[v].next /\ W2[v].first = W[v].first
              /\ W2[v].prev = IF v = old THEN new ELSE W[v].prev
    BY <1>5, <2>10, <2>11, <2>12
  <2>14. /\ val_nodes' \in ValNodes /\ val_nodes'[new] = r
         /\ \A v \in Nodes \ {new} :
              /\ val_nodes'[v].val = W[v].val /\ val_nodes'[v].first = W[v].first
              /\ val_nodes'[v].next = IF v = b THEN new ELSE W[v].next
              /\ val_nodes'[v].prev = IF v = old THEN new ELSE W[v].prev
    <3>1. CASE b = NULL
      BY <2>6, <2>12, <2>13, <3>1, NodeNumbers
    <3>2. CASE b # NULL
      <4>1. val_nodes' = [W2 EXCEPT ![b].next = new] /\ b \in Nodes /\ b # new
        BY <1>7, <2>6, <3>2
      <4>2. /\ val_nodes' \in ValNodes /\ \A v \in Nodes \ {b} : val_nodes'[v] = W2[v]
            /\ val_nodes'[b].val = W2[b].val /\ val_nodes'[b].prev = W2[b].prev
            /\ val_nodes'[b].first = W2[b].first /\ val_nodes'[b].next = new
        BY <2>7, <2>12, <4>1 DEF ValNodes
      <4> QED
        BY <1>5, <2>13, <4>1, <4>2
    <3> QED
      BY <3>1, <3>2
  <2>15. \A v \in Nodes : /\ W[v].val = val_nodes[v].val /\ W[v].next = val_nodes[v].next
                          /\ W[v].prev = val_nodes[v].prev
    BY <2>8 DEF SameList
  <2> QED
    BY <2>3, <2>8, <2>14, <2>15
<1>18. Linked(val_nodes', Listed', tail_node')
  <2>1. Inserted(val_nodes, val_nodes', new, old)
    BY <1>2, <1>17 DEF Inserted
  <2>2. Listed \in SUBSET Nodes /\ new \in Nodes \ Listed
    BY <1>5, <1>6 DEF Listed
  <2>3. Linked(val_nodes', Listed \cup {new}, tail_node)
    BY <1>7, <2>1, <2>2, LinkedInserted DEF Lists, ListTypes
  <2>4. tail_node' = tail_node
    BY DEF SplitUp
  <2> QED
    BY <1>6, <2>3, <2>4
<1>19. Parents(val_nodes', key_nodes', Listed')
  <2>1. ASSUME NEW v \in Listed
        PROVE  val_nodes'[v].first \in Nodes /\ key_nodes'[val_nodes'[v].first].parent = v
    <3>1. val_nodes[v].first \in Nodes /\ key_nodes[val_nodes[v].first].parent = v /\ v \in Nodes
          /\ v # new
      BY <1>6 DEF Lists, Parents, Listed
    <3>2. CASE val_nodes[v].first = my
      <4>1. v = old
        BY <1>1, <3>1, <3>2
      <4> QED
        BY <1>9, <1>15, <1>17, <3>1, <3>2, <4>1
    <3>3. CASE val_nodes[v].first # my
      BY <1>15, <1>17, <3>1, <3>3
    <3> QED
      BY <3>2, <3>3
  <2>2. val_nodes'[new].first \in Nodes /\ key_nodes'[val_nodes'[new].first].parent = new
    BY <1>14, <1>17
  <2>3. ASSUME NEW n \in Nodes PROVE key_nodes'[n].parent \in Listed \cup {new}
    BY <1>14, <1>15
  <2> QED
    BY <1>6, <2>1, <2>2, <2>3 DEF Parents
<1>20. Raises(nodes, my)
  <2>1. ValueOf(my)' = ValueOf(my) + 1
    BY <1>1, <1>14, <1>17 DEF ValueOf
  <2>2. ASSUME NEW n \in Nodes \ {my} PROVE ValueOf(n)' = ValueOf(n)
    <3>1. key_nodes[n].parent \in Nodes /\ key_nodes[n].parent # new
      BY <1>6, <1>15 DEF Listed
    <3> QED
      BY <1>15, <1>17, <3>1 DEF ValueOf
  <2> QED
    BY <1>14, <2>1, <2>2 DEF Raises
<1>21. ListTypes'
  BY <1>5, <1>14, <1>17 DEF ListTypes, ValNodes, KeyNodes, Pointers, Nodes
<1>22. Lists'
  BY <1>16, <1>18, <1>19, <1>21 DEF Lists, Rings, Whole, Linked, TwoWays, Ordered, EndsIn, Parents, Nodes
<1> QED
  BY <1>20, <1>22

LEMMA AddCounterKeeps ==
  ASSUME Lists, NEW my \in Nodes, NEW nodes \in KeyNodes, SamePointers(key_nodes, nodes),
         AddCounter(nodes, my)
  PROVE  Lists' /\ Raises(nodes, my)
<1>1. CASE MergeUp(nodes, my)
  BY <1>1, MergeUpKeeps
<1>2. CASE RaiseNode(nodes, my)
  BY <1>2, RaiseNodeKeeps
<1>3. CASE MoveUp(nodes, my)
  BY <1>3, MoveUpKeeps
<1>4. CASE SplitUp(nodes, my)
  BY <1>4, SplitUpKeeps
<1> QED
  BY <1>1, <1>2, <1>3, <1>4 DEF AddCounter
-----------------------------------------------------------------------------
(***************************************************************************)
(* The inductive invariant: the lists, the table and the sum.              *)
(***************************************************************************)

\* The table finds the key node of every key that one holds, and nothing
\* else; a counter holds the zero key as long as it has counted nothing.
Table ==
  /\ \A k \in DOMAIN hash_table :
       k \in Keys /\ hash_table[k] \in Nodes /\ key_nodes[hash_table[k]].key = k
  /\ \A n \in Nodes :
       key_nodes[n].key # Zero =>
         key_nodes[n].key \in DOMAIN hash_table /\ hash_table[key_nodes[n].key] = n
  /\ \A n \in Nodes : key_nodes[n].key = Zero <=> ValueOf(n) = 0

SumOfValues == SumFunctionOnSet([n \in Nodes |-> ValueOf(n)], Nodes)

\* Every packet is in one counter.
AddsUp == packets \in [Keys -> Nat] /\ SumOfValues = SumFunctionOnSet(packets, Keys)

IInv == Lists /\ Table /\ AddsUp

\* The next and the previous number, in a circle.
LEMMA Circle ==
  ASSUME NEW n \in Nodes
  PROVE  /\ (n + 1) % Capacity = IF n = Capacity - 1 THEN 0 ELSE n + 1
         /\ (n - 1 + Capacity) % Capacity = IF n = 0 THEN Capacity - 1 ELSE n - 1
<1>1. \A a, m \in Nat : m > 0 => /\ a < m => a % m = a
                                 /\ m <= a /\ a < 2 * m => a % m = a - m
  OBVIOUS
<1>2. n \in Nat /\ n < Capacity /\ Capacity \in Nat
  BY NodeNumbers DEF Nodes
<1>3. n + 1 \in Nat /\ n - 1 + Capacity \in Nat /\ n + 1 <= Capacity
      /\ n - 1 + Capacity < 2 * Capacity
  BY <1>2
<1>4. (n + 1) % Capacity = IF n = Capacity - 1 THEN 0 ELSE n + 1
  <2>1. CASE n = Capacity - 1
    BY <1>1, <1>2, <1>3, <2>1
  <2>2. CASE n # Capacity - 1
    <3>1. n + 1 < Capacity
      BY <1>2, <2>2
    <3> QED
      BY <1>1, <1>2, <1>3, <2>2, <3>1
  <2> QED
    BY <2>1, <2>2
<1>5. (n - 1 + Capacity) % Capacity = IF n = 0 THEN Capacity - 1 ELSE n - 1
  <2>1. CASE n = 0
    <3>1. n - 1 + Capacity < Capacity /\ Capacity > 0
      BY <1>2, <2>1
    <3> QED
      BY <1>1, <1>2, <1>3, <2>1, <3>1
  <2>2. CASE n # 0
    <3>1. Capacity <= n - 1 + Capacity /\ Capacity > 0
      BY <1>2, <2>2
    <3>2. (n - 1 + Capacity) - Capacity = n - 1
      BY <1>2
    <3> QED
      BY <1>1, <1>2, <1>3, <2>2, <3>1, <3>2
  <2> QED
    BY <2>1, <2>2
<1> QED
  BY <1>4, <1>5

\* A set of nodes that holds with each node the next number holds all.
LEMMA AllAround ==
  ASSUME NEW S \in SUBSET Nodes, NEW n \in S,
         \A m \in S : (IF m = Capacity - 1 THEN 0 ELSE m + 1) \in S
  PROVE  S = Nodes
<1>1. \A m \in Nodes : m \in Nat /\ m <= Capacity - 1
  BY NodeNumbers DEF Nodes
<1>2. Capacity \in Nat /\ n \in Nat /\ n <= Capacity - 1
  BY <1>1, NodeNumbers
<1>3. Capacity - 1 \in S
  <2> DEFINE Good == {i \in Nat : n + i <= Capacity - 1 => n + i \in S}
  <2>1. 0 \in Good
    BY <1>2
  <2>2. ASSUME NEW i \in Nat, i \in Good PROVE i + 1 \in Good
    <3>1. SUFFICES ASSUME n + (i + 1) <= Capacity - 1 PROVE n + (i + 1) \in S
      OBVIOUS
    <3>2. n + i \in S /\ n + i # Capacity - 1
      BY <1>2, <2>2, <3>1
    <3>3. (n + i) + 1 \in S
      BY <3>2
    <3> QED
      BY <1>2, <3>3
  <2>3. Nat \subseteq Good
    <3> HIDE DEF Good
    <3> QED
      BY <2>1, <2>2, NumberInduction
  <2>4. Capacity - 1 - n \in Nat
    BY <1>2
  <2>5. Capacity - 1 - n \in Good
    BY <2>3, <2>4
  <2>6. n + (Capacity - 1 - n) = Capacity - 1
    BY <1>2
  <2> QED
    BY <1>2, <2>5, <2>6
<1>4. \A m \in Nodes : m \in S
  <2> DEFINE Good == {i \in Nat : i <= Capacity - 1 => i \in S}
  <2>1. 0 \in Good
    BY <1>3
  <2>2. ASSUME NEW i \in Nat, i \in Good PROVE i + 1 \in Good
    BY <1>2, <2>2
  <2>3. Nat \subseteq Good
    <3> HIDE DEF Good
    <3> QED
      BY <2>1, <2>2, NumberInduction
  <2> QED
    BY <1>1, <2>3
<1> QED
  BY <1>4

LEMMA InitSound == Init => IInv
<1> SUFFICES ASSUME Init PROVE IInv
  OBVIOUS
<1>1. \A n \in Nodes : /\ key_nodes[n].parent = 0 /\ key_nodes[n].key = Zero
                       /\ key_nodes[n].next = IF n = Capacity - 1 THEN 0 ELSE n + 1
                       /\ key_nodes[n].prev = IF n = 0 THEN Capacity - 1 ELSE n - 1
  <2>1. ASSUME NEW n \in Nodes
        PROVE  /\ key_nodes[n].parent = 0 /\ key_nodes[n].key = Zero
               /\ key_nodes[n].next = (n + 1) % Capacity
               /\ key_nodes[n].prev = (n - 1 + Capacity) % Capacity
    BY DEF Init
  <2> QED
    BY <2>1, Circle
<1>2. \A n \in Nodes : key_nodes[n].next \in Nodes /\ key_nodes[n].prev \in Nodes
                       /\ key_nodes[key_nodes[n].next].prev = n
                       /\ key_nodes[key_nodes[n].prev].next = n
  <2>1. ASSUME NEW n \in Nodes
        PROVE  /\ key_nodes[n].next \in Nodes
               /\ key_nodes[n].next = 0 <=> n = Capacity - 1
               /\ key_nodes[n].next # 0 => key_nodes[n].next = n + 1
               /\ key_nodes[n].prev \in Nodes
               /\ key_nodes[n].prev = Capacity - 1 <=> n = 0
               /\ key_nodes[n].prev # Capacity - 1 => key_nodes[n].prev = n - 1
    BY <1>1, NodeNumbers DEF Nodes
  <2>2. ASSUME NEW n \in Nodes PROVE key_nodes[key_nodes[n].next].prev = n
    <3>1. PICK m \in Nodes : m = key_nodes[n].next
      BY <2>1
    <3>2. key_nodes[m].prev = IF m = 0 THEN Capacity - 1 ELSE m - 1
      BY <1>1
    <3>3. (m = 0 <=> n = Capacity - 1) /\ (m # 0 => m = n + 1) /\ n \in Nat
      BY <2>1, <3>1, NodeNumbers
    <3> QED
      BY <3>1, <3>2, <3>3
  <2>3. ASSUME NEW n \in Nodes PROVE key_nodes[key_nodes[n].prev].next = n
    <3>1. PICK m \in Nodes : m = key_nodes[n].prev
      BY <2>1
    <3>2. key_nodes[m].next = IF m = Capacity - 1 THEN 0 ELSE m + 1
      BY <1>1
    <3>3. (m = Capacity - 1 <=> n = 0) /\ (m # Capacity - 1 => m = n - 1) /\ n \in Nat
      BY <2>1, <3>1, NodeNumbers
    <3> QED
      BY <3>1, <3>2, <3>3
  <2> QED
    BY <2>1, <2>2, <2>3
<1>3. Rings(key_nodes, Nodes)
  <2>1. ASSUME NEW S \in SUBSET Nodes, \A n \in S : key_nodes[n].next \in S,
               NEW n \in S, NEW m \in Nodes
        PROVE  m \in S
    <3>1. \A l \in S : (IF l = Capacity - 1 THEN 0 ELSE l + 1) \in S
      BY <1>1, <2>1
    <3> QED
      BY <3>1, AllAround
  <2>2. Whole(key_nodes, Nodes)
    BY <2>1 DEF Whole
  <2> QED
    BY <1>1, <1>2, <2>2 DEF Rings
<1>4. /\ val_node_pool \in Seq(Nodes) /\ IsInjective(val_node_pool)
      /\ Listed = {0}
  <2>1. val_node_pool = [i \in 1 .. Capacity - 1 |-> i]
    BY DEF Init, FreeAtStart
  <2>2. Capacity - 1 \in Nat /\ 1 .. Capacity - 1 \subseteq Nodes
    BY NodeNumbers DEF Nodes
  <2>3. val_node_pool \in [1 .. Capacity - 1 -> Nodes]
    BY <2>1, <2>2
  <2>4. val_node_pool \in Seq(Nodes)
    BY <2>2, <2>3, SeqDef
  <2>5. DOMAIN val_node_pool = 1 .. Capacity - 1
        /\ \A i \in 1 .. Capacity - 1 : val_node_pool[i] = i
    BY <2>1
  <2>6. IsInjective(val_node_pool)
    BY <2>5 DEF IsInjective
  <2>7. ToSet(val_node_pool) = 1 .. Capacity - 1
    BY <2>5 DEF ToSet
  <2>8. Nodes \ (1 .. Capacity - 1) = {0}
    BY NodeNumbers DEF Nodes
  <2> QED
    BY <2>4, <2>6, <2>7, <2>8 DEF Listed
<1>5. 0 \in Nodes
  BY NodeNumbers
<1>6. /\ val_nodes \in ValNodes
      /\ \A v \in Nodes : /\ val_nodes[v].prev = NULL /\ val_nodes[v].next = NULL
                          /\ val_nodes[v].val = 0
      /\ val_nodes[0].first = 0
  BY <1>5 DEF Init, ValNodes, Pointers
<1>7. key_nodes \in KeyNodes
  <2>1. /\ key_nodes = [n \in Nodes |-> key_nodes[n]]
        /\ \A n \in Nodes : key_nodes[n] =
             [parent |-> key_nodes[n].parent, prev |-> key_nodes[n].prev,
              next |-> key_nodes[n].next, key |-> key_nodes[n].key]
    BY DEF Init
  <2>2. \A n \in Nodes : /\ key_nodes[n].parent \in Nodes /\ key_nodes[n].prev \in Nodes
                         /\ key_nodes[n].next \in Nodes /\ key_nodes[n].key \in Keys \cup {Zero}
    BY <1>1, <1>2, <1>5
  <2>3. \A n \in Nodes :
          key_nodes[n] \in [parent : Nodes, prev : Nodes, next : Nodes, key : Keys \cup {Zero}]
    <3>1. ASSUME NEW n \in Nodes, NEW r, r = key_nodes[n]
          PROVE  r \in [parent : Nodes, prev : Nodes, next : Nodes, key : Keys \cup {Zero}]
      BY <2>1, <2>2, <3>1
    <3> QED
      BY <3>1
  <2> QED
    BY <2>1, <2>3 DEF KeyNodes
<1>8. Linked(val_nodes, Listed, tail_node)
  <2>1. tail_node = 0
    BY DEF Init
  <2> QED
    BY <1>4, <1>5, <1>6, <2>1 DEF Linked, TwoWays, Ordered, EndsIn
<1>9. Parents(val_nodes, key_nodes, Listed)
  BY <1>1, <1>4, <1>5, <1>6 DEF Parents
<1>10. Lists
  BY <1>3, <1>4, <1>6, <1>7, <1>8, <1>9 DEF Lists, ListTypes
<1>11. \A n \in Nodes : ValueOf(n) = 0
  BY <1>1, <1>5, <1>6 DEF ValueOf
<1>12. Table
  BY <1>1, <1>11 DEF Table, Init
<1>13. AddsUp
  <2>1. packets \in [Keys -> Nat] /\ \A k \in Keys : packets[k] = 0
    BY DEF Init
  <2>2. SumFunctionOnSet(packets, Keys) = 0
    BY <2>1, NodeNumbers, SumZero
  <2>3. SumOfValues = 0
    <3>1. \A n \in Nodes : [m \in Nodes |-> ValueOf(m)][n] = 0
      BY <1>11
    <3> QED
      BY <3>1, NodeNumbers, SumZero DEF SumOfValues
  <2> QED
    BY <2>1, <2>2, <2>3 DEF AddsUp
<1> QED
  BY <1>10, <1>12, <1>13 DEF IInv

LEMMA ValuesNatural ==
  ASSUME Lists
  PROVE  \A n \in Nodes : ValueOf(n) \in Nat
<1>1. \A n \in Nodes : key_nodes[n].parent \in Nodes
  BY DEF Lists, Parents, Listed
<1> QED
  BY <1>1, Values DEF ValueOf, Lists, ListTypes

\* The new keys of a call of insert, before add_counter.
Insertion(k, nodes, my) ==
  /\ my \in Nodes /\ nodes \in KeyNodes /\ SamePointers(key_nodes, nodes)
  /\ Received(k) /\ AddCounter(nodes, my)

LEMMA InsertionKeeps ==
  ASSUME Lists, AddsUp, NEW k \in Keys, NEW nodes, NEW my, Insertion(k, nodes, my)
  PROVE  Lists' /\ AddsUp' /\ Raises(nodes, my)
<1>1. my \in Nodes /\ nodes \in KeyNodes /\ SamePointers(key_nodes, nodes)
  BY DEF Insertion
<1>2. Lists' /\ Raises(nodes, my)
  BY <1>1, AddCounterKeeps DEF Insertion
<1>3. packets' \in [Keys -> Nat] /\ packets \in [Keys -> Nat]
      /\ packets'[k] = packets[k] + 1
      /\ \A j \in Keys \ {k} : packets'[j] = packets[j]
  BY DEF Insertion, Received, AddsUp
<1>4. SumFunctionOnSet(packets', Keys) = SumFunctionOnSet(packets, Keys) + 1
      /\ SumFunctionOnSet(packets, Keys) \in Nat
  <2>1. \A j \in Keys : packets[j] \in Int /\ packets'[j] \in Int
    BY <1>3
  <2>2. SumFunctionOnSet(packets', Keys)
          = SumFunctionOnSet(packets, Keys) - packets[k] + packets'[k]
    BY <1>3, <2>1, NodeNumbers, SumChange
  <2>3. SumFunctionOnSet(packets, Keys) \in Nat
    BY <1>3, NodeNumbers, SumNat
  <2>4. packets[k] \in Int
    BY <2>1
  <2> QED
    BY <1>3, <2>2, <2>3, <2>4
<1>5. SumOfValues' = SumOfValues + 1 /\ SumOfValues \in Nat
  <2>1. PICK f : f = [n \in Nodes |-> ValueOf(n)]
    OBVIOUS
  <2>2. PICK g : g = [n \in Nodes |-> ValueOf(n)']
    OBVIOUS
  <2>3. SumOfValues = SumFunctionOnSet(f, Nodes) /\ SumOfValues' = SumFunctionOnSet(g, Nodes)
    BY <2>1, <2>2 DEF SumOfValues, Nodes
  <2>4. \A n \in Nodes : f[n] = ValueOf(n) /\ g[n] = ValueOf(n)' /\ f[n] \in Nat
    BY <2>1, <2>2, ValuesNatural
  <2>5. (\A n \in Nodes \ {my} : g[n] = f[n]) /\ g[my] = f[my] + 1
    BY <1>1, <1>2, <2>4 DEF Raises
  <2>6. \A n \in Nodes : f[n] \in Int /\ g[n] \in Int
    BY <2>4, <2>5
  <2>7. SumFunctionOnSet(g, Nodes) = SumFunctionOnSet(f, Nodes) - f[my] + g[my]
    <3>1. IsFiniteSet(Nodes) /\ my \in Nodes
      BY <1>1, NodeNumbers
    <3> QED
      BY <2>5, <2>6, <3>1, SumChange
  <2>8. SumFunctionOnSet(f, Nodes) \in Nat
    BY <2>4, NodeNumbers, SumNat
  <2>9. f[my] \in Int
    BY <1>1, <2>6
  <2> QED
    BY <2>3, <2>5, <2>7, <2>8, <2>9
<1>6. AddsUp'
  BY <1>3, <1>4, <1>5 DEF AddsUp
<1> QED
  BY <1>2, <1>6

\* What insert does for a flow in the table, and that it is an insertion.
LEMMA CountedInserts ==
  ASSUME IInv, NEW k \in Keys, Counted(k)
  PROVE  /\ k \in DOMAIN hash_table /\ hash_table' = hash_table
         /\ key_nodes[hash_table[k]].key = k
         /\ Insertion(k, key_nodes, hash_table[k])
<1>1. k \in DOMAIN hash_table /\ hash_table' = hash_table /\ Received(k)
      /\ AddCounter(key_nodes, hash_table[k])
  BY DEF Counted
<1>2. hash_table[k] \in Nodes /\ key_nodes[hash_table[k]].key = k
  BY <1>1 DEF IInv, Table
<1>3. key_nodes \in KeyNodes /\ SamePointers(key_nodes, key_nodes)
  BY DEF IInv, Lists, ListTypes, SamePointers
<1> QED
  BY <1>1, <1>2, <1>3 DEF Insertion

LEMMA CountedKeeps ==
  ASSUME IInv, NEW k \in Keys, Counted(k)
  PROVE  IInv'
<1>1. PICK my : my = hash_table[k]
  OBVIOUS
<1>2. /\ k \in DOMAIN hash_table /\ hash_table' = hash_table
      /\ key_nodes[my].key = k /\ my \in Nodes /\ Insertion(k, key_nodes, my)
  BY <1>1, CountedInserts DEF Insertion
<1>3. Lists' /\ AddsUp' /\ Raises(key_nodes, my)
  BY <1>2, InsertionKeeps DEF IInv
<1>4. \A n \in Nodes : key_nodes'[n].key = key_nodes[n].key
  BY <1>3 DEF Raises, SameKeys
<1>5. ASSUME NEW n \in Nodes PROVE key_nodes'[n].key = Zero <=> ValueOf(n)' = 0
  <2>1. key_nodes[n].key = Zero <=> ValueOf(n) = 0
    BY DEF IInv, Table
  <2>2. CASE n = my
    <3>1. ValueOf(my) \in Nat /\ ValueOf(my)' = ValueOf(my) + 1
      BY <1>2, <1>3, ValuesNatural DEF Raises, IInv
    <3>2. k # Zero
      BY NodeNumbers
    <3> QED
      BY <1>2, <1>4, <2>2, <3>1, <3>2
  <2>3. CASE n # my
    BY <1>3, <1>4, <2>1, <2>3 DEF Raises
  <2> QED
    BY <2>2, <2>3
<1>6. \A j \in DOMAIN hash_table :
        j \in Keys /\ hash_table[j] \in Nodes /\ key_nodes[hash_table[j]].key = j
  BY DEF IInv, Table
<1>7. \A n \in Nodes :
        key_nodes[n].key # Zero =>
          key_nodes[n].key \in DOMAIN hash_table /\ hash_table[key_nodes[n].key] = n
  BY DEF IInv, Table
<1>8. Table'
  BY <1>2, <1>4, <1>5, <1>6, <1>7 DEF Table, Nodes
<1> QED
  BY <1>3, <1>8 DEF IInv

\* What append_new_key does: it takes a counter of the least value.
LEMMA AppendedInserts ==
  ASSUME IInv, NEW k \in Keys, Appended(k), NEW victim, victim = val_nodes[tail_node].first
  PROVE  /\ victim \in Nodes /\ \A n \in Nodes : ValueOf(victim) <= ValueOf(n)
         /\ k \notin DOMAIN hash_table /\ hash_table' = KnownAfter(k, victim)
         /\ \E nodes : /\ Insertion(k, nodes, victim)
                       /\ nodes[victim].key = k
                       /\ \A n \in Nodes \ {victim} : nodes[n].key = key_nodes[n].key
<1>1. PICK nodes : nodes = [key_nodes EXCEPT ![victim].key = k]
  OBVIOUS
<1>2. /\ Received(k) /\ k \notin DOMAIN hash_table
      /\ hash_table' = KnownAfter(k, victim) /\ AddCounter(nodes, victim)
  BY <1>1 DEF Appended
<1>3. tail_node \in Listed /\ \A v \in Listed : val_nodes[tail_node].val <= val_nodes[v].val
  BY DEF IInv, Lists, Linked, EndsIn
<1>4. victim \in Nodes /\ key_nodes[victim].parent = tail_node
  BY <1>3 DEF IInv, Lists, Parents
<1>5. \A n \in Nodes : ValueOf(victim) <= ValueOf(n)
  BY <1>3, <1>4 DEF IInv, Lists, Parents, ValueOf
<1>6. /\ nodes \in KeyNodes /\ SamePointers(key_nodes, nodes) /\ nodes[victim].key = k
      /\ \A n \in Nodes \ {victim} : nodes[n].key = key_nodes[n].key
  BY <1>1, <1>4 DEF IInv, Lists, ListTypes, KeyNodes, SamePointers
<1> QED
  BY <1>2, <1>4, <1>5, <1>6 DEF Insertion

LEMMA AppendedKeeps ==
  ASSUME IInv, NEW k \in Keys, Appended(k)
  PROVE  IInv'
<1>1. PICK victim : victim = val_nodes[tail_node].first
  OBVIOUS
<1>2. victim \in Nodes /\ k \notin DOMAIN hash_table /\ hash_table' = KnownAfter(k, victim)
  BY <1>1, AppendedInserts
<1>3. PICK nodes : /\ Insertion(k, nodes, victim) /\ nodes[victim].key = k
                   /\ \A n \in Nodes \ {victim} : nodes[n].key = key_nodes[n].key
  BY <1>1, AppendedInserts
<1>4. Lists' /\ AddsUp' /\ Raises(nodes, victim)
  BY <1>3, InsertionKeeps DEF IInv
<1>5. /\ key_nodes'[victim].key = k
      /\ \A n \in Nodes \ {victim} : key_nodes'[n].key = key_nodes[n].key
  BY <1>2, <1>3, <1>4 DEF Raises, SameKeys
<1>6. PICK x : x = key_nodes[victim].key
  OBVIOUS
<1>7. /\ DOMAIN hash_table' = (DOMAIN hash_table \ {x}) \cup {k}
      /\ hash_table'[k] = victim
      /\ \A j \in DOMAIN hash_table \ {x} : hash_table'[j] = hash_table[j]
  <2>1. hash_table' = [j \in (DOMAIN hash_table \ {x}) \cup {k} |->
                         IF j = k THEN victim ELSE hash_table[j]]
    BY <1>2, <1>6 DEF KnownAfter
  <2> QED
    BY <1>2, <2>1
<1>8. \A j \in DOMAIN hash_table :
        j \in Keys /\ hash_table[j] \in Nodes /\ key_nodes[hash_table[j]].key = j
  BY DEF IInv, Table
<1>9. \A n \in Nodes :
        key_nodes[n].key # Zero =>
          key_nodes[n].key \in DOMAIN hash_table /\ hash_table[key_nodes[n].key] = n
  BY DEF IInv, Table
<1>10. ASSUME NEW j \in DOMAIN hash_table'
       PROVE  j \in Keys /\ hash_table'[j] \in Nodes /\ key_nodes'[hash_table'[j]].key = j
  <2>1. CASE j = k
    BY <1>2, <1>5, <1>7, <2>1
  <2>2. CASE j # k
    <3>1. j \in DOMAIN hash_table /\ j # x /\ hash_table'[j] = hash_table[j]
      BY <1>7, <1>10, <2>2
    <3>2. hash_table[j] # victim
      BY <1>6, <1>8, <3>1
    <3> QED
      BY <1>5, <1>8, <3>1, <3>2
  <2> QED
    BY <2>1, <2>2
<1>11. ASSUME NEW n \in Nodes, key_nodes'[n].key # Zero
       PROVE  key_nodes'[n].key \in DOMAIN hash_table' /\ hash_table'[key_nodes'[n].key] = n
  <2>1. CASE n = victim
    BY <1>5, <1>7, <2>1
  <2>2. CASE n # victim
    <3>1. PICK j : j = key_nodes[n].key
      OBVIOUS
    <3>2. key_nodes'[n].key = j
      BY <1>5, <2>2, <3>1
    <3>3. j \in DOMAIN hash_table /\ hash_table[j] = n
      BY <1>9, <1>11, <3>1, <3>2
    <3>4. j # x
      BY <1>2, <1>6, <1>9, <1>11, <2>2, <3>2, <3>3
    <3> QED
      BY <1>7, <3>2, <3>3, <3>4
  <2> QED
    BY <2>1, <2>2
<1>12. ASSUME NEW n \in Nodes PROVE key_nodes'[n].key = Zero <=> ValueOf(n)' = 0
  <2>1. key_nodes[n].key = Zero <=> ValueOf(n) = 0
    BY DEF IInv, Table
  <2>2. CASE n = victim
    <3>1. ValueOf(victim) \in Nat /\ ValueOf(victim)' = ValueOf(victim) + 1
      BY <1>2, <1>4, ValuesNatural DEF Raises, IInv
    <3>2. k # Zero
      BY NodeNumbers
    <3> QED
      BY <1>5, <2>2, <3>1, <3>2
  <2>3. CASE n # victim
    BY <1>4, <1>5, <2>1, <2>3 DEF Raises
  <2> QED
    BY <2>2, <2>3
<1>13. Table'
  BY <1>10, <1>11, <1>12 DEF Table, Nodes
<1> QED
  BY <1>4, <1>13 DEF IInv

LEMMA StepSound == IInv /\ [Next]_vars => IInv'
<1>1. ASSUME IInv, NEW k \in Keys, Counted(k) PROVE IInv'
  BY <1>1, CountedKeeps
<1>2. ASSUME IInv, NEW k \in Keys, Appended(k) PROVE IInv'
  BY <1>2, AppendedKeeps
<1>3. ASSUME IInv, UNCHANGED vars PROVE IInv'
  <2>1. /\ val_nodes' = val_nodes /\ key_nodes' = key_nodes /\ val_node_pool' = val_node_pool
        /\ tail_node' = tail_node /\ hash_table' = hash_table /\ packets' = packets
    BY <1>3 DEF vars
  <2>2. Listed' = Listed
    BY <2>1 DEF Listed, Nodes
  <2>3. Lists'
    BY <1>3, <2>1, <2>2 DEF IInv, Lists, ListTypes, ValNodes, KeyNodes, Pointers, Nodes
  <2>4. Table'
    BY <1>3, <2>1 DEF IInv, Table, ValueOf, Nodes
  <2>5. AddsUp'
    BY <1>3, <2>1 DEF IInv, AddsUp, SumOfValues, ValueOf, Nodes
  <2> QED
    BY <2>3, <2>4, <2>5 DEF IInv
<1> QED
  BY <1>1, <1>2, <1>3 DEF Next

LEMMA Invariance == Spec => []IInv
  BY InitSound, StepSound, PTL DEF Spec
-----------------------------------------------------------------------------
(***************************************************************************)
(* The structure                                                           *)
(***************************************************************************)

\* prev leads from the tail to every listed value node, and to no other: of
\* those that a closed set lacks, the one of the least value has a next node
\* in the set, and prev leads back from there.
LEMMA ListIsReached ==
  ASSUME Lists
  PROVE  InList = Listed
<1>1. tail_node \in Listed /\ Listed \in SUBSET Nodes
  BY DEF Lists, Linked, EndsIn, Listed
<1>2. \A u \in Listed : val_nodes[u].prev # NULL => val_nodes[u].prev \in Listed
  BY DEF Lists, Linked, TwoWays
<1>3. ASSUME NEW v \in InList PROVE v \in Listed
  BY <1>1, <1>2 DEF InList
<1>4. ASSUME NEW v \in Listed, NEW S \in SUBSET Nodes, tail_node \in S,
             \A u \in S : val_nodes[u].prev # NULL => val_nodes[u].prev \in S
      PROVE  v \in S
  <2>1. SUFFICES ASSUME v \notin S PROVE FALSE
    OBVIOUS
  <2>2. \A u \in Listed : val_nodes[u].val \in Nat
    BY <1>1, Values DEF Lists, ListTypes
  <2>3. PICK X : X = {x \in Nat : \E u \in Listed \ S : val_nodes[u].val = x}
    OBVIOUS
  <2>4. X \in SUBSET Nat /\ X # {}
    BY <2>1, <2>2, <2>3
  <2>5. PICK x \in X : \A y \in X : x <= y
    BY <2>4, LeastNatural
  <2>6. PICK u \in Listed \ S : val_nodes[u].val = x
    BY <2>3
  <2>7. u # tail_node
    BY <1>4, <2>6
  <2>8. PICK c : c = val_nodes[u].next
    OBVIOUS
  <2>9. c \in Listed /\ val_nodes[c].prev = u
    BY <2>6, <2>7, <2>8 DEF Lists, Linked, TwoWays, EndsIn
  <2>10. val_nodes[c].val < val_nodes[u].val
    <3>1. u # NULL
      BY <1>1, NodeNumbers
    <3> QED
      BY <2>9, <3>1 DEF Lists, Linked, Ordered
  <2>11. c \in S
    <3>1. SUFFICES ASSUME c \notin S PROVE FALSE
      OBVIOUS
    <3>2. val_nodes[c].val \in X
      BY <2>2, <2>3, <2>9, <3>1
    <3>3. x <= val_nodes[c].val /\ val_nodes[c].val \in Nat /\ x \in Nat
      BY <2>2, <2>4, <2>5, <2>9, <3>2
    <3> QED
      BY <2>6, <2>10, <3>3
  <2>12. u # NULL
    BY <1>1, NodeNumbers
  <2> QED
    BY <1>4, <2>6, <2>9, <2>11, <2>12
<1>5. ASSUME NEW v \in Listed PROVE v \in InList
  BY <1>1, <1>4, <1>5 DEF InList
<1> QED
  BY <1>3, <1>5

LEMMA RingIsReached ==
  ASSUME Lists, NEW v \in Listed
  PROVE  Ring(v) = {n \in Nodes : key_nodes[n].parent = v}
<1>1. val_nodes[v].first \in Nodes /\ key_nodes[val_nodes[v].first].parent = v
  BY DEF Lists, Parents
<1>2. ASSUME NEW n \in Ring(v) PROVE n \in Nodes /\ key_nodes[n].parent = v
  <2>1. PICK S : S = {m \in Nodes : key_nodes[m].parent = v}
    OBVIOUS
  <2>2. \A m \in S : key_nodes[m].next \in S
    BY <2>1 DEF Lists, Rings
  <2>3. S \in SUBSET Nodes /\ val_nodes[v].first \in S
    BY <1>1, <2>1
  <2>4. n \in S
    BY <2>2, <2>3 DEF Ring
  <2> QED
    BY <2>1, <2>4
<1>3. ASSUME NEW n \in Nodes, key_nodes[n].parent = v PROVE n \in Ring(v)
  <2>1. ASSUME NEW S \in SUBSET Nodes, val_nodes[v].first \in S,
               \A m \in S : key_nodes[m].next \in S
        PROVE  n \in S
    BY <1>1, <1>3, <2>1 DEF Lists, Rings, Whole
  <2> QED
    BY <2>1 DEF Ring
<1> QED
  BY <1>2, <1>3

LEMMA InvariantIsSound == IInv => StructureSound
<1> SUFFICES ASSUME IInv PROVE StructureSound
  OBVIOUS
<1>1. Lists /\ Table /\ AddsUp
  BY DEF IInv
<1>2. InList = Listed /\ Listed \in SUBSET Nodes
  BY <1>1, ListIsReached DEF Listed
<1>3. TypeOK
  <2>1. tail_node \in Nodes
    BY <1>1, <1>2 DEF Lists, Linked, EndsIn
  <2> QED
    BY <1>1, <2>1 DEF TypeOK, Lists, ListTypes, ValNodes, KeyNodes, Pointers, Table, AddsUp
<1>4. ListsWellFormed
  <2>1. val_nodes[tail_node].next = NULL
    BY <1>1 DEF Lists, Linked, EndsIn
  <2>2. ASSUME NEW v \in Listed \ {tail_node}
        PROVE  /\ val_nodes[v].next \in Listed
               /\ val_nodes[val_nodes[v].next].prev = v
               /\ val_nodes[v].val > val_nodes[val_nodes[v].next].val
    <3>1. PICK c : c = val_nodes[v].next
      OBVIOUS
    <3>2. c \in Listed /\ val_nodes[c].prev = v
      BY <1>1, <3>1 DEF Lists, Linked, TwoWays, EndsIn
    <3>3. v # NULL
      BY <1>2, NodeNumbers
    <3>4. val_nodes[c].val < val_nodes[v].val
      BY <1>1, <3>2, <3>3 DEF Lists, Linked, Ordered
    <3>5. val_nodes[c].val \in Nat /\ val_nodes[v].val \in Nat
      BY <1>1, <1>2, <3>2, Values DEF Lists, ListTypes
    <3> QED
      BY <3>1, <3>2, <3>4, <3>5
  <2>3. \A v \in Listed : Ring(v) = {n \in Nodes : key_nodes[n].parent = v}
    BY <1>1, RingIsReached
  <2>4. \A n \in Nodes : key_nodes[key_nodes[n].next].prev = n /\ key_nodes[n].parent \in Listed
    BY <1>1 DEF Lists, Rings, Parents
  <2> QED
    BY <1>2, <2>1, <2>2, <2>3, <2>4 DEF ListsWellFormed
<1>5. PoolConserved
  <2>1. ToSet(val_node_pool) \in SUBSET Nodes
    BY <1>1 DEF Lists, ListTypes, ToSet
  <2> QED
    BY <1>1, <1>2, <2>1 DEF PoolConserved, Lists, ListTypes, Listed
<1> QED
  BY <1>3, <1>4, <1>5 DEF StructureSound

\* Through every pointer move of add_counter the value nodes are one list of
\* falling values that links both ways and ends in tail_node, every key node
\* is in the one ring of its parent, and every value node is in the list or,
\* once, in the pool.
THEOREM StructureSoundHolds == Spec => []StructureSound
<1>1. IInv => StructureSound
  BY InvariantIsSound
<1> QED
  BY <1>1, Invariance, PTL
-----------------------------------------------------------------------------
(***************************************************************************)
(* The lists and the table implement the algorithm.                        *)
(***************************************************************************)

\* counter[n] of the algorithm
CounterOf(n) == [key |-> key_nodes[n].key, val |-> ValueOf(n)]

AllCounters == [n \in Nodes |-> CounterOf(n)]

\* An insertion into my, which then holds k, is a step of that counter.
LEMMA InsertionCounts ==
  ASSUME NEW my \in Nodes, NEW k, NEW nodes, Raises(nodes, my), nodes[my].key = k,
         \A n \in Nodes \ {my} : nodes[n].key = key_nodes[n].key
  PROVE  AllCounters' = [AllCounters EXCEPT ![my] = [key |-> k, val |-> ValueOf(my) + 1]]
<1>1. PICK c : c = AllCounters
  OBVIOUS
<1>2. PICK d : d = AllCounters'
  OBVIOUS
<1>3. PICK r : r = [key |-> k, val |-> ValueOf(my) + 1]
  OBVIOUS
<1>4. d = [n \in Nodes |-> CounterOf(n)']
  BY <1>2 DEF AllCounters, Nodes
<1>5. CounterOf(my)' = r
  BY <1>3 DEF CounterOf, Raises, SameKeys
<1>6. \A n \in Nodes \ {my} : CounterOf(n)' = CounterOf(n)
  BY DEF CounterOf, Raises, SameKeys
<1>7. c = [n \in Nodes |-> CounterOf(n)]
  BY <1>1 DEF AllCounters
<1>8. d = [c EXCEPT ![my] = r]
  BY <1>4, <1>5, <1>6, <1>7
<1> QED
  BY <1>1, <1>2, <1>3, <1>8

LEMMA CountedIsHit ==
  ASSUME IInv, NEW k \in Keys, Counted(k)
  PROVE  Algorithm!Hit(k)
<1>1. PICK my : my = hash_table[k]
  OBVIOUS
<1>2. key_nodes[my].key = k /\ my \in Nodes /\ Insertion(k, key_nodes, my)
  BY <1>1, CountedInserts DEF Insertion
<1>3. Raises(key_nodes, my)
  BY <1>2, InsertionKeeps DEF IInv
<1>4. AllCounters' = [AllCounters EXCEPT ![my] = [key |-> k, val |-> ValueOf(my) + 1]]
  BY <1>2, <1>3, InsertionCounts
<1>5. AllCounters[my] = [key |-> k, val |-> ValueOf(my)]
  BY <1>2 DEF AllCounters, CounterOf
<1>6. ValueOf(my) > 0
  <2>1. ValueOf(my) \in Nat
    BY <1>2, ValuesNatural DEF IInv
  <2>2. ValueOf(my) # 0
    BY <1>2, NodeNumbers DEF IInv, Table
  <2> QED
    BY <2>1, <2>2
<1>7. packets' = [packets EXCEPT ![k] = packets[k] + 1]
  BY <1>2 DEF Insertion, Received
<1> QED
  BY <1>2, <1>4, <1>5, <1>6, <1>7
     DEF Algorithm!Hit, Algorithm!Monitors, AllCounters, CounterOf, ValueOf

LEMMA AppendedIsTakeOver ==
  ASSUME IInv, NEW k \in Keys, Appended(k)
  PROVE  Algorithm!TakeOver(k)
<1>1. PICK my : my = val_nodes[tail_node].first
  OBVIOUS
<1>2. my \in Nodes /\ k \notin DOMAIN hash_table /\ \A n \in Nodes : ValueOf(my) <= ValueOf(n)
  BY <1>1, AppendedInserts
<1>3. PICK nodes : /\ Insertion(k, nodes, my) /\ nodes[my].key = k
                   /\ \A n \in Nodes \ {my} : nodes[n].key = key_nodes[n].key
  BY <1>1, AppendedInserts
<1>4. Raises(nodes, my)
  BY <1>3, InsertionKeeps DEF IInv
<1>5. AllCounters' = [AllCounters EXCEPT ![my] = [key |-> k, val |-> ValueOf(my) + 1]]
  BY <1>2, <1>3, <1>4, InsertionCounts
<1>6. packets' = [packets EXCEPT ![k] = packets[k] + 1]
  BY <1>3 DEF Insertion, Received
<1>7. \A n \in Nodes : /\ AllCounters[n].val = ValueOf(n)
                       /\ AllCounters[n].key = key_nodes[n].key
  BY DEF AllCounters, CounterOf
<1>8. ~Algorithm!Monitored(k)
  <2>1. ASSUME NEW n \in Nodes PROVE key_nodes[n].key # k
    BY <1>2, NodeNumbers DEF IInv, Table
  <2> QED
    BY <1>7, <2>1
       DEF Algorithm!Monitored, Algorithm!Monitors, AllCounters, CounterOf, ValueOf
<1>9. Algorithm!Least(my)
  BY <1>2, <1>7 DEF Algorithm!Least, AllCounters, CounterOf, ValueOf
<1> QED
  BY <1>2, <1>5, <1>6, <1>7, <1>8, <1>9
     DEF Algorithm!TakeOver, AllCounters, CounterOf, ValueOf

LEMMA InitIsInit == Init => Algorithm!Init
<1> SUFFICES ASSUME Init PROVE Algorithm!Init
  OBVIOUS
<1>1. \A n \in Nodes : ValueOf(n) = 0 /\ key_nodes[n].key = Zero
  <2>1. 0 \in Nodes
    BY NodeNumbers
  <2> QED
    BY <2>1 DEF Init, ValueOf
<1>2. AllCounters = [n \in Nodes |-> [key |-> Zero, val |-> 0]]
  BY <1>1 DEF AllCounters, CounterOf
<1>3. packets = [k \in Keys |-> 0]
  BY DEF Init
<1> QED
  BY <1>2, <1>3 DEF Algorithm!Init, AllCounters, CounterOf, ValueOf

LEMMA StepIsStep == IInv /\ [Next]_vars => [Algorithm!Next]_Algorithm!vars
<1>1. ASSUME IInv, NEW k \in Keys, Counted(k) PROVE Algorithm!Next
  BY <1>1, CountedIsHit DEF Algorithm!Next
<1>2. ASSUME IInv, NEW k \in Keys, Appended(k) PROVE Algorithm!Next
  BY <1>2, AppendedIsTakeOver DEF Algorithm!Next
<1>3. ASSUME UNCHANGED vars PROVE UNCHANGED Algorithm!vars
  BY <1>3 DEF vars, Algorithm!vars, Nodes
<1> QED
  BY <1>1, <1>2, <1>3 DEF Next

\* insert, with its linked lists and its hash table, does what the Space-Saving
\* algorithm does: a packet of a flow in the table counts on its counter, and
\* one of another flow takes over a counter of the least value of all.
THEOREM ImplementsAlgorithmHolds == Spec => ImplementsAlgorithm
<1>1. Init => Algorithm!Init
  BY InitIsInit
<1>2. IInv /\ [Next]_vars => [Algorithm!Next]_Algorithm!vars
  BY StepIsStep
<1> QED
  BY <1>1, <1>2, Invariance, PTL DEF Spec, ImplementsAlgorithm, Algorithm!Spec
-----------------------------------------------------------------------------
(***************************************************************************)
(* The guarantee of the algorithm, for counters c and packets p.  The      *)
(* invariant is its own: a counter covers its flow, a flow without a       *)
(* counter is covered by every counter, hence by the least, which is the   *)
(* one it takes over; that no flow has two counters keeps the second half  *)
(* true of the flow that loses its.                                        *)
(***************************************************************************)
Shows(c, n, k) == c[n].val > 0 /\ c[n].key = k

Shown(c, k) == \E n \in Nodes : Shows(c, n, k)

ShownOnce(c) == \A m, n \in Nodes : c[m].val > 0 /\ Shows(c, n, c[m].key) => m = n

Covered(c, p) ==
  /\ \A n \in Nodes, k \in Keys : Shows(c, n, k) => p[k] <= c[n].val
  /\ \A k \in Keys, n \in Nodes : ~Shown(c, k) => p[k] <= c[n].val

Covering(c, p) ==
  /\ c \in [Nodes -> [key : Keys \cup {Zero}, val : Nat]] /\ p \in [Keys -> Nat]
  /\ ShownOnce(c) /\ Covered(c, p)

\* A packet of k has been counted on n: d and q are the counters and packets.
CountsOn(c, p, d, q, n, k) ==
  /\ d = [c EXCEPT ![n] = [key |-> k, val |-> c[n].val + 1]]
  /\ q = [p EXCEPT ![k] = p[k] + 1]

\* What the counters and the packets are after such a step.
OneMore(c, p, d, q, n, k) ==
  /\ d \in [Nodes -> [key : Keys \cup {Zero}, val : Nat]] /\ q \in [Keys -> Nat]
  /\ c[n].val \in Nat /\ d[n].key = k /\ d[n].val = c[n].val + 1
  /\ \A m \in Nodes \ {n} : d[m].key = c[m].key /\ d[m].val = c[m].val
  /\ \A m \in Nodes : c[m].val \in Nat /\ c[m].val <= d[m].val
  /\ \A j \in Keys : p[j] \in Nat /\ q[j] = IF j = k THEN p[j] + 1 ELSE p[j]

LEMMA CountedOn ==
  ASSUME NEW c, NEW p, NEW d, NEW q, NEW n \in Nodes, NEW k \in Keys,
         Covering(c, p), CountsOn(c, p, d, q, n, k)
  PROVE  OneMore(c, p, d, q, n, k)
<1>1. c \in [Nodes -> [key : Keys \cup {Zero}, val : Nat]] /\ p \in [Keys -> Nat]
  BY DEF Covering
<1>2. PICK r : r = [key |-> k, val |-> c[n].val + 1]
  OBVIOUS
<1>3. c[n].val \in Nat /\ r \in [key : Keys \cup {Zero}, val : Nat]
  BY <1>1, <1>2
<1>4. d = [c EXCEPT ![n] = r] /\ q = [p EXCEPT ![k] = p[k] + 1]
  BY <1>2 DEF CountsOn
<1>5. /\ d \in [Nodes -> [key : Keys \cup {Zero}, val : Nat]]
      /\ d[n] = r /\ \A m \in Nodes \ {n} : d[m] = c[m]
  BY <1>1, <1>3, <1>4
<1>6. /\ q \in [Keys -> Nat]
      /\ \A j \in Keys : p[j] \in Nat /\ q[j] = IF j = k THEN p[j] + 1 ELSE p[j]
  BY <1>1, <1>4
<1>7. d[n].key = k /\ d[n].val = c[n].val + 1
  BY <1>2, <1>5
<1>8. \A m \in Nodes : c[m].val \in Nat /\ c[m].val <= d[m].val
  <2>1. ASSUME NEW m \in Nodes PROVE c[m].val \in Nat /\ c[m].val <= d[m].val
    <3>1. c[m].val \in Nat
      BY <1>1
    <3>2. CASE m = n
      BY <1>7, <3>1, <3>2
    <3>3. CASE m # n
      BY <1>5, <3>1, <3>3
    <3> QED
      BY <3>1, <3>2, <3>3
  <2> QED
    BY <2>1
<1> QED
  BY <1>3, <1>5, <1>6, <1>7, <1>8 DEF OneMore

\* A packet of a monitored flow raises its counter with it.
LEMMA HitCovers ==
  ASSUME NEW c, NEW p, NEW d, NEW q, NEW n \in Nodes, NEW k \in Keys,
         Covering(c, p), CountsOn(c, p, d, q, n, k), Shows(c, n, k)
  PROVE  Covering(d, q)
<1> OneMore(c, p, d, q, n, k)
  BY CountedOn
<1>1. /\ d \in [Nodes -> [key : Keys \cup {Zero}, val : Nat]] /\ q \in [Keys -> Nat]
      /\ c[n].val \in Nat /\ d[n].key = k /\ d[n].val = c[n].val + 1
      /\ \A m \in Nodes \ {n} : d[m].key = c[m].key /\ d[m].val = c[m].val
      /\ \A m \in Nodes : c[m].val \in Nat /\ c[m].val <= d[m].val
      /\ \A j \in Keys : p[j] \in Nat /\ q[j] = IF j = k THEN p[j] + 1 ELSE p[j]
  BY DEF OneMore
<1>2. \A m \in Nodes : d[m].key = c[m].key /\ (d[m].val > 0 <=> c[m].val > 0)
  BY <1>1 DEF Shows
<1>3. \A m \in Nodes : \A j : Shows(d, m, j) <=> Shows(c, m, j)
  BY <1>2 DEF Shows
<1>4. ShownOnce(d)
  BY <1>2, <1>3 DEF ShownOnce, Covering
<1>5. ASSUME NEW m \in Nodes, NEW j \in Keys, Shows(d, m, j) PROVE q[j] <= d[m].val
  <2>1. Shows(c, m, j) /\ p[j] <= c[m].val
    BY <1>3, <1>5 DEF Covering, Covered
  <2>2. CASE m = n
    <3>1. j = k
      BY <2>1, <2>2 DEF Shows
    <3> QED
      BY <1>1, <2>1, <2>2, <3>1
  <2>3. CASE m # n
    <3>1. j # k
      BY <2>1, <2>3 DEF Shows, Covering, ShownOnce
    <3> QED
      BY <1>1, <2>1, <2>3, <3>1
  <2> QED
    BY <2>2, <2>3
<1>6. ASSUME NEW j \in Keys, NEW m \in Nodes, ~Shown(d, j) PROVE q[j] <= d[m].val
  <2>1. ~Shown(c, j)
    BY <1>3, <1>6 DEF Shown
  <2>2. j # k
    BY <2>1 DEF Shown
  <2>3. p[j] <= c[m].val
    BY <2>1 DEF Covering, Covered
  <2>4. q[j] = p[j] /\ p[j] \in Nat /\ c[m].val \in Nat /\ c[m].val <= d[m].val
    BY <1>1, <2>2
  <2>5. d[m].val \in Nat
    BY <1>1
  <2> QED
    BY <2>3, <2>4, <2>5
<1>7. Covered(d, q)
  BY <1>5, <1>6 DEF Covered
<1> QED
  BY <1>1, <1>4, <1>7 DEF Covering

\* A counter that is taken over covers its new flow, because it was the least,
\* and so does every counter for the flow that lost it.
LEMMA TakeOverCovers ==
  ASSUME NEW c, NEW p, NEW d, NEW q, NEW n \in Nodes, NEW k \in Keys,
         Covering(c, p), CountsOn(c, p, d, q, n, k), ~Shown(c, k),
         \A m \in Nodes : c[n].val <= c[m].val
  PROVE  Covering(d, q)
<1> OneMore(c, p, d, q, n, k)
  BY CountedOn
<1>1. /\ d \in [Nodes -> [key : Keys \cup {Zero}, val : Nat]] /\ q \in [Keys -> Nat]
      /\ c[n].val \in Nat /\ d[n].key = k /\ d[n].val = c[n].val + 1
      /\ \A m \in Nodes \ {n} : d[m].key = c[m].key /\ d[m].val = c[m].val
      /\ \A m \in Nodes : c[m].val \in Nat /\ c[m].val <= d[m].val
      /\ \A j \in Keys : p[j] \in Nat /\ q[j] = IF j = k THEN p[j] + 1 ELSE p[j]
  BY DEF OneMore
<1>2. \A m \in Nodes : ~Shows(c, m, k)
  BY DEF Shown
<1>3. \A m \in Nodes \ {n} : \A j : Shows(d, m, j) <=> Shows(c, m, j)
  BY <1>1 DEF Shows
<1>4. \A j : Shows(d, n, j) <=> j = k
  BY <1>1 DEF Shows
<1>5. ShownOnce(d)
  <2>1. ASSUME NEW l \in Nodes, NEW m \in Nodes, d[l].val > 0, Shows(d, m, d[l].key)
        PROVE  l = m
    <3>1. CASE l = n /\ m # n
      BY <1>1, <1>2, <1>3, <2>1, <3>1
    <3>2. CASE l # n /\ m = n
      <4>1. d[l].key = k
        BY <1>4, <2>1, <3>2
      <4>2. Shows(c, l, k)
        BY <1>1, <2>1, <3>2, <4>1 DEF Shows
      <4> QED
        BY <1>2, <4>2
    <3>3. CASE l # n /\ m # n
      <4>1. c[l].val > 0 /\ Shows(c, m, c[l].key)
        BY <1>1, <1>3, <2>1, <3>3
      <4> QED
        BY <4>1 DEF Covering, ShownOnce
    <3> QED
      BY <3>1, <3>2, <3>3
  <2> QED
    BY <2>1 DEF ShownOnce
<1>6. ASSUME NEW m \in Nodes, NEW j \in Keys, Shows(d, m, j) PROVE q[j] <= d[m].val
  <2>1. CASE m = n
    <3>1. j = k
      BY <1>4, <1>6, <2>1
    <3>2. p[k] <= c[n].val
      BY DEF Covering, Covered
    <3> QED
      BY <1>1, <2>1, <3>1, <3>2
  <2>2. CASE m # n
    <3>1. Shows(c, m, j) /\ j # k
      BY <1>2, <1>3, <1>6, <2>2
    <3>2. p[j] <= c[m].val
      BY <3>1 DEF Covering, Covered
    <3> QED
      BY <1>1, <2>2, <3>1, <3>2
  <2> QED
    BY <2>1, <2>2
<1>7. ASSUME NEW j \in Keys, NEW m \in Nodes, ~Shown(d, j) PROVE q[j] <= d[m].val
  <2>1. j # k
    BY <1>4, <1>7 DEF Shown
  <2>2. p[j] <= c[n].val
    <3>1. CASE Shows(c, n, j)
      BY <3>1 DEF Covering, Covered
    <3>2. CASE ~Shows(c, n, j)
      <4>1. ~Shown(c, j)
        BY <1>3, <1>7, <3>2 DEF Shown
      <4> QED
        BY <4>1 DEF Covering, Covered
    <3> QED
      BY <3>1, <3>2
  <2>3. q[j] = p[j] /\ p[j] \in Nat
    BY <1>1, <2>1
  <2>4. c[n].val <= c[m].val /\ c[m].val <= d[m].val
        /\ c[n].val \in Nat /\ c[m].val \in Nat /\ d[m].val \in Nat
    BY <1>1
  <2> QED
    BY <2>2, <2>3, <2>4
<1>8. Covered(d, q)
  BY <1>6, <1>7 DEF Covered
<1> QED
  BY <1>1, <1>5, <1>8 DEF Covering

LEMMA AlgorithmStarts == Algorithm!Init => Covering(AllCounters, packets)
<1> SUFFICES ASSUME Algorithm!Init PROVE Covering(AllCounters, packets)
  OBVIOUS
<1>1. PICK c : c = AllCounters
  OBVIOUS
<1>2. c = [n \in Nodes |-> [key |-> Zero, val |-> 0]] /\ packets = [k \in Keys |-> 0]
  BY <1>1 DEF Algorithm!Init, AllCounters, CounterOf, ValueOf
<1>3. /\ c \in [Nodes -> [key : Keys \cup {Zero}, val : Nat]] /\ packets \in [Keys -> Nat]
      /\ (\A n \in Nodes : c[n].val = 0) /\ \A k \in Keys : packets[k] = 0
  BY <1>2
<1>4. Covering(c, packets)
  BY <1>3 DEF Covering, ShownOnce, Covered, Shown, Shows
<1> QED
  BY <1>1, <1>4

LEMMA AlgorithmKeeps ==
  Covering(AllCounters, packets) /\ [Algorithm!Next]_Algorithm!vars
    => Covering(AllCounters, packets)'
<1> SUFFICES ASSUME Covering(AllCounters, packets), [Algorithm!Next]_Algorithm!vars
             PROVE  Covering(AllCounters, packets)'
  OBVIOUS
<1>1. PICK c : c = AllCounters
  OBVIOUS
<1>2. PICK d : d = AllCounters'
  OBVIOUS
<1>3. Covering(c, packets)
  BY <1>1
<1>4. ASSUME NEW k \in Keys, Algorithm!Hit(k) PROVE Covering(d, packets')
  <2>1. PICK n \in Nodes : Shows(c, n, k) /\ CountsOn(c, packets, d, packets', n, k)
    BY <1>1, <1>2, <1>4
       DEF Algorithm!Hit, Algorithm!Monitors, Shows, CountsOn, AllCounters, CounterOf, ValueOf
  <2> QED
    BY <1>3, <2>1, HitCovers
<1>5. ASSUME NEW k \in Keys, Algorithm!TakeOver(k) PROVE Covering(d, packets')
  <2>1. ~Shown(c, k)
    BY <1>1, <1>5 DEF Algorithm!TakeOver, Algorithm!Monitored, Algorithm!Monitors, Shown, Shows,
                      AllCounters, CounterOf, ValueOf
  <2>2. PICK n \in Nodes : /\ CountsOn(c, packets, d, packets', n, k)
                           /\ \A m \in Nodes : c[n].val <= c[m].val
    BY <1>1, <1>2, <1>5
       DEF Algorithm!TakeOver, Algorithm!Least, CountsOn, AllCounters, CounterOf, ValueOf
  <2> QED
    BY <1>3, <2>1, <2>2, TakeOverCovers
<1>6. ASSUME UNCHANGED Algorithm!vars PROVE Covering(d, packets')
  <2>1. d = c /\ packets' = packets
    BY <1>1, <1>2, <1>6 DEF Algorithm!vars, AllCounters, CounterOf, ValueOf
  <2> QED
    BY <1>3, <2>1
<1>7. Covering(d, packets')
  BY <1>4, <1>5, <1>6 DEF Algorithm!Next
<1> QED
  BY <1>2, <1>7 DEF Covering, ShownOnce, Covered, Shown, Shows, Nodes

LEMMA AlgorithmCovers == Algorithm!Spec => []Covering(AllCounters, packets)
  BY AlgorithmStarts, AlgorithmKeeps, PTL DEF Algorithm!Spec

LEMMA CoveringIsCover ==
  Covering(AllCounters, packets) => Algorithm!CountsCover /\ Algorithm!MonitoredOnce
<1> SUFFICES ASSUME Covering(AllCounters, packets)
             PROVE  Algorithm!CountsCover /\ Algorithm!MonitoredOnce
  OBVIOUS
<1>1. Covered(AllCounters, packets) /\ ShownOnce(AllCounters)
  BY DEF Covering
<1>2. Algorithm!CountsCover
  BY <1>1 DEF Covered, Shown, Shows, Algorithm!CountsCover, Algorithm!Monitored,
              Algorithm!Monitors, AllCounters, CounterOf, ValueOf
<1>3. Algorithm!MonitoredOnce
  BY <1>1 DEF ShownOnce, Shows, Algorithm!MonitoredOnce, Algorithm!Monitors,
              AllCounters, CounterOf, ValueOf
<1> QED
  BY <1>2, <1>3

\* In every behaviour of the algorithm the counters cover the flows: the value
\* that SpaceSaving::get_heavy_hitters compares with its threshold is never
\* below the packets of the flow, and a flow it cannot report has no more
\* packets than the least counter.
THEOREM CountsCoverHolds == Algorithm!Spec => []Algorithm!CountsCover
<1>1. Covering(AllCounters, packets) => Algorithm!CountsCover
  BY CoveringIsCover
<1> QED
  BY <1>1, AlgorithmCovers, PTL

\* No flow is counted twice.
THEOREM MonitoredOnceHolds == Algorithm!Spec => []Algorithm!MonitoredOnce
<1>1. Covering(AllCounters, packets) => Algorithm!MonitoredOnce
  BY CoveringIsCover
<1> QED
  BY <1>1, AlgorithmCovers, PTL

\* What the lists and the table inherit from the algorithm they implement.
LEMMA CodeCovers == Spec => []Covering(AllCounters, packets)
<1>1. Spec => Algorithm!Spec
  BY ImplementsAlgorithmHolds DEF ImplementsAlgorithm
<1> QED
  BY <1>1, AlgorithmCovers, PTL
-----------------------------------------------------------------------------
(***************************************************************************)
(* The loop of get_top_k that looks for the head of the list               *)
(***************************************************************************)

\* s starts with base, and F leads from each of its values to the next.
Iterated(s, lo, hi, base, F) ==
  s = [n \in lo .. hi |-> IF n = lo THEN base ELSE F[s[n - 1]]]

LEMMA Iterates ==
  ASSUME NEW lo \in Nat, NEW m \in Nat, NEW base, NEW F
  PROVE  \E s : Iterated(s, lo, lo + m, base, F)
<1> DEFINE Good == {i \in Nat : \E s : Iterated(s, lo, lo + i, base, F)}
<1>1. 0 \in Good
  <2>1. PICK s : s = [n \in lo .. lo + 0 |-> base]
    OBVIOUS
  <2>2. \A n \in lo .. lo + 0 : n = lo
    OBVIOUS
  <2>3. Iterated(s, lo, lo + 0, base, F)
    BY <2>1, <2>2 DEF Iterated
  <2> QED
    BY <2>3
<1>2. ASSUME NEW i \in Nat, i \in Good PROVE i + 1 \in Good
  <2>1. PICK s : Iterated(s, lo, lo + i, base, F)
    BY <1>2
  <2>2. PICK t : t = [n \in lo .. lo + (i + 1) |->
                        IF n = lo + (i + 1) THEN F[s[lo + i]] ELSE s[n]]
    OBVIOUS
  <2>3. \A n \in lo .. lo + i : n \in lo .. lo + (i + 1) /\ t[n] = s[n]
    BY <2>2
  <2>4. \A n \in lo .. lo + i : n # lo => n - 1 \in lo .. lo + i
    OBVIOUS
  <2>5. \A n \in lo .. lo + i : s[n] = IF n = lo THEN base ELSE F[s[n - 1]]
    BY <2>1 DEF Iterated
  <2>6. \A n \in lo .. lo + i : t[n] = IF n = lo THEN base ELSE F[t[n - 1]]
    BY <2>3, <2>4, <2>5
  <2>7. /\ t[lo + (i + 1)] = F[t[lo + i]] /\ lo + (i + 1) # lo
        /\ (lo + (i + 1)) - 1 = lo + i
    BY <2>2, <2>3
  <2>8. \A n \in lo .. lo + (i + 1) : n \in lo .. lo + i \/ n = lo + (i + 1)
    OBVIOUS
  <2>9. \A n \in lo .. lo + (i + 1) : t[n] = IF n = lo THEN base ELSE F[t[n - 1]]
    BY <2>6, <2>7, <2>8
  <2>10. Iterated(t, lo, lo + (i + 1), base, F)
    BY <2>2, <2>9 DEF Iterated
  <2> QED
    BY <2>10
<1>3. Nat \subseteq Good
  <2> HIDE DEF Good
  <2> QED
    BY <1>1, <1>2, NumberInduction
<1> QED
  BY <1>3

\* s climbs the list from its tail.
Climbs(s) ==
  /\ s[0] = tail_node
  /\ \A i \in 1 .. Capacity : s[i - 1] \in Nodes => s[i] = Above(s[i - 1])

LEMMA ClimbsListed ==
  ASSUME Lists, NEW s, Climbs(s)
  PROVE  \A i \in 0 .. Capacity : s[i] \in Listed
<1> DEFINE Good == {i \in Nat : i <= Capacity => s[i] \in Listed}
<1>1. \A v \in Listed : v \in Nodes /\ Above(v) \in Listed
  BY DEF Lists, Linked, TwoWays, Above, Listed
<1>2. 0 \in Good
  BY DEF Climbs, Lists, Linked, EndsIn
<1>3. ASSUME NEW i \in Nat, i \in Good PROVE i + 1 \in Good
  <2>1. SUFFICES ASSUME i + 1 <= Capacity PROVE s[i + 1] \in Listed
    OBVIOUS
  <2>2. s[i] \in Listed /\ i + 1 \in 1 .. Capacity /\ (i + 1) - 1 = i
    BY <1>3, <2>1, NodeNumbers
  <2>3. s[i + 1] = Above(s[i])
    BY <1>1, <2>2 DEF Climbs
  <2> QED
    BY <1>1, <2>2, <2>3
<1>4. Nat \subseteq Good
  <2> HIDE DEF Good
  <2> QED
    BY <1>2, <1>3, NumberInduction
<1> QED
  BY <1>4, NodeNumbers

LEMMA ClimbRuns ==
  ASSUME Lists
  PROVE  Climbs(Climb)
<1> DEFINE Is(s) == s = [i \in 0 .. Capacity |-> IF i = 0 THEN tail_node ELSE Above(s[i - 1])]
<1>1. PICK F : F = [v \in Nodes |-> Above(v)]
  OBVIOUS
<1>2. PICK s : Iterated(s, 0, Capacity, tail_node, F)
  <2>1. \E s : Iterated(s, 0, 0 + Capacity, tail_node, F)
    BY NodeNumbers, Iterates
  <2> QED
    BY <2>1, NodeNumbers
<1>3. \A i \in 0 .. Capacity : s[i] = IF i = 0 THEN tail_node ELSE F[s[i - 1]]
  BY <1>2 DEF Iterated
<1>4. \A i \in 1 .. Capacity : i \in 0 .. Capacity /\ i # 0 /\ i - 1 \in 0 .. Capacity
  BY NodeNumbers
<1>5. Climbs(s)
  <2>1. 0 \in 0 .. Capacity
    BY NodeNumbers
  <2> QED
    BY <1>1, <1>3, <1>4, <2>1 DEF Climbs
<1>6. \A i \in 0 .. Capacity : s[i] \in Nodes
  BY <1>5, ClimbsListed DEF Listed
<1>7. \A i \in 0 .. Capacity : i = 0 \/ i \in 1 .. Capacity
  BY NodeNumbers
<1>8. \A i \in 0 .. Capacity : s[i] = IF i = 0 THEN tail_node ELSE Above(s[i - 1])
  BY <1>1, <1>3, <1>4, <1>6, <1>7
<1>9. Is(s)
  BY <1>2, <1>8 DEF Iterated
<1>10. Climb = CHOOSE r : Is(r)
  BY DEF Climb
<1>11. Is(Climb)
  <2> HIDE DEF Is
  <2> QED
    BY <1>9, <1>10
<1>12. \A i \in 0 .. Capacity : Climb[i] = IF i = 0 THEN tail_node ELSE Above(Climb[i - 1])
  BY <1>11
<1>13. 0 \in 0 .. Capacity
  BY NodeNumbers
<1> QED
  BY <1>4, <1>12, <1>13 DEF Climbs

\* The listed value nodes above v.
Higher(v) == {u \in Listed : val_nodes[v].val < val_nodes[u].val}

\* Each step of the climb leaves one node less above, so that Capacity steps
\* lead to the head.
LEMMA HeadIsGreatest ==
  ASSUME Lists
  PROVE  HeadNode \in Listed /\ \A w \in Listed : val_nodes[w].val <= val_nodes[HeadNode].val
<1>1. PICK s : s = Climb
  OBVIOUS
<1>2. Climbs(s) /\ \A i \in 0 .. Capacity : s[i] \in Listed
  BY <1>1, ClimbRuns, ClimbsListed
<1>3. \A v \in Listed : val_nodes[v].val \in Nat /\ v \in Nodes
  BY Values DEF Lists, ListTypes, Listed
<1>4. Capacity \in Nat /\ IsFiniteSet(Listed) /\ Cardinality(Listed) <= Capacity
  <2>1. Listed \in SUBSET Nodes
    BY DEF Listed
  <2> QED
    BY <2>1, NodeNumbers, FS_Subset
<1>5. ASSUME NEW v \in Listed
      PROVE  IsFiniteSet(Higher(v)) /\ Cardinality(Higher(v)) \in Nat
             /\ Cardinality(Higher(v)) < Capacity
  <2>1. Higher(v) \in SUBSET Listed /\ v \notin Higher(v)
    BY <1>3 DEF Higher
  <2>2. /\ IsFiniteSet(Higher(v)) /\ Cardinality(Higher(v)) <= Cardinality(Listed)
        /\ Cardinality(Listed) = Cardinality(Higher(v)) => Listed = Higher(v)
    BY <1>4, <2>1, FS_Subset
  <2>3. Cardinality(Higher(v)) \in Nat /\ Cardinality(Listed) \in Nat
    BY <1>4, <2>2, FS_CardinalityType
  <2>4. Cardinality(Listed) # Cardinality(Higher(v))
    BY <2>1, <2>2
  <2> QED
    BY <1>4, <2>2, <2>3, <2>4
<1>6. ASSUME NEW v \in Listed, val_nodes[v].prev # NULL
      PROVE  Cardinality(Higher(val_nodes[v].prev)) < Cardinality(Higher(v))
  <2>1. PICK b : b = val_nodes[v].prev
    OBVIOUS
  <2>2. b \in Listed /\ val_nodes[v].val < val_nodes[b].val
    BY <1>6, <2>1 DEF Lists, Linked, TwoWays, Ordered
  <2>3. Higher(b) \in SUBSET Higher(v) /\ b \in Higher(v) /\ b \notin Higher(b)
    BY <1>3, <2>2 DEF Higher
  <2>4. /\ Cardinality(Higher(b)) <= Cardinality(Higher(v))
        /\ Cardinality(Higher(v)) = Cardinality(Higher(b)) => Higher(v) = Higher(b)
    BY <1>5, <2>3, FS_Subset
  <2>5. Cardinality(Higher(b)) \in Nat /\ Cardinality(Higher(v)) \in Nat
    BY <1>5, <2>2
  <2>6. Cardinality(Higher(v)) # Cardinality(Higher(b))
    BY <2>3, <2>4
  <2> QED
    BY <2>1, <2>4, <2>5, <2>6
<1>7. \A i \in Nat : i <= Capacity =>
        val_nodes[s[i]].prev = NULL \/ Cardinality(Higher(s[i])) < Capacity - i
  <2> DEFINE Good == {i \in Nat : i <= Capacity =>
        val_nodes[s[i]].prev = NULL \/ Cardinality(Higher(s[i])) < Capacity - i}
  <2>1. 0 \in Good
    <3>1. s[0] \in Listed
      BY <1>2, <1>4
    <3>2. Cardinality(Higher(s[0])) < Capacity
      BY <1>5, <3>1
    <3> QED
      BY <1>4, <3>2
  <2>2. ASSUME NEW i \in Nat, i \in Good PROVE i + 1 \in Good
    <3>1. SUFFICES ASSUME i + 1 <= Capacity
                   PROVE  \/ val_nodes[s[i + 1]].prev = NULL
                          \/ Cardinality(Higher(s[i + 1])) < Capacity - (i + 1)
      OBVIOUS
    <3>2. i \in 0 .. Capacity /\ i + 1 \in 1 .. Capacity /\ (i + 1) - 1 = i
      BY <1>4, <3>1
    <3>3. PICK v \in Listed : v = s[i]
      BY <1>2, <3>2
    <3>4. s[i + 1] = Above(v)
      BY <1>2, <1>3, <3>2, <3>3 DEF Climbs
    <3>5. CASE val_nodes[v].prev = NULL
      BY <3>4, <3>5 DEF Above
    <3>6. CASE val_nodes[v].prev # NULL
      <4>1. PICK b : b = val_nodes[v].prev
        OBVIOUS
      <4>2. s[i + 1] = b /\ b \in Listed
        BY <3>4, <3>6, <4>1 DEF Above, Lists, Linked, TwoWays
      <4>3. Cardinality(Higher(b)) < Cardinality(Higher(v))
        BY <1>6, <3>6, <4>1
      <4>4. Cardinality(Higher(v)) < Capacity - i
        BY <2>2, <3>2, <3>3, <3>6
      <4>5. Cardinality(Higher(b)) \in Nat /\ Cardinality(Higher(v)) \in Nat
        BY <1>5, <4>2
      <4>6. Cardinality(Higher(b)) < Capacity - (i + 1)
        BY <1>4, <4>3, <4>4, <4>5
      <4> QED
        BY <4>2, <4>6
    <3> QED
      BY <3>5, <3>6
  <2>3. Nat \subseteq Good
    <3> HIDE DEF Good
    <3> QED
      BY <2>1, <2>2, NumberInduction
  <2> QED
    BY <2>3
<1>8. HeadNode = s[Capacity] /\ HeadNode \in Listed
  BY <1>1, <1>2, <1>4 DEF HeadNode
<1>9. val_nodes[HeadNode].prev = NULL
  <2>1. val_nodes[HeadNode].prev = NULL \/ Cardinality(Higher(HeadNode)) < Capacity - Capacity
    BY <1>4, <1>7, <1>8
  <2>2. Cardinality(Higher(HeadNode)) \in Nat
    BY <1>5, <1>8
  <2> QED
    BY <1>4, <2>1, <2>2
<1>10. ASSUME NEW w \in Listed PROVE val_nodes[w].val <= val_nodes[HeadNode].val
  <2>1. ~(val_nodes[HeadNode].val < val_nodes[w].val)
    BY <1>8, <1>9 DEF Lists, Linked, Ordered
  <2> QED
    BY <1>3, <1>8, <2>1
<1> QED
  BY <1>8, <1>10
-----------------------------------------------------------------------------
(***************************************************************************)
(* The loop of get_top_k through the rings                                 *)
(***************************************************************************)

\* The loop is at t and has seen the key nodes S: all of a greater value, none
\* of a smaller one, and of the ring it is in those from the first to t.
SeenAt(S, t) ==
  /\ S \in SUBSET Nodes /\ t.v \in S /\ t.p = key_nodes[t.v].parent
  /\ \A n \in Nodes : ValueOf(t.v) < ValueOf(n) => n \in S
  /\ \A n \in S : ValueOf(t.v) <= ValueOf(n)
  /\ val_nodes[t.p].first \in S
  /\ \A n \in S :
       key_nodes[n].parent = t.p =>
         /\ n # t.v => key_nodes[n].next \in S
         /\ n # val_nodes[t.p].first => key_nodes[n].prev \in S \ {t.v}

LEMMA WalkStarts ==
  ASSUME Lists, NEW t, t = Enter(HeadNode)
  PROVE  SeenAt({t.v}, t) /\ t # Done
<1>1. PICK h : h = HeadNode
  OBVIOUS
<1>2. h \in Listed /\ h \in Nodes /\ \A w \in Listed : val_nodes[w].val <= val_nodes[h].val
  BY <1>1, HeadIsGreatest DEF Listed
<1>3. t.p = h /\ t.v = val_nodes[h].first
  BY <1>1 DEF Enter
<1>4. t.v \in Nodes /\ key_nodes[t.v].parent = h
  BY <1>2, <1>3 DEF Lists, Parents
<1>5. \A n \in Nodes : ValueOf(n) \in Nat /\ ValueOf(n) <= ValueOf(t.v)
  BY <1>2, <1>4, ValuesNatural DEF Lists, Parents, ValueOf
<1>6. \A n \in Nodes : ~(ValueOf(t.v) < ValueOf(n))
  BY <1>4, <1>5
<1>7. \A n \in {t.v} : ValueOf(t.v) <= ValueOf(n)
  BY <1>4, <1>5
<1>8. t # Done
  BY <1>4, NodeNumbers DEF Done
<1> QED
  BY <1>3, <1>4, <1>6, <1>7, <1>8 DEF SeenAt

\* Within a ring the next key node is a new one.
LEMMA WalkInRing ==
  ASSUME Lists, NEW S, NEW t, SeenAt(S, t), NEW u, u = After(t),
         key_nodes[t.v].next # val_nodes[t.p].first
  PROVE  u # Done /\ u.v \in Nodes \ S /\ SeenAt(S \cup {u.v}, u)
<1>1. u.p = t.p /\ u.v = key_nodes[t.v].next
  BY DEF After
<1>2. t.v \in Nodes /\ t.v \in S /\ t.p = key_nodes[t.v].parent /\ S \in SUBSET Nodes
  BY DEF SeenAt
<1>3. /\ u.v \in Nodes /\ key_nodes[u.v].prev = t.v /\ key_nodes[u.v].parent = t.p
  BY <1>1, <1>2 DEF Lists, Rings
<1>4. u.v # val_nodes[t.p].first
  BY <1>1
<1>5. u.v \notin S
  <2>1. SUFFICES ASSUME u.v \in S PROVE FALSE
    OBVIOUS
  <2>2. key_nodes[u.v].prev \in S \ {t.v}
    BY <1>3, <1>4, <2>1 DEF SeenAt
  <2> QED
    BY <1>3, <2>2
<1>6. ValueOf(u.v) = ValueOf(t.v) /\ ValueOf(t.v) \in Nat
  BY <1>2, <1>3, ValuesNatural DEF ValueOf
<1>7. u # Done
  BY <1>3, NodeNumbers DEF Done
<1>8. PICK T : T = S \cup {u.v}
  OBVIOUS
<1>9. ASSUME NEW n \in T, key_nodes[n].parent = u.p
      PROVE  /\ n # u.v => key_nodes[n].next \in T
             /\ n # val_nodes[u.p].first => key_nodes[n].prev \in T \ {u.v}
  <2>1. CASE n = u.v
    BY <1>2, <1>3, <1>5, <1>8, <2>1
  <2>2. CASE n # u.v
    <3>1. n \in S /\ key_nodes[n].parent = t.p
      BY <1>1, <1>8, <1>9, <2>2
    <3>2. /\ n # t.v => key_nodes[n].next \in S
          /\ n # val_nodes[t.p].first => key_nodes[n].prev \in S \ {t.v}
      BY <3>1 DEF SeenAt
    <3>3. key_nodes[n].next \in T
      BY <1>1, <1>8, <3>2
    <3>4. n # val_nodes[u.p].first => key_nodes[n].prev \in T \ {u.v}
      BY <1>1, <1>5, <1>8, <3>2
    <3> QED
      BY <3>3, <3>4
  <2> QED
    BY <2>1, <2>2
<1>10. SeenAt(T, u)
  <2>1. T \in SUBSET Nodes /\ u.v \in T /\ u.p = key_nodes[u.v].parent
    BY <1>1, <1>2, <1>3, <1>8
  <2>2. \A n \in Nodes : ValueOf(u.v) < ValueOf(n) => n \in T
    BY <1>6, <1>8 DEF SeenAt
  <2>3. \A n \in T : ValueOf(u.v) <= ValueOf(n)
    BY <1>6, <1>8 DEF SeenAt
  <2>4. val_nodes[u.p].first \in T
    BY <1>1, <1>8 DEF SeenAt
  <2> QED
    BY <1>9, <2>1, <2>2, <2>3, <2>4 DEF SeenAt
<1> QED
  BY <1>3, <1>5, <1>7, <1>8, <1>10

\* At the end of a ring its key nodes have all been seen: the loop is through,
\* or the next ring is one of the next value down.
LEMMA WalkBelow ==
  ASSUME Lists, NEW S, NEW t, SeenAt(S, t), NEW u, u = After(t), S # Nodes,
         key_nodes[t.v].next = val_nodes[t.p].first
  PROVE  u # Done /\ u.v \in Nodes \ S /\ SeenAt(S \cup {u.v}, u)
<1>1. /\ t.v \in Nodes /\ t.v \in S /\ t.p = key_nodes[t.v].parent /\ S \in SUBSET Nodes
      /\ t.p \in Listed /\ t.p \in Nodes
  BY DEF SeenAt, Lists, Parents, Listed
<1>2. \A n \in Nodes : key_nodes[n].parent = t.p => n \in S
  <2>1. PICK R : R = {n \in S : key_nodes[n].parent = t.p}
    OBVIOUS
  <2>2. R \in SUBSET Nodes /\ t.v \in R
    BY <1>1, <2>1
  <2>3. \A n \in R : key_nodes[n].next \in S
    BY <2>1 DEF SeenAt
  <2>4. \A n \in R : key_nodes[n].next \in R
    BY <2>1, <2>2, <2>3 DEF Lists, Rings
  <2>5. \A m \in Nodes : key_nodes[m].parent = key_nodes[t.v].parent => m \in R
    BY <2>2, <2>4 DEF Lists, Rings, Whole
  <2> QED
    BY <1>1, <2>1, <2>5
<1>3. \A n \in Nodes : ValueOf(t.v) <= ValueOf(n) => n \in S
  <2>1. ASSUME NEW n \in Nodes, ValueOf(t.v) <= ValueOf(n) PROVE n \in S
    <3>1. ValueOf(n) \in Nat /\ ValueOf(t.v) \in Nat
      BY <1>1, ValuesNatural
    <3>2. CASE ValueOf(n) = ValueOf(t.v)
      <4>1. key_nodes[n].parent \in Listed /\ val_nodes[key_nodes[n].parent].val = val_nodes[t.p].val
        BY <1>1, <3>2 DEF ValueOf, Lists, Parents
      <4>2. key_nodes[n].parent = t.p
        BY <1>1, <4>1 DEF Lists, Linked, Ordered
      <4> QED
        BY <1>2, <4>2
    <3>3. CASE ValueOf(n) # ValueOf(t.v)
      <4>1. ValueOf(t.v) < ValueOf(n)
        BY <2>1, <3>1, <3>3
      <4> QED
        BY <4>1 DEF SeenAt
    <3> QED
      BY <3>2, <3>3
  <2> QED
    BY <2>1
<1>4. PICK c : c = val_nodes[t.p].next
  OBVIOUS
<1>5. c # NULL
  <2>1. SUFFICES ASSUME c = NULL PROVE FALSE
    OBVIOUS
  <2>2. t.p = tail_node
    BY <1>1, <1>4, <2>1 DEF Lists, Linked, EndsIn
  <2>3. \A n \in Nodes : ValueOf(t.v) <= ValueOf(n)
    BY <1>1, <2>2 DEF ValueOf, Lists, Parents, Linked, EndsIn
  <2> QED
    BY <1>1, <1>3, <2>3
<1>6. c \in Listed /\ val_nodes[c].prev = t.p /\ val_nodes[c].val < val_nodes[t.p].val
  <2>1. c \in Listed /\ val_nodes[c].prev = t.p
    BY <1>1, <1>4, <1>5 DEF Lists, Linked, TwoWays
  <2>2. t.p # NULL
    BY <1>1, NodeNumbers
  <2> QED
    BY <2>1, <2>2 DEF Lists, Linked, Ordered
<1>7. u.p = c /\ u.v = val_nodes[c].first
  BY <1>4, <1>5 DEF After, Below, Enter
<1>8. u.v \in Nodes /\ key_nodes[u.v].parent = c
  BY <1>6, <1>7 DEF Lists, Parents
<1>9. ValueOf(u.v) < ValueOf(t.v) /\ ValueOf(u.v) \in Nat /\ ValueOf(t.v) \in Nat
  BY <1>1, <1>6, <1>8, ValuesNatural DEF ValueOf
<1>10. \A n \in S : ValueOf(n) \in Nat /\ ValueOf(t.v) <= ValueOf(n)
  BY <1>1, ValuesNatural DEF SeenAt
<1>11. u.v \notin S
  BY <1>9, <1>10
<1>12. \A n \in S : key_nodes[n].parent # c
  BY <1>8, <1>9, <1>10 DEF ValueOf
<1>13. u # Done
  BY <1>8, NodeNumbers DEF Done
<1>14. PICK T : T = S \cup {u.v}
  OBVIOUS
<1>15. \A n \in Nodes : ValueOf(u.v) < ValueOf(n) => n \in T
  <2>1. ASSUME NEW n \in Nodes, ValueOf(u.v) < ValueOf(n) PROVE n \in T
    <3>1. PICK w \in Listed : w = key_nodes[n].parent
      BY DEF Lists, Parents
    <3>2. val_nodes[c].val < val_nodes[w].val
      BY <1>8, <2>1, <3>1 DEF ValueOf
    <3>3. val_nodes[t.p].val <= val_nodes[w].val
      BY <1>6, <3>2 DEF Lists, Linked, Ordered
    <3>4. ValueOf(t.v) <= ValueOf(n)
      BY <1>1, <3>1, <3>3 DEF ValueOf
    <3> QED
      BY <1>3, <1>14, <3>4
  <2> QED
    BY <2>1
<1>16. \A n \in T : ValueOf(u.v) <= ValueOf(n)
  <2>1. ASSUME NEW n \in T PROVE ValueOf(u.v) <= ValueOf(n)
    <3>1. CASE n = u.v
      BY <1>9, <3>1
    <3>2. CASE n # u.v
      <4>1. ValueOf(n) \in Nat /\ ValueOf(t.v) <= ValueOf(n)
        BY <1>10, <1>14, <3>2
      <4> QED
        BY <1>9, <4>1
    <3> QED
      BY <3>1, <3>2
  <2> QED
    BY <2>1
<1>17. \A n \in T :
         key_nodes[n].parent = u.p =>
           /\ n # u.v => key_nodes[n].next \in T
           /\ n # val_nodes[u.p].first => key_nodes[n].prev \in T \ {u.v}
  BY <1>7, <1>12, <1>14
<1>18. SeenAt(T, u)
  BY <1>1, <1>7, <1>8, <1>14, <1>15, <1>16, <1>17 DEF SeenAt
<1> QED
  BY <1>8, <1>11, <1>13, <1>14, <1>18

LEMMA WalkGoesOn ==
  ASSUME Lists, NEW S, NEW t, SeenAt(S, t), NEW u, u = After(t), S # Nodes
  PROVE  u # Done /\ u.v \in Nodes \ S /\ SeenAt(S \cup {u.v}, u)
<1>1. CASE key_nodes[t.v].next # val_nodes[t.p].first
  BY <1>1, WalkInRing
<1>2. CASE key_nodes[t.v].next = val_nodes[t.p].first
  BY <1>2, WalkBelow
<1> QED
  BY <1>1, <1>2

\* Where the loop is until it is through.
Places == [p : Nodes, v : Nodes]

\* s is the loop, as far as it keeps to places.
Walks(s) ==
  /\ s[1] = Enter(HeadNode)
  /\ \A i \in 1 .. Capacity - 1 : s[i] \in Places => s[i + 1] = After(s[i])

SeenBy(s, i) == {n \in Nodes : \E j \in 1 .. i : s[j].v = n}

\* The loop has seen i key nodes after i steps, the last one never before.
Walked(s, i) ==
  /\ s[i] \in Places /\ SeenAt(SeenBy(s, i), s[i]) /\ Cardinality(SeenBy(s, i)) = i
  /\ \A j \in 1 .. i - 1 : s[j].v # s[i].v

LEMMA WalksOn ==
  ASSUME Lists, NEW s, Walks(s)
  PROVE  \A i \in 1 .. Capacity : Walked(s, i)
<1> DEFINE Good == {i \in Nat : i + 1 <= Capacity => Walked(s, i + 1)}
<1>1. 0 \in Good
  <2>1. PICK t : t = s[1]
    OBVIOUS
  <2>2. t = Enter(HeadNode) /\ SeenAt({t.v}, t)
    BY <2>1, WalkStarts DEF Walks
  <2>3. t.v \in Nodes /\ t.p \in Nodes /\ t = [p |-> t.p, v |-> t.v]
    BY <2>2, HeadIsGreatest DEF Enter, SeenAt, Listed
  <2>4. SeenBy(s, 1) = {t.v}
    BY <2>1, <2>3 DEF SeenBy
  <2>5. Cardinality({t.v}) = 1
    BY FS_Singleton
  <2>6. Walked(s, 1)
    BY <2>1, <2>2, <2>3, <2>4, <2>5 DEF Walked, Places
  <2> QED
    BY <2>6
<1>2. ASSUME NEW i \in Nat, i \in Good PROVE i + 1 \in Good
  <2>1. SUFFICES ASSUME (i + 1) + 1 <= Capacity PROVE Walked(s, (i + 1) + 1)
    OBVIOUS
  <2>2. PICK k \in Nat : k = i + 1
    OBVIOUS
  <2>3. k \in 1 .. Capacity - 1 /\ k + 1 <= Capacity /\ Walked(s, k)
    BY <1>2, <2>1, <2>2, NodeNumbers
  <2>4. PICK t : t = s[k]
    OBVIOUS
  <2>5. PICK u : u = s[k + 1]
    OBVIOUS
  <2>6. PICK S : S = SeenBy(s, k)
    OBVIOUS
  <2>7. t \in Places /\ SeenAt(S, t) /\ Cardinality(S) = k
    BY <2>3, <2>4, <2>6 DEF Walked
  <2>8. u = After(t)
    BY <2>3, <2>4, <2>5, <2>7 DEF Walks
  <2>9. S # Nodes
    BY <2>2, <2>3, <2>7, NodeNumbers
  <2>10. u.v \in Nodes \ S /\ SeenAt(S \cup {u.v}, u)
    BY <2>7, <2>8, <2>9, WalkGoesOn
  <2>11. u \in Places
    <3>1. u.p \in Nodes
      BY <2>10 DEF SeenAt, Lists, Parents, Listed
    <3>2. u = [p |-> u.p, v |-> u.v]
      BY <2>8 DEF After, Below, Enter, Done
    <3> QED
      BY <2>10, <3>1, <3>2 DEF Places
  <2>12. SeenBy(s, k + 1) = S \cup {u.v}
    <3>1. \A j \in 1 .. k + 1 : j \in 1 .. k \/ j = k + 1
      BY <2>3
    <3>2. (\A j \in 1 .. k : j \in 1 .. k + 1) /\ k + 1 \in 1 .. k + 1
      BY <2>3
    <3> QED
      BY <2>5, <2>6, <2>10, <3>1, <3>2 DEF SeenBy
  <2>13. Cardinality(S \cup {u.v}) = k + 1
    <3>1. S \in SUBSET Nodes
      BY <2>6 DEF SeenBy
    <3>2. IsFiniteSet(S)
      BY <3>1, NodeNumbers, FS_Subset
    <3> QED
      BY <2>7, <2>10, <3>2, FS_AddElement
  <2>14. ASSUME NEW j \in 1 .. (k + 1) - 1 PROVE s[j].v # s[k + 1].v
    <3>1. j \in 1 .. k
      BY <2>3
    <3> QED
      BY <2>5, <2>6, <2>10, <3>1 DEF SeenBy
  <2>15. Walked(s, k + 1)
    BY <2>5, <2>10, <2>11, <2>12, <2>13, <2>14 DEF Walked
  <2> QED
    BY <2>2, <2>15
<1>3. Nat \subseteq Good
  <2> HIDE DEF Good
  <2> QED
    BY <1>1, <1>2, NumberInduction
<1>4. ASSUME NEW i \in 1 .. Capacity PROVE Walked(s, i)
  <2>1. i - 1 \in Nat /\ (i - 1) + 1 = i /\ i <= Capacity
    BY NodeNumbers
  <2>2. i - 1 \in Good
    BY <1>3, <2>1
  <2> QED
    BY <2>1, <2>2
<1> QED
  BY <1>4

LEMMA VisitWalks ==
  ASSUME Lists
  PROVE  Walks(Visit)
<1> DEFINE Is(s) == s = [i \in 1 .. Capacity |->
                           IF i = 1 THEN Enter(HeadNode)
                           ELSE IF s[i - 1] = Done THEN Done ELSE After(s[i - 1])]
<1>1. PICK F : F = [t \in Places |-> After(t)]
  OBVIOUS
<1>2. PICK base : base = Enter(HeadNode)
  OBVIOUS
<1>3. PICK s : Iterated(s, 1, Capacity, base, F)
  <2>1. Capacity - 1 \in Nat /\ 1 + (Capacity - 1) = Capacity
    BY NodeNumbers
  <2>2. \E s : Iterated(s, 1, 1 + (Capacity - 1), base, F)
    BY <2>1, Iterates
  <2> QED
    BY <2>1, <2>2
<1>4. \A i \in 1 .. Capacity : s[i] = IF i = 1 THEN base ELSE F[s[i - 1]]
  BY <1>3 DEF Iterated
<1>5. /\ 1 \in 1 .. Capacity
      /\ \A i \in 1 .. Capacity : i = 1 \/ i - 1 \in 1 .. Capacity - 1
      /\ \A i \in 1 .. Capacity - 1 : /\ i \in 1 .. Capacity /\ i + 1 \in 1 .. Capacity
                                      /\ i + 1 # 1 /\ (i + 1) - 1 = i
  BY NodeNumbers
<1>6. Walks(s)
  <2>1. s[1] = Enter(HeadNode)
    BY <1>2, <1>4, <1>5
  <2>2. ASSUME NEW i \in 1 .. Capacity - 1, s[i] \in Places PROVE s[i + 1] = After(s[i])
    BY <1>1, <1>4, <1>5, <2>2
  <2> QED
    BY <2>1, <2>2 DEF Walks
<1>7. \A i \in 1 .. Capacity : s[i] \in Places
  BY <1>6, WalksOn DEF Walked
<1>8. Done \notin Places
  BY NodeNumbers DEF Done, Places
<1>9. \A i \in 1 .. Capacity :
        s[i] = IF i = 1 THEN Enter(HeadNode)
               ELSE IF s[i - 1] = Done THEN Done ELSE After(s[i - 1])
  BY <1>1, <1>2, <1>4, <1>5, <1>7, <1>8
<1>10. Is(s)
  BY <1>3, <1>9 DEF Iterated
<1>11. Visit = CHOOSE r : Is(r)
  BY DEF Visit
<1>12. Is(Visit)
  <2> HIDE DEF Is
  <2> QED
    BY <1>10, <1>11
<1>13. \A i \in 1 .. Capacity :
        Visit[i] = IF i = 1 THEN Enter(HeadNode)
                   ELSE IF Visit[i - 1] = Done THEN Done ELSE After(Visit[i - 1])
  BY <1>12
<1>14. Visit[1] = Enter(HeadNode)
  BY <1>5, <1>13
<1>15. ASSUME NEW i \in 1 .. Capacity - 1, Visit[i] \in Places PROVE Visit[i + 1] = After(Visit[i])
  BY <1>5, <1>8, <1>13, <1>15
<1> QED
  BY <1>14, <1>15 DEF Walks

\* get_top_k finds every key node, once, from the greatest value down.
LEMMA VisitsAll ==
  ASSUME Lists
  PROVE  /\ \A i \in 1 .. Capacity :
              /\ Visit[i] # Done /\ Visit[i].v \in Nodes
              /\ Visit[i].p = key_nodes[Visit[i].v].parent
         /\ \A i, j \in 1 .. Capacity :
              /\ i < j => ValueOf(Visit[j].v) <= ValueOf(Visit[i].v)
              /\ Visit[i].v = Visit[j].v => i = j
         /\ \A n \in Nodes : \E i \in 1 .. Capacity : Visit[i].v = n
<1>1. PICK s : s = Visit
  OBVIOUS
<1>2. \A i \in 1 .. Capacity : Walked(s, i)
  BY <1>1, VisitWalks, WalksOn
<1>3. \A i \in 1 .. Capacity : s[i] \in Places /\ s[i].p = key_nodes[s[i].v].parent
  BY <1>2 DEF Walked, SeenAt
<1>4. \A i \in 1 .. Capacity : s[i] # Done /\ s[i].v \in Nodes
  BY <1>3, NodeNumbers DEF Places, Done
<1>5. ASSUME NEW i \in 1 .. Capacity, NEW j \in 1 .. Capacity, i < j
      PROVE  ValueOf(s[j].v) <= ValueOf(s[i].v) /\ s[i].v # s[j].v
  <2>1. i \in 1 .. j /\ i \in 1 .. j - 1
    BY <1>5, NodeNumbers
  <2>2. s[i].v \in SeenBy(s, j)
    BY <1>4, <2>1 DEF SeenBy
  <2> QED
    BY <1>2, <2>1, <2>2 DEF Walked, SeenAt
<1>6. ASSUME NEW i \in 1 .. Capacity, NEW j \in 1 .. Capacity, s[i].v = s[j].v PROVE i = j
  <2>1. i < j \/ j < i \/ i = j
    BY NodeNumbers
  <2> QED
    BY <1>5, <1>6, <2>1
<1>7. SeenBy(s, Capacity) = Nodes
  <2>1. Capacity \in 1 .. Capacity
    BY NodeNumbers
  <2>2. Cardinality(SeenBy(s, Capacity)) = Cardinality(Nodes)
    BY <1>2, <2>1, NodeNumbers DEF Walked
  <2>3. SeenBy(s, Capacity) \in SUBSET Nodes
    BY DEF SeenBy
  <2> QED
    BY <2>2, <2>3, NodeNumbers, FS_Subset
<1>8. \A n \in Nodes : \E i \in 1 .. Capacity : s[i].v = n
  BY <1>7 DEF SeenBy
<1> QED
  BY <1>1, <1>3, <1>4, <1>5, <1>6, <1>8
-----------------------------------------------------------------------------
(***************************************************************************)
(* get_heavy_hitters                                                       *)
(***************************************************************************)

\* If no value is below t, the sum is not below as many times t.
LEMMA SumAtLeast ==
  ASSUME NEW S, IsFiniteSet(S), NEW f, NEW t \in Nat, \A x \in S : f[x] \in Nat /\ t <= f[x]
  PROVE  t * Cardinality(S) <= SumFunctionOnSet(f, S)
<1> DEFINE Good == {s \in SUBSET S : t * Cardinality(s) <= SumFunctionOnSet(f, s)}
<1>1. {} \in Good
  BY SumEmpty, FS_EmptySet
<1>2. ASSUME NEW s \in SUBSET S, s # {}, \A x \in s : s \ {x} \in Good
      PROVE  s \in Good
  <2>1. IsFiniteSet(s)
    BY FS_Subset
  <2>2. PICK x \in s : TRUE
    BY <1>2
  <2>3. PICK r : r = s \ {x}
    OBVIOUS
  <2>4. /\ IsFiniteSet(r) /\ Cardinality(r) = Cardinality(s) - 1
        /\ Cardinality(r) \in Nat /\ Cardinality(s) \in Nat
    BY <2>1, <2>2, <2>3, FS_RemoveElement, FS_CardinalityType
  <2>5. \A y \in s : f[y] \in Int
    OBVIOUS
  <2>6. SumFunctionOnSet(f, s) = f[x] + SumFunctionOnSet(f, r)
    BY <2>1, <2>3, <2>5, SumWithout
  <2>7. SumFunctionOnSet(f, r) \in Nat
    BY <2>3, <2>4, SumNat
  <2>8. t * Cardinality(r) <= SumFunctionOnSet(f, r)
    BY <1>2, <2>2, <2>3
  <2>9. f[x] \in Nat /\ t <= f[x]
    OBVIOUS
  <2>10. t * Cardinality(s) = t * Cardinality(r) + t /\ t * Cardinality(r) \in Nat
    <3>1. PICK m \in Nat : m = Cardinality(r)
      BY <2>4
    <3>2. Cardinality(s) = m + 1
      BY <2>4, <3>1
    <3>3. t * (m + 1) = t * m + t /\ t * m \in Nat
      OBVIOUS
    <3> QED
      BY <3>1, <3>2, <3>3
  <2>11. t * Cardinality(s) <= SumFunctionOnSet(f, s)
    BY <2>6, <2>7, <2>8, <2>9, <2>10
  <2> QED
    BY <2>11
<1>3. SUBSET S \subseteq Good
  <2> HIDE DEF Good
  <2> QED
    BY <1>1, <1>2, SetInduction
<1> QED
  BY <1>3

\* A flow with the threshold's share of the packets has a counter.
LEMMA HeavyIsKnown ==
  ASSUME IInv, Covering(AllCounters, packets), NEW threshold \in Nat, NEW k \in Keys,
         threshold * Capacity > Total, packets[k] >= threshold
  PROVE  \E n \in Nodes : /\ key_nodes[n].key = k /\ packets[k] <= ValueOf(n)
                          /\ \A m \in Nodes : key_nodes[m].key = k => m = n
<1>1. \A n \in Nodes : /\ AllCounters[n].key = key_nodes[n].key
                       /\ AllCounters[n].val = ValueOf(n) /\ ValueOf(n) \in Nat
  BY ValuesNatural DEF AllCounters, CounterOf, IInv
<1>2. packets \in [Keys -> Nat] /\ packets[k] \in Nat
  BY DEF IInv, AddsUp
<1>3. \E n \in Nodes : Shows(AllCounters, n, k)
  <2>1. SUFFICES ASSUME ~ \E n \in Nodes : Shows(AllCounters, n, k) PROVE FALSE
    OBVIOUS
  <2>2. \A n \in Nodes : packets[k] <= ValueOf(n)
    BY <1>1, <2>1 DEF Covering, Covered, Shown
  <2>3. PICK f : f = [n \in Nodes |-> ValueOf(n)]
    OBVIOUS
  <2>4. \A n \in Nodes : f[n] \in Nat /\ threshold <= f[n]
    BY <1>1, <1>2, <2>2, <2>3
  <2>5. threshold * Cardinality(Nodes) <= SumFunctionOnSet(f, Nodes)
    BY <2>4, NodeNumbers, SumAtLeast
  <2>6. SumFunctionOnSet(f, Nodes) = SumFunctionOnSet(packets, Keys)
    BY <2>3 DEF IInv, AddsUp, SumOfValues
  <2>7. Total = SumFunctionOnSet(packets, Keys)
    BY <1>2 DEF Total, SumFunction
  <2>8. Total \in Nat
    BY <1>2, <2>7, NodeNumbers, SumNat
  <2>9. threshold * Capacity <= Total /\ threshold * Capacity \in Nat
    BY <2>5, <2>6, <2>7, NodeNumbers
  <2> QED
    BY <2>8, <2>9
<1>4. PICK n \in Nodes : Shows(AllCounters, n, k)
  BY <1>3
<1>5. key_nodes[n].key = k
  BY <1>1, <1>4 DEF Shows
<1>6. packets[k] <= ValueOf(n)
  BY <1>1, <1>4 DEF Covering, Covered
<1>7. \A m \in Nodes : key_nodes[m].key = k => m = n
  BY <1>5, NodeNumbers DEF IInv, Table
<1> QED
  BY <1>5, <1>6, <1>7

\* get_heavy_hitters cuts the counters that get_top_k lists at the threshold.
LEMMA HittersAre ==
  ASSUME Lists, NEW threshold \in Nat
  PROVE  LET r == GetHeavyHitters(threshold) IN
         \E m \in 0 .. Capacity :
           /\ DOMAIN r = 1 .. m
           /\ \A i \in 1 .. m : /\ r[i].key = key_nodes[Visit[i].v].key
                                /\ r[i].val = ValueOf(Visit[i].v)
           /\ \A i \in 1 .. Capacity : threshold <= ValueOf(Visit[i].v) => i <= m
<1>1. PICK all : all = GetTopK(Capacity)
  OBVIOUS
<1>2. PICK s : s = Visit
  OBVIOUS
<1>3. /\ \A i \in 1 .. Capacity : s[i] # Done /\ s[i].v \in Nodes
                                  /\ s[i].p = key_nodes[s[i].v].parent
      /\ \A i, j \in 1 .. Capacity : i < j => ValueOf(s[j].v) <= ValueOf(s[i].v)
  BY <1>2, VisitsAll
<1>4. /\ DOMAIN all = 1 .. Capacity
      /\ \A i \in 1 .. Capacity : /\ all[i].key = key_nodes[s[i].v].key
                                  /\ all[i].val = ValueOf(s[i].v)
  BY <1>1, <1>2, <1>3 DEF GetTopK, ValueOf
<1>5. \A i \in 1 .. Capacity : ValueOf(s[i].v) \in Nat
  BY <1>3, ValuesNatural
<1>6. PICK low : low = {i \in 1 .. Capacity : all[i].val < threshold}
  OBVIOUS
<1>7. PICK r : r = GetHeavyHitters(threshold)
  OBVIOUS
<1>8. r = IF low = {} THEN all ELSE SubSeq(all, 1, Min(low) - 1)
  BY <1>1, <1>4, <1>6, <1>7 DEF GetHeavyHitters
<1>9. CASE low = {}
  <2>1. r = all
    BY <1>8, <1>9
  <2>2. Capacity \in 0 .. Capacity /\ \A i \in 1 .. Capacity : i <= Capacity
    BY NodeNumbers
  <2> QED
    BY <1>2, <1>4, <1>7, <2>1, <2>2
<1>10. CASE low # {}
  <2>1. low \in SUBSET Nat
    BY <1>6
  <2>2. PICK x \in low : \A y \in low : x <= y
    BY <1>10, <2>1, LeastNatural
  <2>3. Min(low) \in low /\ \A y \in low : Min(low) <= y
    BY <2>2 DEF Min
  <2>4. PICK m : m = Min(low) - 1
    OBVIOUS
  <2>5. m \in 0 .. Capacity /\ m + 1 \in low /\ m + 1 \in 1 .. Capacity /\ m < Capacity
    BY <1>6, <2>3, <2>4, NodeNumbers
  <2>6. PICK R : R = {all[i] : i \in 1 .. Capacity}
    OBVIOUS
  <2>7. \A i \in 1 .. m : i \in 1 .. Capacity /\ all[i] \in R
    <3>1. ASSUME NEW i \in 1 .. m PROVE i \in 1 .. Capacity
      BY <2>5, NodeNumbers
    <3> QED
      BY <2>6, <3>1
  <2>8. r = SubSeq(all, 1, m)
    BY <1>8, <1>10, <2>4
  <2>9. /\ r \in Seq(R) /\ Len(r) = IF 1 <= m THEN m - 1 + 1 ELSE 0
        /\ \A i \in 1 .. m - 1 + 1 : r[i] = all[1 + i - 1]
    BY <2>5, <2>7, <2>8, SubSeqProperties
  <2>10. Len(r) = m /\ DOMAIN r = 1 .. m
    BY <2>5, <2>9
  <2>11. \A i \in 1 .. m : r[i] = all[i]
    BY <2>5, <2>9
  <2>12. ASSUME NEW i \in 1 .. Capacity, threshold <= ValueOf(s[i].v) PROVE i <= m
    <3>1. SUFFICES ASSUME m < i PROVE FALSE
      BY <2>5
    <3>2. all[m + 1].val < threshold
      BY <1>6, <2>5
    <3>3. ValueOf(s[m + 1].v) < threshold /\ ValueOf(s[m + 1].v) \in Nat
      BY <1>4, <1>5, <2>5, <3>2
    <3>4. m + 1 = i \/ m + 1 < i
      BY <2>5, <3>1
    <3>5. ValueOf(s[i].v) <= ValueOf(s[m + 1].v) /\ ValueOf(s[i].v) \in Nat
      BY <1>3, <1>5, <2>5, <3>4
    <3> QED
      BY <2>12, <3>3, <3>5
  <2> QED
    BY <1>2, <1>4, <1>7, <2>5, <2>7, <2>10, <2>11, <2>12
<1> QED
  BY <1>9, <1>10

LEMMA HittersComplete == IInv /\ Covering(AllCounters, packets) => HeavyHittersComplete
<1> SUFFICES ASSUME IInv, Covering(AllCounters, packets), NEW threshold \in 1 .. Total,
                    threshold * Capacity > Total, NEW k \in Keys, packets[k] >= threshold
             PROVE  LET found == {i \in DOMAIN GetHeavyHitters(threshold) :
                                    GetHeavyHitters(threshold)[i].key = k}
                    IN \E i \in found : /\ found = {i}
                                        /\ GetHeavyHitters(threshold)[i].val >= packets[k]
  BY DEF HeavyHittersComplete
<1>1. threshold \in Nat
  OBVIOUS
<1>2. PICK n \in Nodes : /\ key_nodes[n].key = k /\ packets[k] <= ValueOf(n)
                         /\ \A m \in Nodes : key_nodes[m].key = k => m = n
  BY <1>1, HeavyIsKnown
<1>3. Lists
  BY DEF IInv
<1>4. PICK r : r = GetHeavyHitters(threshold)
  OBVIOUS
<1>5. PICK m \in 0 .. Capacity :
         /\ DOMAIN r = 1 .. m
         /\ \A i \in 1 .. m : /\ r[i].key = key_nodes[Visit[i].v].key
                              /\ r[i].val = ValueOf(Visit[i].v)
         /\ \A i \in 1 .. Capacity : threshold <= ValueOf(Visit[i].v) => i <= m
  BY <1>1, <1>3, <1>4, HittersAre
<1>6. PICK i \in 1 .. Capacity : Visit[i].v = n
  BY <1>3, VisitsAll
<1>7. ValueOf(n) \in Nat /\ packets[k] \in Nat
  BY <1>3, ValuesNatural DEF IInv, AddsUp
<1>8. threshold <= ValueOf(n)
  BY <1>1, <1>2, <1>7
<1>9. i \in 1 .. m
  BY <1>5, <1>6, <1>8, NodeNumbers
<1>10. r[i].key = k /\ r[i].val = ValueOf(n)
  BY <1>2, <1>5, <1>6, <1>9
<1>11. ASSUME NEW j \in 1 .. m, r[j].key = k PROVE j = i
  <2>1. j \in 1 .. Capacity
    BY NodeNumbers
  <2>2. Visit[j].v \in Nodes /\ key_nodes[Visit[j].v].key = k
    BY <1>3, <1>5, <1>11, <2>1, VisitsAll
  <2>3. Visit[j].v = Visit[i].v
    BY <1>2, <1>6, <2>2
  <2> QED
    BY <1>3, <2>1, <2>3, VisitsAll
<1>12. PICK found : found = {j \in DOMAIN r : r[j].key = k}
  OBVIOUS
<1>13. found = {i}
  BY <1>5, <1>9, <1>10, <1>11, <1>12
<1>14. r[i].val >= packets[k]
  BY <1>2, <1>7, <1>10
<1> QED
  BY <1>4, <1>12, <1>13, <1>14

\* get_heavy_hitters reports, once and with at least its packets, every flow
\* that has the threshold's share of the trace, for every threshold above the
\* average counter.
THEOREM HeavyHittersCompleteHolds == Spec => []HeavyHittersComplete
<1>1. IInv /\ Covering(AllCounters, packets) => HeavyHittersComplete
  BY HittersComplete
<1> QED
  BY <1>1, Invariance, CodeCovers, PTL
-----------------------------------------------------------------------------
(***************************************************************************)
(* HashPipe                                                                *)
(***************************************************************************)
Came(p) == {k \in Keys : p[k] > 0}

PipeTypes(c) == c \in [Pipe!Places -> [key : Keys \cup {0}, val : Nat]]

\* Who is in a slot came, and belongs there; a slot without a flow is empty.
Seats(c, came) ==
  \A s \in Pipe!Places :
    IF c[s].key = 0 THEN c[s].val = 0
    ELSE c[s].key \in came /\ s[2] = PipeHash[s[1]][c[s].key]

\* No flow of came shares k's slot in stage i.
OwnSlot(i, k, came) == \A j \in came \ {k} : PipeHash[i][j] # PipeHash[i][k]

\* Nothing of a flow is below a stage where it has a slot of its own.
StopsAtOwn(c, came) ==
  \A k \in Keys, i \in Pipe!Stages :
    OwnSlot(i, k, came) => \A s \in Pipe!Places : s[1] > i => c[s].key # k

HeldOf(c, k) == [s \in Pipe!Places |-> IF c[s].key = k THEN c[s].val ELSE 0]

SumHeld(c, k) == SumFunctionOnSet(HeldOf(c, k), Pipe!Places)

\* What the slots c hold of the packets p.
PipeHolds(c, p) ==
  /\ PipeTypes(c) /\ p \in [Keys -> Nat]
  /\ Seats(c, Came(p)) /\ StopsAtOwn(c, Came(p))
  /\ \A k \in Keys :
       /\ SumHeld(c, k) <= p[k]
       /\ (\E i \in Pipe!Stages : OwnSlot(i, k, Came(p))) => SumHeld(c, k) = p[k]

PipeInvariant == PipeHolds(pipe, packets)

LEMMA PipeNumbers ==
  ASSUME Pipe!PipeAssumption
  PROVE  /\ PipeStages \in Nat /\ PipeStages > 0 /\ 0 \in Pipe!Stages
         /\ 0 \notin Keys /\ IsFiniteSet(Keys) /\ IsFiniteSet(Pipe!Places)
         /\ \A i \in Pipe!Stages : i \in Nat /\ i < PipeStages
         /\ \A i \in Pipe!Stages, k \in Keys : Pipe!PlaceOf(i, k) \in Pipe!Places
         /\ \A s \in Pipe!Places : s[1] \in Pipe!Stages /\ s = <<s[1], s[2]>>
<1>1. PipeStages \in Nat /\ PipeStages > 0 /\ 0 \notin Keys /\ IsFiniteSet(Keys) /\ PipeSlots \in Nat
  BY DEF Pipe!PipeAssumption, Pipe!IsFiniteSet, IsFiniteSet
<1>2. Pipe!Stages = 0 .. PipeStages - 1
  BY DEF Pipe!Stages
<1>3. IsFiniteSet(Pipe!Stages) /\ IsFiniteSet(0 .. PipeSlots - 1)
  BY <1>1, <1>2, FS_Interval
<1>4. IsFiniteSet(Pipe!Places)
  BY <1>3, FS_Product DEF Pipe!Places
<1>5. \A i \in Pipe!Stages, k \in Keys : Pipe!PlaceOf(i, k) \in Pipe!Places
  BY DEF Pipe!PlaceOf, Pipe!Places, Pipe!PipeAssumption
<1>6. \A s \in Pipe!Places : s[1] \in Pipe!Stages /\ s = <<s[1], s[2]>>
  BY DEF Pipe!Places
<1>7. 0 \in Pipe!Stages /\ \A i \in Pipe!Stages : i \in Nat /\ i < PipeStages
  BY <1>1, <1>2
<1> QED
  BY <1>1, <1>4, <1>5, <1>6, <1>7

\* What one slot holds more or less, the sum holds more or less.
LEMMA HeldChange ==
  ASSUME Pipe!PipeAssumption, NEW c, NEW e, PipeTypes(c), PipeTypes(e),
         NEW s \in Pipe!Places, \A r \in Pipe!Places \ {s} : e[r] = c[r], NEW k
  PROVE  /\ SumHeld(c, k) \in Nat /\ SumHeld(e, k) \in Nat
         /\ SumHeld(e, k) = SumHeld(c, k) - (IF c[s].key = k THEN c[s].val ELSE 0)
                                          + (IF e[s].key = k THEN e[s].val ELSE 0)
<1>1. PICK f : f = HeldOf(c, k)
  OBVIOUS
<1>2. PICK g : g = HeldOf(e, k)
  OBVIOUS
<1>3. \A r \in Pipe!Places : f[r] \in Nat /\ f[r] = IF c[r].key = k THEN c[r].val ELSE 0
  BY <1>1 DEF HeldOf, PipeTypes
<1>4. \A r \in Pipe!Places : g[r] \in Nat /\ g[r] = IF e[r].key = k THEN e[r].val ELSE 0
  BY <1>2 DEF HeldOf, PipeTypes
<1>5. \A r \in Pipe!Places \ {s} : g[r] = f[r]
  BY <1>3, <1>4
<1>6. IsFiniteSet(Pipe!Places)
  BY PipeNumbers
<1>7. \A r \in Pipe!Places : f[r] \in Int /\ g[r] \in Int
  BY <1>3, <1>4
<1>8. SumFunctionOnSet(g, Pipe!Places) = SumFunctionOnSet(f, Pipe!Places) - f[s] + g[s]
  BY <1>5, <1>6, <1>7, SumChange
<1>9. SumFunctionOnSet(f, Pipe!Places) \in Nat /\ SumFunctionOnSet(g, Pipe!Places) \in Nat
  BY <1>3, <1>4, <1>6, SumNat
<1> QED
  BY <1>1, <1>2, <1>3, <1>4, <1>8, <1>9 DEF SumHeld

LEMMA HeldIsNatural ==
  ASSUME Pipe!PipeAssumption, NEW c, PipeTypes(c), NEW k
  PROVE  SumHeld(c, k) \in Nat
<1>1. PICK f : f = HeldOf(c, k)
  OBVIOUS
<1>2. \A r \in Pipe!Places : f[r] \in Nat
  BY <1>1 DEF HeldOf, PipeTypes
<1>3. SumFunctionOnSet(f, Pipe!Places) \in Nat
  BY <1>2, PipeNumbers, SumNat
<1> QED
  BY <1>1, <1>3 DEF SumHeld

-----------------------------------------------------------------------------
\* The loop of work.
PassStep(t, i) == IF t.y = 0 THEN t ELSE Pipe!WorkStage(t, i)

Passes(r, n, x, y) ==
  r = [i \in 0 .. n |-> IF i = 0 THEN [pipe |-> pipe, x |-> x, y |-> y]
                        ELSE PassStep(r[i - 1], i)]

LEMMA PassExists ==
  ASSUME NEW x, NEW y
  PROVE  \A n \in Nat : \E r : Passes(r, n, x, y)
<1> DEFINE Good == {n \in Nat : \E r : Passes(r, n, x, y)}
<1>1. 0 \in Good
  <2>1. PICK r : r = [i \in 0 .. 0 |-> [pipe |-> pipe, x |-> x, y |-> y]]
    OBVIOUS
  <2>2. \A i \in 0 .. 0 : i = 0
    OBVIOUS
  <2>3. Passes(r, 0, x, y)
    BY <2>1, <2>2 DEF Passes
  <2> QED
    BY <2>3
<1>2. ASSUME NEW n \in Nat, n \in Good PROVE n + 1 \in Good
  <2>1. PICK r : Passes(r, n, x, y)
    BY <1>2
  <2>2. PICK z : z = PassStep(r[n], n + 1)
    OBVIOUS
  <2>3. PICK q : q = [i \in 0 .. n + 1 |-> IF i = n + 1 THEN z ELSE r[i]]
    OBVIOUS
  <2>4. \A i \in 0 .. n : r[i] = IF i = 0 THEN [pipe |-> pipe, x |-> x, y |-> y]
                                 ELSE PassStep(r[i - 1], i)
    BY <2>1 DEF Passes
  <2>5. \A i \in 0 .. n : i \in 0 .. n + 1 /\ i # n + 1 /\ (i # 0 => i - 1 \in 0 .. n)
    OBVIOUS
  <2>6. \A i \in 0 .. n : q[i] = r[i]
    BY <2>3, <2>5
  <2>7. n + 1 \in 0 .. n + 1 /\ n + 1 # 0 /\ (n + 1) - 1 = n /\ n \in 0 .. n
    OBVIOUS
  <2>8. q[n + 1] = PassStep(q[(n + 1) - 1], n + 1)
    BY <2>2, <2>3, <2>6, <2>7
  <2>9. \A i \in 0 .. n : q[i] = IF i = 0 THEN [pipe |-> pipe, x |-> x, y |-> y]
                                 ELSE PassStep(q[i - 1], i)
    BY <2>4, <2>5, <2>6
  <2>10. \A i \in 0 .. n + 1 : i \in 0 .. n \/ i = n + 1
    OBVIOUS
  <2>11. \A i \in 0 .. n + 1 : q[i] = IF i = 0 THEN [pipe |-> pipe, x |-> x, y |-> y]
                                      ELSE PassStep(q[i - 1], i)
    BY <2>7, <2>8, <2>9, <2>10
  <2>12. q = [i \in 0 .. n + 1 |-> q[i]]
    BY <2>3
  <2>13. Passes(q, n + 1, x, y)
    BY <2>11, <2>12 DEF Passes
  <2> QED
    BY <2>13
<1>3. Nat \subseteq Good
  <2> HIDE DEF Good
  <2> QED
    BY <1>1, <1>2, NumberInduction
<1> QED
  BY <1>3

LEMMA WorkPasses ==
  ASSUME Pipe!PipeAssumption, NEW x, NEW y
  PROVE  \E r : Passes(r, PipeStages - 1, x, y) /\ Pipe!Work(x, y) = r[PipeStages - 1].pipe
<1> DEFINE Is(r) == r = [i \in Pipe!Stages |->
                           IF i = 0 THEN [pipe |-> pipe, x |-> x, y |-> y]
                           ELSE LET t == r[i - 1] IN
                                IF t.y = 0 THEN t ELSE Pipe!WorkStage(t, i)]
<1>1. PipeStages - 1 \in Nat
  BY PipeNumbers
<1>2. \A r : Is(r) <=> Passes(r, PipeStages - 1, x, y)
  BY DEF Passes, PassStep, Pipe!Stages
<1>3. PICK r : Is(r)
  BY <1>1, <1>2, PassExists
<1>4. PICK q : q = CHOOSE s : Is(s)
  OBVIOUS
<1>5. Is(q)
  <2> HIDE DEF Is
  <2> QED
    BY <1>3, <1>4
<1>6. Pipe!Work(x, y) = q[PipeStages - 1].pipe
  BY <1>4 DEF Pipe!Work
<1> QED
  BY <1>2, <1>5, <1>6

\* t is where the loop is, after stage i: what came is still there, except
\* for x, and of x the stages that it has a slot of its own in lie ahead.
OnTheWay(t, i, from, came, all) ==
  /\ PipeTypes(t.pipe) /\ t.x \in Keys \cup {0} /\ t.y \in Nat
  /\ t.y > 0 => t.x \in came
  /\ Seats(t.pipe, came) /\ StopsAtOwn(t.pipe, all)
  /\ \A s \in Pipe!Places : s[1] = 0 => t.pipe[s] = from.pipe[s]
  /\ t.y > 0 => \A j \in Pipe!Stages : OwnSlot(j, t.x, all) => j > i
  /\ \A k \in Keys :
       SumHeld(t.pipe, k) + (IF t.x = k THEN t.y ELSE 0)
         = SumHeld(from.pipe, k) + (IF from.x = k THEN from.y ELSE 0)

LEMMA StageGoesOn ==
  ASSUME Pipe!PipeAssumption, NEW all \in SUBSET Keys, NEW came \in SUBSET all,
         NEW i \in Pipe!Stages, i # 0, NEW t, NEW from, OnTheWay(t, i - 1, from, came, all),
         t.y # 0, NEW u, u = Pipe!WorkStage(t, i),
         \A k \in Keys : SumHeld(from.pipe, k) \in Nat, from.y \in Nat
  PROVE  OnTheWay(u, i, from, came, all)
<1>1. PICK x : x = t.x
  OBVIOUS
<1>2. PICK y : y = t.y
  OBVIOUS
<1>3. PICK c : c = t.pipe
  OBVIOUS
<1>4. PICK s : s = Pipe!PlaceOf(i, x)
  OBVIOUS
<1>5. /\ PipeTypes(c) /\ x \in came /\ x \in Keys /\ x # 0 /\ y \in Nat /\ y > 0
      /\ Seats(c, came) /\ StopsAtOwn(c, all)
      /\ \A r \in Pipe!Places : r[1] = 0 => c[r] = from.pipe[r]
      /\ \A j \in Pipe!Stages : OwnSlot(j, x, all) => j >= i
  <2>1. t.y > 0 /\ t.y \in Nat
    BY DEF OnTheWay
  <2>2. /\ PipeTypes(c) /\ x \in came /\ y \in Nat /\ y > 0
        /\ Seats(c, came) /\ StopsAtOwn(c, all)
        /\ \A r \in Pipe!Places : r[1] = 0 => c[r] = from.pipe[r]
        /\ \A j \in Pipe!Stages : OwnSlot(j, x, all) => j > i - 1
    BY <1>1, <1>2, <1>3, <2>1 DEF OnTheWay
  <2>3. \A j \in Pipe!Stages : j > i - 1 => j >= i
    BY PipeNumbers
  <2> QED
    BY <2>2, <2>3, PipeNumbers
<1>6. s \in Pipe!Places /\ s = <<i, PipeHash[i][x]>> /\ s[1] = i /\ s[2] = PipeHash[i][x]
  BY <1>4, <1>5, PipeNumbers DEF Pipe!PlaceOf
<1>7. PICK h : h = c[s]
  OBVIOUS
<1>8. /\ h \in [key : Keys \cup {0}, val : Nat]
      /\ h.key \in Keys \cup {0} /\ h.val \in Nat
      /\ IF h.key = 0 THEN h.val = 0 ELSE h.key \in came /\ PipeHash[i][h.key] = s[2]
  BY <1>5, <1>6, <1>7 DEF PipeTypes, Seats
<1>9. \A k \in Keys : SumHeld(c, k) + (IF x = k THEN y ELSE 0)
                         = SumHeld(from.pipe, k) + (IF from.x = k THEN from.y ELSE 0)
  BY <1>1, <1>2, <1>3 DEF OnTheWay
<1>10. CASE h.key = x
  <2>1. PICK g : g = [h EXCEPT !.val = h.val + y]
    OBVIOUS
  <2>2. PICK e : e = [c EXCEPT ![s] = g]
    OBVIOUS
  <2>3. u.pipe = e /\ u.x = x /\ u.y = 0
    BY <1>1, <1>2, <1>3, <1>4, <1>7, <1>10, <2>1, <2>2 DEF Pipe!WorkStage
  <2>4. g.key = h.key /\ g.val = h.val + y /\ g \in [key : Keys \cup {0}, val : Nat]
    BY <1>5, <1>8, <2>1
  <2>5. PipeTypes(e) /\ e[s] = g /\ \A r \in Pipe!Places \ {s} : e[r] = c[r]
    BY <1>5, <1>6, <2>2, <2>4 DEF PipeTypes
  <2>6. \A r \in Pipe!Places : e[r].key = c[r].key
    BY <1>7, <2>4, <2>5
  <2>7. Seats(e, came)
    <3>1. \A r \in Pipe!Places : e[r].key = 0 => r # s
      BY <1>5, <1>10, <2>4, <2>5
    <3> QED
      BY <1>5, <2>5, <2>6, <3>1 DEF Seats
  <2>8. StopsAtOwn(e, all)
    BY <1>5, <2>6 DEF StopsAtOwn
  <2>9. \A r \in Pipe!Places : r[1] = 0 => e[r] = from.pipe[r]
    BY <1>5, <1>6, <2>5
  <2>10. ASSUME NEW k \in Keys
         PROVE  SumHeld(e, k) + (IF u.x = k THEN u.y ELSE 0)
                  = SumHeld(from.pipe, k) + (IF from.x = k THEN from.y ELSE 0)
    <3>1. /\ SumHeld(c, k) \in Nat /\ SumHeld(e, k) \in Nat
          /\ SumHeld(e, k) = SumHeld(c, k) - (IF c[s].key = k THEN c[s].val ELSE 0)
                                            + (IF e[s].key = k THEN e[s].val ELSE 0)
      BY <1>5, <1>6, <2>5, HeldChange
    <3>2. SumHeld(e, k) = SumHeld(c, k) + (IF x = k THEN y ELSE 0)
      BY <1>5, <1>7, <1>8, <1>10, <2>4, <2>5, <3>1
    <3> QED
      BY <1>9, <2>3, <3>1, <3>2
  <2> QED
    BY <1>5, <2>3, <2>5, <2>7, <2>8, <2>9, <2>10 DEF OnTheWay
<1>11. CASE h.key # x /\ (h.val = 0 \/ h.val < y)
  <2>1. PICK g : g = [key |-> x, val |-> y]
    OBVIOUS
  <2>2. PICK e : e = [c EXCEPT ![s] = g]
    OBVIOUS
  <2>3. u.pipe = e /\ u.x = h.key /\ u.y = h.val
    BY <1>1, <1>2, <1>3, <1>4, <1>7, <1>11, <2>1, <2>2 DEF Pipe!WorkStage
  <2>4. g.key = x /\ g.val = y /\ g \in [key : Keys \cup {0}, val : Nat]
    BY <1>5, <2>1
  <2>5. PipeTypes(e) /\ e[s] = g /\ \A r \in Pipe!Places \ {s} : e[r] = c[r]
    BY <1>5, <1>6, <2>2, <2>4 DEF PipeTypes
  <2>6. Seats(e, came)
    <3>1. ASSUME NEW r \in Pipe!Places
          PROVE  IF e[r].key = 0 THEN e[r].val = 0
                 ELSE e[r].key \in came /\ r[2] = PipeHash[r[1]][e[r].key]
      <4>1. CASE r = s
        BY <1>5, <1>6, <2>4, <2>5, <4>1
      <4>2. CASE r # s
        BY <1>5, <2>5, <4>2 DEF Seats
      <4> QED
        BY <4>1, <4>2
    <3> QED
      BY <3>1 DEF Seats
  <2>7. StopsAtOwn(e, all)
    <3>1. ASSUME NEW k \in Keys, NEW j \in Pipe!Stages, OwnSlot(j, k, all),
                 NEW r \in Pipe!Places, r[1] > j
          PROVE  e[r].key # k
      <4>1. CASE r = s
        <5>1. k # x
          BY <1>5, <1>6, <3>1, <4>1, PipeNumbers
        <5> QED
          BY <2>4, <2>5, <4>1, <5>1
      <4>2. CASE r # s
        BY <1>5, <2>5, <3>1, <4>2 DEF StopsAtOwn
      <4> QED
        BY <4>1, <4>2
    <3> QED
      BY <3>1 DEF StopsAtOwn
  <2>8. \A r \in Pipe!Places : r[1] = 0 => e[r] = from.pipe[r]
    BY <1>5, <1>6, <2>5
  <2>9. ASSUME h.val > 0, NEW j \in Pipe!Stages, OwnSlot(j, h.key, all) PROVE j > i
    <3>1. h.key \in came /\ h.key \in Keys /\ PipeHash[i][h.key] = PipeHash[i][x]
      BY <1>6, <1>8, <2>9
    <3>2. ~(i > j)
      BY <1>5, <1>6, <1>7, <2>9, <3>1 DEF StopsAtOwn
    <3>3. j # i
      BY <1>5, <1>11, <2>9, <3>1 DEF OwnSlot
    <3> QED
      BY <3>2, <3>3, PipeNumbers
  <2>10. ASSUME NEW k \in Keys
         PROVE  SumHeld(e, k) + (IF u.x = k THEN u.y ELSE 0)
                  = SumHeld(from.pipe, k) + (IF from.x = k THEN from.y ELSE 0)
    <3>1. /\ SumHeld(c, k) \in Nat /\ SumHeld(e, k) \in Nat
          /\ SumHeld(e, k) = SumHeld(c, k) - (IF c[s].key = k THEN c[s].val ELSE 0)
                                            + (IF e[s].key = k THEN e[s].val ELSE 0)
      BY <1>5, <1>6, <2>5, HeldChange
    <3>2. SumHeld(e, k) = SumHeld(c, k) - (IF h.key = k THEN h.val ELSE 0)
                                        + (IF x = k THEN y ELSE 0)
      BY <1>7, <2>4, <2>5, <3>1
    <3> QED
      BY <1>5, <1>8, <1>9, <1>11, <2>3, <3>1, <3>2
  <2> QED
    BY <1>8, <2>3, <2>5, <2>6, <2>7, <2>8, <2>9, <2>10 DEF OnTheWay
<1>12. CASE h.key # x /\ ~(h.val = 0 \/ h.val < y)
  <2>1. u = t
    BY <1>1, <1>2, <1>3, <1>4, <1>7, <1>12 DEF Pipe!WorkStage
  <2>2. h.key \in came /\ PipeHash[i][h.key] = PipeHash[i][x]
    BY <1>6, <1>8, <1>12
  <2>3. \A j \in Pipe!Stages : OwnSlot(j, x, all) => j # i
    BY <1>12, <2>2 DEF OwnSlot
  <2>4. \A j \in Pipe!Stages : OwnSlot(j, x, all) => j > i
    BY <1>5, <2>3, PipeNumbers
  <2> QED
    BY <1>1, <2>1, <2>4 DEF OnTheWay
<1> QED
  BY <1>10, <1>11, <1>12

\* The loop to its end.
LEMMA PassesThrough ==
  ASSUME Pipe!PipeAssumption, NEW all \in SUBSET Keys, NEW came \in SUBSET all,
         NEW x \in came, NEW y \in Nat, y > 0,
         OnTheWay([pipe |-> pipe, x |-> x, y |-> y], 0, [pipe |-> pipe, x |-> x, y |-> y], came, all),
         NEW e, e = Pipe!Work(x, y)
  PROVE  \E t : /\ t.pipe = e
               /\ OnTheWay(t, PipeStages - 1, [pipe |-> pipe, x |-> x, y |-> y], came, all)
<1>1. PICK from : from = [pipe |-> pipe, x |-> x, y |-> y]
  OBVIOUS
<1>2. PICK r : Passes(r, PipeStages - 1, x, y) /\ e = r[PipeStages - 1].pipe
  BY WorkPasses
<1> DEFINE Good == {n \in Nat : n \in Pipe!Stages => OnTheWay(r[n], n, from, came, all)}
<1>3. \A i \in Pipe!Stages : r[i] = IF i = 0 THEN from ELSE PassStep(r[i - 1], i)
  BY <1>1, <1>2 DEF Passes, Pipe!Stages
<1>4. from.y \in Nat /\ PipeTypes(from.pipe)
  BY <1>1 DEF OnTheWay
<1>5. \A k \in Keys : SumHeld(from.pipe, k) \in Nat
  BY <1>4, HeldIsNatural
<1>6. 0 \in Good
  BY <1>1, <1>3, PipeNumbers
<1>7. ASSUME NEW n \in Nat, n \in Good PROVE n + 1 \in Good
  <2>1. SUFFICES ASSUME n + 1 \in Pipe!Stages
                 PROVE  OnTheWay(r[n + 1], n + 1, from, came, all)
    OBVIOUS
  <2>2. n \in Pipe!Stages /\ n + 1 # 0 /\ (n + 1) - 1 = n
    BY <2>1, PipeNumbers DEF Pipe!Stages
  <2>3. PICK t : t = r[n]
    OBVIOUS
  <2>4. OnTheWay(t, n, from, came, all) /\ r[n + 1] = PassStep(t, n + 1)
    BY <1>3, <1>7, <2>1, <2>2, <2>3
  <2>5. CASE t.y = 0
    <3>1. r[n + 1] = t
      BY <2>4, <2>5 DEF PassStep
    <3>2. OnTheWay(t, n + 1, from, came, all)
      BY <2>4, <2>5 DEF OnTheWay
    <3> QED
      BY <3>1, <3>2
  <2>6. CASE t.y # 0
    <3>1. PICK u : u = Pipe!WorkStage(t, n + 1)
      OBVIOUS
    <3>2. PICK i : i = n + 1
      OBVIOUS
    <3>3. i \in Pipe!Stages /\ i # 0 /\ i - 1 = n
      BY <2>1, <2>2, <3>2
    <3>4. OnTheWay(t, i - 1, from, came, all)
      BY <2>4, <3>3
    <3>5. OnTheWay(u, i, from, came, all)
      BY <1>4, <1>5, <2>6, <3>1, <3>2, <3>3, <3>4, StageGoesOn
    <3> QED
      BY <2>4, <2>6, <3>1, <3>2, <3>5 DEF PassStep
  <2> QED
    BY <2>5, <2>6
<1>8. Nat \subseteq Good
  <2> HIDE DEF Good
  <2> QED
    BY <1>6, <1>7, NumberInduction
<1>9. PipeStages - 1 \in Nat /\ PipeStages - 1 \in Pipe!Stages
  BY PipeNumbers DEF Pipe!Stages
<1> QED
  BY <1>1, <1>2, <1>8, <1>9

-----------------------------------------------------------------------------
\* The packet's flow takes its slot of the first stage, with the count v.
LEMMA FirstStage ==
  ASSUME Pipe!PipeAssumption, NEW all \in SUBSET Keys, NEW came \in SUBSET all,
         NEW k \in all, NEW s, s = Pipe!PlaceOf(0, k),
         NEW c, PipeTypes(c), Seats(c, came), StopsAtOwn(c, all),
         NEW g, g \in [key : Keys \cup {0}, val : Nat], g.key = k,
         NEW e, PipeTypes(e), e[s] = g, \A r \in Pipe!Places \ {s} : e[r] = c[r]
  PROVE  Seats(e, all) /\ StopsAtOwn(e, all)
<1>1. k \in Keys /\ k # 0 /\ 0 \in Pipe!Stages
  BY PipeNumbers
<1>2. s \in Pipe!Places /\ s[1] = 0 /\ s[2] = PipeHash[0][k]
  BY <1>1, PipeNumbers DEF Pipe!PlaceOf
<1>3. PipeTypes(e) /\ e[s] = g /\ \A r \in Pipe!Places \ {s} : e[r] = c[r]
  OBVIOUS
<1>4. Seats(e, all)
  <2>1. ASSUME NEW r \in Pipe!Places
        PROVE  IF e[r].key = 0 THEN e[r].val = 0
               ELSE e[r].key \in all /\ r[2] = PipeHash[r[1]][e[r].key]
    <3>1. CASE r = s
      BY <1>1, <1>2, <1>3, <3>1
    <3>2. CASE r # s
      BY <1>3, <3>2 DEF Seats
    <3> QED
      BY <3>1, <3>2
  <2> QED
    BY <2>1 DEF Seats
<1>5. StopsAtOwn(e, all)
  <2>1. ASSUME NEW f \in Keys, NEW j \in Pipe!Stages, OwnSlot(j, f, all),
               NEW r \in Pipe!Places, r[1] > j
        PROVE  e[r].key # f
    <3>1. r # s
      BY <1>2, <2>1, PipeNumbers
    <3> QED
      BY <1>3, <2>1, <3>1 DEF StopsAtOwn
  <2> QED
    BY <2>1 DEF StopsAtOwn
<1> QED
  BY <1>4, <1>5

LEMMA PipeInserts ==
  ASSUME Pipe!PipeAssumption, PipeInvariant, NEW k \in Keys, Pipe!Insert(k),
         packets' = [packets EXCEPT ![k] = packets[k] + 1]
  PROVE  PipeInvariant'
<1>1. PICK c : c = pipe
  OBVIOUS
<1>2. PICK p : p = packets
  OBVIOUS
<1>3. PICK e : e = pipe'
  OBVIOUS
<1>4. PICK q : q = packets'
  OBVIOUS
<1>5. PICK came : came = Came(p)
  OBVIOUS
<1>6. PICK all : all = Came(q)
  OBVIOUS
<1>7. PICK s : s = Pipe!PlaceOf(0, k)
  OBVIOUS
<1>8. PICK h : h = c[s]
  OBVIOUS
<1>9. /\ PipeTypes(c) /\ p \in [Keys -> Nat] /\ Seats(c, came) /\ StopsAtOwn(c, came)
      /\ \A f \in Keys :
           /\ SumHeld(c, f) <= p[f]
           /\ (\E i \in Pipe!Stages : OwnSlot(i, f, came)) => SumHeld(c, f) = p[f]
  BY <1>1, <1>2, <1>5 DEF PipeInvariant, PipeHolds
<1>10. q \in [Keys -> Nat] /\ \A f \in Keys : q[f] = p[f] + (IF k = f THEN 1 ELSE 0)
  BY <1>2, <1>4, <1>9
<1>11. came \in SUBSET all /\ all \in SUBSET Keys /\ k \in all
  <2>1. ASSUME NEW f \in Keys PROVE (p[f] > 0 => q[f] > 0) /\ (f = k => q[f] > 0)
    BY <1>9, <1>10
  <2>2. \A f \in came : f \in Keys /\ p[f] > 0
    BY <1>5 DEF Came
  <2>3. \A f \in Keys : q[f] > 0 => f \in all
    BY <1>6 DEF Came
  <2>4. all \in SUBSET Keys
    BY <1>6 DEF Came
  <2>5. \A f \in came : f \in all
    BY <2>1, <2>2, <2>3
  <2>6. k \in all
    BY <2>1, <2>3
  <2> QED
    BY <2>4, <2>5, <2>6
<1>12. \A i \in Pipe!Stages, f \in Keys : OwnSlot(i, f, all) => OwnSlot(i, f, came)
  BY <1>11 DEF OwnSlot
<1>13. StopsAtOwn(c, all)
  BY <1>9, <1>12 DEF StopsAtOwn
<1>14. s \in Pipe!Places /\ s = <<0, PipeHash[0][k]>> /\ s[1] = 0 /\ s[2] = PipeHash[0][k]
  BY <1>7, PipeNumbers DEF Pipe!PlaceOf
<1>15. /\ h \in [key : Keys \cup {0}, val : Nat] /\ h.key \in Keys \cup {0} /\ h.val \in Nat
       /\ h.val > 0 => h.key # 0
       /\ h.key # 0 => h.key \in came /\ PipeHash[0][h.key] = PipeHash[0][k]
  BY <1>8, <1>9, <1>14 DEF PipeTypes, Seats
\* What is left to show: each sum goes up with the packets, or less.
<1>16. ASSUME PipeTypes(e), Seats(e, all), StopsAtOwn(e, all),
              \A f \in Keys :
                /\ SumHeld(e, f) <= SumHeld(c, f) + (IF k = f THEN 1 ELSE 0)
                /\ (\E i \in Pipe!Stages : OwnSlot(i, f, all)) =>
                     SumHeld(e, f) = SumHeld(c, f) + (IF k = f THEN 1 ELSE 0)
       PROVE  PipeHolds(e, q)
  <2>1. ASSUME NEW f \in Keys
        PROVE  /\ SumHeld(e, f) <= q[f]
               /\ (\E i \in Pipe!Stages : OwnSlot(i, f, all)) => SumHeld(e, f) = q[f]
    <3>1. SumHeld(c, f) \in Nat /\ SumHeld(e, f) \in Nat /\ p[f] \in Nat
      BY <1>9, <1>16, HeldIsNatural
    <3>2. SumHeld(e, f) <= q[f]
      BY <1>9, <1>10, <1>16, <3>1
    <3>3. ASSUME NEW i \in Pipe!Stages, OwnSlot(i, f, all) PROVE SumHeld(e, f) = q[f]
      BY <1>9, <1>10, <1>12, <1>16, <3>1, <3>3
    <3> QED
      BY <3>2, <3>3
  <2> QED
    BY <1>6, <1>10, <1>16, <2>1 DEF PipeHolds
<1>17. CASE h.key = k
  <2>1. PICK g : g = [h EXCEPT !.val = h.val + 1]
    OBVIOUS
  <2>2. g \in [key : Keys \cup {0}, val : Nat] /\ g.key = k /\ g.val = h.val + 1
    BY <1>15, <1>17, <2>1
  <2>3. e = [c EXCEPT ![s] = g]
    BY <1>1, <1>3, <1>7, <1>8, <1>17, <2>1 DEF Pipe!Insert
  <2>4. /\ PipeTypes(e) /\ Seats(e, all) /\ StopsAtOwn(e, all)
        /\ \A f \in Keys :
             /\ SumHeld(c, f) \in Nat /\ SumHeld(e, f) \in Nat
             /\ SumHeld(e, f) = SumHeld(c, f) - (IF c[s].key = f THEN c[s].val ELSE 0)
                                              + (IF k = f THEN g.val ELSE 0)
    <3>1. PipeTypes(e) /\ e[s] = g /\ \A r \in Pipe!Places \ {s} : e[r] = c[r]
      BY <1>9, <1>14, <2>2, <2>3 DEF PipeTypes
    <3>2. Seats(e, all) /\ StopsAtOwn(e, all)
      BY <1>7, <1>9, <1>11, <1>13, <2>2, FirstStage, <3>1
    <3>3. ASSUME NEW f \in Keys
          PROVE  /\ SumHeld(c, f) \in Nat /\ SumHeld(e, f) \in Nat
                 /\ SumHeld(e, f) = SumHeld(c, f) - (IF c[s].key = f THEN c[s].val ELSE 0)
                                                  + (IF k = f THEN g.val ELSE 0)
      <4>1. /\ SumHeld(c, f) \in Nat /\ SumHeld(e, f) \in Nat
            /\ SumHeld(e, f) = SumHeld(c, f) - (IF c[s].key = f THEN c[s].val ELSE 0)
                                             + (IF e[s].key = f THEN e[s].val ELSE 0)
        BY <1>9, <1>14, <3>1, HeldChange
      <4> QED
        BY <2>2, <3>1, <4>1
    <3> QED
      BY <3>1, <3>2, <3>3
  <2>5. \A f \in Keys : SumHeld(e, f) = SumHeld(c, f) + (IF k = f THEN 1 ELSE 0)
    BY <1>8, <1>15, <1>17, <2>2, <2>4
  <2>6. \A f \in Keys : SumHeld(e, f) <= SumHeld(c, f) + (IF k = f THEN 1 ELSE 0)
    BY <2>4, <2>5
  <2> QED
    BY <1>3, <1>4, <1>16, <2>4, <2>5, <2>6 DEF PipeInvariant
<1>18. CASE h.key # k /\ h.val = 0
  <2>1. PICK g : g = [key |-> k, val |-> 1]
    OBVIOUS
  <2>2. g \in [key : Keys \cup {0}, val : Nat] /\ g.key = k /\ g.val = 1
    BY <2>1
  <2>3. e = [c EXCEPT ![s] = g]
    BY <1>1, <1>3, <1>7, <1>8, <1>18, <2>1 DEF Pipe!Insert
  <2>4. /\ PipeTypes(e) /\ Seats(e, all) /\ StopsAtOwn(e, all)
        /\ \A f \in Keys :
             /\ SumHeld(c, f) \in Nat /\ SumHeld(e, f) \in Nat
             /\ SumHeld(e, f) = SumHeld(c, f) - (IF c[s].key = f THEN c[s].val ELSE 0)
                                              + (IF k = f THEN g.val ELSE 0)
    <3>1. PipeTypes(e) /\ e[s] = g /\ \A r \in Pipe!Places \ {s} : e[r] = c[r]
      BY <1>9, <1>14, <2>2, <2>3 DEF PipeTypes
    <3>2. Seats(e, all) /\ StopsAtOwn(e, all)
      BY <1>7, <1>9, <1>11, <1>13, <2>2, FirstStage, <3>1
    <3>3. ASSUME NEW f \in Keys
          PROVE  /\ SumHeld(c, f) \in Nat /\ SumHeld(e, f) \in Nat
                 /\ SumHeld(e, f) = SumHeld(c, f) - (IF c[s].key = f THEN c[s].val ELSE 0)
                                                  + (IF k = f THEN g.val ELSE 0)
      <4>1. /\ SumHeld(c, f) \in Nat /\ SumHeld(e, f) \in Nat
            /\ SumHeld(e, f) = SumHeld(c, f) - (IF c[s].key = f THEN c[s].val ELSE 0)
                                             + (IF e[s].key = f THEN e[s].val ELSE 0)
        BY <1>9, <1>14, <3>1, HeldChange
      <4> QED
        BY <2>2, <3>1, <4>1
    <3> QED
      BY <3>1, <3>2, <3>3
  <2>5. \A f \in Keys : SumHeld(e, f) = SumHeld(c, f) + (IF k = f THEN 1 ELSE 0)
    BY <1>8, <1>18, <2>2, <2>4
  <2>6. \A f \in Keys : SumHeld(e, f) <= SumHeld(c, f) + (IF k = f THEN 1 ELSE 0)
    BY <2>4, <2>5
  <2> QED
    BY <1>3, <1>4, <1>16, <2>4, <2>5, <2>6 DEF PipeInvariant
<1>19. CASE h.key # k /\ h.val # 0
  <2>1. PICK g : g = [key |-> k, val |-> 1]
    OBVIOUS
  <2>2. g \in [key : Keys \cup {0}, val : Nat] /\ g.key = k /\ g.val = 1
    BY <2>1
  <2>3. PICK x : x = h.key
    OBVIOUS
  <2>4. PICK y : y = h.val
    OBVIOUS
  <2>5. /\ x \in came /\ x \in Keys /\ y \in Nat /\ y > 0 /\ x # k
        /\ PipeHash[0][x] = PipeHash[0][k]
    BY <1>11, <1>15, <1>19, <2>3, <2>4
  <2>6. PICK w : w = Pipe!Work(x, y)
    OBVIOUS
  <2>7. e = [w EXCEPT ![s] = g]
    BY <1>1, <1>3, <1>7, <1>8, <1>19, <2>1, <2>3, <2>4, <2>6 DEF Pipe!Insert
  <2>8. PICK from : from = [pipe |-> pipe, x |-> x, y |-> y]
    OBVIOUS
  <2>9. from.pipe = c /\ from.x = x /\ from.y = y
    BY <1>1, <2>8
  <2>10. OnTheWay(from, 0, from, came, all)
    <3>1. ASSUME NEW j \in Pipe!Stages, OwnSlot(j, x, all) PROVE j > 0
      <4>1. j # 0
        BY <1>11, <2>5, <3>1 DEF OwnSlot
      <4> QED
        BY <4>1, PipeNumbers
    <3> QED
      BY <1>9, <1>13, <2>5, <2>9, <3>1 DEF OnTheWay
  <2>11. PICK t : t.pipe = w /\ OnTheWay(t, PipeStages - 1, from, came, all)
    BY <1>11, <2>5, <2>6, <2>8, <2>10, PassesThrough
  <2>12. /\ PipeTypes(w) /\ Seats(w, came) /\ StopsAtOwn(w, all) /\ w[s] = h
         /\ t.y \in Nat
         /\ t.y > 0 => \A j \in Pipe!Stages : OwnSlot(j, t.x, all) => j > PipeStages - 1
         /\ \A f \in Keys : SumHeld(w, f) + (IF t.x = f THEN t.y ELSE 0)
                              = SumHeld(c, f) + (IF x = f THEN y ELSE 0)
    BY <1>8, <1>14, <2>9, <2>11 DEF OnTheWay
  <2>13. /\ PipeTypes(e) /\ Seats(e, all) /\ StopsAtOwn(e, all)
         /\ \A f \in Keys :
              /\ SumHeld(w, f) \in Nat /\ SumHeld(e, f) \in Nat
              /\ SumHeld(e, f) = SumHeld(w, f) - (IF w[s].key = f THEN w[s].val ELSE 0)
                                               + (IF k = f THEN g.val ELSE 0)
    <3>1. PipeTypes(e) /\ e[s] = g /\ \A r \in Pipe!Places \ {s} : e[r] = w[r]
      BY <1>14, <2>2, <2>7, <2>12 DEF PipeTypes
    <3>2. Seats(e, all) /\ StopsAtOwn(e, all)
      BY <1>7, <1>11, <2>2, <2>12, FirstStage, <3>1
    <3>3. ASSUME NEW f \in Keys
          PROVE  /\ SumHeld(w, f) \in Nat /\ SumHeld(e, f) \in Nat
                 /\ SumHeld(e, f) = SumHeld(w, f) - (IF w[s].key = f THEN w[s].val ELSE 0)
                                                  + (IF k = f THEN g.val ELSE 0)
      <4>1. /\ SumHeld(w, f) \in Nat /\ SumHeld(e, f) \in Nat
            /\ SumHeld(e, f) = SumHeld(w, f) - (IF w[s].key = f THEN w[s].val ELSE 0)
                                             + (IF e[s].key = f THEN e[s].val ELSE 0)
        BY <2>12, <1>14, <3>1, HeldChange
      <4> QED
        BY <2>2, <3>1, <4>1
    <3> QED
      BY <3>1, <3>2, <3>3
  <2>14. \A f \in Keys : SumHeld(c, f) \in Nat
    BY <1>9, HeldIsNatural
  <2>15. \A f \in Keys : SumHeld(e, f) = SumHeld(w, f) - (IF x = f THEN y ELSE 0)
                                                       + (IF k = f THEN 1 ELSE 0)
    BY <2>2, <2>3, <2>4, <2>12, <2>13
  <2>16. \A f \in Keys : SumHeld(e, f) = SumHeld(c, f) - (IF t.x = f THEN t.y ELSE 0)
                                                       + (IF k = f THEN 1 ELSE 0)
    BY <2>5, <2>12, <2>13, <2>14, <2>15
  <2>17. \A f \in Keys : SumHeld(e, f) <= SumHeld(c, f) + (IF k = f THEN 1 ELSE 0)
    BY <2>12, <2>14, <2>16
  <2>18. ASSUME NEW f \in Keys, NEW i \in Pipe!Stages, OwnSlot(i, f, all)
         PROVE  SumHeld(e, f) = SumHeld(c, f) + (IF k = f THEN 1 ELSE 0)
    <3>1. ~(i > PipeStages - 1)
      BY PipeNumbers
    <3>2. t.x = f => t.y = 0
      BY <2>12, <2>18, <3>1
    <3> QED
      BY <2>14, <2>16, <3>2
  <2> QED
    BY <1>3, <1>4, <1>16, <2>13, <2>17, <2>18 DEF PipeInvariant
<1> QED
  BY <1>17, <1>18, <1>19

LEMMA PipeStarts ==
  ASSUME Pipe!PipeAssumption, Pipe!Init, packets = [k \in Keys |-> 0]
  PROVE  PipeInvariant
<1>1. /\ PipeTypes(pipe) /\ packets \in [Keys -> Nat]
      /\ \A s \in Pipe!Places : pipe[s].key = 0 /\ pipe[s].val = 0
  BY DEF Pipe!Init, PipeTypes
<1>2. Seats(pipe, Came(packets)) /\ StopsAtOwn(pipe, Came(packets))
  BY <1>1, PipeNumbers DEF Seats, StopsAtOwn
<1>3. ASSUME NEW k \in Keys PROVE SumHeld(pipe, k) = 0 /\ packets[k] = 0
  <2>1. PICK f : f = HeldOf(pipe, k)
    OBVIOUS
  <2>2. \A s \in Pipe!Places : f[s] = 0
    BY <1>1, <2>1 DEF HeldOf
  <2>3. SumFunctionOnSet(f, Pipe!Places) = 0
    BY <2>2, PipeNumbers, SumZero
  <2> QED
    BY <2>1, <2>3 DEF SumHeld
<1> QED
  BY <1>1, <1>2, <1>3 DEF PipeInvariant, PipeHolds

\* The sums of the instance are those of SumLemmas.
LEMMA PipeSums ==
  ASSUME NEW f, NEW S
  PROVE  Pipe!SumFunctionOnSet(f, S) = SumFunctionOnSet(f, S)
  BY DEF Pipe!SumFunctionOnSet, Pipe!FoldFunctionOnSet, Pipe!MapThenFoldSet,
         SumFunctionOnSet, FoldFunctionOnSet, MapThenFoldSet

LEMMA PipeInvariantReports ==
  ASSUME Pipe!PipeAssumption, PipeInvariant
  PROVE  Pipe!PipeReports
<1>1. ASSUME NEW k \in Keys PROVE Pipe!Reported(k) = SumHeld(pipe, k)
  <2>1. PICK f : f = HeldOf(pipe, k)
    OBVIOUS
  <2>2. Pipe!Reported(k) = SumFunctionOnSet(f, DOMAIN f)
    <3>1. Pipe!Reported(k) = Pipe!SumFunctionOnSet(f, DOMAIN f)
      BY <2>1 DEF Pipe!Reported, HeldOf, Pipe!SumFunction
    <3> QED
      BY <3>1, PipeSums
  <2>3. DOMAIN f = Pipe!Places
    BY <2>1 DEF HeldOf
  <2> QED
    BY <2>1, <2>2, <2>3 DEF SumHeld
<1>2. ASSUME NEW k \in Keys, Pipe!AloneSomewhere(k)
      PROVE  \E i \in Pipe!Stages : OwnSlot(i, k, Came(packets))
  BY <1>2 DEF Pipe!AloneSomewhere, OwnSlot, Came
<1> QED
  BY <1>1, <1>2 DEF PipeInvariant, PipeHolds, Pipe!PipeReports

\* HashPipe never reports more of a flow than came, and all of it when the
\* flow has a slot to itself in some stage, for any number of stages and
\* slots, any hash functions and any trace.
THEOREM PipeReportsHolds == ArraySpec => []PipeReports
<1> DEFINE I == program = "hashpipe" => PipeInvariant
<1>0. Pipe!PipeAssumption
  BY ArrayAssumption
<1>1. ArrayInit => I
  BY <1>0, PipeStarts DEF ArrayInit
<1>2. I /\ [ArrayNext]_arrayVars => I'
  <2> SUFFICES ASSUME I, [ArrayNext]_arrayVars, program' = "hashpipe" PROVE PipeInvariant'
    OBVIOUS
  <2>1. ASSUME NEW k \in Keys, ArrayInsert(k) PROVE PipeInvariant'
    <3>1. program = "hashpipe" /\ Pipe!Insert(k) /\ packets' = [packets EXCEPT ![k] = @ + 1]
      BY <2>1 DEF ArrayInsert
    <3> QED
      BY <1>0, <3>1, PipeInserts
  <2>2. ASSUME UNCHANGED arrayVars PROVE PipeInvariant'
    BY <2>2 DEF arrayVars, PipeInvariant
  <2> QED
    BY <2>1, <2>2 DEF ArrayNext
<1>3. I => PipeReports
  BY <1>0, PipeInvariantReports DEF PipeReports
<1> QED
  BY <1>1, <1>2, <1>3, PTL DEF ArraySpec
-----------------------------------------------------------------------------
(***************************************************************************)
(* ElephantPart4                                                           *)
(***************************************************************************)
CellTypes == [P4!CellsOf -> [key : Keys \cup {0}, val : Nat]]
VoteTypes == [P4!CellsOf -> Nat]

\* A cell with a flow has counted it, once for a vote at the most.
SoundCells(b, v) ==
  \A c \in P4!CellsOf : (b[c].key = 0 <=> b[c].val = 0) /\ b[c].val <= v[c]

Resides(b, k) == \E i \in P4!Stages : b[P4!Cell(k, i)].key = k

ValOf(b) == [c \in P4!CellsOf |-> b[c].val]

InCells(b) == SumFunctionOnSet(ValOf(b), P4!CellsOf)

P4Holds(b, v, h, r, p) ==
  /\ b \in CellTypes /\ v \in VoteTypes /\ r \in Nat /\ p \in [Keys -> Nat]
  /\ SoundCells(b, v)
  /\ \A k \in Came(p) : Resides(b, k) \/ k \in h
  /\ InCells(b) >= SumFunctionOnSet(p, Keys) - r
  /\ \A c \in P4!CellsOf : v[c] <= SumFunctionOnSet(p, Keys)

P4Invariant == P4Holds(buckets, sentry, handed, rejected, packets)

LEMMA CellNumbers ==
  ASSUME P4!P4Assumption
  PROVE  /\ CEIL_PER_BUCKET \in Nat /\ 0 \notin Keys
         /\ IsFiniteSet(Keys) /\ IsFiniteSet(P4!CellsOf)
         /\ \A i : i \in P4!Stages <=> i \in Nat /\ i < CEIL_PER_BUCKET
         /\ \A i \in P4!Stages, k \in Keys :
              P4!Cell(k, i) \in P4!CellsOf /\ P4!Cell(k, i)[2] = i
         /\ \A c \in P4!CellsOf : c[2] \in P4!Stages
<1>1. CEIL_PER_BUCKET \in Nat /\ bucket_num \in Nat /\ 0 \notin Keys /\ IsFiniteSet(Keys)
      /\ CEIL_PER_BUCKET <= bucket_num
  BY DEF P4!P4Assumption, P4!IsFiniteSet, IsFiniteSet
<1>2. P4!Stages = 0 .. CEIL_PER_BUCKET - 1
  BY DEF P4!Stages
<1>3. \A i : i \in P4!Stages <=> i \in Nat /\ i < CEIL_PER_BUCKET
  BY <1>1, <1>2
<1>4. IsFiniteSet(P4!CellsOf)
  <2>1. IsFiniteSet(P4!Stages) /\ IsFiniteSet(0 .. bucket_num - 1)
    BY <1>1, <1>2, FS_Interval
  <2>2. IsFiniteSet((0 .. bucket_num - 1) \X P4!Stages)
    BY <2>1, FS_Product
  <2> QED
    BY <2>2, FS_Subset DEF P4!CellsOf
<1>5. ASSUME NEW i \in P4!Stages, NEW k \in Keys
      PROVE  P4!Cell(k, i) \in P4!CellsOf /\ P4!Cell(k, i)[2] = i
  <2>1. PICK n : n = bucket_num - i
    OBVIOUS
  <2>2. PICK a : a = PosOf[k]
    OBVIOUS
  <2>3. n \in Nat /\ n > 0 /\ n <= bucket_num /\ a \in Nat
    BY <1>1, <1>3, <2>1, <2>2 DEF P4!P4Assumption
  <2>4. a % n \in 0 .. n - 1
    BY <2>3
  <2>5. P4!Cell(k, i) = <<a % n, i>>
    BY <2>1, <2>2 DEF P4!Cell
  <2>6. a % n \in 0 .. bucket_num - 1 /\ a % n < n
    BY <1>1, <2>3, <2>4
  <2>7. <<a % n, i>> \in (0 .. bucket_num - 1) \X P4!Stages
    BY <2>6
  <2> QED
    BY <2>1, <2>5, <2>6, <2>7 DEF P4!CellsOf
<1>6. \A c \in P4!CellsOf : c[2] \in P4!Stages
  BY DEF P4!CellsOf
<1> QED
  BY <1>1, <1>3, <1>4, <1>5, <1>6

\* One count more.
LEMMA CellChange ==
  ASSUME P4!P4Assumption, NEW b \in CellTypes, NEW e \in CellTypes,
         NEW c \in P4!CellsOf, \A x \in P4!CellsOf \ {c} : e[x] = b[x]
  PROVE  /\ InCells(b) \in Nat /\ InCells(e) \in Nat
         /\ InCells(e) = InCells(b) - b[c].val + e[c].val
<1>1. PICK f : f = ValOf(b)
  OBVIOUS
<1>2. PICK g : g = ValOf(e)
  OBVIOUS
<1>3. \A x \in P4!CellsOf : f[x] \in Nat /\ f[x] = b[x].val
  BY <1>1 DEF ValOf, CellTypes
<1>4. \A x \in P4!CellsOf : g[x] \in Nat /\ g[x] = e[x].val
  BY <1>2 DEF ValOf, CellTypes
<1>5. \A x \in P4!CellsOf \ {c} : g[x] = f[x]
  BY <1>3, <1>4
<1>6. IsFiniteSet(P4!CellsOf)
  BY CellNumbers
<1>7. \A x \in P4!CellsOf : f[x] \in Int /\ g[x] \in Int
  BY <1>3, <1>4
<1>8. SumFunctionOnSet(g, P4!CellsOf) = SumFunctionOnSet(f, P4!CellsOf) - f[c] + g[c]
  BY <1>5, <1>6, <1>7, SumChange
<1>9. SumFunctionOnSet(f, P4!CellsOf) \in Nat /\ SumFunctionOnSet(g, P4!CellsOf) \in Nat
  BY <1>3, <1>4, <1>6, SumNat
<1> QED
  BY <1>1, <1>2, <1>3, <1>4, <1>8, <1>9 DEF InCells
-----------------------------------------------------------------------------
\* The loop over the stages.
TryStage(s, i) == IF s.ret = 0 THEN s ELSE P4!Stage(s, i)

Start(k) == [buckets |-> buckets, sentry |-> sentry, key |-> k, initial |-> TRUE, ret |-> -1]

Tries(r, n, k) ==
  r = [i \in 0 .. n |-> IF i = 0 THEN Start(k) ELSE TryStage(r[i - 1], i - 1)]

LEMMA TriesExist ==
  ASSUME NEW k
  PROVE  \A n \in Nat : \E r : Tries(r, n, k)
<1> DEFINE Good == {n \in Nat : \E r : Tries(r, n, k)}
<1>1. 0 \in Good
  <2>1. PICK r : r = [i \in 0 .. 0 |-> Start(k)]
    OBVIOUS
  <2>2. \A i \in 0 .. 0 : i = 0
    OBVIOUS
  <2>3. Tries(r, 0, k)
    BY <2>1, <2>2 DEF Tries
  <2> QED
    BY <2>3
<1>2. ASSUME NEW n \in Nat, n \in Good PROVE n + 1 \in Good
  <2>1. PICK r : Tries(r, n, k)
    BY <1>2
  <2>2. PICK z : z = TryStage(r[n], n)
    OBVIOUS
  <2>3. PICK q : q = [i \in 0 .. n + 1 |-> IF i = n + 1 THEN z ELSE r[i]]
    OBVIOUS
  <2>4. \A i \in 0 .. n : r[i] = IF i = 0 THEN Start(k) ELSE TryStage(r[i - 1], i - 1)
    BY <2>1 DEF Tries
  <2>5. \A i \in 0 .. n : i \in 0 .. n + 1 /\ i # n + 1 /\ (i # 0 => i - 1 \in 0 .. n)
    OBVIOUS
  <2>6. \A i \in 0 .. n : q[i] = r[i]
    BY <2>3, <2>5
  <2>7. n + 1 \in 0 .. n + 1 /\ n + 1 # 0 /\ (n + 1) - 1 = n /\ n \in 0 .. n
    OBVIOUS
  <2>8. q[n + 1] = TryStage(q[(n + 1) - 1], (n + 1) - 1)
    BY <2>2, <2>3, <2>6, <2>7
  <2>9. \A i \in 0 .. n : q[i] = IF i = 0 THEN Start(k) ELSE TryStage(q[i - 1], i - 1)
    BY <2>4, <2>5, <2>6
  <2>10. \A i \in 0 .. n + 1 : i \in 0 .. n \/ i = n + 1
    OBVIOUS
  <2>11. \A i \in 0 .. n + 1 : q[i] = IF i = 0 THEN Start(k) ELSE TryStage(q[i - 1], i - 1)
    BY <2>7, <2>8, <2>9, <2>10
  <2>12. q = [i \in 0 .. n + 1 |-> q[i]]
    BY <2>3
  <2>13. Tries(q, n + 1, k)
    BY <2>11, <2>12 DEF Tries
  <2> QED
    BY <2>13
<1>3. Nat \subseteq Good
  <2> HIDE DEF Good
  <2> QED
    BY <1>1, <1>2, NumberInduction
<1> QED
  BY <1>3

Returned(s) == IF s.ret = 0 THEN s ELSE [s EXCEPT !.ret = IF s.initial THEN 2 ELSE 1]

LEMMA CallTries ==
  ASSUME P4!P4Assumption, NEW k
  PROVE  \E r : /\ Tries(r, CEIL_PER_BUCKET, k)
                /\ P4!Call(k) = Returned(r[CEIL_PER_BUCKET])
<1> DEFINE Is(r) == r = [n \in 0 .. CEIL_PER_BUCKET |->
                           IF n = 0 THEN [buckets |-> buckets, sentry |-> sentry, key |-> k,
                                          initial |-> TRUE, ret |-> -1]
                           ELSE LET s == r[n - 1] IN
                                IF s.ret = 0 THEN s ELSE P4!Stage(s, n - 1)]
<1>1. CEIL_PER_BUCKET \in Nat
  BY CellNumbers
<1>2. \A r : Is(r) <=> Tries(r, CEIL_PER_BUCKET, k)
  BY DEF Tries, TryStage, Start
<1>3. PICK r : Is(r)
  BY <1>1, <1>2, TriesExist
<1>4. PICK q : q = CHOOSE s : Is(s)
  OBVIOUS
<1>5. Is(q)
  <2> HIDE DEF Is
  <2> QED
    BY <1>3, <1>4
<1>6. P4!Call(k) = Returned(q[CEIL_PER_BUCKET])
  BY <1>4 DEF P4!Call, Returned
<1> QED
  BY <1>2, <1>5, <1>6
-----------------------------------------------------------------------------
P4States == [buckets : CellTypes, sentry : VoteTypes, key : Keys, initial : BOOLEAN, ret : {-1, 0}]

\* Every flow of came is in its place, was given to the light part or is the
\* one that goes on.
Followed(s, came) ==
  \A f \in came : Resides(s.buckets, f) \/ f \in handed \/ (s.ret = -1 /\ f = s.key)

\* No cell has had more than one vote, and none a stage ahead has had any.
VotedOnce(s, n) ==
  \A c \in P4!CellsOf : /\ s.sentry[c] <= sentry[c] + 1
                        /\ c[2] >= n => s.sentry[c] = sentry[c]

\* Only the packet's own flow, while it has found no cell, is not counted.
CountedOnce(s) ==
  InCells(s.buckets) >= InCells(buckets) + (IF s.initial /\ s.ret = -1 THEN 0 ELSE 1)

\* s is where the loop is, before stage n.
Moving(s, n, came) ==
  /\ s \in P4States /\ SoundCells(s.buckets, s.sentry)
  /\ Followed(s, came) /\ VotedOnce(s, n) /\ CountedOnce(s)

\* u is s with one more count in c, for the flow of s.
Counts1(s, u, c) ==
  /\ u.buckets[c] = [key |-> s.key, val |-> s.buckets[c].val + 1]
  /\ \A x \in P4!CellsOf \ {c} : u.buckets[x] = s.buckets[x]

Votes1(s, u, c) ==
  /\ u.sentry[c] = s.sentry[c] + 1
  /\ \A x \in P4!CellsOf \ {c} : u.sentry[x] = s.sentry[x]

\* The three ways through a stage.
Passed(s, u, c) ==
  /\ u.buckets = s.buckets /\ u.key = s.key /\ u.initial = s.initial /\ u.ret = s.ret

Found(s, u, c) ==
  /\ Counts1(s, u, c)
  /\ s.buckets[c].key = s.key \/ s.buckets[c].val = 0
  /\ u.key = s.key /\ u.initial = s.initial /\ u.ret = 0

TurnsOut(s, u, c) ==
  /\ Counts1(s, u, c)
  /\ s.buckets[c].val # 0
  /\ u.key = s.buckets[c].key /\ u.initial = FALSE /\ u.ret = -1

LEMMA StageWays ==
  ASSUME P4!P4Assumption, NEW s \in P4States, SoundCells(s.buckets, s.sentry), s.ret = -1,
         NEW i \in P4!Stages, NEW u, u = P4!Stage(s, i), NEW c, c = P4!Cell(s.key, i)
  PROVE  /\ u \in P4States /\ Votes1(s, u, c)
         /\ Passed(s, u, c) \/ Found(s, u, c) \/ TurnsOut(s, u, c)
<1>1. c \in P4!CellsOf
  BY CellNumbers DEF P4States
<1>2. PICK b : b = s.buckets
  OBVIOUS
<1>3. PICK v : v = s.sentry
  OBVIOUS
<1>4. PICK e : e = P4!Counted(s, c)
  OBVIOUS
<1>5. PICK w : w = P4!Voted(s, c)
  OBVIOUS
<1>6. /\ b \in CellTypes /\ v \in VoteTypes /\ s.key \in Keys /\ s.initial \in BOOLEAN
      /\ s = [buckets |-> b, sentry |-> v, key |-> s.key, initial |-> s.initial, ret |-> -1]
  BY <1>2, <1>3 DEF P4States
<1>7. w \in VoteTypes /\ w[c] = v[c] + 1 /\ \A x \in P4!CellsOf \ {c} : w[x] = v[x]
  BY <1>1, <1>3, <1>5, <1>6 DEF P4!Voted, VoteTypes
<1>8. PICK g : g = [key |-> s.key, val |-> b[c].val + 1]
  OBVIOUS
<1>9. e = [b EXCEPT ![c] = g]
  BY <1>2, <1>4, <1>8 DEF P4!Counted
<1>10. b[c] \in [key : Keys \cup {0}, val : Nat] /\ g \in [key : Keys \cup {0}, val : Nat]
  BY <1>1, <1>6, <1>8 DEF CellTypes
<1>11. e \in CellTypes /\ e[c] = g /\ \A x \in P4!CellsOf \ {c} : e[x] = b[x]
  BY <1>1, <1>6, <1>9, <1>10 DEF CellTypes
<1>12. b[c].key = 0 <=> b[c].val = 0
  BY <1>1, <1>2 DEF SoundCells
<1>13. CASE b[c].key = s.key \/ b[c].val = 0
  <2>1. u = [buckets |-> e, sentry |-> w, key |-> s.key, initial |-> s.initial, ret |-> 0]
    BY <1>2, <1>4, <1>5, <1>13 DEF P4!Stage
  <2>2. u \in P4States
    BY <2>1, <1>6, <1>7, <1>11 DEF P4States
  <2>3. Votes1(s, u, c)
    BY <2>1, <1>3, <1>7 DEF Votes1
  <2>4. Found(s, u, c)
    BY <2>1, <1>2, <1>8, <1>11, <1>13 DEF Found, Counts1
  <2> QED
    BY <2>2, <2>3, <2>4
<1>14. CASE ~(b[c].key = s.key \/ b[c].val = 0) /\ ~P4!JudgeIfSwap(b[c].val, w[c])
  <2>1. u = [s EXCEPT !.sentry = w]
    BY <1>2, <1>5, <1>14 DEF P4!Stage
  <2>2. u = [buckets |-> b, sentry |-> w, key |-> s.key, initial |-> s.initial, ret |-> -1]
    BY <2>1, <1>6
  <2>3. u \in P4States
    BY <2>2, <1>6, <1>7 DEF P4States
  <2>4. Votes1(s, u, c)
    BY <2>2, <1>3, <1>7 DEF Votes1
  <2>5. Passed(s, u, c)
    BY <2>2, <1>2 DEF Passed
  <2> QED
    BY <2>3, <2>4, <2>5
<1>15. CASE ~(b[c].key = s.key \/ b[c].val = 0) /\ P4!JudgeIfSwap(b[c].val, w[c])
  <2>1. u = [buckets |-> e, sentry |-> w, key |-> b[c].key, initial |-> FALSE, ret |-> -1]
    BY <1>2, <1>4, <1>5, <1>15 DEF P4!Stage
  <2>2. b[c].key \in Keys
    BY <1>10, <1>12, <1>15
  <2>3. u \in P4States
    BY <2>1, <2>2, <1>6, <1>7, <1>11 DEF P4States
  <2>4. Votes1(s, u, c)
    BY <2>1, <1>3, <1>7 DEF Votes1
  <2>5. TurnsOut(s, u, c)
    BY <2>1, <1>2, <1>8, <1>11, <1>15 DEF TurnsOut, Counts1
  <2> QED
    BY <2>3, <2>4, <2>5
<1> QED
  BY <1>13, <1>14, <1>15

LEMMA StageCells ==
  ASSUME P4!P4Assumption, NEW s \in P4States, SoundCells(s.buckets, s.sentry),
         NEW u \in P4States, NEW c \in P4!CellsOf, Votes1(s, u, c),
         Passed(s, u, c) \/ Counts1(s, u, c)
  PROVE  SoundCells(u.buckets, u.sentry)
<1> SUFFICES ASSUME NEW x \in P4!CellsOf
             PROVE  (u.buckets[x].key = 0 <=> u.buckets[x].val = 0)
                    /\ u.buckets[x].val <= u.sentry[x]
  BY DEF SoundCells
<1>1. /\ s.buckets[x].val \in Nat /\ s.sentry[x] \in Nat /\ s.key \in Keys /\ 0 \notin Keys
      /\ u.sentry[x] \in Nat
  BY CellNumbers DEF P4States, CellTypes, VoteTypes
<1>2. (s.buckets[x].key = 0 <=> s.buckets[x].val = 0) /\ s.buckets[x].val <= s.sentry[x]
  BY DEF SoundCells
<1>3. CASE x # c
  <2>1. u.buckets[x] = s.buckets[x] /\ u.sentry[x] = s.sentry[x]
    BY <1>3 DEF Passed, Counts1, Votes1
  <2> QED
    BY <2>1, <1>2
<1>4. CASE x = c /\ Passed(s, u, c)
  <2>1. u.buckets[x] = s.buckets[x] /\ u.sentry[x] = s.sentry[x] + 1
    BY <1>4 DEF Passed, Votes1
  <2> QED
    BY <2>1, <1>1, <1>2
<1>5. CASE x = c /\ Counts1(s, u, c)
  <2>1. /\ u.buckets[x].key = s.key /\ u.buckets[x].val = s.buckets[x].val + 1
        /\ u.sentry[x] = s.sentry[x] + 1
    BY <1>5 DEF Counts1, Votes1
  <2> QED
    BY <2>1, <1>1, <1>2
<1> QED
  BY <1>3, <1>4, <1>5

LEMMA StageFollows ==
  ASSUME P4!P4Assumption, NEW s \in P4States, SoundCells(s.buckets, s.sentry), s.ret = -1,
         NEW came \in SUBSET Keys, Followed(s, came),
         NEW i \in P4!Stages, NEW u, NEW c, c = P4!Cell(s.key, i),
         Passed(s, u, c) \/ Found(s, u, c) \/ TurnsOut(s, u, c)
  PROVE  Followed(u, came)
<1>1. CASE Passed(s, u, c)
  BY <1>1 DEF Followed, Passed
<1>2. CASE Counts1(s, u, c)
  <2> SUFFICES ASSUME NEW f \in came, f \notin handed
               PROVE  Resides(u.buckets, f) \/ (u.ret = -1 /\ f = u.key)
    BY DEF Followed
  <2>1. c \in P4!CellsOf
    BY CellNumbers DEF P4States
  <2>2. CASE f = s.key
    <3>1. u.buckets[P4!Cell(f, i)].key = f
      BY <1>2, <2>2 DEF Counts1
    <3> QED
      BY <3>1 DEF Resides
  <2>3. CASE f # s.key
    <3>1. PICK j \in P4!Stages : s.buckets[P4!Cell(f, j)].key = f
      BY <2>3 DEF Followed, Resides
    <3>2. CASE P4!Cell(f, j) = c
      <4>1. s.buckets[c].key = f
        BY <3>1, <3>2
      <4>2. CASE Found(s, u, c)
        <5>1. s.buckets[c].val = 0
          BY <4>1, <4>2, <2>3 DEF Found
        <5>2. s.buckets[c].key = 0
          BY <5>1, <2>1 DEF SoundCells
        <5> QED
          BY <4>1, <5>2, CellNumbers
      <4>3. CASE TurnsOut(s, u, c)
        BY <4>1, <4>3 DEF TurnsOut
      <4>4. CASE Passed(s, u, c)
        BY <3>1, <4>4 DEF Passed, Resides
      <4> QED
        BY <4>2, <4>3, <4>4
    <3>3. CASE P4!Cell(f, j) # c
      <4>1. P4!Cell(f, j) \in P4!CellsOf
        BY CellNumbers
      <4>2. u.buckets[P4!Cell(f, j)] = s.buckets[P4!Cell(f, j)]
        BY <1>2, <3>3, <4>1 DEF Counts1
      <4> QED
        BY <3>1, <4>2 DEF Resides
    <3> QED
      BY <3>2, <3>3
  <2> QED
    BY <2>2, <2>3
<1> QED
  BY <1>1, <1>2 DEF Found, TurnsOut

LEMMA StageCounts ==
  ASSUME P4!P4Assumption, buckets \in CellTypes,
         NEW s \in P4States, s.ret = -1, CountedOnce(s),
         NEW u \in P4States, NEW c \in P4!CellsOf,
         Passed(s, u, c) \/ Found(s, u, c) \/ TurnsOut(s, u, c)
  PROVE  CountedOnce(u)
<1>1. CASE Passed(s, u, c)
  BY <1>1 DEF CountedOnce, Passed
<1>2. CASE Counts1(s, u, c)
  <2>1. s.buckets \in CellTypes /\ u.buckets \in CellTypes
    BY DEF P4States
  <2>2. \A x \in P4!CellsOf \ {c} : u.buckets[x] = s.buckets[x]
    BY <1>2 DEF Counts1
  <2>3. /\ InCells(s.buckets) \in Nat /\ InCells(u.buckets) \in Nat
        /\ InCells(u.buckets) = InCells(s.buckets) - s.buckets[c].val + u.buckets[c].val
    BY <2>1, <2>2, CellChange
  <2>4. s.buckets[c].val \in Nat /\ u.buckets[c].val = s.buckets[c].val + 1
    BY <1>2, <2>1 DEF Counts1, CellTypes
  <2>5. InCells(buckets) \in Nat
    <3>1. \A x \in P4!CellsOf \ {c} : buckets[x] = buckets[x]
      OBVIOUS
    <3> QED
      BY <3>1, CellChange
  <2>6. InCells(s.buckets) >= InCells(buckets) + (IF s.initial THEN 0 ELSE 1)
    BY DEF CountedOnce
  <2>7. InCells(u.buckets) >= InCells(buckets) + 1
    BY <2>3, <2>4, <2>5, <2>6
  <2>8. InCells(u.buckets) >= InCells(buckets) + (IF u.initial /\ u.ret = -1 THEN 0 ELSE 1)
    BY <2>3, <2>5, <2>7
  <2> QED
    BY <2>8 DEF CountedOnce
<1> QED
  BY <1>1, <1>2 DEF Found, TurnsOut

LEMMA StageMoves ==
  ASSUME P4!P4Assumption, buckets \in CellTypes, sentry \in VoteTypes,
         NEW i \in P4!Stages, NEW came \in SUBSET Keys, NEW s, Moving(s, i, came)
  PROVE  Moving(TryStage(s, i), i + 1, came)
<1>0. s \in P4States /\ i \in Nat /\ s.key \in Keys
  BY CellNumbers DEF Moving, P4States
<1>00. \A c \in P4!CellsOf : c[2] \in Nat
  BY CellNumbers
<1>1. CASE s.ret = 0
  <2>1. TryStage(s, i) = s
    BY <1>1 DEF TryStage
  <2>2. VotedOnce(s, i + 1)
    BY <1>0, <1>00 DEF Moving, VotedOnce
  <2> QED
    BY <2>1, <2>2 DEF Moving
<1>2. CASE s.ret = -1
  <2>1. PICK u : u = P4!Stage(s, i)
    OBVIOUS
  <2>2. PICK c : c = P4!Cell(s.key, i)
    OBVIOUS
  <2>3. c \in P4!CellsOf /\ c[2] = i
    BY <1>0, <2>2, CellNumbers
  <2>4. SoundCells(s.buckets, s.sentry) /\ Followed(s, came) /\ VotedOnce(s, i) /\ CountedOnce(s)
    BY DEF Moving
  <2>5. /\ u \in P4States /\ Votes1(s, u, c)
        /\ Passed(s, u, c) \/ Found(s, u, c) \/ TurnsOut(s, u, c)
    BY <1>0, <1>2, <2>1, <2>2, <2>4, StageWays
  <2>6. SoundCells(u.buckets, u.sentry)
    BY <1>0, <2>3, <2>4, <2>5, StageCells DEF Found, TurnsOut
  <2>7. Followed(u, came)
    BY <1>0, <1>2, <2>2, <2>4, <2>5, StageFollows
  <2>8. CountedOnce(u)
    BY <1>0, <1>2, <2>3, <2>4, <2>5, StageCounts
  <2>9. VotedOnce(u, i + 1)
    <3> SUFFICES ASSUME NEW x \in P4!CellsOf
                 PROVE  /\ u.sentry[x] <= sentry[x] + 1
                        /\ x[2] >= i + 1 => u.sentry[x] = sentry[x]
      BY DEF VotedOnce
    <3>1. /\ sentry[x] \in Nat /\ x[2] \in Nat /\ s.sentry[x] <= sentry[x] + 1
          /\ x[2] >= i => s.sentry[x] = sentry[x]
      BY <1>00, <2>4 DEF VotedOnce, VoteTypes
    <3>2. CASE x = c
      <4>1. u.sentry[x] = s.sentry[x] + 1 /\ x[2] = i
        BY <2>3, <2>5, <3>2 DEF Votes1
      <4> QED
        BY <1>0, <3>1, <4>1
    <3>3. CASE x # c
      <4>1. u.sentry[x] = s.sentry[x]
        BY <2>5, <3>3 DEF Votes1
      <4> QED
        BY <1>0, <3>1, <4>1
    <3> QED
      BY <3>2, <3>3
  <2>10. Moving(u, i + 1, came)
    BY <2>5, <2>6, <2>7, <2>8, <2>9 DEF Moving
  <2> QED
    BY <1>2, <2>1, <2>10 DEF TryStage
<1> QED
  BY <1>0, <1>1, <1>2 DEF P4States

LEMMA TriesMove ==
  ASSUME P4!P4Assumption, buckets \in CellTypes, sentry \in VoteTypes,
         NEW k \in Keys, NEW came \in SUBSET Keys, NEW r, Tries(r, CEIL_PER_BUCKET, k),
         Moving(Start(k), 0, came)
  PROVE  Moving(r[CEIL_PER_BUCKET], CEIL_PER_BUCKET, came)
<1> DEFINE Good == {n \in Nat : n <= CEIL_PER_BUCKET => Moving(r[n], n, came)}
<1>1. CEIL_PER_BUCKET \in Nat
  BY CellNumbers
<1>2. \A n \in 0 .. CEIL_PER_BUCKET :
        r[n] = IF n = 0 THEN Start(k) ELSE TryStage(r[n - 1], n - 1)
  BY DEF Tries
<1>3. 0 \in Good
  BY <1>1, <1>2
<1>4. ASSUME NEW n \in Nat, n \in Good PROVE n + 1 \in Good
  <2> SUFFICES ASSUME n + 1 <= CEIL_PER_BUCKET PROVE Moving(r[n + 1], n + 1, came)
    OBVIOUS
  <2>1. n + 1 \in 0 .. CEIL_PER_BUCKET /\ n + 1 # 0 /\ (n + 1) - 1 = n /\ n \in P4!Stages
    BY <1>1, CellNumbers
  <2>2. r[n + 1] = TryStage(r[n], n)
    BY <1>2, <2>1
  <2>3. Moving(r[n], n, came)
    BY <1>1, <1>4
  <2>4. PICK s : s = r[n]
    OBVIOUS
  <2> HIDE DEF Good
  <2>5. Moving(TryStage(s, n), n + 1, came)
    BY <2>1, <2>3, <2>4, StageMoves
  <2> QED
    BY <2>2, <2>4, <2>5
<1>5. Nat \subseteq Good
  <2> HIDE DEF Good
  <2> QED
    BY <1>3, <1>4, NumberInduction
<1> QED
  BY <1>1, <1>5
-----------------------------------------------------------------------------
LEMMA StartMoves ==
  ASSUME P4!P4Assumption, P4Invariant, NEW k \in Keys
  PROVE  Moving(Start(k), 0, Came(packets) \cup {k})
<1>1. /\ Start(k).buckets = buckets /\ Start(k).sentry = sentry /\ Start(k).key = k
      /\ Start(k).initial = TRUE /\ Start(k).ret = -1
  BY DEF Start
<1>2. buckets \in CellTypes /\ sentry \in VoteTypes /\ SoundCells(buckets, sentry)
  BY DEF P4Invariant, P4Holds
<1>3. Start(k) \in P4States
  BY <1>2 DEF Start, P4States
<1>4. Followed(Start(k), Came(packets) \cup {k})
  BY <1>1 DEF Followed, P4Invariant, P4Holds
<1>5. VotedOnce(Start(k), 0)
  BY <1>1, <1>2 DEF VotedOnce, VoteTypes
<1>6. InCells(buckets) \in Nat
  <2>1. \A c \in P4!CellsOf : ValOf(buckets)[c] \in Nat
    BY <1>2 DEF ValOf, CellTypes
  <2> QED
    BY <2>1, CellNumbers, SumNat DEF InCells
<1>7. CountedOnce(Start(k))
  BY <1>1, <1>6 DEF CountedOnce
<1> QED
  BY <1>1, <1>2, <1>3, <1>4, <1>5, <1>7 DEF Moving

LEMMA PacketMore ==
  ASSUME P4!P4Assumption, NEW p \in [Keys -> Nat], NEW k \in Keys,
         NEW q \in [Keys -> Nat], q[k] = p[k] + 1, \A j \in Keys \ {k} : q[j] = p[j]
  PROVE  /\ Came(q) = Came(p) \cup {k}
         /\ SumFunctionOnSet(p, Keys) \in Nat
         /\ SumFunctionOnSet(q, Keys) = SumFunctionOnSet(p, Keys) + 1
<1>2. Came(q) = Came(p) \cup {k}
  BY DEF Came
<1>3. IsFiniteSet(Keys)
  BY CellNumbers
<1>4. SumFunctionOnSet(p, Keys) \in Nat
  BY <1>3, SumNat
<1>5. \A j \in Keys : p[j] \in Int /\ q[j] \in Int
  OBVIOUS
<1>6. SumFunctionOnSet(q, Keys) = SumFunctionOnSet(p, Keys) - p[k] + q[k]
  BY <1>3, <1>5, SumChange
<1> QED
  BY <1>2, <1>4, <1>6

LEMMA P4Inserts ==
  ASSUME P4!P4Assumption, P4Invariant, NEW k \in Keys,
         P4!Insert(k), packets' = [packets EXCEPT ![k] = @ + 1]
  PROVE  P4Invariant'
<1> DEFINE came == Came(packets) \cup {k}
<1>1. /\ buckets \in CellTypes /\ sentry \in VoteTypes /\ rejected \in Nat
      /\ packets \in [Keys -> Nat]
      /\ InCells(buckets) >= SumFunctionOnSet(packets, Keys) - rejected
      /\ \A c \in P4!CellsOf : sentry[c] <= SumFunctionOnSet(packets, Keys)
  BY DEF P4Invariant, P4Holds
<1>2. PICK r : /\ Tries(r, CEIL_PER_BUCKET, k)
               /\ P4!Call(k) = Returned(r[CEIL_PER_BUCKET])
  BY CallTries
<1>3. PICK s : s = r[CEIL_PER_BUCKET]
  OBVIOUS
<1>4. came \in SUBSET Keys
  BY DEF Came
<1>5. Moving(s, CEIL_PER_BUCKET, came)
  BY <1>1, <1>2, <1>3, <1>4, StartMoves, TriesMove
<1>6. s \in P4States
  BY <1>5 DEF Moving
<1>7. PICK u : u = P4!Call(k)
  OBVIOUS
<1>8. /\ u.buckets = s.buckets /\ u.sentry = s.sentry /\ u.key = s.key
      /\ u.ret = IF s.ret = 0 THEN 0 ELSE IF s.initial THEN 2 ELSE 1
  BY <1>2, <1>3, <1>6, <1>7 DEF Returned, P4States
<1>9. /\ buckets' = s.buckets /\ sentry' = s.sentry
      /\ handed' = IF s.ret = 0 THEN handed ELSE handed \cup {s.key}
      /\ rejected' = IF s.ret # 0 /\ s.initial THEN rejected + 1 ELSE rejected
  BY <1>7, <1>8 DEF P4!Insert
<1>10. /\ packets' \in [Keys -> Nat] /\ Came(packets') = came
       /\ SumFunctionOnSet(packets, Keys) \in Nat
       /\ SumFunctionOnSet(packets', Keys) = SumFunctionOnSet(packets, Keys) + 1
  <2>1. /\ packets' \in [Keys -> Nat] /\ packets'[k] = packets[k] + 1
        /\ \A j \in Keys \ {k} : packets'[j] = packets[j]
    BY <1>1
  <2> QED
    BY <1>1, <2>1, PacketMore
<1>11. /\ buckets' \in CellTypes /\ sentry' \in VoteTypes /\ rejected' \in Nat
       /\ SoundCells(buckets', sentry')
  BY <1>1, <1>5, <1>6, <1>9 DEF Moving, P4States
<1>12. \A f \in Came(packets') : Resides(buckets', f) \/ f \in handed'
  <2>1. \A f \in came : Resides(s.buckets, f) \/ f \in handed \/ (s.ret = -1 /\ f = s.key)
    BY <1>5 DEF Moving, Followed
  <2> QED
    BY <2>1, <1>9, <1>10
<1>13. InCells(buckets') >= SumFunctionOnSet(packets', Keys) - rejected'
  <2>1. InCells(s.buckets) >= InCells(buckets) + (IF s.initial /\ s.ret = -1 THEN 0 ELSE 1)
    BY <1>5 DEF Moving, CountedOnce
  <2>2. s.ret \in {-1, 0} /\ s.initial \in BOOLEAN
    BY <1>6 DEF P4States
  <2>4. InCells(buckets) \in Nat /\ InCells(s.buckets) \in Nat
    <3>1. \A b \in CellTypes : \A c \in P4!CellsOf : ValOf(b)[c] \in Nat
      BY DEF ValOf, CellTypes
    <3>2. \A b \in CellTypes : InCells(b) \in Nat
      BY <3>1, CellNumbers, SumNat DEF InCells
    <3> QED
      BY <3>2, <1>1, <1>9, <1>11
  <2>5. InCells(s.buckets) >= SumFunctionOnSet(packets', Keys) - rejected'
    BY <1>1, <1>9, <1>10, <2>1, <2>2, <2>4
  <2> QED
    BY <2>5, <1>9
<1>14. \A c \in P4!CellsOf : sentry'[c] <= SumFunctionOnSet(packets', Keys)
  <2> SUFFICES ASSUME NEW c \in P4!CellsOf
               PROVE  s.sentry[c] <= SumFunctionOnSet(packets', Keys)
    BY <1>9
  <2>1. s.sentry[c] <= sentry[c] + 1 /\ sentry[c] <= SumFunctionOnSet(packets, Keys)
    BY <1>1, <1>5 DEF Moving, VotedOnce
  <2>2. s.sentry[c] \in Nat /\ sentry[c] \in Nat
    BY <1>1, <1>6 DEF P4States, VoteTypes
  <2> QED
    BY <2>1, <2>2, <1>10
<1>15. P4Holds(buckets', sentry', handed', rejected', packets')
  BY <1>10, <1>11, <1>12, <1>13, <1>14 DEF P4Holds
<1> QED
  BY <1>15 DEF P4Invariant

LEMMA P4Starts ==
  ASSUME P4!P4Assumption, P4!Init, packets = [k \in Keys |-> 0]
  PROVE  P4Invariant
<1>1. /\ buckets = [c \in P4!CellsOf |-> [key |-> 0, val |-> 0]]
      /\ sentry = [c \in P4!CellsOf |-> 0] /\ rejected = 0
  BY DEF P4!Init
<1>2. /\ buckets \in CellTypes /\ sentry \in VoteTypes /\ rejected \in Nat
      /\ SoundCells(buckets, sentry) /\ packets \in [Keys -> Nat]
  BY <1>1 DEF CellTypes, VoteTypes, SoundCells
<1>3. Came(packets) = {}
  BY DEF Came
<1>4. SumFunctionOnSet(packets, Keys) = 0
  BY CellNumbers, SumZero
<1>5. InCells(buckets) = 0
  <2>1. \A c \in P4!CellsOf : ValOf(buckets)[c] = 0
    BY <1>1 DEF ValOf
  <2> QED
    BY <2>1, CellNumbers, SumZero DEF InCells
<1>6. \A c \in P4!CellsOf : sentry[c] <= 0
  BY <1>1
<1> QED
  BY <1>1, <1>2, <1>3, <1>4, <1>5, <1>6 DEF P4Invariant, P4Holds

LEMMA P4Sums ==
  ASSUME NEW f, NEW S
  PROVE  P4!SumFunctionOnSet(f, S) = SumFunctionOnSet(f, S)
BY DEF P4!SumFunctionOnSet, P4!FoldFunctionOnSet, P4!MapThenFoldSet,
       SumFunctionOnSet, FoldFunctionOnSet, MapThenFoldSet

LEMMA P4InvariantHands ==
  ASSUME P4!P4Assumption, P4Invariant
  PROVE  P4!LeavesAreHanded
<1>1. ASSUME NEW k \in Keys, packets[k] > 0, P4!Resident(k) = {}
      PROVE  k \in handed
  <2>1. ~Resides(buckets, k)
    BY <1>1 DEF Resides, P4!Resident
  <2> QED
    BY <1>1, <2>1 DEF P4Invariant, P4Holds, Came
<1>2. DOMAIN packets = Keys
  BY DEF P4Invariant, P4Holds
<1>3. P4!SumFunction(packets) = SumFunctionOnSet(packets, Keys)
  BY <1>2, P4Sums DEF P4!SumFunction
<1>4. P4!SumFunction([c \in P4!CellsOf |-> buckets[c].val]) = InCells(buckets)
  BY P4Sums DEF P4!SumFunction, InCells, ValOf
<1>5. \A c \in P4!CellsOf : /\ buckets[c].val <= sentry[c]
                            /\ sentry[c] <= SumFunctionOnSet(packets, Keys)
  BY DEF P4Invariant, P4Holds, SoundCells
<1>6. InCells(buckets) >= SumFunctionOnSet(packets, Keys) - rejected
  BY DEF P4Invariant, P4Holds
<1> QED
  BY <1>1, <1>3, <1>4, <1>5, <1>6 DEF P4!LeavesAreHanded

\* A flow that leaves the pipeline of the P4 program's heavy part is given to
\* the light part, no packet but the rejected ones is missing in the counts,
\* and no count goes beyond the votes, for any number of stages and cells, any
\* hash, any swap factor and any trace.
THEOREM LeavesAreHandedHolds == ArraySpec => []LeavesAreHanded
<1> DEFINE I == program = "p4" => P4Invariant
<1>0. P4!P4Assumption
  BY ArrayAssumption
<1>1. ArrayInit => I
  BY <1>0, P4Starts DEF ArrayInit
<1>2. I /\ [ArrayNext]_arrayVars => I'
  <2> SUFFICES ASSUME I, [ArrayNext]_arrayVars, program' = "p4" PROVE P4Invariant'
    OBVIOUS
  <2>1. ASSUME NEW k \in Keys, ArrayInsert(k) PROVE P4Invariant'
    <3>1. program = "p4" /\ P4!Insert(k) /\ packets' = [packets EXCEPT ![k] = @ + 1]
      BY <2>1 DEF ArrayInsert
    <3> QED
      BY <1>0, <3>1, P4Inserts
  <2>2. ASSUME UNCHANGED arrayVars PROVE P4Invariant'
    BY <2>2 DEF arrayVars, P4Vars, P4Invariant
  <2> QED
    BY <2>1, <2>2 DEF ArrayNext
<1>3. I => LeavesAreHanded
  BY <1>0, P4InvariantHands DEF LeavesAreHanded
<1> QED
  BY <1>1, <1>2, <1>3, PTL DEF ArraySpec
-----------------------------------------------------------------------------
(***************************************************************************)
(* The sketches of rows.  First the median: a sequence can be sorted, and  *)
(* a value that more than half of the numbers have is in the middle.       *)
(***************************************************************************)
Orders(o, v, n) ==
  /\ o \in [1 .. n -> 1 .. n]
  /\ \A i, j \in 1 .. n : i # j => o[i] # o[j]
  /\ \A j \in 1 .. n : \E i \in 1 .. n : o[i] = j
  /\ \A i, j \in 1 .. n : i < j => v[o[i]] <= v[o[j]]

LEMMA GreatestExists ==
  ASSUME NEW N \in Nat, NEW v \in [1 .. N -> Int]
  PROVE  \A n \in 1 .. N : \E m \in 1 .. n : \A i \in 1 .. n : v[i] <= v[m]
<1> DEFINE Has(n) == \E m \in 1 .. n : \A i \in 1 .. n : v[i] <= v[m]
           Good == {n \in Nat : n + 1 <= N => Has(n + 1)}
<1>1. 0 \in Good
  <2> SUFFICES ASSUME 0 + 1 <= N PROVE Has(0 + 1)
    OBVIOUS
  <2>1. 1 .. 0 + 1 = {1} /\ v[1] \in Int
    OBVIOUS
  <2> QED
    BY <2>1
<1>2. ASSUME NEW n \in Nat, n \in Good PROVE n + 1 \in Good
  <2> SUFFICES ASSUME (n + 1) + 1 <= N PROVE Has((n + 1) + 1)
    OBVIOUS
  <2>1. PICK m \in 1 .. n + 1 : \A i \in 1 .. n + 1 : v[i] <= v[m]
    BY <1>2
  <2>2. \A i \in 1 .. (n + 1) + 1 : v[i] \in Int /\ (i \in 1 .. n + 1 \/ i = (n + 1) + 1)
    OBVIOUS
  <2>3. m \in 1 .. (n + 1) + 1 /\ (n + 1) + 1 \in 1 .. (n + 1) + 1
    OBVIOUS
  <2>4. CASE v[m] <= v[(n + 1) + 1]
    BY <2>1, <2>2, <2>3, <2>4
  <2>5. CASE ~(v[m] <= v[(n + 1) + 1])
    <3>1. v[m] \in Int /\ v[(n + 1) + 1] \in Int
      BY <2>2, <2>3
    <3>2. v[(n + 1) + 1] <= v[m]
      BY <2>5, <3>1
    <3>3. \A i \in 1 .. (n + 1) + 1 : v[i] <= v[m]
      BY <2>1, <2>2, <3>2
    <3> QED
      BY <2>3, <3>3
  <2> QED
    BY <2>4, <2>5
<1>3. Nat \subseteq Good
  <2> HIDE DEF Good
  <2> QED
    BY <1>1, <1>2, NumberInduction
<1>4. ASSUME NEW n \in 1 .. N PROVE Has(n)
  <2>1. n - 1 \in Nat /\ (n - 1) + 1 = n
    OBVIOUS
  <2>2. n - 1 \in Good
    BY <1>3, <2>1
  <2> QED
    BY <2>1, <2>2
<1> QED
  BY <1>4

\* The greatest goes to the end, and the number at the end to its place.
LEMMA OrderGrows ==
  ASSUME NEW n \in Nat, NEW v \in [1 .. n + 1 -> Int],
         NEW m \in 1 .. n + 1, \A i \in 1 .. n + 1 : v[i] <= v[m],
         NEW t \in [1 .. n -> Int], \A i \in 1 .. n : t[i] = IF i = m THEN v[n + 1] ELSE v[i],
         NEW p, Orders(p, t, n)
  PROVE  \E o : Orders(o, v, n + 1)
<1>1. PICK o : o = [i \in 1 .. n + 1 |-> IF i = n + 1 THEN m
                                         ELSE IF p[i] = m THEN n + 1 ELSE p[i]]
  OBVIOUS
<1>2. \A i \in 1 .. n : p[i] \in 1 .. n
  BY DEF Orders
<1>3. \A i \in 1 .. n + 1 : i \in 1 .. n \/ i = n + 1
  OBVIOUS
<1>4. \A i \in 1 .. n : i \in 1 .. n + 1 /\ i # n + 1 /\ i < n + 1
  OBVIOUS
<1>5. n + 1 \in 1 .. n + 1
  OBVIOUS
<1>6. o[n + 1] = m /\ \A i \in 1 .. n : o[i] = IF p[i] = m THEN n + 1 ELSE p[i]
  BY <1>1, <1>4, <1>5
<1>7. o \in [1 .. n + 1 -> 1 .. n + 1]
  BY <1>1, <1>2, <1>3, <1>4, <1>5
<1>8. \A i, j \in 1 .. n + 1 : i # j => o[i] # o[j]
  <2>1. \A i, j \in 1 .. n : i # j => p[i] # p[j]
    BY DEF Orders
  <2>2. n + 1 \notin 1 .. n
    OBVIOUS
  <2>3. \A i, j \in 1 .. n : i # j => o[i] # o[j]
    <3> SUFFICES ASSUME NEW i \in 1 .. n, NEW j \in 1 .. n, i # j, o[i] = o[j] PROVE FALSE
      OBVIOUS
    <3>1. p[i] # p[j] /\ p[i] # n + 1 /\ p[j] # n + 1
      BY <1>2, <2>1, <2>2
    <3>2. /\ o[i] = IF p[i] = m THEN n + 1 ELSE p[i]
          /\ o[j] = IF p[j] = m THEN n + 1 ELSE p[j]
      BY <1>6
    <3> QED
      BY <3>1, <3>2, Zenon
  <2>4. \A i \in 1 .. n : o[i] # m
    <3> SUFFICES ASSUME NEW i \in 1 .. n, o[i] = m PROVE FALSE
      OBVIOUS
    <3>1. p[i] # n + 1
      BY <1>2, <2>2
    <3>2. o[i] = IF p[i] = m THEN n + 1 ELSE p[i]
      BY <1>6
    <3> QED
      BY <3>1, <3>2, Zenon
  <2> QED
    BY <1>3, <1>6, <2>3, <2>4
<1>9. ASSUME NEW j \in 1 .. n + 1 PROVE \E i \in 1 .. n + 1 : o[i] = j
  <2>1. CASE j = m
    BY <2>1, <1>5, <1>6
  <2>2. CASE j # m /\ j = n + 1
    <3>1. m \in 1 .. n
      BY <1>3, <2>2
    <3>2. PICK i \in 1 .. n : p[i] = m
      BY <3>1 DEF Orders
    <3> QED
      BY <2>2, <3>2, <1>4, <1>6
  <2>3. CASE j # m /\ j # n + 1
    <3>1. j \in 1 .. n
      BY <1>3, <2>3
    <3>2. PICK i \in 1 .. n : p[i] = j
      BY <3>1 DEF Orders
    <3> QED
      BY <2>3, <3>2, <1>4, <1>6
  <2> QED
    BY <2>1, <2>2, <2>3
<1>10. \A i \in 1 .. n : v[o[i]] = t[p[i]]
  BY <1>2, <1>6
<1>11. \A i, j \in 1 .. n + 1 : i < j => v[o[i]] <= v[o[j]]
  <2> SUFFICES ASSUME NEW i \in 1 .. n + 1, NEW j \in 1 .. n + 1, i < j
               PROVE  v[o[i]] <= v[o[j]]
    OBVIOUS
  <2>1. i \in 1 .. n
    OBVIOUS
  <2>2. CASE j = n + 1
    BY <1>6, <1>7, <2>2
  <2>3. CASE j \in 1 .. n
    <3>1. t[p[i]] <= t[p[j]]
      BY <2>1, <2>3 DEF Orders
    <3> QED
      BY <1>10, <2>1, <2>3, <3>1
  <2> QED
    BY <1>3, <2>2, <2>3
<1>12. Orders(o, v, n + 1)
  BY <1>7, <1>8, <1>9, <1>11 DEF Orders
<1> QED
  BY <1>12

LEMMA OrderExists ==
  \A n \in Nat : \A v \in [1 .. n -> Int] : \E o : Orders(o, v, n)
<1> DEFINE Good == {n \in Nat : \A v \in [1 .. n -> Int] : \E o : Orders(o, v, n)}
<1>1. 0 \in Good
  <2> SUFFICES ASSUME NEW v \in [1 .. 0 -> Int] PROVE \E o : Orders(o, v, 0)
    OBVIOUS
  <2>1. PICK o : o = [i \in 1 .. 0 |-> i]
    OBVIOUS
  <2>2. 1 .. 0 = {}
    OBVIOUS
  <2>3. Orders(o, v, 0)
    BY <2>1, <2>2 DEF Orders
  <2> QED
    BY <2>3
<1>2. ASSUME NEW n \in Nat, n \in Good PROVE n + 1 \in Good
  <2> SUFFICES ASSUME NEW v \in [1 .. n + 1 -> Int] PROVE \E o : Orders(o, v, n + 1)
    OBVIOUS
  <2>1. n + 1 \in Nat /\ n + 1 \in 1 .. n + 1
    OBVIOUS
  <2>2. PICK m \in 1 .. n + 1 : \A i \in 1 .. n + 1 : v[i] <= v[m]
    BY <2>1, GreatestExists
  <2>3. PICK t : t = [i \in 1 .. n |-> IF i = m THEN v[n + 1] ELSE v[i]]
    OBVIOUS
  <2>4. \A i \in 1 .. n : v[i] \in Int /\ v[n + 1] \in Int
    BY <2>1
  <2>5. t \in [1 .. n -> Int] /\ \A i \in 1 .. n : t[i] = IF i = m THEN v[n + 1] ELSE v[i]
    BY <2>3, <2>4
  <2>6. PICK p : Orders(p, t, n)
    BY <1>2, <2>5
  <2> QED
    BY <2>2, <2>5, <2>6, OrderGrows
<1>3. Nat \subseteq Good
  <2> HIDE DEF Good
  <2> QED
    BY <1>1, <1>2, NumberInduction
<1> QED
  BY <1>3

LEMMA RowsCardinality ==
  ASSUME NEW S
  PROVE  Rows!Cardinality(S) = Cardinality(S)
BY DEF Rows!Cardinality, Cardinality

\* What Sorted gives.
LEMMA SortedIs ==
  ASSUME SK_D \in Nat, NEW v \in [1 .. SK_D -> Int]
  PROVE  \E o : /\ Orders(o, v, SK_D)
                /\ Rows!Sorted(v) = [i \in 1 .. SK_D |-> v[o[i]]]
<1> DEFINE Is(o) == /\ o \in Rows!Bijection(1 .. SK_D, 1 .. SK_D)
                    /\ \A i, j \in 1 .. SK_D : i < j => v[o[i]] <= v[o[j]]
<1>1. \A o : Is(o) <=> Orders(o, v, SK_D)
  BY DEF Rows!Bijection, Rows!Injection, Rows!Surjection, Rows!IsInjective, Orders
<1>2. PICK o : Is(o)
  BY <1>1, OrderExists
<1>3. PICK q : q = CHOOSE x : Is(x)
  OBVIOUS
<1>4. Is(q)
  <2> HIDE DEF Is
  <2> QED
    BY <1>2, <1>3
<1>5. Rows!Sorted(v) = [i \in 1 .. SK_D |-> v[q[i]]]
  BY <1>3 DEF Rows!Sorted
<1> QED
  BY <1>1, <1>4, <1>5
\* What more than half of the numbers in order have, those in the middle have.
LEMMA MiddleOfMost ==
  ASSUME NEW n \in Nat, NEW r \in [1 .. n -> Int], NEW x \in Int,
         \A i, j \in 1 .. n : i < j => r[i] <= r[j],
         2 * Cardinality({j \in 1 .. n : r[j] = x}) > n,
         NEW c \in 1 .. n, n <= 2 * c, 2 * c <= n + 2
  PROVE  r[c] = x
<1> DEFINE B == {j \in 1 .. n : r[j] = x}
<1>1. r[c] \in Int /\ c \in Int
  OBVIOUS
<1>2. /\ IsFiniteSet(1 .. c - 1) /\ Cardinality(1 .. c - 1) = c - 1
      /\ IsFiniteSet(c + 1 .. n) /\ Cardinality(c + 1 .. n) = n - c
  <2>1. 1 \in Int /\ c - 1 \in Int /\ c + 1 \in Int /\ n \in Int
    OBVIOUS
  <2>2. /\ IsFiniteSet(1 .. c - 1)
        /\ Cardinality(1 .. c - 1) = IF 1 > c - 1 THEN 0 ELSE (c - 1) - 1 + 1
    BY <2>1, FS_Interval
  <2>3. /\ IsFiniteSet(c + 1 .. n)
        /\ Cardinality(c + 1 .. n) = IF c + 1 > n THEN 0 ELSE n - (c + 1) + 1
    BY <2>1, FS_Interval
  <2> QED
    BY <2>2, <2>3
<1>3. IsFiniteSet(B) /\ Cardinality(B) \in Nat
  <2>1. IsFiniteSet(1 .. n)
    BY FS_Interval
  <2>2. IsFiniteSet(B)
    BY <2>1, FS_Subset
  <2> QED
    BY <2>2, FS_CardinalityType
<1>4. ASSUME r[c] > x PROVE FALSE
  <2>1. \A j \in B : j \in 1 .. c - 1
    <3> SUFFICES ASSUME NEW j \in 1 .. n, r[j] = x, ~(j < c) PROVE FALSE
      OBVIOUS
    <3>1. r[c] <= r[j]
      OBVIOUS
    <3> QED
      BY <1>1, <1>4, <3>1
  <2>2. Cardinality(B) <= c - 1
    <3> HIDE DEF B
    <3> QED
      BY <1>2, <2>1, FS_Subset
  <2> QED
    BY <1>3, <2>2
<1>5. ASSUME r[c] < x PROVE FALSE
  <2>1. \A j \in B : j \in c + 1 .. n
    <3> SUFFICES ASSUME NEW j \in 1 .. n, r[j] = x, ~(c < j) PROVE FALSE
      OBVIOUS
    <3>1. r[j] <= r[c]
      OBVIOUS
    <3> QED
      BY <1>1, <1>5, <3>1
  <2>2. Cardinality(B) <= n - c
    <3> HIDE DEF B
    <3> QED
      BY <1>2, <2>1, FS_Subset
  <2> QED
    BY <1>3, <2>2
<1> QED
  BY <1>1, <1>4, <1>5

LEMMA HalvedTwice ==
  ASSUME NEW x \in Int
  PROVE  Rows!Halved(x + x) = x
BY DEF Rows!Halved

\* The median is what more than half of the votes are.
LEMMA MedianOfMost ==
  ASSUME SK_D \in Nat \ {0}, NEW v \in [1 .. SK_D -> Int], NEW x \in Int,
         2 * Cardinality({i \in 1 .. SK_D : v[i] = x}) > SK_D
  PROVE  Rows!Median(v) = x
<1> DEFINE A == {i \in 1 .. SK_D : v[i] = x}
<1>1. PICK o : Orders(o, v, SK_D) /\ Rows!Sorted(v) = [i \in 1 .. SK_D |-> v[o[i]]]
  BY SortedIs
<1>2. PICK r : r = Rows!Sorted(v)
  OBVIOUS
<1>3. \A i \in 1 .. SK_D : o[i] \in 1 .. SK_D /\ r[i] = v[o[i]]
  BY <1>1, <1>2 DEF Orders
<1>4. r \in [1 .. SK_D -> Int] /\ \A i, j \in 1 .. SK_D : i < j => r[i] <= r[j]
  <2>1. \A i \in 1 .. SK_D : v[o[i]] \in Int
    BY <1>3
  <2>2. r \in [1 .. SK_D -> Int]
    BY <1>1, <1>2, <2>1
  <2>3. \A i, j \in 1 .. SK_D : i < j => v[o[i]] <= v[o[j]]
    BY <1>1 DEF Orders
  <2> QED
    BY <1>3, <2>2, <2>3
<1> DEFINE B == {j \in 1 .. SK_D : r[j] = x}
<1>5. Cardinality(A) <= Cardinality(B) /\ Cardinality(A) \in Nat /\ Cardinality(B) \in Nat
  <2>1. IsFiniteSet(1 .. SK_D)
    BY FS_Interval
  <2>2. IsFiniteSet(A) /\ IsFiniteSet(B)
    BY <2>1, FS_Subset
  <2>3. PICK h : h = [j \in B |-> o[j]]
    OBVIOUS
  <2>4. \A j \in B : o[j] \in A
    BY <1>3
  <2>5. \A i \in A : \E j \in B : h[j] = i
    <3> SUFFICES ASSUME NEW i \in 1 .. SK_D, v[i] = x PROVE \E j \in B : h[j] = i
      OBVIOUS
    <3>1. PICK j \in 1 .. SK_D : o[j] = i
      BY <1>1 DEF Orders
    <3>2. j \in B
      BY <1>3, <3>1
    <3> QED
      BY <2>3, <3>1, <3>2
  <2> HIDE DEF A, B
  <2>6. h \in Surjection(B, A)
    BY <2>3, <2>4, <2>5 DEF Surjection
  <2> QED
    BY <2>2, <2>6, FS_Surjection, FS_CardinalityType
<1>6. 2 * Cardinality(B) > SK_D
  <2> HIDE DEF A, B
  <2>1. 2 * Cardinality(A) > SK_D
    BY DEF A
  <2> QED
    BY <1>5, <2>1
<1>7. \A c \in 1 .. SK_D : SK_D <= 2 * c /\ 2 * c <= SK_D + 2 => r[c] = x
  BY <1>4, <1>6, MiddleOfMost
<1>8. PICK mid : mid = SK_D \div 2
  OBVIOUS
<1>9. CASE SK_D % 2 = 0
  <2>1. mid \in 1 .. SK_D /\ 2 * mid = SK_D
    BY <1>8, <1>9
  <2>2. r[mid] = x
    BY <1>7, <2>1
  <2>3. mid + 1 \in 1 .. SK_D /\ r[mid + 1] = x
    <3>1. CASE mid + 1 \in 1 .. SK_D
      BY <1>7, <2>1, <3>1
    <3>2. mid + 1 <= SK_D
      BY <2>1
    <3> QED
      BY <2>1, <3>1, <3>2
  <2> QED
    BY <1>2, <1>8, <1>9, <2>2, <2>3, HalvedTwice DEF Rows!Median
<1>10. CASE SK_D % 2 # 0
  <2>1. mid + 1 \in 1 .. SK_D /\ 2 * (mid + 1) = SK_D + 1
    BY <1>8, <1>10
  <2>2. r[mid + 1] = x
    BY <1>7, <2>1
  <2> QED
    BY <1>2, <1>8, <1>10, <2>2 DEF Rows!Median
<1> QED
  BY <1>9, <1>10
-----------------------------------------------------------------------------
RowTypes(r) == r \in [1 .. SK_D -> [0 .. SK_W - 1 -> Int]]

\* No flow of came shares k's counter in row i.
AloneIn(i, k, came) == \A j \in came \ {k} : Hash[i][j] # Hash[i][k]

\* What the rows a of count-min, u of conservative update and s of the Count
\* sketch hold of the packets p.
RowsHold(a, u, s, p) ==
  /\ RowTypes(a) /\ RowTypes(u) /\ RowTypes(s) /\ p \in [Keys -> Nat]
  /\ \A i \in 1 .. SK_D, j \in 0 .. SK_W - 1 : u[i][j] <= a[i][j]
  /\ \A i \in 1 .. SK_D, k \in Keys : p[k] <= u[i][Hash[i][k]]
  /\ \A i \in 1 .. SK_D, k \in Keys :
       AloneIn(i, k, Came(p)) =>
         s[i][Hash[i][k]] = IF Sign[i][k] = 1 THEN p[k] ELSE -p[k]

RowsInvariant ==
  /\ RowsHold(cm, cu, cs, packets)
  /\ SumFunctionOnSet(packets, Keys) <= TraceLength[program]

LEMMA RowNumbers ==
  ASSUME Rows!RowsAssumption
  PROVE  /\ SK_D \in Nat \ {0} /\ SK_W \in Nat \ {0} /\ IsFiniteSet(Keys)
         /\ \A i \in 1 .. SK_D, k \in Keys :
              Hash[i][k] \in 0 .. SK_W - 1 /\ Sign[i][k] \in {0, 1}
BY DEF Rows!RowsAssumption, Rows!IsFiniteSet, IsFiniteSet

LEMMA MaxOfTwo ==
  ASSUME NEW x \in Int, NEW y \in Int
  PROVE  Rows!Max({x, y}) = IF x >= y THEN x ELSE y
<1>1. PICK m : m = Rows!Max({x, y})
  OBVIOUS
<1>2. \E z \in {x, y} : \A t \in {x, y} : z >= t
  OBVIOUS
<1>3. m \in {x, y} /\ \A t \in {x, y} : m >= t
  BY <1>1, <1>2 DEF Rows!Max
<1> QED
  BY <1>1, <1>3

\* What query takes is the least of the flow's counters and of 2^30.
LEMMA QueryIs ==
  ASSUME Rows!RowsAssumption, NEW r, RowTypes(r), NEW k \in Keys,
         NEW m, m = Rows!CmQuery(r, k)
  PROVE  /\ m \in Int /\ m <= 2^30
         /\ \A i \in 1 .. SK_D : m <= r[i][Hash[i][k]]
         /\ m = 2^30 \/ \E i \in 1 .. SK_D : m = r[i][Hash[i][k]]
<1>1. PICK b : b = 2^30
  OBVIOUS
<1>2. b \in Int
  BY <1>1
<1>3. PICK v : v = [i \in 1 .. SK_D |-> r[i][Hash[i][k]]]
  OBVIOUS
<1>4. \A i \in 1 .. SK_D : r[i][Hash[i][k]] \in Int
  BY RowNumbers DEF RowTypes
<1>5. \A i \in 1 .. SK_D : v[i] = r[i][Hash[i][k]] /\ v[i] \in Int
  BY <1>3, <1>4
<1>6. PICK n \in 1 .. SK_D : \A i \in 1 .. SK_D : v[n] <= v[i]
  <2>1. PICK t : t = [i \in 1 .. SK_D |-> -v[i]]
    OBVIOUS
  <2>2. t \in [1 .. SK_D -> Int] /\ \A i \in 1 .. SK_D : t[i] = -v[i]
    BY <1>5, <2>1
  <2>3. SK_D \in Nat /\ SK_D \in 1 .. SK_D
    BY RowNumbers
  <2>4. PICK n \in 1 .. SK_D : \A i \in 1 .. SK_D : t[i] <= t[n]
    BY <2>2, <2>3, GreatestExists
  <2>5. \A i \in 1 .. SK_D : v[n] <= v[i]
    BY <1>5, <2>2, <2>4
  <2> QED
    BY <2>5
<1>7. PICK S : S = {b} \cup {r[i][Hash[i][k]] : i \in 1 .. SK_D}
  OBVIOUS
<1>8. m = CHOOSE x \in S : \A y \in S : x <= y
  BY <1>1, <1>7 DEF Rows!CmQuery, Rows!Min
<1>9. /\ \A x : x \in S <=> x = b \/ \E i \in 1 .. SK_D : x = v[i]
      /\ \A x \in S : x \in Int
  BY <1>2, <1>5, <1>7
<1>10. \E x \in S : \A y \in S : x <= y
  <2>1. CASE b <= v[n]
    <3>1. \A y \in S : b <= y
      BY <1>2, <1>5, <1>6, <1>9, <2>1
    <3> QED
      BY <1>9, <3>1
  <2>2. CASE v[n] <= b
    <3>1. \A y \in S : v[n] <= y
      BY <1>6, <1>9, <2>2
    <3> QED
      BY <1>9, <3>1
  <2> QED
    BY <1>2, <1>5, <2>1, <2>2
<1>11. m \in S /\ \A y \in S : m <= y
  BY <1>8, <1>10
<1> QED
  BY <1>1, <1>5, <1>9, <1>11

LEMMA CmInserted ==
  ASSUME Rows!RowsAssumption, NEW r, RowTypes(r), NEW k \in Keys,
         NEW e, e = Rows!CmInsert(r, k, 1)
  PROVE  /\ RowTypes(e)
         /\ \A i \in 1 .. SK_D, j \in 0 .. SK_W - 1 :
              e[i][j] = IF j = Hash[i][k] THEN r[i][j] + 1 ELSE r[i][j]
<1>1. e = [i \in 1 .. SK_D |-> [r[i] EXCEPT ![Hash[i][k]] = @ + 1]]
  BY DEF Rows!CmInsert
<1>2. ASSUME NEW i \in 1 .. SK_D
      PROVE  /\ e[i] \in [0 .. SK_W - 1 -> Int]
             /\ \A j \in 0 .. SK_W - 1 :
                  e[i][j] = IF j = Hash[i][k] THEN r[i][j] + 1 ELSE r[i][j]
  <2>1. r[i] \in [0 .. SK_W - 1 -> Int] /\ Hash[i][k] \in 0 .. SK_W - 1
    BY RowNumbers DEF RowTypes
  <2>2. PICK q : q = r[i]
    OBVIOUS
  <2>3. PICK h : h = Hash[i][k]
    OBVIOUS
  <2>4. PICK x : x = q[h] + 1
    OBVIOUS
  <2>5. q \in [0 .. SK_W - 1 -> Int] /\ h \in 0 .. SK_W - 1 /\ x \in Int
    BY <2>1, <2>2, <2>3, <2>4
  <2>6. e[i] = [q EXCEPT ![h] = x]
    BY <1>1, <2>2, <2>3, <2>4
  <2>7. /\ e[i] \in [0 .. SK_W - 1 -> Int]
        /\ \A j \in 0 .. SK_W - 1 : e[i][j] = IF j = h THEN x ELSE q[j]
    BY <2>5, <2>6
  <2> QED
    BY <2>2, <2>3, <2>4, <2>7
<1> QED
  BY <1>1, <1>2 DEF RowTypes

LEMMA CuInserted ==
  ASSUME Rows!RowsAssumption, NEW r, RowTypes(r), NEW k \in Keys,
         NEW e, e = Rows!CuInsert(r, k, 1), NEW m, m = Rows!CmQuery(r, k)
  PROVE  /\ RowTypes(e)
         /\ \A i \in 1 .. SK_D, j \in 0 .. SK_W - 1 :
              e[i][j] = IF j = Hash[i][k] /\ r[i][j] < m + 1 THEN m + 1 ELSE r[i][j]
<1>1. e = [i \in 1 .. SK_D |-> [r[i] EXCEPT ![Hash[i][k]] = Rows!Max({@, m + 1})]]
  BY DEF Rows!CuInsert
<1>2. m \in Int /\ m + 1 \in Int
  BY QueryIs
<1>3. ASSUME NEW i \in 1 .. SK_D
      PROVE  /\ e[i] \in [0 .. SK_W - 1 -> Int]
             /\ \A j \in 0 .. SK_W - 1 :
                  e[i][j] = IF j = Hash[i][k] /\ r[i][j] < m + 1 THEN m + 1 ELSE r[i][j]
  <2>1. PICK h : h = Hash[i][k]
    OBVIOUS
  <2>2. PICK q : q = r[i]
    OBVIOUS
  <2>3. q \in [0 .. SK_W - 1 -> Int] /\ h \in 0 .. SK_W - 1
    BY <2>1, <2>2, RowNumbers DEF RowTypes
  <2>4. PICK x : x = Rows!Max({q[h], m + 1})
    OBVIOUS
  <2>5. x = IF q[h] < m + 1 THEN m + 1 ELSE q[h]
    <3>1. q[h] \in Int
      BY <2>3
    <3>2. x = IF q[h] >= m + 1 THEN q[h] ELSE m + 1
      BY <1>2, <2>4, <3>1, MaxOfTwo
    <3> QED
      BY <1>2, <3>1, <3>2
  <2>6. e[i] = [q EXCEPT ![h] = x]
    BY <1>1, <2>1, <2>2, <2>4
  <2>7. e[i] \in [0 .. SK_W - 1 -> Int]
    BY <1>2, <2>3, <2>5, <2>6
  <2>8. \A j \in 0 .. SK_W - 1 : e[i][j] = IF j = h THEN x ELSE q[j]
    BY <2>3, <2>6
  <2> QED
    BY <2>1, <2>2, <2>5, <2>7, <2>8
<1> QED
  BY <1>1, <1>3 DEF RowTypes

LEMMA CountInserted ==
  ASSUME Rows!RowsAssumption, NEW r, RowTypes(r), NEW k \in Keys,
         NEW e, e = Rows!CountInsert(r, k, 1)
  PROVE  /\ RowTypes(e)
         /\ \A i \in 1 .. SK_D, j \in 0 .. SK_W - 1 :
              e[i][j] = IF j = Hash[i][k]
                        THEN IF Sign[i][k] = 1 THEN r[i][j] + 1 ELSE r[i][j] - 1
                        ELSE r[i][j]
<1>1. e = [i \in 1 .. SK_D |->
             [r[i] EXCEPT ![Hash[i][k]] = IF Sign[i][k] = 1 THEN @ + 1 ELSE @ - 1]]
  BY DEF Rows!CountInsert
<1>2. ASSUME NEW i \in 1 .. SK_D
      PROVE  /\ e[i] \in [0 .. SK_W - 1 -> Int]
             /\ \A j \in 0 .. SK_W - 1 :
                  e[i][j] = IF j = Hash[i][k]
                            THEN IF Sign[i][k] = 1 THEN r[i][j] + 1 ELSE r[i][j] - 1
                            ELSE r[i][j]
  <2>1. r[i] \in [0 .. SK_W - 1 -> Int] /\ Hash[i][k] \in 0 .. SK_W - 1
    BY RowNumbers DEF RowTypes
  <2>2. PICK q : q = r[i]
    OBVIOUS
  <2>3. PICK h : h = Hash[i][k]
    OBVIOUS
  <2>4. PICK x : x = IF Sign[i][k] = 1 THEN q[h] + 1 ELSE q[h] - 1
    OBVIOUS
  <2>5. q \in [0 .. SK_W - 1 -> Int] /\ h \in 0 .. SK_W - 1
    BY <2>1, <2>2, <2>3
  <2>6. x \in Int
    BY <2>4, <2>5
  <2>7. e[i] = [q EXCEPT ![h] = x]
    BY <1>1, <2>2, <2>3, <2>4
  <2>8. /\ e[i] \in [0 .. SK_W - 1 -> Int]
        /\ \A j \in 0 .. SK_W - 1 : e[i][j] = IF j = h THEN x ELSE q[j]
    BY <2>5, <2>6, <2>7
  <2> QED
    BY <2>2, <2>3, <2>4, <2>8
<1> QED
  BY <1>1, <1>2 DEF RowTypes
-----------------------------------------------------------------------------
LEMMA MoreCame ==
  ASSUME NEW p \in [Keys -> Nat], NEW q \in [Keys -> Nat], NEW k \in Keys,
         \A f \in Keys : q[f] = p[f] + (IF k = f THEN 1 ELSE 0)
  PROVE  Came(p) \subseteq Came(q) /\ k \in Came(q)
<1>1. ASSUME NEW f \in Keys PROVE (p[f] > 0 => q[f] > 0) /\ (f = k => q[f] > 0)
  OBVIOUS
<1> QED
  BY <1>1 DEF Came

\* A packet of k, in the counters of all three.
LEMMA RowsInsert ==
  ASSUME Rows!RowsAssumption, NEW k \in Keys,
         NEW a, NEW u, NEW s, NEW p, RowsHold(a, u, s, p), p[k] < 2^30,
         NEW b, b = Rows!CmInsert(a, k, 1),
         NEW v, v = Rows!CuInsert(u, k, 1),
         NEW t, t = Rows!CountInsert(s, k, 1),
         NEW q, q \in [Keys -> Nat], \A f \in Keys : q[f] = p[f] + (IF k = f THEN 1 ELSE 0)
  PROVE  RowsHold(b, v, t, q)
<1>1. /\ RowTypes(a) /\ RowTypes(u) /\ RowTypes(s) /\ p \in [Keys -> Nat]
      /\ \A i \in 1 .. SK_D, j \in 0 .. SK_W - 1 : u[i][j] <= a[i][j]
      /\ \A i \in 1 .. SK_D, f \in Keys : p[f] <= u[i][Hash[i][f]]
      /\ \A i \in 1 .. SK_D, f \in Keys :
           AloneIn(i, f, Came(p)) =>
             s[i][Hash[i][f]] = IF Sign[i][f] = 1 THEN p[f] ELSE -p[f]
  BY DEF RowsHold
<1>2. PICK m : m = Rows!CmQuery(u, k)
  OBVIOUS
<1>3. PICK top : top = 2^30
  OBVIOUS
<1>4. /\ m \in Int /\ \A i \in 1 .. SK_D : m <= u[i][Hash[i][k]]
      /\ m = top \/ \E i \in 1 .. SK_D : m = u[i][Hash[i][k]]
  BY <1>1, <1>2, <1>3, QueryIs
<1>5. p[k] <= m
  <2>1. p[k] < top /\ top \in Int /\ p[k] \in Int
    BY <1>1, <1>3
  <2> QED
    BY <1>1, <1>4, <2>1
<1>6. /\ RowTypes(b)
      /\ \A i \in 1 .. SK_D, j \in 0 .. SK_W - 1 :
           b[i][j] = IF j = Hash[i][k] THEN a[i][j] + 1 ELSE a[i][j]
  BY <1>1, CmInserted
<1>7. /\ RowTypes(v)
      /\ \A i \in 1 .. SK_D, j \in 0 .. SK_W - 1 :
           v[i][j] = IF j = Hash[i][k] /\ u[i][j] < m + 1 THEN m + 1 ELSE u[i][j]
  BY <1>1, <1>2, CuInserted
<1>8. /\ RowTypes(t)
      /\ \A i \in 1 .. SK_D, j \in 0 .. SK_W - 1 :
           t[i][j] = IF j = Hash[i][k]
                     THEN IF Sign[i][k] = 1 THEN s[i][j] + 1 ELSE s[i][j] - 1
                     ELSE s[i][j]
  BY <1>1, CountInserted
<1>9. \A i \in 1 .. SK_D, f \in Keys : Hash[i][f] \in 0 .. SK_W - 1
  BY RowNumbers
<1>10. \A i \in 1 .. SK_D, j \in 0 .. SK_W - 1 : a[i][j] \in Int /\ u[i][j] \in Int /\ s[i][j] \in Int
  BY <1>1 DEF RowTypes
<1>11. ASSUME NEW i \in 1 .. SK_D, NEW j \in 0 .. SK_W - 1 PROVE v[i][j] <= b[i][j]
  <2>1. /\ u[i][j] <= a[i][j] /\ u[i][j] \in Int /\ a[i][j] \in Int
        /\ b[i][j] = IF j = Hash[i][k] THEN a[i][j] + 1 ELSE a[i][j]
        /\ v[i][j] = IF j = Hash[i][k] /\ u[i][j] < m + 1 THEN m + 1 ELSE u[i][j]
    BY <1>1, <1>6, <1>7, <1>10
  <2>2. j = Hash[i][k] => m <= u[i][j]
    BY <1>4
  <2> QED
    BY <1>4, <2>1, <2>2
<1>12. ASSUME NEW i \in 1 .. SK_D, NEW f \in Keys PROVE q[f] <= v[i][Hash[i][f]]
  <2>1. PICK j : j = Hash[i][f]
    OBVIOUS
  <2>2. /\ p[f] <= u[i][j] /\ u[i][j] \in Int /\ p[f] \in Int
        /\ v[i][j] = IF j = Hash[i][k] /\ u[i][j] < m + 1 THEN m + 1 ELSE u[i][j]
        /\ q[f] = p[f] + (IF k = f THEN 1 ELSE 0)
    BY <1>1, <1>7, <1>9, <1>10, <2>1
  <2>3. CASE f = k
    BY <1>4, <1>5, <2>1, <2>2, <2>3
  <2>4. CASE f # k
    BY <1>4, <2>1, <2>2, <2>4
  <2> QED
    BY <2>3, <2>4
<1>13. ASSUME NEW i \in 1 .. SK_D, NEW f \in Keys, AloneIn(i, f, Came(q))
       PROVE  t[i][Hash[i][f]] = IF Sign[i][f] = 1 THEN q[f] ELSE -q[f]
  <2>1. Came(p) \subseteq Came(q) /\ k \in Came(q)
    BY <1>1, MoreCame
  <2>2. AloneIn(i, f, Came(p)) /\ (k # f => Hash[i][k] # Hash[i][f])
    BY <1>13, <2>1 DEF AloneIn
  <2>3. PICK j : j = Hash[i][f]
    OBVIOUS
  <2>4. /\ s[i][j] = IF Sign[i][f] = 1 THEN p[f] ELSE -p[f]
        /\ s[i][j] \in Int /\ p[f] \in Int
        /\ t[i][j] = IF j = Hash[i][k]
                     THEN IF Sign[i][k] = 1 THEN s[i][j] + 1 ELSE s[i][j] - 1
                     ELSE s[i][j]
        /\ q[f] = p[f] + (IF k = f THEN 1 ELSE 0)
    BY <1>1, <1>8, <1>9, <1>10, <2>2, <2>3
  <2>5. CASE f = k
    BY <2>3, <2>4, <2>5
  <2>6. CASE f # k
    BY <2>2, <2>3, <2>4, <2>6
  <2> QED
    BY <2>5, <2>6
<1> QED
  BY <1>6, <1>7, <1>8, <1>11, <1>12, <1>13 DEF RowsHold

\* No flow has more packets than the trace.
LEMMA PacketsOfOne ==
  ASSUME IsFiniteSet(Keys), NEW p \in [Keys -> Nat], NEW k \in Keys
  PROVE  p[k] <= SumFunctionOnSet(p, Keys) /\ SumFunctionOnSet(p, Keys) \in Nat
<1>1. SumFunctionOnSet(p, Keys) = p[k] + SumFunctionOnSet(p, Keys \ {k})
  BY SumWithout
<1>2. IsFiniteSet(Keys \ {k})
  BY FS_Subset
<1>3. SumFunctionOnSet(p, Keys \ {k}) \in Nat
  BY <1>2, SumNat
<1> QED
  BY <1>1, <1>3

LEMMA RowsInserts ==
  ASSUME Rows!RowsAssumption, TraceLength[program] \in 0 .. 2^30, RowsInvariant,
         NEW k \in Keys, Total < TraceLength[program], Rows!Insert(k),
         packets' = [packets EXCEPT ![k] = packets[k] + 1], UNCHANGED program
  PROVE  RowsInvariant'
<1>1. PICK p : p = packets
  OBVIOUS
<1>2. PICK q : q = packets'
  OBVIOUS
<1>3. RowsHold(cm, cu, cs, p) /\ p \in [Keys -> Nat]
  BY <1>1 DEF RowsInvariant, RowsHold
<1>4. q \in [Keys -> Nat] /\ \A f \in Keys : q[f] = p[f] + (IF k = f THEN 1 ELSE 0)
  BY <1>1, <1>2, <1>3
<1>5. PICK n : n = SumFunctionOnSet(p, Keys)
  OBVIOUS
<1>6. n < TraceLength[program] /\ n \in Nat /\ p[k] <= n
  <2>1. DOMAIN p = Keys
    BY <1>3
  <2>2. Total = n
    BY <1>1, <1>5, <2>1 DEF Total, SumFunction
  <2>3. n \in Nat /\ p[k] <= n
    BY <1>3, <1>5, RowNumbers, PacketsOfOne
  <2> QED
    BY <2>2, <2>3
<1>7. p[k] < 2^30
  <2>1. PICK top : top = 2^30
    OBVIOUS
  <2>2. top \in Nat /\ TraceLength[program] \in 0 .. top /\ p[k] \in Nat
    BY <1>3, <2>1
  <2>3. p[k] < top
    BY <1>6, <2>2
  <2> QED
    BY <2>1, <2>3
<1>8. SumFunctionOnSet(q, Keys) = n + 1
  <2>1. \A f \in Keys : p[f] \in Int /\ q[f] \in Int
    BY <1>3, <1>4
  <2>2. \A f \in Keys \ {k} : q[f] = p[f]
    BY <1>3, <1>4
  <2>3. SumFunctionOnSet(q, Keys) = n - p[k] + q[k]
    <3>1. IsFiniteSet(Keys)
      BY RowNumbers
    <3>2. SumFunctionOnSet(q, Keys) = SumFunctionOnSet(p, Keys) - p[k] + q[k]
      BY <2>1, <2>2, <3>1, SumChange
    <3> QED
      BY <1>5, <3>2, Zenon
  <2>4. q[k] = p[k] + 1 /\ p[k] \in Int
    BY <1>4, <2>1
  <2> QED
    BY <1>6, <2>3, <2>4
<1>9. SumFunctionOnSet(q, Keys) <= TraceLength[program]
  <2>1. PICK top : top = 2^30
    OBVIOUS
  <2>2. top \in Nat /\ TraceLength[program] \in 0 .. top
    BY <2>1
  <2> QED
    BY <1>6, <1>8, <2>2
<1>10. RowsHold(cm', cu', cs', q)
  <2>1. /\ cm' = Rows!CmInsert(cm, k, 1) /\ cu' = Rows!CuInsert(cu, k, 1)
        /\ cs' = Rows!CountInsert(cs, k, 1)
    BY DEF Rows!Insert
  <2> QED
    BY <1>3, <1>4, <1>7, <2>1, RowsInsert
<1> QED
  BY <1>2, <1>9, <1>10 DEF RowsInvariant

LEMMA RowsStart ==
  ASSUME Rows!RowsAssumption, TraceLength[program] \in 0 .. 2^30,
         packets = [k \in Keys |-> 0], Rows!Init
  PROVE  RowsInvariant
<1>1. PICK z : z = [i \in 1 .. SK_D |-> [j \in 0 .. SK_W - 1 |-> 0]]
  OBVIOUS
<1>2. cm = z /\ cu = z /\ cs = z
  BY <1>1 DEF Rows!Init, Rows!Zeros
<1>3. RowTypes(z) /\ \A i \in 1 .. SK_D, j \in 0 .. SK_W - 1 : z[i][j] = 0
  BY <1>1 DEF RowTypes
<1>4. packets \in [Keys -> Nat] /\ \A k \in Keys : packets[k] = 0
  OBVIOUS
<1>5. \A i \in 1 .. SK_D, k \in Keys : z[i][Hash[i][k]] = 0
  BY <1>3, RowNumbers
<1>6. RowsHold(z, z, z, packets)
  BY <1>3, <1>4, <1>5 DEF RowsHold
<1>7. SumFunctionOnSet(packets, Keys) = 0
  BY <1>4, RowNumbers, SumZero
<1>8. 0 <= TraceLength[program]
  <2>1. PICK top : top = 2^30
    OBVIOUS
  <2>2. top \in Nat /\ TraceLength[program] \in 0 .. top
    BY <2>1
  <2> QED
    BY <2>2
<1> QED
  BY <1>2, <1>6, <1>7, <1>8 DEF RowsInvariant

\* A flow alone in most of its rows has its packets as most of its votes.
LEMMA CleanIsExact ==
  ASSUME Rows!RowsAssumption, RowsInvariant, NEW k \in Keys, Rows!Clean(k)
  PROVE  Rows!CountQuery(cs, k) = packets[k]
<1>1. PICK v : v = [i \in 1 .. SK_D |-> IF Sign[i][k] = 1 THEN cs[i][Hash[i][k]]
                                        ELSE -cs[i][Hash[i][k]]]
  OBVIOUS
<1>2. /\ RowTypes(cs) /\ packets \in [Keys -> Nat]
      /\ \A i \in 1 .. SK_D :
           AloneIn(i, k, Came(packets)) =>
             cs[i][Hash[i][k]] = IF Sign[i][k] = 1 THEN packets[k] ELSE -packets[k]
  BY DEF RowsInvariant, RowsHold
<1>3. \A i \in 1 .. SK_D : cs[i][Hash[i][k]] \in Int
  BY <1>2, RowNumbers DEF RowTypes
<1>4. v \in [1 .. SK_D -> Int]
  BY <1>1, <1>3
<1> DEFINE A == {i \in 1 .. SK_D :
                   \A j \in Keys \ {k} : packets[j] > 0 => Hash[i][j] # Hash[i][k]}
           B == {i \in 1 .. SK_D : v[i] = packets[k]}
<1>5. A \subseteq B
  <2> SUFFICES ASSUME NEW i \in 1 .. SK_D, i \in A PROVE v[i] = packets[k]
    OBVIOUS
  <2>1. AloneIn(i, k, Came(packets))
    BY DEF AloneIn, Came
  <2>2. packets[k] \in Int
    BY <1>2
  <2>3. v[i] = IF Sign[i][k] = 1 THEN cs[i][Hash[i][k]] ELSE -cs[i][Hash[i][k]]
    BY <1>1
  <2> HIDE DEF A, B
  <2> QED
    BY <1>2, <2>1, <2>2, <2>3
<1>6. 2 * Cardinality(A) > SK_D
  BY RowsCardinality DEF Rows!Clean
<1>7. 2 * Cardinality(B) > SK_D
  <2>1. IsFiniteSet(1 .. SK_D)
    BY RowNumbers, FS_Interval
  <2>2. IsFiniteSet(B) /\ IsFiniteSet(A)
    BY <2>1, FS_Subset
  <2> HIDE DEF A, B
  <2>3. Cardinality(A) <= Cardinality(B) /\ Cardinality(A) \in Nat /\ Cardinality(B) \in Nat
    BY <1>5, <2>2, FS_Subset, FS_CardinalityType
  <2> QED
    BY <1>6, <2>3, RowNumbers
<1>8. packets[k] \in Int /\ SK_D \in Nat \ {0}
  BY <1>2, RowNumbers
<1>9. Rows!Median(v) = packets[k]
  BY <1>4, <1>7, <1>8, MedianOfMost
<1> QED
  BY <1>1, <1>9 DEF Rows!CountQuery

LEMMA RowsInvariantOrders ==
  ASSUME Rows!RowsAssumption, TraceLength[program] \in 0 .. 2^30, RowsInvariant
  PROVE  Rows!EstimatesOrdered
<1> SUFFICES ASSUME NEW k \in Keys
             PROVE  /\ packets[k] <= Rows!CmQuery(cu, k)
                    /\ Rows!CmQuery(cu, k) <= Rows!CmQuery(cm, k)
  BY CleanIsExact DEF Rows!EstimatesOrdered, Rows!CuQuery
<1>1. PICK top : top = 2^30
  OBVIOUS
<1>2. PICK m : m = Rows!CmQuery(cu, k)
  OBVIOUS
<1>3. PICK n : n = Rows!CmQuery(cm, k)
  OBVIOUS
<1>4. /\ RowTypes(cm) /\ RowTypes(cu) /\ packets \in [Keys -> Nat]
      /\ \A i \in 1 .. SK_D, j \in 0 .. SK_W - 1 : cu[i][j] <= cm[i][j]
      /\ \A i \in 1 .. SK_D : packets[k] <= cu[i][Hash[i][k]]
  BY DEF RowsInvariant, RowsHold
<1>5. /\ m \in Int /\ m <= top
      /\ \A i \in 1 .. SK_D : m <= cu[i][Hash[i][k]]
      /\ m = top \/ \E i \in 1 .. SK_D : m = cu[i][Hash[i][k]]
  BY <1>1, <1>2, <1>4, QueryIs
<1>6. /\ n \in Int /\ n <= top
      /\ n = top \/ \E i \in 1 .. SK_D : n = cm[i][Hash[i][k]]
  BY <1>1, <1>3, <1>4, QueryIs
<1>7. packets[k] <= top
  <2>1. top \in Nat /\ TraceLength[program] \in 0 .. top
    BY <1>1
  <2>2. SumFunctionOnSet(packets, Keys) <= TraceLength[program]
    BY DEF RowsInvariant
  <2>3. /\ packets[k] <= SumFunctionOnSet(packets, Keys)
        /\ SumFunctionOnSet(packets, Keys) \in Nat /\ packets[k] \in Nat
    BY <1>4, RowNumbers, PacketsOfOne
  <2> QED
    BY <2>1, <2>2, <2>3
<1>8. packets[k] <= m
  BY <1>4, <1>5, <1>7
<1>9. m <= n
  <2>1. CASE n = top
    BY <1>5, <2>1
  <2>2. ASSUME NEW i \in 1 .. SK_D, n = cm[i][Hash[i][k]] PROVE m <= n
    <3>1. PICK j : j = Hash[i][k]
      OBVIOUS
    <3>2. j \in 0 .. SK_W - 1
      BY <3>1, RowNumbers
    <3>3. cu[i][j] <= cm[i][j] /\ cu[i][j] \in Int /\ cm[i][j] \in Int
      BY <1>4, <3>2 DEF RowTypes
    <3> QED
      BY <1>5, <1>6, <2>2, <3>1, <3>3
  <2> QED
    BY <1>6, <2>1, <2>2
<1> QED
  BY <1>2, <1>3, <1>8, <1>9

\* Conservative update estimates no flow below its packets and none above
\* count-min, and the Count sketch is exact for a flow alone in most of its
\* rows, for any number of rows and counters, any hash and sign functions and
\* any trace of at most 2^30 packets.
THEOREM EstimatesOrderedHolds == ArraySpec => []EstimatesOrdered
<1> DEFINE I == program \in Programs /\ (program = "heaps" => RowsInvariant)
<1>0. /\ Rows!RowsAssumption
      /\ \A p \in Programs : TraceLength[p] \in 0 .. 2^30
  BY ArrayAssumption
<1>1. ArrayInit => I
  BY <1>0, RowsStart DEF ArrayInit
<1>2. I /\ [ArrayNext]_arrayVars => I'
  <2> SUFFICES ASSUME I, [ArrayNext]_arrayVars PROVE I'
    OBVIOUS
  <2>1. ASSUME NEW k \in Keys, ArrayInsert(k) PROVE I'
    <3>1. /\ Total < TraceLength[program] /\ UNCHANGED program
          /\ packets' = [packets EXCEPT ![k] = packets[k] + 1]
          /\ program = "heaps" => Rows!Insert(k)
      BY <2>1 DEF ArrayInsert
    <3>2. TraceLength[program] \in 0 .. 2^30
      BY <1>0
    <3>3. program = "heaps" => RowsInvariant'
      BY <1>0, <3>1, <3>2, RowsInserts
    <3> QED
      BY <3>1, <3>3
  <2>2. ASSUME UNCHANGED arrayVars PROVE I'
    BY <2>2 DEF arrayVars, RowVars, RowsInvariant
  <2> QED
    BY <2>1, <2>2 DEF ArrayNext
<1>3. I => EstimatesOrdered
  BY <1>0, RowsInvariantOrders DEF EstimatesOrdered
<1> QED
  BY <1>1, <1>2, <1>3, PTL DEF ArraySpec
-----------------------------------------------------------------------------
(***************************************************************************)
(* Sieving.  First the two folds of get_entropy as functions: over the     *)
(* slots of the table, and over the items of a chain.                      *)
(***************************************************************************)
\* g folds F over the subsets of S, from b, taking first what e names.
FoldsBy(g, S, T, b, e, F) ==
  /\ g \in [SUBSET S -> T]
  /\ \A s \in SUBSET S : g[s] = IF s = {} THEN b ELSE F[<<s, g[s \ {e[s]}]>>]

LEMMA FoldExists ==
  ASSUME NEW S, IsFiniteSet(S), NEW T, NEW b \in T, NEW e,
         \A s \in SUBSET S : s # {} => e[s] \in s,
         NEW F, F \in [(SUBSET S) \X T -> T]
  PROVE  \E g : FoldsBy(g, S, T, b, e, F)
<1> DEFINE Small(n) == {s \in SUBSET S : Cardinality(s) <= n}
           Solves(g, n) == /\ g \in [Small(n) -> T]
                           /\ \A s \in Small(n) :
                                g[s] = IF s = {} THEN b ELSE F[<<s, g[s \ {e[s]}]>>]
           Good == {n \in Nat : \E g : Solves(g, n)}
<1>1. \A s \in SUBSET S : IsFiniteSet(s) /\ Cardinality(s) \in Nat
  BY FS_Subset, FS_CardinalityType
<1>2. \A s \in SUBSET S : s # {} => /\ s \ {e[s]} \in SUBSET S
                                    /\ Cardinality(s \ {e[s]}) = Cardinality(s) - 1
  <2> SUFFICES ASSUME NEW s \in SUBSET S, s # {}
               PROVE  Cardinality(s \ {e[s]}) = Cardinality(s) - 1
    OBVIOUS
  <2> QED
    BY <1>1, FS_RemoveElement
<1>3. 0 \in Good
  <2>1. \A s \in Small(0) : s = {}
    <3> SUFFICES ASSUME NEW s \in SUBSET S, Cardinality(s) <= 0 PROVE s = {}
      OBVIOUS
    <3>1. Cardinality(s) = 0
      BY <1>1
    <3> QED
      BY <1>1, <3>1, FS_EmptySet
  <2>2. Solves([s \in Small(0) |-> b], 0)
    BY <2>1
  <2> QED
    BY <2>2
<1>4. ASSUME NEW n \in Nat, n \in Good PROVE n + 1 \in Good
  <2>1. PICK g : Solves(g, n)
    BY <1>4
  <2>2. \A s \in Small(n + 1) : s # {} => s \ {e[s]} \in Small(n)
    BY <1>1, <1>2
  <2>3. {} \in Small(n)
    BY FS_EmptySet
  <2>4. \A s \in Small(n) : s \in Small(n + 1)
    BY <1>1
  <2>5. PICK h : h = [s \in Small(n + 1) |-> IF s = {} THEN b ELSE F[<<s, g[s \ {e[s]}]>>]]
    OBVIOUS
  <2>6. \A s \in Small(n + 1) : s \in SUBSET S
    OBVIOUS
  <2> HIDE DEF Small
  <2>7. \A s \in Small(n) : g[s] \in T /\ g[s] = IF s = {} THEN b ELSE F[<<s, g[s \ {e[s]}]>>]
    BY <2>1
  <2>8. \A s \in Small(n) : h[s] = g[s]
    BY <2>4, <2>5, <2>7
  <2>9. ASSUME NEW s \in Small(n + 1), s # {}
        PROVE  h[s] = F[<<s, h[s \ {e[s]}]>>] /\ h[s] \in T
    <3>1. PICK r : r = s \ {e[s]}
      OBVIOUS
    <3>2. r \in Small(n)
      BY <2>2, <2>9, <3>1
    <3>3. h[r] = g[r] /\ g[r] \in T
      BY <2>7, <2>8, <3>2
    <3>4. h[s] = F[<<s, g[r]>>]
      BY <2>5, <2>9, <3>1
    <3>5. <<s, g[r]>> \in (SUBSET S) \X T
      BY <2>6, <3>3
    <3> QED
      BY <3>1, <3>3, <3>4, <3>5
  <2>10. \A s \in Small(n + 1) : s = {} => h[s] = b
    BY <2>5
  <2>11. h \in [Small(n + 1) -> T]
    <3>1. \A s \in Small(n + 1) : h[s] \in T
      BY <2>9, <2>10
    <3> QED
      BY <2>5, <3>1
  <2>12. Solves(h, n + 1)
    BY <2>9, <2>10, <2>11
  <2> HIDE DEF Solves
  <2> QED
    BY <2>12
<1>5. Cardinality(S) \in Good
  <2>1. Nat \subseteq Good
    <3> HIDE DEF Good
    <3> QED
      BY <1>3, <1>4, NumberInduction
  <2> QED
    BY <1>1, <2>1
<1>6. PICK g : Solves(g, Cardinality(S))
  BY <1>5
<1>7. Small(Cardinality(S)) = SUBSET S
  <2>1. \A s \in SUBSET S : Cardinality(s) <= Cardinality(S)
    BY FS_Subset
  <2> QED
    BY <2>1
<1> HIDE DEF Small
<1>8. FoldsBy(g, S, T, b, e, F)
  BY <1>6, <1>7 DEF FoldsBy
<1> QED
  BY <1>8

-----------------------------------------------------------------------------
\* t after the items of the chain c; g has it for every set of places of c.
WalksBy(g, t, c) ==
  g = [s \in SUBSET (DOMAIN c) |->
         IF s = {} THEN t ELSE Ams!AddedToPrev(g[s \ {Ams!Max(s)}], c[Ams!Max(s)])]

LEMMA WalkDefined ==
  ASSUME NEW t, NEW c
  PROVE  Ams!Walked(c, t) = (CHOOSE g : WalksBy(g, t, c))[DOMAIN c]
BY DEF Ams!Walked, Ams!FoldLeft, Ams!MapThenFoldSet, WalksBy

\* t after the chains h; g has it for every set of slots.
SweepsBy(g, t, h) ==
  g = [s \in SUBSET (DOMAIN h) |->
         IF s = {} THEN t ELSE Ams!Walked(h[Chosen(s)], g[s \ {Chosen(s)}])]

LEMMA SweepDefined ==
  Ams!Accumulated = (CHOOSE g : SweepsBy(g, items, ams_table))[DOMAIN ams_table]
BY DEF Ams!Accumulated, Ams!FoldFunction, Ams!FoldFunctionOnSet, Ams!MapThenFoldSet,
       SweepsBy, Chosen
-----------------------------------------------------------------------------
AmsItems == [key : Keys, counter : Int, prev : Nat, before : Nat]

\* A nonempty set of places has a greatest one.
LEMMA GreatestPlace ==
  ASSUME NEW n \in Nat, NEW s \in SUBSET (1 .. n), s # {}
  PROVE  Ams!Max(s) \in s /\ \A x \in s : Ams!Max(s) >= x
<1> DEFINE Back == {n - x : x \in s}
<1>1. PICK m \in Back : \A y \in Back : m <= y
  <2>1. Back \in SUBSET Nat /\ Back # {}
    <3>1. \A x \in s : x \in 1 .. n /\ n - x \in Nat
      OBVIOUS
    <3>2. PICK x : x \in s
      OBVIOUS
    <3>3. n - x \in Back
      BY <3>2
    <3>4. \A y \in Back : y \in Nat
      BY <3>1
    <3> HIDE DEF Back
    <3> QED
      BY <3>3, <3>4
  <2> HIDE DEF Back
  <2> QED
    BY <2>1, LeastNatural
<1>2. PICK z \in s : m = n - z
  OBVIOUS
<1>3. \A x \in s : z >= x
  <2> SUFFICES ASSUME NEW x \in s PROVE z >= x
    OBVIOUS
  <2>1. n - x \in Back
    OBVIOUS
  <2>2. n - z <= n - x
    BY <1>1, <1>2, <2>1
  <2>3. x \in Int /\ z \in Int
    BY <1>2
  <2> QED
    BY <2>2, <2>3
<1>4. \E z1 \in s : \A x \in s : z1 >= x
  BY <1>2, <1>3
<1>5. Ams!Max(s) = CHOOSE z1 \in s : \A x \in s : z1 >= x
  BY DEF Ams!Max
<1> QED
  BY <1>4, <1>5

LEMMA GreatestOfFirst ==
  ASSUME NEW n \in Nat, NEW i \in 1 .. n
  PROVE  Ams!Max(1 .. i) = i /\ (1 .. i) \ {i} = 1 .. i - 1
<1>1. 1 .. i \in SUBSET (1 .. n) /\ i \in 1 .. i
  OBVIOUS
<1>2. PICK m : m = Ams!Max(1 .. i)
  OBVIOUS
<1>3. m \in 1 .. i /\ m >= i
  BY <1>1, <1>2, GreatestPlace
<1>4. (1 .. i) \ {i} = 1 .. i - 1
  OBVIOUS
<1> QED
  BY <1>2, <1>3, <1>4

LEMMA AddedIs ==
  ASSUME NEW N \in Nat, NEW t \in [1 .. N -> AmsItems], NEW n \in 1 .. N,
         NEW u, u = Ams!AddedToPrev(t, n)
  PROVE  /\ u \in [1 .. N -> AmsItems]
         /\ \A x \in 1 .. N :
              /\ u[x].key = t[x].key /\ u[x].prev = t[x].prev /\ u[x].before = t[x].before
              /\ u[x].counter = IF x = t[n].prev THEN t[x].counter + t[n].counter
                                ELSE t[x].counter
<1>1. PICK q : q = t[n].prev
  OBVIOUS
<1>2. PICK a : a = t[n].counter
  OBVIOUS
<1>3. t[n] \in AmsItems
  OBVIOUS
<1>4. q \in Nat /\ a \in Int
  BY <1>1, <1>2, <1>3 DEF AmsItems
<1>5. u = IF q = 0 THEN t ELSE [t EXCEPT ![q].counter = t[q].counter + a]
  BY <1>1, <1>2 DEF Ams!AddedToPrev
<1>6. CASE q \notin 1 .. N
  <2>1. u = t
    BY <1>5, <1>6
  <2> QED
    BY <1>1, <1>6, <2>1
<1>7. CASE q \in 1 .. N
  <2>1. PICK y : y = t[q]
    OBVIOUS
  <2>2. PICK z : z = [y EXCEPT !.counter = y.counter + a]
    OBVIOUS
  <2>3. y \in AmsItems
    BY <1>7, <2>1
  <2>4. /\ z \in AmsItems /\ z.key = y.key /\ z.prev = y.prev /\ z.before = y.before
        /\ z.counter = y.counter + a
    BY <1>4, <2>2, <2>3 DEF AmsItems
  <2>5. u = [t EXCEPT ![q] = z]
    BY <1>4, <1>5, <1>7, <2>1, <2>2
  <2>6. \A x \in 1 .. N : u[x] = IF x = q THEN z ELSE t[x]
    BY <2>5
  <2>7. u \in [1 .. N -> AmsItems]
    BY <2>4, <2>5
  <2> QED
    BY <1>1, <1>2, <2>1, <2>4, <2>6, <2>7
<1> QED
  BY <1>6, <1>7

\* The walk down a chain, item by item.
WalksDown(r, N, t, c) ==
  /\ r[0] = t /\ Ams!Walked(c, t) = r[Len(c)]
  /\ \A i \in 0 .. Len(c) : r[i] \in [1 .. N -> AmsItems]
  /\ \A i \in 1 .. Len(c) : r[i] = Ams!AddedToPrev(r[i - 1], c[i])

LEMMA WalkExists ==
  ASSUME NEW N \in Nat, NEW t \in [1 .. N -> AmsItems],
         NEW c \in Seq(Nat), \A i \in 1 .. Len(c) : c[i] \in 1 .. N
  PROVE  \E r : WalksDown(r, N, t, c)
<1> DEFINE T == [1 .. N -> AmsItems]
           D == 1 .. Len(c)
<1>1. Len(c) \in Nat /\ DOMAIN c = D /\ \A i \in D : c[i] \in 1 .. N
  OBVIOUS
<1>2. IsFiniteSet(D)
  BY <1>1, FS_Interval
<1>3. PICK e : e = [s \in SUBSET D |-> Ams!Max(s)]
  OBVIOUS
<1>4. \A s \in SUBSET D : e[s] = Ams!Max(s) /\ (s # {} => e[s] \in s)
  BY <1>1, <1>3, GreatestPlace
<1>5. PICK F : F = [x \in (SUBSET D) \X T |->
                      IF x[1] = {} THEN t ELSE Ams!AddedToPrev(x[2], c[e[x[1]]])]
  OBVIOUS
<1>6. F \in [(SUBSET D) \X T -> T]
  <2>1. ASSUME NEW x \in (SUBSET D) \X T PROVE F[x] \in T
    <3>1. x[1] \in SUBSET D /\ x[2] \in T
      BY <2>1
    <3>2. CASE x[1] = {}
      BY <1>5, <3>2
    <3>3. CASE x[1] # {}
      <4>1. c[e[x[1]]] \in 1 .. N
        BY <1>1, <1>4, <3>1, <3>3
      <4>2. Ams!AddedToPrev(x[2], c[e[x[1]]]) \in T
        BY <3>1, <4>1, AddedIs
      <4> QED
        BY <1>5, <3>3, <4>2
    <3> QED
      BY <3>2, <3>3
  <2> QED
    BY <1>5, <2>1
<1> HIDE DEF T, D
<1>7. t \in T
  BY DEF T
<1>8. PICK g : FoldsBy(g, D, T, t, e, F)
  BY <1>2, <1>4, <1>6, <1>7, FoldExists
<1>9. \A s \in SUBSET D : /\ g[s] \in T
                          /\ g[s] = IF s = {} THEN t
                                    ELSE Ams!AddedToPrev(g[s \ {Ams!Max(s)}], c[Ams!Max(s)])
  <2> SUFFICES ASSUME NEW s \in SUBSET D, s # {}
               PROVE  g[s] = Ams!AddedToPrev(g[s \ {Ams!Max(s)}], c[Ams!Max(s)])
    BY <1>8 DEF FoldsBy
  <2>1. PICK r : r = s \ {e[s]}
    OBVIOUS
  <2>2. r \in SUBSET D /\ g[r] \in T
    BY <1>8, <2>1 DEF FoldsBy
  <2>3. g[s] = F[<<s, g[r]>>]
    BY <1>8, <2>1 DEF FoldsBy
  <2>4. <<s, g[r]>> \in (SUBSET D) \X T
    BY <2>2
  <2>5. F[<<s, g[r]>>] = Ams!AddedToPrev(g[r], c[e[s]])
    BY <1>5, <2>4
  <2> QED
    BY <1>4, <2>1, <2>3, <2>5
<1>10. WalksBy(g, t, c)
  <2>1. DOMAIN g = SUBSET D
    BY <1>8 DEF FoldsBy
  <2>2. g = [s \in SUBSET D |-> g[s]]
    BY <1>8 DEF FoldsBy
  <2>3. g = [s \in SUBSET D |-> IF s = {} THEN t
                                ELSE Ams!AddedToPrev(g[s \ {Ams!Max(s)}], c[Ams!Max(s)])]
    BY <1>9, <2>2
  <2> QED
    BY <1>1, <2>3 DEF WalksBy
<1>11. PICK f : f = CHOOSE x : WalksBy(x, t, c)
  OBVIOUS
<1>12. WalksBy(f, t, c)
  BY <1>10, <1>11
<1>13. \A s \in SUBSET D : f[s] = IF s = {} THEN t
                                  ELSE Ams!AddedToPrev(f[s \ {Ams!Max(s)}], c[Ams!Max(s)])
  BY <1>1, <1>12 DEF WalksBy
<1>14. Ams!Walked(c, t) = f[1 .. Len(c)]
  BY <1>1, <1>11, WalkDefined DEF D
<1>15. PICK r : r = [i \in 0 .. Len(c) |-> f[1 .. i]]
  OBVIOUS
<1>16. r[0] = t
  <2>1. 1 .. 0 = {} /\ {} \in SUBSET D
    OBVIOUS
  <2>2. 0 \in 0 .. Len(c)
    BY <1>1
  <2> QED
    BY <1>13, <1>15, <2>1, <2>2
<1>17. r[Len(c)] = Ams!Walked(c, t)
  BY <1>1, <1>14, <1>15
<1>18. ASSUME NEW i \in 1 .. Len(c) PROVE r[i] = Ams!AddedToPrev(r[i - 1], c[i])
  <2>1. 1 .. i \in SUBSET D /\ 1 .. i # {} /\ i \in 0 .. Len(c) /\ i - 1 \in 0 .. Len(c)
    <3>1. i \in 0 .. Len(c) /\ i - 1 \in 0 .. Len(c) /\ i \in 1 .. i
      BY <1>1
    <3>2. \A x \in 1 .. i : x \in 1 .. Len(c)
      BY <1>1
    <3> QED
      BY <3>1, <3>2 DEF D
  <2>2. Ams!Max(1 .. i) = i /\ (1 .. i) \ {i} = 1 .. i - 1
    BY <1>1, GreatestOfFirst
  <2>3. f[1 .. i] = Ams!AddedToPrev(f[1 .. i - 1], c[i])
    BY <1>13, <2>1, <2>2
  <2> QED
    BY <1>15, <2>1, <2>3
<1>19. \A i \in 0 .. Len(c) : r[i] \in T
  <2> DEFINE Good == {i \in Nat : i <= Len(c) => r[i] \in T}
  <2>1. 0 \in Good
    BY <1>7, <1>16
  <2>2. ASSUME NEW i \in Nat, i \in Good PROVE i + 1 \in Good
    <3> SUFFICES ASSUME i + 1 <= Len(c) PROVE r[i + 1] \in T
      OBVIOUS
    <3>1. i + 1 \in 1 .. Len(c) /\ (i + 1) - 1 = i /\ i <= Len(c)
      BY <1>1
    <3>2. r[i] \in T
      BY <2>2, <3>1
    <3>3. r[i + 1] = Ams!AddedToPrev(r[i], c[i + 1])
      BY <1>18, <3>1
    <3>4. c[i + 1] \in 1 .. N
      BY <1>1, <3>1 DEF D
    <3>5. Ams!AddedToPrev(r[i], c[i + 1]) \in T
      BY <3>2, <3>4, AddedIs DEF T
    <3> QED
      BY <3>3, <3>5
  <2>3. Nat \subseteq Good
    <3> HIDE DEF Good
    <3> QED
      BY <2>1, <2>2, NumberInduction
  <2> QED
    BY <1>1, <2>3
<1>20. WalksDown(r, N, t, c)
  BY <1>16, <1>17, <1>18, <1>19 DEF WalksDown, T
<1> QED
  BY <1>20
-----------------------------------------------------------------------------
(***************************************************************************)
(* What the packets keep true of the items it, the chains h and the packet *)
(* numbers p.  An item is the newest of its flow, or there is one item     *)
(* that names it as the one before: so a walk down the chain, the newest   *)
(* first, comes to an item after all its counts have been added to it.     *)
(***************************************************************************)
NewestItem(it, n) == \A m \in 1 .. Len(it) : it[m].key = it[n].key => m <= n

AmsTypes(it, h, p) ==
  /\ it \in Seq(AmsItems) /\ h \in [Slots -> Seq(Nat)] /\ p \in [Keys -> Nat]

ChainsHold(it, h) ==
  /\ \A s \in Slots : \A i \in 1 .. Len(h[s]) :
       h[s][i] \in 1 .. Len(it) /\ SlotOf[it[h[s][i]].key] = s
  /\ \A s \in Slots : \A i, j \in 1 .. Len(h[s]) : i < j => h[s][j] < h[s][i]
  /\ \A n \in 1 .. Len(it) : \E i \in 1 .. Len(h[SlotOf[it[n].key]]) :
       h[SlotOf[it[n].key]][i] = n

LinksHold(it) ==
  /\ \A n \in 1 .. Len(it) : /\ it[n].prev < n
                             /\ it[n].prev # 0 => it[it[n].prev].key = it[n].key
  /\ \A m, n \in 1 .. Len(it) : it[m].prev = it[n].prev /\ it[m].prev # 0 => m = n
  /\ \A n \in 1 .. Len(it) : NewestItem(it, n) \/ \E m \in 1 .. Len(it) : it[m].prev = n

CountsHold(it, p) ==
  \A n \in 1 .. Len(it) :
    /\ NewestItem(it, n) => it[n].counter = p[it[n].key] - it[n].before
    /\ it[n].prev # 0 => it[it[n].prev].counter = it[n].before - it[it[n].prev].before

AmsHolds(it, h, p) ==
  AmsTypes(it, h, p) /\ ChainsHold(it, h) /\ LinksHold(it) /\ CountsHold(it, p)

\* t is it, with the counters of the items of D complete.
Completed(it, p, t, D) ==
  /\ t \in [1 .. Len(it) -> AmsItems]
  /\ \A x \in 1 .. Len(it) :
       /\ t[x].key = it[x].key /\ t[x].prev = it[x].prev /\ t[x].before = it[x].before
       /\ t[x].counter = IF x \in D THEN p[it[x].key] - it[x].before ELSE it[x].counter

LEMMA WalkStep ==
  ASSUME NEW it, NEW h, NEW p, AmsHolds(it, h, p),
         NEW D, NEW t, Completed(it, p, t, D),
         NEW n \in 1 .. Len(it), n \in D,
         it[n].prev # 0 => it[n].prev \notin D,
         NEW u, u = Ams!AddedToPrev(t, n)
  PROVE  Completed(it, p, u, D \cup {it[n].prev})
<1>1. PICK N : N = Len(it) /\ N \in Nat
  BY DEF AmsHolds, AmsTypes
<1>2. PICK q : q = it[n].prev
  OBVIOUS
<1>3. \A x \in 1 .. N : /\ it[x] \in AmsItems
                        /\ it[x].counter \in Int /\ it[x].before \in Nat
                        /\ it[x].key \in Keys /\ p[it[x].key] \in Nat
  <2> SUFFICES ASSUME NEW x \in 1 .. N PROVE it[x] \in AmsItems /\ it[x].key \in Keys
    BY DEF AmsItems, AmsHolds, AmsTypes
  <2>1. it[x] \in AmsItems
    BY <1>1 DEF AmsHolds, AmsTypes
  <2> QED
    BY <2>1 DEF AmsItems
<1>4. t \in [1 .. N -> AmsItems]
  BY <1>1 DEF Completed
<1>5. /\ u \in [1 .. N -> AmsItems]
      /\ \A x \in 1 .. N :
           /\ u[x].key = t[x].key /\ u[x].prev = t[x].prev /\ u[x].before = t[x].before
           /\ u[x].counter = IF x = t[n].prev THEN t[x].counter + t[n].counter
                             ELSE t[x].counter
  <2>1. n \in 1 .. N
    BY <1>1
  <2> QED
    BY <1>1, <1>4, <2>1, AddedIs
<1>6. t[n].prev = q /\ t[n].counter = p[it[n].key] - it[n].before
  BY <1>1, <1>2 DEF Completed
<1>7. ASSUME NEW x \in 1 .. N
      PROVE  u[x].counter = IF x \in D \cup {q} THEN p[it[x].key] - it[x].before
                            ELSE it[x].counter
  <2>1. CASE x # q
    <3>1. u[x].counter = t[x].counter
      BY <1>5, <1>6, <2>1
    <3> QED
      BY <1>1, <2>1, <3>1 DEF Completed
  <2>2. CASE x = q
    <3>1. t[x].counter = it[x].counter
      BY <1>1, <1>2, <2>2 DEF Completed
    <3>2. it[q].counter = it[n].before - it[q].before
      BY <1>1, <1>2, <2>2 DEF AmsHolds, CountsHold
    <3>3. it[q].key = it[n].key
      BY <1>1, <1>2, <2>2 DEF AmsHolds, LinksHold
    <3>4. u[x].counter = (it[n].before - it[q].before) + (p[it[n].key] - it[n].before)
      BY <1>5, <1>6, <2>2, <3>1, <3>2
    <3>5. u[x].counter = p[it[n].key] - it[q].before
      <4>1. PICK a, b, c : a = it[n].before /\ b = it[q].before /\ c = p[it[n].key]
        OBVIOUS
      <4>2. a \in Nat /\ b \in Nat /\ c \in Nat
        BY <1>1, <1>3, <2>2, <4>1
      <4> QED
        BY <3>4, <4>1, <4>2
    <3> QED
      BY <2>2, <3>3, <3>5
  <2> QED
    BY <2>1, <2>2
<1> QED
  BY <1>1, <1>2, <1>5, <1>7 DEF Completed

\* The items complete once the slots of Z have been walked.
WalkedItems(it, Z) ==
  {n \in 1 .. Len(it) : NewestItem(it, n) \/ SlotOf[it[n].key] \in Z}

LEMMA WalkSweeps ==
  ASSUME NEW it, NEW h, NEW p, AmsHolds(it, h, p),
         NEW Z \in SUBSET Slots, NEW s \in Slots, s \notin Z,
         NEW t, Completed(it, p, t, WalkedItems(it, Z))
  PROVE  Completed(it, p, Ams!Walked(h[s], t), WalkedItems(it, Z \cup {s}))
<1>1. PICK N : N = Len(it) /\ N \in Nat
  BY DEF AmsHolds, AmsTypes
<1>2. PICK c : c = h[s]
  OBVIOUS
<1>3. PICK L : L = Len(c) /\ L \in Nat
  BY <1>2 DEF AmsHolds, AmsTypes
<1>4. c \in Seq(Nat) /\ \A i \in 1 .. Len(c) : c[i] \in 1 .. N
  <2>1. c \in Seq(Nat)
    BY <1>2 DEF AmsHolds, AmsTypes
  <2>2. \A i \in 1 .. Len(c) : c[i] \in 1 .. N
    BY <1>1, <1>2 DEF AmsHolds, ChainsHold
  <2> QED
    BY <2>1, <2>2
<1>5. /\ \A i \in 1 .. L : c[i] \in 1 .. N /\ SlotOf[it[c[i]].key] = s
      /\ \A i, j \in 1 .. L : i < j => c[j] < c[i]
      /\ \A n \in 1 .. N : SlotOf[it[n].key] = s => \E i \in 1 .. L : c[i] = n
  BY <1>1, <1>2, <1>3 DEF AmsHolds, ChainsHold
<1>6. /\ \A n \in 1 .. N : it[n].prev < n /\ it[n].prev \in Nat
      /\ \A n \in 1 .. N : it[n].prev # 0 => it[it[n].prev].key = it[n].key
      /\ \A m, n \in 1 .. N : it[m].prev = it[n].prev /\ it[m].prev # 0 => m = n
      /\ \A n \in 1 .. N : NewestItem(it, n) \/ \E m \in 1 .. N : it[m].prev = n
  <2>1. \A n \in 1 .. N : it[n].prev \in Nat
    <3> SUFFICES ASSUME NEW n \in 1 .. N PROVE it[n].prev \in Nat
      OBVIOUS
    <3>1. it[n] \in AmsItems
      BY <1>1 DEF AmsHolds, AmsTypes
    <3> QED
      BY <3>1 DEF AmsItems
  <2> QED
    BY <1>1, <2>1 DEF AmsHolds, LinksHold
<1>7. PICK r : WalksDown(r, N, t, c)
  <2>1. t \in [1 .. N -> AmsItems]
    BY <1>1 DEF Completed
  <2> QED
    BY <1>1, <1>4, <2>1, WalkExists
<1> DEFINE D(j) == WalkedItems(it, Z) \cup {it[c[i]].prev : i \in 1 .. j}
           Good == {j \in Nat : j <= L => Completed(it, p, r[j], D(j))}
<1>8. Completed(it, p, r[0], D(0))
  <2>1. D(0) = WalkedItems(it, Z)
    OBVIOUS
  <2> QED
    BY <1>7, <2>1 DEF WalksDown
<1>9. ASSUME NEW j \in Nat, j + 1 <= L, Completed(it, p, r[j], D(j))
      PROVE  Completed(it, p, r[j + 1], D(j + 1))
  <2>1. PICK n : n = c[j + 1] /\ n \in 1 .. N /\ j + 1 \in 1 .. L
    BY <1>3, <1>5, <1>9
  <2>2. r[j + 1] = Ams!AddedToPrev(r[j], n)
    <3>1. (j + 1) - 1 = j
      OBVIOUS
    <3> QED
      BY <1>3, <1>7, <2>1, <3>1 DEF WalksDown
  <2>3. n \in D(j)
    <3>1. CASE NewestItem(it, n)
      BY <1>1, <2>1, <3>1 DEF WalkedItems
    <3>2. CASE \E m \in 1 .. N : it[m].prev = n
      <4>1. PICK m \in 1 .. N : it[m].prev = n
        BY <3>2
      <4>2. it[n].key = it[m].key /\ n < m
        BY <1>6, <2>1, <4>1
      <4>3. SlotOf[it[m].key] = s
        BY <1>5, <2>1, <4>2
      <4>4. PICK i \in 1 .. L : c[i] = m
        BY <1>5, <4>3
      <4>5. ~(j + 1 < i) /\ j + 1 # i
        <5>1. n \in Int /\ m \in Int
          BY <1>1, <2>1
        <5>2. j + 1 < i => m < n
          BY <1>5, <2>1, <4>4
        <5>3. j + 1 = i => m = n
          BY <2>1, <4>4
        <5> QED
          BY <4>2, <5>1, <5>2, <5>3
      <4>6. i \in 1 .. j
        BY <1>3, <4>5
      <4> QED
        BY <4>1, <4>4, <4>6
    <3> QED
      BY <1>6, <2>1, <3>1, <3>2
  <2>4. it[n].prev # 0 => it[n].prev \notin D(j)
    <3>1. PICK q : q = it[n].prev
      OBVIOUS
    <3>3. CASE q # 0
      <4>1. q \in 1 .. N /\ q < n /\ it[q].key = it[n].key
        <5>1. q \in Nat /\ q < n /\ it[q].key = it[n].key
          BY <1>6, <2>1, <3>1, <3>3
        <5>2. n \in Nat /\ n <= N
          BY <1>1, <2>1
        <5> QED
          BY <1>1, <3>3, <5>1, <5>2
      <4>2. ~NewestItem(it, q)
        <5>1. SUFFICES ASSUME NewestItem(it, q) PROVE FALSE
          OBVIOUS
        <5>2. n <= q
          BY <1>1, <2>1, <4>1, <5>1 DEF NewestItem
        <5> QED
          BY <2>1, <4>1, <5>2
      <4>3. SlotOf[it[q].key] = s
        BY <1>5, <2>1, <4>1
      <4>4. q \notin WalkedItems(it, Z)
        BY <4>2, <4>3 DEF WalkedItems
      <4>5. ASSUME NEW i \in 1 .. j, it[c[i]].prev = q PROVE FALSE
        <5>1. i \in 1 .. L /\ i < j + 1
          BY <1>3, <2>1
        <5>2. c[i] \in 1 .. N /\ c[j + 1] < c[i]
          BY <1>5, <2>1, <5>1
        <5>3. c[i] = n
          BY <1>6, <2>1, <3>1, <3>3, <4>5, <5>2
        <5> QED
          BY <2>1, <5>2, <5>3
      <4> QED
        BY <3>1, <4>4, <4>5
    <3> QED
      BY <3>1, <3>3
  <2>5. D(j + 1) = D(j) \cup {it[n].prev}
    <3>1. 1 .. j + 1 = (1 .. j) \cup {j + 1}
      OBVIOUS
    <3> QED
      BY <2>1, <3>1
  <2> HIDE DEF D
  <2>6. n \in 1 .. Len(it)
    BY <1>1, <2>1
  <2> QED
    BY <1>9, <2>2, <2>3, <2>4, <2>5, <2>6, WalkStep
<1>10. Completed(it, p, r[L], D(L))
  <2> HIDE DEF D
  <2>1. 0 \in Good
    BY <1>8
  <2>2. ASSUME NEW j \in Nat, j \in Good PROVE j + 1 \in Good
    <3>1. j + 1 <= L => j <= L
      BY <1>3
    <3> QED
      BY <1>9, <2>2, <3>1
  <2>3. Nat \subseteq Good
    <3> HIDE DEF Good
    <3> QED
      BY <2>1, <2>2, NumberInduction
  <2> QED
    BY <1>3, <2>3
<1>11. \A x \in 1 .. N : x \in D(L) <=> x \in WalkedItems(it, Z \cup {s})
  <2> TAKE x \in 1 .. N
  <2>1. x \in WalkedItems(it, Z \cup {s}) => x \in D(L)
    <3> SUFFICES ASSUME SlotOf[it[x].key] = s, ~NewestItem(it, x) PROVE x \in D(L)
      BY <1>1 DEF WalkedItems
    <3>1. PICK m \in 1 .. N : it[m].prev = x
      BY <1>6
    <3>2. it[x].key = it[m].key
      BY <1>6, <3>1
    <3>3. PICK i \in 1 .. L : c[i] = m
      BY <1>5, <3>2
    <3> QED
      BY <3>1, <3>3
  <2>2. x \in D(L) => x \in WalkedItems(it, Z \cup {s})
    <3>1. x \in WalkedItems(it, Z) => x \in WalkedItems(it, Z \cup {s})
      BY DEF WalkedItems
    <3>2. ASSUME NEW i \in 1 .. L, it[c[i]].prev = x
          PROVE  x \in WalkedItems(it, Z \cup {s})
      <4>1. c[i] \in 1 .. N /\ SlotOf[it[c[i]].key] = s
        BY <1>5
      <4>2. it[x].key = it[c[i]].key
        BY <1>6, <3>2, <4>1
      <4> QED
        BY <1>1, <4>1, <4>2 DEF WalkedItems
    <3> QED
      BY <3>1, <3>2
  <2> QED
    BY <2>1, <2>2
<1>12. Ams!Walked(h[s], t) = r[L]
  BY <1>2, <1>3, <1>7 DEF WalksDown
<1> HIDE DEF D
<1> QED
  BY <1>1, <1>10, <1>11, <1>12 DEF Completed

\* So the counters get_entropy uses are complete.
LEMMA SweepsAll ==
  ASSUME IsFiniteSet(Slots), \A k \in Keys : SlotOf[k] \in Slots,
         AmsHolds(items, ams_table, packets)
  PROVE  \A x \in 1 .. Len(items) :
           Ams!Accumulated[x].counter = packets[items[x].key] - items[x].before
<1> DEFINE T == [1 .. Len(items) -> AmsItems]
           h == ams_table
<1>1. Len(items) \in Nat /\ items \in T /\ h \in [Slots -> Seq(Nat)]
  BY DEF AmsHolds, AmsTypes
<1>2. \A s \in Slots : h[s] \in Seq(Nat) /\ \A i \in 1 .. Len(h[s]) : h[s][i] \in 1 .. Len(items)
  BY <1>1 DEF AmsHolds, ChainsHold
<1>3. \A s \in Slots : \A t \in T : Ams!Walked(h[s], t) \in T
  <2> SUFFICES ASSUME NEW s \in Slots, NEW t \in T PROVE Ams!Walked(h[s], t) \in T
    OBVIOUS
  <2>1. PICK r : WalksDown(r, Len(items), t, h[s])
    BY <1>1, <1>2, WalkExists
  <2>2. Len(h[s]) \in 0 .. Len(h[s])
    BY <1>2
  <2> QED
    BY <2>1, <2>2 DEF WalksDown
<1> HIDE DEF T, h
<1>4. PICK e : e = [s \in SUBSET Slots |-> Chosen(s)]
  OBVIOUS
<1>5. \A s \in SUBSET Slots : e[s] = Chosen(s) /\ (s # {} => e[s] \in s)
  BY <1>4 DEF Chosen
<1>6. PICK F : F = [x \in (SUBSET Slots) \X T |->
                      IF x[1] = {} THEN items ELSE Ams!Walked(h[e[x[1]]], x[2])]
  OBVIOUS
<1>7. F \in [(SUBSET Slots) \X T -> T]
  <2>1. ASSUME NEW x \in (SUBSET Slots) \X T PROVE F[x] \in T
    <3>1. x[1] \in SUBSET Slots /\ x[2] \in T
      BY <2>1
    <3>2. CASE x[1] = {}
      BY <1>1, <1>6, <3>2
    <3>3. CASE x[1] # {}
      <4>1. e[x[1]] \in Slots
        BY <1>5, <3>1, <3>3
      <4>2. Ams!Walked(h[e[x[1]]], x[2]) \in T
        BY <1>3, <3>1, <4>1
      <4> QED
        BY <1>6, <3>3, <4>2
    <3> QED
      BY <3>2, <3>3
  <2> QED
    BY <1>6, <2>1
<1>8. PICK g : FoldsBy(g, Slots, T, items, e, F)
  BY <1>1, <1>5, <1>7, FoldExists
<1>9. \A s \in SUBSET Slots : g[s] = IF s = {} THEN items
                                     ELSE Ams!Walked(h[Chosen(s)], g[s \ {Chosen(s)}])
  <2> SUFFICES ASSUME NEW s \in SUBSET Slots, s # {}
               PROVE  g[s] = Ams!Walked(h[Chosen(s)], g[s \ {Chosen(s)}])
    BY <1>8 DEF FoldsBy
  <2>1. PICK r : r = s \ {e[s]}
    OBVIOUS
  <2>2. r \in SUBSET Slots /\ g[r] \in T
    BY <1>8, <2>1 DEF FoldsBy
  <2>3. g[s] = F[<<s, g[r]>>]
    BY <1>8, <2>1 DEF FoldsBy
  <2>4. <<s, g[r]>> \in (SUBSET Slots) \X T
    BY <2>2
  <2>5. F[<<s, g[r]>>] = Ams!Walked(h[e[s]], g[r])
    BY <1>6, <2>4
  <2> QED
    BY <1>5, <2>1, <2>3, <2>5
<1>10. DOMAIN h = Slots
  BY <1>1
<1>11. SweepsBy(g, items, h)
  <2>1. g = [s \in SUBSET Slots |-> g[s]]
    BY <1>8 DEF FoldsBy
  <2>2. g = [s \in SUBSET Slots |-> IF s = {} THEN items
                                    ELSE Ams!Walked(h[Chosen(s)], g[s \ {Chosen(s)}])]
    BY <1>9, <2>1
  <2> QED
    BY <1>10, <2>2 DEF SweepsBy
<1>12. PICK f : f = CHOOSE x : SweepsBy(x, items, h)
  OBVIOUS
<1>13. SweepsBy(f, items, h)
  BY <1>11, <1>12
<1>14. \A s \in SUBSET Slots : f[s] = IF s = {} THEN items
                                      ELSE Ams!Walked(h[Chosen(s)], f[s \ {Chosen(s)}])
  BY <1>10, <1>13 DEF SweepsBy
<1>15. Ams!Accumulated = f[Slots]
  BY <1>10, <1>12, SweepDefined DEF h
<1> DEFINE Good == {s \in SUBSET Slots :
                      Completed(items, packets, f[s], WalkedItems(items, s))}
<1>16. {} \in Good
  <2>1. f[{}] = items
    BY <1>14
  <2>2. \A x \in 1 .. Len(items) : x \in WalkedItems(items, {}) =>
          items[x].counter = packets[items[x].key] - items[x].before
    BY DEF WalkedItems, AmsHolds, CountsHold
  <2>3. Completed(items, packets, items, WalkedItems(items, {}))
    BY <1>1, <2>2 DEF Completed, T
  <2> QED
    BY <2>1, <2>3
<1>17. ASSUME NEW s \in SUBSET Slots, s # {}, \A x \in s : s \ {x} \in Good
       PROVE  s \in Good
  <2>1. PICK x : x = Chosen(s) /\ x \in s
    BY <1>17 DEF Chosen
  <2>2. PICK Z : Z = s \ {x}
    OBVIOUS
  <2>3. Z \in SUBSET Slots /\ x \in Slots /\ x \notin Z /\ s = Z \cup {x}
    BY <2>1, <2>2
  <2>4. Completed(items, packets, f[Z], WalkedItems(items, Z))
    BY <1>17, <2>1, <2>2
  <2>5. f[s] = Ams!Walked(h[x], f[Z])
    BY <1>14, <1>17, <2>1, <2>2
  <2>6. Completed(items, packets, Ams!Walked(h[x], f[Z]), WalkedItems(items, Z \cup {x}))
    BY <2>3, <2>4, WalkSweeps DEF h
  <2> QED
    BY <2>3, <2>5, <2>6
<1>18. Slots \in Good
  <2> HIDE DEF Good
  <2>1. SUBSET Slots \subseteq Good
    BY <1>16, <1>17, SetInduction
  <2> QED
    BY <2>1
<1>19. Completed(items, packets, Ams!Accumulated, WalkedItems(items, Slots))
  BY <1>15, <1>18
<1>20. \A x \in 1 .. Len(items) : x \in WalkedItems(items, Slots)
  <2> SUFFICES ASSUME NEW x \in 1 .. Len(items) PROVE SlotOf[items[x].key] \in Slots
    BY DEF WalkedItems
  <2>1. items[x] \in AmsItems
    BY <1>1 DEF T
  <2> QED
    BY <2>1 DEF AmsItems
<1> QED
  BY <1>19, <1>20 DEF Completed
-----------------------------------------------------------------------------
\* What insert finds in the chain: the newest item of the flow.
FindsNewest(it, k, m) ==
  \/ m = 0 /\ \A n \in 1 .. Len(it) : it[n].key # k
  \/ m \in 1 .. Len(it) /\ it[m].key = k /\ NewestItem(it, m)

LEMMA NewestFound ==
  ASSUME NEW it, NEW h, NEW p, AmsHolds(it, h, p),
         NEW k \in Keys, SlotOf[k] \in Slots
  PROVE  FindsNewest(it, k, Ams!NewestOf(it, h[SlotOf[k]], k))
<1>1. PICK N : N = Len(it) /\ N \in Nat
  BY DEF AmsHolds, AmsTypes
<1>2. PICK c : c = h[SlotOf[k]]
  OBVIOUS
<1>3. PICK L : L = Len(c) /\ L \in Nat
  <2>1. c \in Seq(Nat)
    BY <1>2 DEF AmsHolds, AmsTypes
  <2> QED
    BY <2>1
<1>4. /\ \A i \in 1 .. L : c[i] \in 1 .. N
      /\ \A i, j \in 1 .. L : i < j => c[j] < c[i]
      /\ \A n \in 1 .. N : it[n].key = k => \E i \in 1 .. L : c[i] = n
  BY <1>1, <1>2, <1>3 DEF AmsHolds, ChainsHold
<1> DEFINE Hits == {i \in 1 .. L : it[c[i]].key = k}
<1>5. PICK i0 : i0 = IF Hits # {} THEN Ams!Min(Hits) ELSE 0
  OBVIOUS
<1>6. Ams!NewestOf(it, c, k) = IF i0 = 0 THEN 0 ELSE c[i0]
  BY <1>3, <1>5 DEF Ams!NewestOf, Ams!SelectInSeq
<1>7. CASE Hits = {}
  <2>1. \A n \in 1 .. N : it[n].key # k
    BY <1>4, <1>7
  <2>2. Ams!NewestOf(it, c, k) = 0
    BY <1>5, <1>6, <1>7
  <2> QED
    BY <1>1, <1>2, <2>1, <2>2 DEF FindsNewest
<1>8. CASE Hits # {}
  <2>1. \E i \in Hits : \A j \in Hits : i <= j
    <3>1. Hits \in SUBSET Nat
      BY <1>3
    <3> HIDE DEF Hits
    <3> QED
      BY <1>8, <3>1, LeastNatural
  <2>2. i0 \in Hits /\ \A j \in Hits : i0 <= j
    BY <1>5, <1>8, <2>1 DEF Ams!Min
  <2>3. PICK m : m = c[i0] /\ m \in 1 .. N /\ it[m].key = k
    BY <1>4, <2>2
  <2>4. Ams!NewestOf(it, c, k) = m
    BY <1>3, <1>6, <2>2, <2>3
  <2>5. ASSUME NEW n \in 1 .. N, it[n].key = k PROVE n <= m
    <3>1. PICK j \in 1 .. L : c[j] = n
      BY <1>4, <2>5
    <3>2. i0 \in 1 .. L /\ i0 <= j
      BY <2>2, <2>5, <3>1
    <3>3. i0 < j => n < m
      BY <1>4, <2>3, <3>1, <3>2
    <3>4. i0 = j => n = m
      BY <2>3, <3>1
    <3>5. i0 \in Nat /\ j \in Nat /\ n \in Nat /\ m \in Nat
      BY <1>1, <1>3, <2>3, <3>2
    <3> QED
      BY <3>2, <3>3, <3>4, <3>5
  <2> QED
    BY <1>1, <1>2, <2>3, <2>4, <2>5 DEF FindsNewest, NewestItem
<1> QED
  BY <1>7, <1>8

-----------------------------------------------------------------------------
\* Both inserts, by what they leave of the items and the chains.
\* What a sampled and another packet of k leave, of the items, the chains and the
\* packet numbers; m is what the search found.
SampledStep(it, h, p, it2, h2, p2, k, m) ==
  /\ AmsTypes(it2, h2, p2)
  /\ Len(it2) = Len(it) + 1
  /\ \A x \in 1 .. Len(it) : it2[x] = it[x]
  /\ it2[Len(it) + 1] = [key |-> k, counter |-> 1, prev |-> m, before |-> p[k]]
  /\ \A s \in Slots : s # SlotOf[k] => h2[s] = h[s]
  /\ Len(h2[SlotOf[k]]) = Len(h[SlotOf[k]]) + 1
  /\ h2[SlotOf[k]][1] = Len(it) + 1
  /\ \A i \in 1 .. Len(h[SlotOf[k]]) : h2[SlotOf[k]][i + 1] = h[SlotOf[k]][i]
  /\ p2[k] = p[k] + 1
  /\ \A x \in Keys : x # k => p2[x] = p[x]

OtherStep(it, h, p, it2, p2, k, m) ==
  /\ AmsTypes(it2, h, p2)
  /\ Len(it2) = Len(it)
  /\ \A x \in 1 .. Len(it) :
       /\ it2[x].key = it[x].key /\ it2[x].prev = it[x].prev /\ it2[x].before = it[x].before
       /\ it2[x].counter = IF x = m THEN it[x].counter + 1 ELSE it[x].counter
  /\ p2[k] = p[k] + 1
  /\ \A x \in Keys : x # k => p2[x] = p[x]

LEMMA SampledKeeps ==
  ASSUME NEW it, NEW h, NEW p, AmsHolds(it, h, p),
         NEW k \in Keys, \A x \in Keys : SlotOf[x] \in Slots,
         NEW m, FindsNewest(it, k, m),
         NEW it2, NEW h2, NEW p2, SampledStep(it, h, p, it2, h2, p2, k, m)
  PROVE  AmsHolds(it2, h2, p2)
<1>0. PICK N : N = Len(it) /\ N \in Nat
  BY DEF AmsHolds, AmsTypes
<1>a. /\ N \in Nat /\ N = Len(it) /\ AmsTypes(it2, h2, p2) /\ Len(it2) = N + 1
      /\ \A x \in 1 .. N : it2[x] = it[x]
      /\ it2[N + 1] = [key |-> k, counter |-> 1, prev |-> m, before |-> p[k]]
      /\ \A s \in Slots : s # SlotOf[k] => h2[s] = h[s]
      /\ Len(h2[SlotOf[k]]) = Len(h[SlotOf[k]]) + 1
      /\ h2[SlotOf[k]][1] = N + 1
      /\ \A i \in 1 .. Len(h[SlotOf[k]]) : h2[SlotOf[k]][i + 1] = h[SlotOf[k]][i]
      /\ p2[k] = p[k] + 1
      /\ \A x \in Keys : x # k => p2[x] = p[x]
  BY <1>0 DEF SampledStep
<1> USE <1>a
<1>1. PICK S : S = SlotOf[k] /\ S \in Slots
  OBVIOUS
<1>2. PICK new : new = N + 1 /\ new \in Nat
  OBVIOUS
<1>3. /\ it2[new].key = k /\ it2[new].counter = 1 /\ it2[new].prev = m
      /\ it2[new].before = p[k]
  BY <1>2
<1>4. \A n \in 1 .. new : n \in 1 .. N \/ n = new
  BY <1>2
<1>5. \A n \in 1 .. N : /\ it[n].key \in Keys /\ it[n].prev \in Nat /\ it[n].prev < n
                        /\ n \in 1 .. new /\ n \in Nat /\ n < new
                        /\ it[n].prev # 0 => it[n].prev \in 1 .. N
  <2> SUFFICES ASSUME NEW n \in 1 .. N
               PROVE  it[n].key \in Keys /\ it[n].prev \in Nat /\ it[n].prev < n
    BY <1>2
  <2>1. it[n] \in AmsItems
    BY DEF AmsHolds, AmsTypes
  <2>2. it[n].prev < n
    BY DEF AmsHolds, LinksHold
  <2> QED
    BY <2>1, <2>2 DEF AmsItems
<1>6. \A s \in Slots : Len(h[s]) \in Nat
  <2> SUFFICES ASSUME NEW s \in Slots PROVE Len(h[s]) \in Nat
    OBVIOUS
  <2>1. h[s] \in Seq(Nat)
    BY DEF AmsHolds, AmsTypes
  <2> QED
    BY <2>1
<1>7. m \in Nat /\ m < new /\ (m # 0 => m \in 1 .. N /\ it[m].key = k)
  BY <1>2 DEF FindsNewest
<1>8. \A n \in 1 .. N : it[n].key = k => m # 0 /\ n <= m
  BY DEF FindsNewest, NewestItem
<1>9. PICK l : l = Len(h[S]) /\ l \in Nat /\ Len(h2[S]) = l + 1
  BY <1>1, <1>6
<1>10. \A i \in 1 .. l + 1 : \/ i = 1 /\ h2[S][i] = new
                             \/ i - 1 \in 1 .. l /\ h2[S][i] = h[S][i - 1]
  <2> SUFFICES ASSUME NEW i \in 1 .. l + 1, i # 1
               PROVE  i - 1 \in 1 .. l /\ h2[S][i] = h[S][i - 1]
    BY <1>1, <1>2
  <2>1. PICK j : j = i - 1
    OBVIOUS
  <2>2. j \in 1 .. l /\ i = j + 1
    BY <1>9, <2>1
  <2> QED
    BY <1>1, <1>9, <2>1, <2>2
<1>11. \A i \in 1 .. l : h[S][i] \in 1 .. N /\ SlotOf[it[h[S][i]].key] = S
  BY <1>1, <1>9 DEF AmsHolds, ChainsHold
<1>12. ChainsHold(it2, h2)
  <2>1. ASSUME NEW s \in Slots, NEW i \in 1 .. Len(h2[s])
        PROVE  h2[s][i] \in 1 .. Len(it2) /\ SlotOf[it2[h2[s][i]].key] = s
    <3>1. CASE s = S
      <4>1. CASE i = 1
        BY <1>1, <1>2, <1>3, <3>1, <4>1
      <4>2. CASE i # 1
        <5>1. PICK j : j = i - 1 /\ j \in 1 .. l /\ h2[s][i] = h[S][j]
          <6>1. i \in 1 .. l + 1
            BY <1>9, <3>1
          <6> QED
            BY <1>10, <3>1, <4>2, <6>1
        <5>2. PICK x : x = h[S][j] /\ x \in 1 .. N /\ SlotOf[it[x].key] = S
          BY <1>11, <5>1
        <5> QED
          BY <1>2, <1>5, <3>1, <5>1, <5>2
      <4> QED
        BY <4>1, <4>2
    <3>2. CASE s # S
      <4>1. h2[s] = h[s]
        BY <1>1, <3>2
      <4>2. PICK x : x = h[s][i] /\ x \in 1 .. N /\ SlotOf[it[x].key] = s
        BY <4>1 DEF AmsHolds, ChainsHold
      <4> QED
        BY <1>2, <1>5, <4>1, <4>2
    <3> QED
      BY <3>1, <3>2
  <2>2. ASSUME NEW s \in Slots, NEW i \in 1 .. Len(h2[s]), NEW j \in 1 .. Len(h2[s]), i < j
        PROVE  h2[s][j] < h2[s][i]
    <3>1. CASE s = S
      <4>1. j # 1 /\ i \in 1 .. l + 1 /\ j \in 1 .. l + 1
        BY <1>9, <2>2, <3>1
      <4>2. PICK j1 : j1 = j - 1 /\ j1 \in 1 .. l /\ h2[S][j] = h[S][j1]
        BY <1>10, <4>1
      <4>3. CASE i = 1
        <5>1. h2[S][i] = new
          BY <1>1, <1>2, <4>3
        <5>2. h[S][j1] < new
          BY <1>5, <1>11, <4>2
        <5> QED
          BY <3>1, <4>2, <5>1, <5>2
      <4>4. CASE i # 1
        <5>1. PICK i1 : i1 = i - 1 /\ i1 \in 1 .. l /\ h2[S][i] = h[S][i1]
          BY <1>10, <4>1, <4>4
        <5>2. i1 < j1
          BY <2>2, <4>1, <4>2, <5>1
        <5>3. h[S][j1] < h[S][i1]
          BY <1>1, <1>9, <4>2, <5>1, <5>2 DEF AmsHolds, ChainsHold
        <5> QED
          BY <3>1, <4>2, <5>1, <5>3
      <4> QED
        BY <4>3, <4>4
    <3>2. CASE s # S
      <4>1. h2[s] = h[s]
        BY <1>1, <3>2
      <4> QED
        BY <2>2, <4>1 DEF AmsHolds, ChainsHold
    <3> QED
      BY <3>1, <3>2
  <2>3. ASSUME NEW n \in 1 .. Len(it2)
        PROVE  \E i \in 1 .. Len(h2[SlotOf[it2[n].key]]) : h2[SlotOf[it2[n].key]][i] = n
    <3>1. CASE n = new
      <4>1. 1 \in 1 .. Len(h2[S])
        BY <1>9
      <4>2. SlotOf[it2[n].key] = S
        BY <1>1, <1>3, <3>1
      <4> QED
        BY <1>1, <1>2, <3>1, <4>1, <4>2
    <3>2. CASE n \in 1 .. N
      <4>1. PICK s : s = SlotOf[it[n].key] /\ SlotOf[it2[n].key] = s
        BY <3>2
      <4>2. PICK i \in 1 .. Len(h[s]) : h[s][i] = n
        BY <3>2, <4>1 DEF AmsHolds, ChainsHold
      <4>3. CASE s = S
        <5>1. i + 1 \in 1 .. Len(h2[S])
          BY <1>9, <4>2, <4>3
        <5>2. h2[S][i + 1] = n
          BY <1>1, <4>2, <4>3
        <5> QED
          BY <4>1, <4>3, <5>1, <5>2
      <4>4. CASE s # S
        <5>1. s \in Slots
          BY <3>2, <4>1, <1>5
        <5>2. h2[s] = h[s]
          BY <1>1, <4>4, <5>1
        <5> QED
          BY <4>1, <4>2, <5>2
      <4> QED
        BY <4>3, <4>4
    <3> QED
      BY <1>2, <1>4, <3>1, <3>2
  <2> QED
    BY <2>1, <2>2, <2>3 DEF ChainsHold
<1>13. LinksHold(it2)
  <2>1. ASSUME NEW n \in 1 .. new
        PROVE  it2[n].prev < n /\ (it2[n].prev # 0 => it2[it2[n].prev].key = it2[n].key)
    <3>1. CASE n = new
      BY <1>3, <1>7, <3>1
    <3>2. CASE n \in 1 .. N
      <4>1. PICK q : q = it[n].prev /\ it2[n] = it[n] /\ q < n /\ (q # 0 => q \in 1 .. N)
        BY <1>5, <3>2
      <4>2. q # 0 => it[q].key = it[n].key
        BY <3>2, <4>1 DEF AmsHolds, LinksHold
      <4> QED
        BY <4>1, <4>2
    <3> QED
      BY <1>4, <3>1, <3>2
  <2>2. \A n \in 1 .. N : it[n].prev = m => m = 0
    <3> SUFFICES ASSUME NEW n \in 1 .. N, it[n].prev = m, m # 0 PROVE FALSE
      OBVIOUS
    <3>1. it[m].key = it[n].key /\ m < n
      BY <1>5 DEF AmsHolds, LinksHold
    <3>2. n <= m
      BY <1>7, <1>8, <3>1
    <3> QED
      BY <1>5, <1>7, <3>1, <3>2
  <2>3. ASSUME NEW x \in 1 .. new, NEW n \in 1 .. new, it2[x].prev = it2[n].prev, it2[x].prev # 0
        PROVE  x = n
    <3>1. CASE x \in 1 .. N /\ n \in 1 .. N
      BY <2>3, <3>1 DEF AmsHolds, LinksHold
    <3>2. CASE x = new /\ n \in 1 .. N
      BY <1>3, <2>2, <2>3, <3>2
    <3>3. CASE x \in 1 .. N /\ n = new
      BY <1>3, <2>2, <2>3, <3>3
    <3> QED
      BY <1>4, <3>1, <3>2, <3>3
  <2>4. ASSUME NEW n \in 1 .. new
        PROVE  NewestItem(it2, n) \/ \E x \in 1 .. new : it2[x].prev = n
    <3>1. CASE n = new
      BY <1>2, <3>1 DEF NewestItem
    <3>2. CASE n \in 1 .. N /\ \E x \in 1 .. N : it[x].prev = n
      BY <1>5, <3>2
    <3>3. CASE n \in 1 .. N /\ NewestItem(it, n)
      <4>1. CASE it[n].key = k
        <5>1. m \in 1 .. N /\ it[m].key = k /\ n <= m
          BY <1>7, <1>8, <3>3, <4>1
        <5>2. m <= n
          BY <3>3, <4>1, <5>1 DEF NewestItem
        <5>3. n = m
          BY <1>5, <1>7, <3>3, <5>1, <5>2
        <5> QED
          BY <1>2, <1>3, <5>3
      <4>2. CASE it[n].key # k
        <5>1. \A x \in 1 .. new : it2[x].key = it2[n].key => x <= n
          BY <1>3, <1>4, <3>3, <4>2 DEF NewestItem
        <5> QED
          BY <1>2, <5>1 DEF NewestItem
      <4> QED
        BY <4>1, <4>2
    <3> QED
      BY <1>4, <3>1, <3>2, <3>3 DEF AmsHolds, LinksHold
  <2> QED
    BY <1>2, <2>1, <2>3, <2>4 DEF LinksHold
<1>14. CountsHold(it2, p2)
  <2>1. p[k] \in Nat
    BY DEF AmsHolds, AmsTypes
  <2>2. ASSUME NEW n \in 1 .. new, NewestItem(it2, n)
        PROVE  it2[n].counter = p2[it2[n].key] - it2[n].before
    <3>1. CASE n = new
      BY <1>3, <2>1, <3>1
    <3>2. CASE n \in 1 .. N
      <4>1. it[n].key # k
        <5>1. SUFFICES ASSUME it[n].key = k PROVE FALSE
          OBVIOUS
        <5>2. new \in 1 .. Len(it2) /\ it2[new].key = it2[n].key
          BY <1>2, <1>3, <3>2, <5>1
        <5>3. new <= n
          BY <2>2, <5>2 DEF NewestItem
        <5> QED
          BY <1>2, <1>5, <3>2, <5>3
      <4>2. NewestItem(it, n)
        <5>1. \A x \in 1 .. N : it2[x].key = it2[n].key => x <= n
          BY <1>2, <1>5, <2>2 DEF NewestItem
        <5> QED
          BY <3>2, <5>1 DEF NewestItem
      <4>3. p2[it[n].key] = p[it[n].key]
        BY <1>5, <3>2, <4>1
      <4>4. it[n].counter = p[it[n].key] - it[n].before
        BY <3>2, <4>2 DEF AmsHolds, CountsHold
      <4> QED
        BY <3>2, <4>3, <4>4
    <3> QED
      BY <1>4, <3>1, <3>2
  <2>3. ASSUME NEW n \in 1 .. new, it2[n].prev # 0
        PROVE  it2[it2[n].prev].counter = it2[n].before - it2[it2[n].prev].before
    <3>1. CASE n = new
      <4>1. m \in 1 .. N /\ it2[m] = it[m] /\ it[m].key = k
        BY <1>3, <1>7, <2>3, <3>1
      <4>2. NewestItem(it, m)
        BY <1>3, <2>3, <3>1 DEF FindsNewest
      <4>3. it[m].counter = p[k] - it[m].before
        BY <4>1, <4>2 DEF AmsHolds, CountsHold
      <4> QED
        BY <1>3, <3>1, <4>1, <4>3
    <3>2. CASE n \in 1 .. N
      <4>1. PICK q : q = it[n].prev /\ it2[n] = it[n] /\ (q # 0 => q \in 1 .. N)
        BY <1>5, <3>2
      <4>2. q # 0 => it[q].counter = it[n].before - it[q].before
        BY <3>2, <4>1 DEF AmsHolds, CountsHold
      <4> QED
        BY <2>3, <4>1, <4>2
    <3> QED
      BY <1>4, <3>1, <3>2
  <2> QED
    BY <1>2, <2>2, <2>3 DEF CountsHold
<1> QED
  BY <1>12, <1>13, <1>14 DEF AmsHolds

LEMMA OtherKeeps ==
  ASSUME NEW it, NEW h, NEW p, AmsHolds(it, h, p),
         NEW k \in Keys, NEW m, FindsNewest(it, k, m),
         NEW it2, NEW p2, OtherStep(it, h, p, it2, p2, k, m)
  PROVE  AmsHolds(it2, h, p2)
<1>0. /\ AmsTypes(it2, h, p2) /\ Len(it2) = Len(it)
      /\ \A x \in 1 .. Len(it) :
           /\ it2[x].key = it[x].key /\ it2[x].prev = it[x].prev /\ it2[x].before = it[x].before
           /\ it2[x].counter = IF x = m THEN it[x].counter + 1 ELSE it[x].counter
      /\ p2[k] = p[k] + 1
      /\ \A x \in Keys : x # k => p2[x] = p[x]
  BY DEF OtherStep
<1> USE <1>0
<1>1. PICK N : N = Len(it) /\ N \in Nat
  BY DEF AmsHolds, AmsTypes
<1>2. \A n \in 1 .. N : /\ it[n].key \in Keys /\ it[n].prev \in Nat /\ it[n].prev < n
                        /\ it[n].before \in Nat /\ it[n].counter \in Int
                        /\ it[n].prev # 0 => it[n].prev \in 1 .. N
  <2> SUFFICES ASSUME NEW n \in 1 .. N
               PROVE  /\ it[n].key \in Keys /\ it[n].prev \in Nat /\ it[n].prev < n
                      /\ it[n].before \in Nat /\ it[n].counter \in Int
    BY <1>1
  <2>1. it[n] \in AmsItems
    BY <1>1 DEF AmsHolds, AmsTypes
  <2>2. it[n].prev < n
    BY <1>1 DEF AmsHolds, LinksHold
  <2> QED
    BY <2>1, <2>2 DEF AmsItems
<1>3. \A n \in 1 .. N : NewestItem(it2, n) <=> NewestItem(it, n)
  BY <1>1 DEF NewestItem
<1>4. ChainsHold(it2, h)
  <2>1. ChainsHold(it, h)
    BY DEF AmsHolds
  <2>2. ASSUME NEW s \in Slots, NEW i \in 1 .. Len(h[s])
        PROVE  h[s][i] \in 1 .. Len(it2) /\ SlotOf[it2[h[s][i]].key] = s
    <3>1. PICK x : x = h[s][i] /\ x \in 1 .. Len(it) /\ SlotOf[it[x].key] = s
      BY <2>1 DEF ChainsHold
    <3> QED
      BY <3>1
  <2>3. ASSUME NEW n \in 1 .. Len(it2)
        PROVE  \E i \in 1 .. Len(h[SlotOf[it2[n].key]]) : h[SlotOf[it2[n].key]][i] = n
    <3>1. it2[n].key = it[n].key
      OBVIOUS
    <3> QED
      BY <2>1, <3>1 DEF ChainsHold
  <2> QED
    BY <2>1, <2>2, <2>3 DEF ChainsHold
<1>5. LinksHold(it2)
  <2>1. LinksHold(it)
    BY DEF AmsHolds
  <2>2. ASSUME NEW n \in 1 .. N
        PROVE  it2[n].prev < n /\ (it2[n].prev # 0 => it2[it2[n].prev].key = it2[n].key)
    <3>1. PICK q : q = it[n].prev /\ it2[n].prev = q /\ q < n /\ (q # 0 => q \in 1 .. N)
      BY <1>1, <1>2
    <3>2. q # 0 => it[q].key = it[n].key
      BY <1>1, <2>1, <3>1 DEF LinksHold
    <3> QED
      BY <1>1, <3>1, <3>2
  <2>3. \A x, n \in 1 .. N : it2[x].prev = it2[n].prev /\ it2[x].prev # 0 => x = n
    BY <1>1, <2>1 DEF LinksHold
  <2>4. ASSUME NEW n \in 1 .. N
        PROVE  NewestItem(it2, n) \/ \E x \in 1 .. N : it2[x].prev = n
    BY <1>1, <1>3, <2>1 DEF LinksHold
  <2> QED
    BY <1>1, <2>2, <2>3, <2>4 DEF LinksHold
<1>6. CountsHold(it2, p2)
  <2>1. CountsHold(it, p) /\ p \in [Keys -> Nat]
    BY DEF AmsHolds, AmsTypes
  <2>2. ASSUME NEW n \in 1 .. N, NewestItem(it, n)
        PROVE  it2[n].counter = p2[it2[n].key] - it2[n].before
    <3>1. it[n].counter = p[it[n].key] - it[n].before
      BY <1>1, <2>1, <2>2 DEF CountsHold
    <3>2. CASE it[n].key = k
      <4>1. m \in 1 .. N /\ it[m].key = k /\ n <= m /\ m <= n
        BY <1>1, <2>2, <3>2 DEF FindsNewest, NewestItem
      <4>2. n = m
        BY <1>1, <4>1
      <4>3. it2[n].counter = it[n].counter + 1
        BY <1>1, <4>2
      <4>4. PICK b, c : b = it[n].before /\ c = p[k] /\ b \in Nat /\ c \in Nat
        BY <1>2, <2>1
      <4>5. it2[n].counter = (c - b) + 1
        BY <3>1, <3>2, <4>3, <4>4
      <4>6. p2[it2[n].key] = c + 1 /\ it2[n].before = b
        BY <1>1, <3>2, <4>4
      <4>7. (c - b) + 1 = (c + 1) - b
        BY <4>4
      <4> QED
        BY <4>5, <4>6, <4>7
    <3>3. CASE it[n].key # k
      <4>1. n # m
        BY <1>1, <3>3 DEF FindsNewest
      <4>2. p2[it[n].key] = p[it[n].key]
        BY <1>2, <3>3
      <4> QED
        BY <1>1, <3>1, <4>1, <4>2
    <3> QED
      BY <3>2, <3>3
  <2>3. ASSUME NEW n \in 1 .. N, it2[n].prev # 0
        PROVE  it2[it2[n].prev].counter = it2[n].before - it2[it2[n].prev].before
    <3>1. PICK q : q = it[n].prev /\ it2[n].prev = q /\ q # 0 /\ q \in 1 .. N /\ q < n
      BY <1>1, <1>2, <2>3
    <3>2. it[q].counter = it[n].before - it[q].before /\ it[q].key = it[n].key
      BY <1>1, <2>1, <3>1 DEF CountsHold, AmsHolds, LinksHold
    <3>3. q # m
      <4>1. SUFFICES ASSUME q = m PROVE FALSE
        OBVIOUS
      <4>2. NewestItem(it, m)
        BY <3>1, <4>1 DEF FindsNewest
      <4>3. n <= q
        BY <1>1, <3>1, <3>2, <4>1, <4>2 DEF NewestItem
      <4> QED
        BY <1>1, <3>1, <4>3
    <3> QED
      BY <1>1, <3>1, <3>2, <3>3
  <2> QED
    BY <1>1, <1>3, <2>2, <2>3 DEF CountsHold
<1> QED
  BY <1>4, <1>5, <1>6 DEF AmsHolds
-----------------------------------------------------------------------------
LEMMA AmsStarts ==
  ASSUME Ams!Init, packets = [k \in Keys |-> 0]
  PROVE  AmsHolds(items, ams_table, packets)
<1>1. items = <<>> /\ Len(items) = 0 /\ 1 .. Len(items) = {}
  BY DEF Ams!Init
<1>2. \A s \in Slots : ams_table[s] = <<>> /\ 1 .. Len(ams_table[s]) = {}
  BY DEF Ams!Init
<1>3. AmsTypes(items, ams_table, packets)
  BY DEF Ams!Init, AmsTypes
<1>4. ChainsHold(items, ams_table)
  BY <1>1, <1>2 DEF ChainsHold
<1> QED
  BY <1>1, <1>3, <1>4 DEF AmsHolds, LinksHold, CountsHold

LEMMA AmsInserts ==
  ASSUME \A x \in Keys : SlotOf[x] \in Slots,
         AmsHolds(items, ams_table, packets), NEW k \in Keys,
         Ams!Insert(k), packets' = [packets EXCEPT ![k] = @ + 1]
  PROVE  AmsHolds(items', ams_table', packets')
<1>1. PICK N : N = Len(items) /\ N \in Nat
  BY DEF AmsHolds, AmsTypes
<1>2. PICK S : S = SlotOf[k] /\ S \in Slots
  OBVIOUS
<1>3. PICK m : m = Ams!NewestOf(items, ams_table[S], k)
  OBVIOUS
<1>4. FindsNewest(items, k, m)
  BY <1>2, <1>3, NewestFound
<1>5. m \in Nat /\ (m # 0 => m \in 1 .. N)
  BY <1>1, <1>4 DEF FindsNewest
<1>6. /\ packets' \in [Keys -> Nat] /\ packets'[k] = packets[k] + 1 /\ packets[k] \in Nat
      /\ \A x \in Keys : x # k => packets'[x] = packets[x]
  BY DEF AmsHolds, AmsTypes
<1>7. items \in Seq(AmsItems) /\ ams_table \in [Slots -> Seq(Nat)]
  BY DEF AmsHolds, AmsTypes
<1>8. CASE Ams!InsertSampled(k)
  <2>1. PICK new : new = N + 1 /\ new \in Nat /\ new # 0
    BY <1>1
  <2>2. PICK z : z = [key |-> k, counter |-> 0, prev |-> m, before |-> packets[k]]
    OBVIOUS
  <2>3. PICK y : y = [key |-> k, counter |-> 1, prev |-> m, before |-> packets[k]]
    OBVIOUS
  <2>4. z \in AmsItems /\ y \in AmsItems
    BY <1>5, <1>6, <2>2, <2>3 DEF AmsItems
  <2>5. PICK a : a = Append(items, z)
    OBVIOUS
  <2>6. /\ a \in Seq(AmsItems) /\ Len(a) = new /\ a[new] = z
        /\ \A x \in 1 .. N : a[x] = items[x]
    BY <1>1, <1>7, <2>1, <2>4, <2>5
  <2>7. items' = [a EXCEPT ![new] = y]
    <3>1. items' = [a EXCEPT ![new].counter = @ + 1]
      BY <1>1, <1>2, <1>3, <1>8, <2>1, <2>2, <2>5
         DEF Ams!InsertSampled, Ams!Counted, Ams!NewItem, Ams!now_pos
    <3>2. y = [z EXCEPT !.counter = z.counter + 1]
      BY <2>2, <2>3
    <3> QED
      BY <2>6, <3>1, <3>2
  <2>8. /\ items' \in Seq(AmsItems) /\ Len(items') = new /\ items'[new] = y
        /\ \A x \in 1 .. N : items'[x] = items[x]
    <3>1. new \in 1 .. Len(a)
      BY <2>1, <2>6
    <3>2. /\ items' \in Seq(AmsItems) /\ Len(items') = Len(a)
          /\ \A x \in 1 .. Len(a) : items'[x] = IF x = new THEN y ELSE a[x]
      BY <2>4, <2>6, <2>7, <3>1, ExceptSeq
    <3> QED
      BY <1>1, <2>1, <2>6, <3>1, <3>2
  <2>9. PICK c : c = <<new>> \o ams_table[S]
    OBVIOUS
  <2>10. PICK l : l = Len(ams_table[S]) /\ l \in Nat /\ ams_table[S] \in Seq(Nat)
    <3>1. ams_table[S] \in Seq(Nat)
      BY <1>2, <1>7
    <3> QED
      BY <3>1
  <2>11. /\ c \in Seq(Nat) /\ Len(c) = l + 1 /\ c[1] = new
         /\ \A i \in 1 .. l : c[i + 1] = ams_table[S][i]
    <3>1. <<new>> \in Seq(Nat) /\ Len(<<new>>) = 1 /\ <<new>>[1] = new
      BY <2>1
    <3>2. /\ c \in Seq(Nat) /\ Len(c) = 1 + l
          /\ \A i \in 1 .. 1 + l : c[i] = IF i <= 1 THEN <<new>>[i] ELSE ams_table[S][i - 1]
      BY <2>9, <2>10, <3>1, ConcatProperties
    <3>3. c[1] = new
      BY <2>10, <3>1, <3>2
    <3>4. ASSUME NEW i \in 1 .. l PROVE c[i + 1] = ams_table[S][i]
      <4>1. PICK j : j = i + 1 /\ j \in 1 .. 1 + l /\ ~(j <= 1) /\ j - 1 = i
        BY <2>10
      <4> QED
        BY <3>2, <4>1
    <3> QED
      BY <2>10, <3>2, <3>3, <3>4
  <2>12. ams_table' = [ams_table EXCEPT ![S] = c]
    BY <1>1, <1>2, <1>8, <2>1, <2>9 DEF Ams!InsertSampled, Ams!now_pos
  <2>13. /\ ams_table' \in [Slots -> Seq(Nat)] /\ ams_table'[S] = c
         /\ \A s \in Slots : s # S => ams_table'[s] = ams_table[s]
    BY <1>2, <1>7, <2>11, <2>12
  <2>14. AmsTypes(items', ams_table', packets')
    BY <1>6, <2>8, <2>13 DEF AmsTypes
  <2>15. /\ Len(items') = Len(items) + 1
         /\ \A x \in 1 .. Len(items) : items'[x] = items[x]
         /\ items'[Len(items) + 1]
              = [key |-> k, counter |-> 1, prev |-> m, before |-> packets[k]]
    BY <1>1, <2>1, <2>3, <2>8
  <2>16. /\ \A s \in Slots : s # SlotOf[k] => ams_table'[s] = ams_table[s]
         /\ Len(ams_table'[SlotOf[k]]) = Len(ams_table[SlotOf[k]]) + 1
         /\ ams_table'[SlotOf[k]][1] = Len(items) + 1
         /\ \A i \in 1 .. Len(ams_table[SlotOf[k]]) :
              ams_table'[SlotOf[k]][i + 1] = ams_table[SlotOf[k]][i]
    BY <1>1, <1>2, <2>1, <2>10, <2>11, <2>13
  <2>17. SampledStep(items, ams_table, packets, items', ams_table', packets', k, m)
    BY <1>6, <2>14, <2>15, <2>16 DEF SampledStep
  <2> QED
    BY <1>4, <2>17, SampledKeeps
<1>9. CASE Ams!InsertOther(k)
  <2>1. items' = IF m = 0 THEN items ELSE [items EXCEPT ![m].counter = @ + 1]
    BY <1>2, <1>3, <1>9 DEF Ams!InsertOther, Ams!Counted
  <2>2. ams_table' = ams_table
    BY <1>9 DEF Ams!InsertOther
  <2>3. /\ items' \in Seq(AmsItems) /\ Len(items') = N
        /\ \A x \in 1 .. N :
             /\ items'[x].key = items[x].key /\ items'[x].prev = items[x].prev
             /\ items'[x].before = items[x].before
             /\ items'[x].counter = IF x = m THEN items[x].counter + 1 ELSE items[x].counter
    <3>1. CASE m = 0
      <4>1. items' = items /\ \A x \in 1 .. N : x # m
        BY <2>1, <3>1
      <4> QED
        BY <1>1, <1>7, <4>1
    <3>2. CASE m # 0
      <4>1. PICK y : y = items[m]
        OBVIOUS
      <4>2. PICK z : z = [y EXCEPT !.counter = y.counter + 1]
        OBVIOUS
      <4>3. y \in AmsItems
        BY <1>1, <1>5, <1>7, <3>2, <4>1
      <4>4. /\ z \in AmsItems /\ z.key = y.key /\ z.prev = y.prev /\ z.before = y.before
            /\ z.counter = y.counter + 1
        BY <4>2, <4>3 DEF AmsItems
      <4>5. items' = [items EXCEPT ![m] = z]
        BY <1>1, <1>5, <1>7, <2>1, <3>2, <4>1, <4>2
      <4>6. m \in 1 .. Len(items)
        BY <1>1, <1>5, <3>2
      <4>7. /\ items' \in Seq(AmsItems) /\ Len(items') = Len(items)
            /\ \A x \in 1 .. Len(items) : items'[x] = IF x = m THEN z ELSE items[x]
        BY <1>7, <4>4, <4>5, <4>6, ExceptSeq
      <4> QED
        BY <1>1, <4>1, <4>4, <4>7
    <3> QED
      BY <3>1, <3>2
  <2>4. AmsTypes(items', ams_table, packets')
    BY <1>6, <1>7, <2>3 DEF AmsTypes
  <2>5. /\ Len(items') = Len(items)
        /\ \A x \in 1 .. Len(items) :
             /\ items'[x].key = items[x].key /\ items'[x].prev = items[x].prev
             /\ items'[x].before = items[x].before
             /\ items'[x].counter = IF x = m THEN items[x].counter + 1 ELSE items[x].counter
    BY <1>1, <2>3
  <2>6. OtherStep(items, ams_table, packets, items', packets', k, m)
    BY <1>6, <2>4, <2>5 DEF OtherStep
  <2>7. AmsHolds(items', ams_table, packets')
    BY <1>4, <2>6, OtherKeeps
  <2> QED
    BY <2>2, <2>7
<1> QED
  BY <1>8, <1>9 DEF Ams!Insert

\* What Sieving estimates from has for every sampled position the packets of its
\* flow from there on, for any number of slots and flows, any placement of the
\* flows, any sampled positions and any trace.
THEOREM CountsFromSampleHolds == ArraySpec => []CountsFromSample
<1> DEFINE I == program = "sieving" => AmsHolds(items, ams_table, packets)
<1>0. IsFiniteSet(Slots) /\ \A k \in Keys : SlotOf[k] \in Slots
  BY ArrayAssumption DEF Ams!SievingAssumption, Ams!IsFiniteSet, IsFiniteSet
<1>1. ArrayInit => I
  BY AmsStarts DEF ArrayInit
<1>2. I /\ [ArrayNext]_arrayVars => I'
  <2> SUFFICES ASSUME I, [ArrayNext]_arrayVars, program' = "sieving"
               PROVE  AmsHolds(items', ams_table', packets')
    OBVIOUS
  <2>1. ASSUME NEW k \in Keys, ArrayInsert(k)
        PROVE  AmsHolds(items', ams_table', packets')
    <3>1. program = "sieving" /\ Ams!Insert(k) /\ packets' = [packets EXCEPT ![k] = @ + 1]
      BY <2>1 DEF ArrayInsert
    <3> QED
      BY <1>0, <3>1, AmsInserts
  <2>2. ASSUME UNCHANGED arrayVars PROVE AmsHolds(items', ams_table', packets')
    BY <2>2 DEF arrayVars, AmsVars
  <2> QED
    BY <2>1, <2>2 DEF ArrayNext
<1>3. I => CountsFromSample
  <2> SUFFICES ASSUME I, program = "sieving" PROVE Ams!CountsFromSample
    BY DEF CountsFromSample
  <2> QED
    BY <1>0, SweepsAll DEF Ams!CountsFromSample
<1> QED
  BY <1>1, <1>2, <1>3, PTL DEF ArraySpec
=============================================================================
