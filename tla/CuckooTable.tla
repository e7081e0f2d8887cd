---------------------------- MODULE CuckooTable ----------------------------
(***************************************************************************)
(* CPU/common/cuckoo_hashing.h: the table ht in which CMHeap keeps the     *)
(* index of every flow of its heap.  A key may be in the slots of either   *)
(* of two buckets; when both are full, insert moves residents to their     *)
(* other buckets, up to five deep, whatever way succeeds first.            *)
(*                                                                         *)
(* The keys handed to the recursive calls are pointers into the slots, the *)
(* values are copies: a slot that the call below has changed gives the     *)
(* caller another key than it was called with.                             *)
(***************************************************************************)
EXTENDS Integers, FiniteSetsExt, SequencesExt, TLC

CONSTANTS
  Keys,          (* flows, none of which is the zero key                    *)
  w_ht, d_ht,    (* buckets, slots of a bucket                              *)
  remained,      (* 5: how deep insert moves residents                      *)
  capacity_ht,   (* elements of the heap                                    *)
  HashPairs      (* the pairs of hash functions                             *)

VARIABLES
  hashs,         \* the pair the table has drawn
  table,         \* key and val of every slot; key 0 is an empty slot
  full,          \* "Hash table is full." was thrown
  index,         \* history: the values by key
  packets

Init ==
  /\ hashs \in HashPairs
  /\ table = [s \in (0 .. w_ht - 1) \X (0 .. d_ht - 1) |-> [key |-> 0, val |-> 0]]
  /\ full = FALSE
  /\ index = <<>>
-----------------------------------------------------------------------------
\* The slots that are tried for a key, in order: those of the bucket by which
\* it was moved out, from_k, are not.
SlotsOf(key, from_k) ==
  LET Bucket(k) == IF k = from_k THEN <<>>
                   ELSE [i \in 1 .. d_ht |-> [slot |-> <<hashs[k][key], i - 1>>, k |-> k]]
  IN  Bucket(0) \o Bucket(1)

\* Slip: the value stays behind when a key moves.
SetKeyAlone(t, s, key, val) == [t EXCEPT ![s].key = key]

Set(t, s, key, val) == [t EXCEPT ![s] = [key |-> key, val |-> val]]

\* insert of the key in slot p of table t, or of key new when p is <<>>: the
\* table it leaves, and whether it succeeded.
RECURSIVE Move(_, _, _, _, _, _)
Move(t, new, p, val, from_k, left) ==
  LET KeyIn(u) == IF p = <<>> THEN new ELSE u[p].key
      tried == SlotsOf(KeyIn(t), from_k)
      empty == SelectInSeq(tried, LAMBDA o : t[o.slot].key = 0)
      Away(o) == Move(t, 0, o.slot, t[o.slot].val, o.k, left - 1)
      moved == SelectInSeq(tried, LAMBDA o : Away(o).ok)
  IN  IF left = 0 THEN [ok |-> FALSE, t |-> t]
      ELSE IF empty # 0 THEN [ok |-> TRUE, t |-> Set(t, tried[empty].slot, KeyIn(t), val)]
      ELSE IF moved # 0
      THEN LET u == Away(tried[moved]).t
           IN  [ok |-> TRUE, t |-> Set(u, tried[moved].slot, KeyIn(u), val)]
      ELSE [ok |-> FALSE, t |-> t]

\* query: where a key is found, or <<>>
Found(t, key) ==
  LET tried == SlotsOf(key, -1)
      i == SelectInSeq(tried, LAMBDA o : t[o.slot].key = key)
  IN  IF i = 0 THEN <<>> ELSE tried[i].slot

\* ht[key] = val: operator[] inserts a missing key with 0
Assigned(t, key, val) ==
  LET done == IF Found(t, key) # <<>> THEN [ok |-> TRUE, t |-> t]
              ELSE Move(t, key, <<>>, 0, -1, remained)
  IN  IF done.ok THEN [done EXCEPT !.t[Found(done.t, key)].val = val] ELSE done

Erased(t, key) ==
  LET s == Found(t, key) IN IF s = <<>> THEN t ELSE [t EXCEPT ![s].key = 0]
-----------------------------------------------------------------------------
\* CMHeap's use of the table: a flow of the heap changes its index; a new one
\* enters while there is room, and else in the place of another.  (The index
\* is any number that tells the assignments apart.)
Insert(k) ==
  LET val == packets[k] + 1 IN
  \E gone \in IF k \notin DOMAIN index /\ Cardinality(DOMAIN index) = capacity_ht
              THEN DOMAIN index ELSE {0} :
    LET done == Assigned(IF gone = 0 THEN table ELSE Erased(table, gone), k, val)
    IN  /\ ~full
        /\ table' = done.t
        /\ full' = ~done.ok
        /\ index' = [j \in (DOMAIN index \cup {k}) \ {gone} |-> IF j = k THEN val ELSE index[j]]
        /\ UNCHANGED hashs
-----------------------------------------------------------------------------
(***************************************************************************)
(* The table is the map its user takes it for, whatever the hash functions *)
(* and however residents were moved: each key is found with the value it   *)
(* was given last, and no other key is found.                              *)
(***************************************************************************)
IsTheMap ==
  ~full => \A key \in Keys :
             LET s == Found(table, key) IN
             IF key \in DOMAIN index THEN s # <<>> /\ table[s].val = index[key] ELSE s = <<>>
=============================================================================
