------------------------------ MODULE Sieving ------------------------------
(***************************************************************************)
(* CPU/Sieving/entropy_ams.h: packets at sampled positions of the stream   *)
(* get an item that counts how often their flow comes from there on.  Only *)
(* the newest item of a flow counts; get_entropy adds its counts to the    *)
(* older ones.                                                             *)
(*                                                                         *)
(* available_stack hands the items out in a random order; here they have   *)
(* the order of their positions.                                           *)
(***************************************************************************)
EXTENDS Integers, SequencesExt

CONSTANTS
  Keys,
  Slots,       (* slots of hash_table                                      *)
  SlotOf,      (* SlotOf[k]: the slot of flow k                            *)
  rand_pos     (* the sampled positions, sorted: past the last one the code
                  compares with what lies after the array                  *)

VARIABLES
  items,         \* key, counter and prev_ptr of every item, and its history
  hash_table,    \* the items of every slot, the newest first (chaining_ptr)
  now_item_cnt,
  packets        \* packets[k]: packets of flow k so far

SievingAssumption ==
  /\ IsFiniteSet(Slots)
  /\ \A k \in Keys : SlotOf[k] \in Slots
  /\ \A i \in 1 .. Len(rand_pos) - 1 : rand_pos[i] < rand_pos[i + 1]
-----------------------------------------------------------------------------
Init ==
  /\ items = <<>>
  /\ hash_table = [s \in Slots |-> <<>>]
  /\ now_item_cnt = 0

now_pos == Len(items)

Sampled == now_item_cnt + 1 = rand_pos[now_pos + 1]

\* The newest item of k in a chain, 0 if there is none.
NewestOf(its, chain, k) ==
  LET i == SelectInSeq(chain, LAMBDA n : its[n].key = k)
  IN  IF i = 0 THEN 0 ELSE chain[i]

\* Slip: a new item does not look for the one before it.
NewItemAlone(k) == [key |-> k, counter |-> 0, prev |-> 0, before |-> packets[k]]

\* before is a history: the packets of k before the item.
NewItem(k) ==
  [key |-> k, counter |-> 0, prev |-> NewestOf(items, hash_table[SlotOf[k]], k),
   before |-> packets[k]]

Counted(its, n) == IF n = 0 THEN its ELSE [its EXCEPT ![n].counter = @ + 1]

\* A position that is sampled, and one that is not.
InsertSampled(k) ==
  /\ Sampled
  /\ hash_table' = [hash_table EXCEPT ![SlotOf[k]] = <<now_pos + 1>> \o @]
  /\ items' = Counted(Append(items, NewItem(k)), now_pos + 1)
  /\ now_item_cnt' = now_item_cnt + 1

InsertOther(k) ==
  /\ ~Sampled
  /\ items' = Counted(items, NewestOf(items, hash_table[SlotOf[k]], k))
  /\ now_item_cnt' = now_item_cnt + 1
  /\ UNCHANGED hash_table

Insert(k) == InsertSampled(k) \/ InsertOther(k)

\* What get_entropy makes of the counters: down every chain, each item's is
\* added to that of the flow's item before it.
AddedToPrev(its, n) ==
  IF its[n].prev = 0 THEN its
  ELSE [its EXCEPT ![its[n].prev].counter = @ + its[n].counter]

Walked(chain, its) == FoldLeft(AddedToPrev, its, chain)

Accumulated == FoldFunction(Walked, items, hash_table)
-----------------------------------------------------------------------------
(***************************************************************************)
(* The estimator needs for every sampled position the number of packets of *)
(* its flow from there on: what the single increments and the final walk   *)
(* down the shared chains give, however the sampled flows interleave.      *)
(***************************************************************************)
CountsFromSample ==
  \A n \in 1 .. Len(items) :
    Accumulated[n].counter = packets[items[n].key] - items[n].before
=============================================================================
