----------------------------- MODULE HeavyPart -----------------------------
(***************************************************************************)
(* The heavy part of the Elastic sketch (class HeavyPart): a hash table    *)
(* of buckets.  A bucket has Slots lanes for resident flows and one more   *)
(* lane, the guard lane, whose val counts the votes cast against the       *)
(* residents and whose key is never written.  buckets[b].key[i] of the     *)
(* code is key[b][i] here, buckets[b].val[i] is val[b][i].                 *)
(*                                                                         *)
(* One call of insert is one of four actions, one for each way the code    *)
(* returns: HeavyMatch and HeavyFill (return 0), HeavySwap (return 1),     *)
(* HeavyReject (return 2).  The caller composes them with the light part.  *)
(***************************************************************************)
EXTENDS Param

CONSTANTS
  BucketNum,  (* bucket_num                                                 *)
  Slots,      (* MAX_VALID_COUNTER: lanes for flows, and the guard's index  *)
  BucketOf,   (* CalculateFP: the bucket of a key                           *)
  SIMD        (* TRUE: HeavyPart.h; FALSE: HeavyPart-noSIMD.h               *)

ASSUME HeavyAssumption ==
  /\ BucketNum \in Nat \ {0}
  /\ Slots \in Nat \ {0}
  /\ BucketOf \in [Keys \cup {0} -> 0 .. BucketNum - 1]
  /\ SIMD \in BOOLEAN

VARIABLES key, val

heavyVars == <<key, val>>
-----------------------------------------------------------------------------
Buckets == 0 .. BucketNum - 1
Lanes   == 0 .. Slots - 1      \* the lanes that hold flows
Guard   == Slots               \* the lane of the votes
-----------------------------------------------------------------------------
(***************************************************************************)
(* The lanes whose key equals k.  The vector comparison of the SIMD code   *)
(* covers the guard lane, whose key is 0; the loop of the other does not.  *)
(***************************************************************************)
Matching(k) ==
  LET b == BucketOf[k]
  IN  {i \in IF SIMD THEN Lanes \cup {Guard} ELSE Lanes : key[b][i] = k}

\* The free lanes: a zero count for the SIMD code, a zero key for the other.
Empty(b) ==
  {i \in Lanes : IF SIMD THEN Count(val[b][i]) = 0 ELSE key[b][i] = 0}

Smallest(b) ==
  {i \in Lanes : \A j \in Lanes : Count(val[b][i]) <= Count(val[b][j])}

Victim(b) == Min(Smallest(b))

\* The vote of a packet of k that neither matches nor finds a free lane.
Contends(k) == Matching(k) = {} /\ Empty(BucketOf[k]) = {}

Votes(b) == UpdateGuardVal(val[b][Guard])

Displaces(k) ==
  LET b == BucketOf[k]
  IN  JudgeIfSwap(Count(val[b][Victim(b)]), Votes(b))
-----------------------------------------------------------------------------
HeavyInit ==
  /\ key = [b \in Buckets |-> [i \in 0 .. Slots |-> 0]]
  /\ val = [b \in Buckets |-> [i \in 0 .. Slots |-> 0]]

\* clear: memset of every bucket
HeavyClear ==
  /\ key' = [b \in Buckets |-> [i \in 0 .. Slots |-> 0]]
  /\ val' = [b \in Buckets |-> [i \in 0 .. Slots |-> 0]]

\* The key is resident: its first lane counts the packet.
HeavyMatch(k, f) ==
  /\ Matching(k) # {}
  /\ val' = [val EXCEPT ![BucketOf[k]][Min(Matching(k))] = Add(@, f)]
  /\ UNCHANGED key

\* The key takes the first free lane.
HeavyFill(k, f) ==
  LET b == BucketOf[k]
      i == Min(Empty(b))
  IN  /\ Matching(k) = {}
      /\ Empty(b) # {}
      /\ key' = [key EXCEPT ![b][i] = k]
      /\ val' = [val EXCEPT ![b][i] = f]

\* The packet is a vote against the residents and stays outside.
HeavyReject(k) ==
  LET b == BucketOf[k]
  IN  /\ Contends(k)
      /\ ~Displaces(k)
      /\ val' = [val EXCEPT ![b][Guard] = Votes(b)]
      /\ UNCHANGED key

\* Slips of the displacement: the flag forgotten, the victim's count left in
\* the lane.
HeavySwapUnflagged(k) ==
  LET b == BucketOf[k]
      i == Victim(b)
  IN  /\ Contends(k)
      /\ Displaces(k)
      /\ key' = [key EXCEPT ![b][i] = k]
      /\ val' = [val EXCEPT ![b][Guard] = 0, ![b][i] = 1]

HeavySwapInherit(k) ==
  LET b == BucketOf[k]
      i == Victim(b)
  IN  /\ Contends(k)
      /\ Displaces(k)
      /\ key' = [key EXCEPT ![b][i] = k]
      /\ val' = [val EXCEPT ![b][Guard] = 0,
                            ![b][i] = HalfRange + Count(@) + 1]

\* The votes suffice: the key displaces the smallest resident.
HeavySwap(k) ==
  LET b == BucketOf[k]
      i == Victim(b)
  IN  /\ Contends(k)
      /\ Displaces(k)
      /\ key' = [key EXCEPT ![b][i] = k]
      /\ val' = [val EXCEPT ![b][Guard] = 0, ![b][i] = HalfRange + 1]

\* quick_insert displaces without handing the victim's count to anyone: the
\* new resident inherits it.  HeavyPart-noSIMD.h has none; with SIMD false this
\* is what it would be, and what the split copy's scalar build has.
QuickSwap(k) ==
  LET b == BucketOf[k]
  IN  /\ Contends(k)
      /\ Displaces(k)
      /\ key' = [key EXCEPT ![b][Victim(b)] = k]
      /\ val' = [val EXCEPT ![b][Guard] = 0]
-----------------------------------------------------------------------------
\* query: the val of the first lane that holds k, 0 when there is none
Residence(k) == {i \in Lanes : key[BucketOf[k]][i] = k}

HeavyQuery(k) ==
  IF Residence(k) = {} THEN 0 ELSE val[BucketOf[k]][Min(Residence(k))]

HeavyTypeOK ==
  /\ key \in [Buckets -> [0 .. Slots -> Keys \cup {0}]]
  /\ val \in [Buckets -> [0 .. Slots -> 0 .. Word - 1]]
=============================================================================
