----------------------------- MODULE ElasticGpu -----------------------------
(***************************************************************************)
(* GPU/elastic_gpu.cu: one GPU thread per packet.  A thread offers its     *)
(* packet to one bucket of each of the heavy tables in turn, under a spin  *)
(* lock of that bucket which it tries for MAX_TRIES times, and carries     *)
(* what comes out, its own packet or the flow it displaced, to the next    *)
(* table and at last to the light part.                                    *)
(*                                                                         *)
(* Without the lock insert_bucket returns a variable it has not set, so    *)
(* the thread may go on or take its packet for counted.                    *)
(*                                                                         *)
(* An action is one atomic operation, or the reads or the writes of a      *)
(* critical section.  The source has no fence between the plain accesses   *)
(* to a bucket and the atomics of its lock; they are modelled in program   *)
(* order.                                                                  *)
(*                                                                         *)
(* Counts are modelled without a bound: read_keys takes fewer than 2^32    *)
(* bytes, 13 for a packet, so that no count reaches the flag, nor eight    *)
(* times a count 2^32.  Light counters are too, for their low bits are all *)
(* that the query reads; the flags that insert_light adds are above them.  *)
(***************************************************************************)
EXTENDS Integers, FiniteSets, Functions

CONSTANTS
  Threads,    (* packets of the launch                                      *)
  Stalled,    (* threads the scheduler may stop running                     *)
  Keys,
  Launches,   (* the keys that a launch may give the threads                *)
  Tables,     (* number of heavy tables, 4                                  *)
  PosOf,      (* PosOf[i][k]: the bucket of k in table i, hash1 % (LEN1 - i)*)
  LightPosOf, (* the light counter of k, hash2 % LEN2                       *)
  MAX_TRIES,  (* attempts to take a lock, 10                                *)
  FACTOR,     (* votes per packet that displace a flow, 8                   *)
  LightSize   (* the query reads a light counter modulo this, 256           *)

Table == 0 .. Tables - 1

ASSUME GpuAssumption ==
  /\ IsFiniteSet(Threads) /\ IsFiniteSet(Keys) /\ Stalled \subseteq Threads
  /\ Launches \subseteq [Threads -> Keys]
  /\ Tables \in Nat \ {0}
  /\ DOMAIN PosOf = Table /\ \A i \in Table : DOMAIN PosOf[i] = Keys
  /\ DOMAIN LightPosOf = Keys
  /\ MAX_TRIES \in Nat \ {0}
  /\ FACTOR \in Nat \ {0} /\ LightSize \in Nat \ {0}

Buckets(i) == {PosOf[i][k] : k \in Keys}
LightPositions == {LightPosOf[k] : k \in Keys}

VARIABLES
  kernel_heavy,  \* kernel_heavy[i][b]: flag and count (word 0), key, votes
  mutex,         \* mutex[i][b]: 0 free, 1 taken
  kernel_light,  \* kernel_light[q]
  pc,            \* where every thread is
  table,         \* the table it is at
  tries,         \* failed attempts for the lock
  seen,          \* the bucket as it has read it
  key, val,      \* what it carries
  packet,        \* the key the launch gave it (history)
  dropped,       \* it got no lock and took its packet for counted (history)
  astray         \* keys a part of which went past its own bucket of a table
                 \* without being offered to it (history)

shared == <<kernel_heavy, mutex, kernel_light>>
vars == <<shared, pc, table, tries, seen, key, val, packet, dropped, astray>>
-----------------------------------------------------------------------------
NoKey == 0
EmptyBucket == [flag |-> FALSE, n |-> 0, key |-> NoKey, votes |-> 0]

\* kernel_init, and kernel_insert's own variables
Init ==
  /\ packet \in Launches
  /\ kernel_heavy = [i \in Table |-> [b \in Buckets(i) |-> EmptyBucket]]
  /\ mutex = [i \in Table |-> [b \in Buckets(i) |-> 0]]
  /\ kernel_light = [q \in LightPositions |-> 0]
  /\ pc = [t \in Threads |-> "lock"]
  /\ table = [t \in Threads |-> 0]
  /\ tries = [t \in Threads |-> 0]
  /\ seen = [t \in Threads |-> EmptyBucket]
  /\ key = packet
  /\ val = [t \in Threads |-> [flag |-> FALSE, n |-> 1]]
  /\ dropped = [t \in Threads |-> FALSE]
  /\ astray = {}

\* The bucket of thread t.  hash1 is taken once, of the packet's own key: a
\* displaced flow goes to the next bucket of the flow that displaced it.
Pos(t) == PosOf[table[t]][packet[t]]

\* It is also the bucket of what the thread carries.
AtHome(t) == Pos(t) = PosOf[table[t]][key[t]]
-----------------------------------------------------------------------------
(***************************************************************************)
(* insert_bucket                                                           *)
(***************************************************************************)
\* What follows insert_bucket: FALSE ends insert_heavy, TRUE goes on to the
\* next table, and after the last one to the light part.
Return(t, res) ==
  IF ~res THEN /\ pc' = [pc EXCEPT ![t] = "done"]
               /\ UNCHANGED table
  ELSE IF table[t] + 1 < Tables
  THEN /\ pc' = [pc EXCEPT ![t] = "lock"]
       /\ table' = [table EXCEPT ![t] = @ + 1]
  ELSE /\ pc' = [pc EXCEPT ![t] = "light"]
       /\ UNCHANGED table

\* Slip: a plain test and set, which two threads may pass.
LockTaken(t) ==
  /\ pc[t] = "lock"
  /\ mutex' = [mutex EXCEPT ![table[t]][Pos(t)] = 1]
  /\ pc' = [pc EXCEPT ![t] = "read"]
  /\ UNCHANGED <<kernel_heavy, kernel_light, table, tries, seen, key, val,
                 packet, dropped, astray>>

Lock(t) ==
  /\ pc[t] = "lock"
  /\ mutex[table[t]][Pos(t)] = 0
  /\ mutex' = [mutex EXCEPT ![table[t]][Pos(t)] = 1]
  /\ pc' = [pc EXCEPT ![t] = "read"]
  /\ UNCHANGED <<kernel_heavy, kernel_light, table, tries, seen, key, val,
                 packet, dropped, astray>>

\* Slip: the attempts are not counted.
RetryUncounted(t) ==
  /\ pc[t] = "lock"
  /\ mutex[table[t]][Pos(t)] = 1
  /\ tries[t] + 1 < MAX_TRIES
  /\ UNCHANGED vars

Retry(t) ==
  /\ pc[t] = "lock"
  /\ mutex[table[t]][Pos(t)] = 1
  /\ tries[t] + 1 < MAX_TRIES
  /\ tries' = [tries EXCEPT ![t] = @ + 1]
  /\ UNCHANGED <<shared, pc, table, seen, key, val, packet, dropped, astray>>

\* The last attempt fails too: res is returned as it is found.
GiveUp(t) ==
  /\ pc[t] = "lock"
  /\ mutex[table[t]][Pos(t)] = 1
  /\ tries[t] + 1 >= MAX_TRIES
  /\ tries' = [tries EXCEPT ![t] = 0]
  /\ astray' = astray \cup {key[t]}
  /\ \E res \in BOOLEAN :
       /\ Return(t, res)
       /\ dropped' = [dropped EXCEPT ![t] = ~res]
  /\ UNCHANGED <<shared, seen, key, val, packet>>

Read(t) ==
  /\ pc[t] = "read"
  /\ seen' = [seen EXCEPT ![t] = kernel_heavy[table[t]][Pos(t)]]
  /\ pc' = [pc EXCEPT ![t] = "write"]
  /\ astray' = astray \cup IF AtHome(t) THEN {} ELSE {key[t]}
  /\ UNCHANGED <<shared, table, tries, key, val, packet, dropped>>

\* What becomes of the bucket b that thread t has read, for each way through
\* the critical section.

Fills(b) == b.n = 0 /\ ~b.flag

Votes(b, t) == b.votes + val[t].n

Displaces(b, t) == Votes(b, t) >= FACTOR * b.n

Filled(b, t) == [b EXCEPT !.flag = val[t].flag, !.n = val[t].n, !.key = key[t]]

Merged(b, t) == [b EXCEPT !.flag = @ \/ val[t].flag, !.n = @ + val[t].n]

\* Slip: the new flow starts without a flag.
TakenUnflagged(b, t) == [flag |-> val[t].flag, n |-> val[t].n, key |-> key[t], votes |-> 0]

Taken(b, t) == [flag |-> TRUE, n |-> val[t].n, key |-> key[t], votes |-> 0]

Put(t, b) == kernel_heavy' = [kernel_heavy EXCEPT ![table[t]][Pos(t)] = b]

WriteFill(t) ==
  /\ Fills(seen[t])
  /\ Put(t, Filled(seen[t], t))
  /\ pc' = [pc EXCEPT ![t] = "unlockCounted"]
  /\ UNCHANGED <<key, val>>

WriteMerge(t) ==
  /\ ~Fills(seen[t])
  /\ seen[t].key = key[t]
  /\ Put(t, Merged(seen[t], t))
  /\ pc' = [pc EXCEPT ![t] = "unlockCounted"]
  /\ UNCHANGED <<key, val>>

WriteVote(t) ==
  /\ ~Fills(seen[t])
  /\ seen[t].key # key[t]
  /\ ~Displaces(seen[t], t)
  /\ Put(t, [seen[t] EXCEPT !.votes = Votes(seen[t], t)])
  /\ pc' = [pc EXCEPT ![t] = "unlockPass"]
  /\ UNCHANGED <<key, val>>

\* The thread goes on with the flow it has displaced.
WriteSwap(t) ==
  /\ ~Fills(seen[t])
  /\ seen[t].key # key[t]
  /\ Displaces(seen[t], t)
  /\ Put(t, Taken(seen[t], t))
  /\ key' = [key EXCEPT ![t] = seen[t].key]
  /\ val' = [val EXCEPT ![t] = [flag |-> seen[t].flag, n |-> seen[t].n]]
  /\ pc' = [pc EXCEPT ![t] = "unlockPass"]

Write(t) ==
  /\ pc[t] = "write"
  /\ WriteFill(t) \/ WriteMerge(t) \/ WriteVote(t) \/ WriteSwap(t)
  /\ seen' = [seen EXCEPT ![t] = EmptyBucket]   \* not used again
  /\ UNCHANGED <<mutex, kernel_light, table, tries, packet, dropped, astray>>

Unlock(t) ==
  /\ pc[t] \in {"unlockCounted", "unlockPass"}
  /\ mutex' = [mutex EXCEPT ![table[t]][Pos(t)] = 0]
  /\ Return(t, pc[t] = "unlockPass")
  /\ tries' = [tries EXCEPT ![t] = 0]
  /\ UNCHANGED <<kernel_heavy, kernel_light, seen, key, val, packet, dropped, astray>>

InsertLight(t) ==
  /\ pc[t] = "light"
  /\ kernel_light' = [kernel_light EXCEPT ![LightPosOf[key[t]]] = @ + val[t].n]
  /\ pc' = [pc EXCEPT ![t] = "done"]
  /\ UNCHANGED <<kernel_heavy, mutex, table, tries, seen, key, val, packet,
                 dropped, astray>>

Step(t) ==
  \/ Lock(t) \/ Retry(t) \/ GiveUp(t) \/ Read(t) \/ Write(t) \/ Unlock(t)
  \/ InsertLight(t)

Next == \E t \in Threads : Step(t)

Spec == Init /\ [][Next]_vars

\* The threads that the scheduler goes on running keep taking steps.
FairSpec == Spec /\ \A t \in Threads \ Stalled : WF_vars(Step(t))
-----------------------------------------------------------------------------
(***************************************************************************)
(* query_heavy, query_light and query, after the launch has ended          *)
(***************************************************************************)
Places(k) == {i \in Table : kernel_heavy[i][PosOf[i][k]].key = k}

QueryHeavy(k) ==
  SumFunctionOnSet([i \in Table |-> kernel_heavy[i][PosOf[i][k]].n], Places(k))

ShouldQueryLight(k) == \E i \in Places(k) : kernel_heavy[i][PosOf[i][k]].flag

QueryLight(k) == kernel_light[LightPosOf[k]] % LightSize

\* What the query does not see of the light counter: nothing, until the counter
\* has come to LightSize.
Cut(k) == kernel_light[LightPosOf[k]] - QueryLight(k)

Query(k) ==
  QueryHeavy(k) + (IF ShouldQueryLight(k) \/ QueryHeavy(k) = 0
                   THEN QueryLight(k) ELSE 0)
-----------------------------------------------------------------------------
(***************************************************************************)
(* Properties                                                              *)
(***************************************************************************)
Bucket == [flag : BOOLEAN, n : Nat, key : Keys \cup {NoKey}, votes : Nat]

TypeOK ==
  /\ DOMAIN kernel_heavy = Table /\ DOMAIN mutex = Table
  /\ \A i \in Table : /\ kernel_heavy[i] \in [Buckets(i) -> Bucket]
                      /\ mutex[i] \in [Buckets(i) -> {0, 1}]
  /\ kernel_light \in [LightPositions -> Nat]
  /\ pc \in [Threads -> {"lock", "read", "write", "unlockCounted", "unlockPass",
                         "light", "done"}]
  /\ table \in [Threads -> Table]
  /\ tries \in [Threads -> 0 .. MAX_TRIES - 1]
  /\ seen \in [Threads -> Bucket]
  /\ key \in [Threads -> Keys] /\ packet \in [Threads -> Keys]
  /\ val \in [Threads -> [flag : BOOLEAN, n : Nat \ {0}]]
  /\ dropped \in [Threads -> BOOLEAN] /\ astray \subseteq Keys

\* The packets that the launch gave of flows K; how many of n packets of flow k
\* are of them.
Given(K) == {t \in Threads : packet[t] \in K}
PartOf(K, k, n) == IF k \in K THEN n ELSE 0

\* What is in the bucket at s of flows K.
Slots == UNION {{i} \X Buckets(i) : i \in Table}
Stored(K) == [s \in Slots |-> LET b == kernel_heavy[s[1]][s[2]] IN PartOf(K, b.key, b.n)]

\* What thread t carries of them, or dropped when it found no lock and a
\* variable that told it to end.
Carrying(t) == dropped[t] \/ pc[t] \in {"lock", "read", "write", "unlockPass", "light"}
Carried(K) ==
  [t \in Threads |-> IF Carrying(t) THEN PartOf(K, key[t], val[t].n) ELSE 0]

Mass(K) == SumFunctionOnSet(Stored(K), Slots) + SumFunctionOnSet(Carried(K), Threads)

\* The packets of the flows that share a light counter are all somewhere: in
\* that counter, in buckets, or with a thread.
Sharing(q) == {k \in Keys : LightPosOf[k] = q}
Conservation ==
  \A q \in LightPositions :
    kernel_light[q] + Mass(Sharing(q)) = Cardinality(Given(Sharing(q)))

\* The tables at every atomic step: typed, and with no packet lost or made up.
TablesSound == TypeOK /\ Conservation

Ended == \A t \in Threads : pc[t] = "done"

PacketsOf(k) == Cardinality(Given({k}))

(***************************************************************************)
(* What the host's query may rely on after a launch: the answer for a flow *)
(* is at least its packets, but for the multiple of 256 that query_light   *)
(* masks off a light counter which has come so far (Cut); and it is exact  *)
(* when the heavy tables hold the flow without a flag, for then no part of *)
(* it is in the light part.  Except for a flow of which a part went astray:*)
(* a thread got no lock for it, or offered it to the bucket of the flow    *)
(* that had displaced it.                                                  *)
(***************************************************************************)
QueriesSound ==
  Ended =>
    \A k \in Keys \ astray :
      /\ Query(k) + Cut(k) >= PacketsOf(k)
      /\ Places(k) # {} /\ ~ShouldQueryLight(k) => QueryHeavy(k) = PacketsOf(k)

\* A thread ends even when others stop for ever in a critical section: that is
\* what the limit on the attempts is for.
EndsAlone == \A t \in Threads \ Stalled : <>(pc[t] = "done")
=============================================================================
