-------------------------- MODULE ElasticGpuProofs --------------------------
(***************************************************************************)
(* Proof that no interleaving of a launch's threads loses a packet or      *)
(* makes one up (TablesSound), and of what the host's queries may rely on  *)
(* afterwards (QueriesSound), for any number of threads, of tables and of  *)
(* attempts, any hash functions and whatever insert_bucket returns when it *)
(* gets no lock.                                                           *)
(*                                                                         *)
(* The sums are over all buckets and all threads: a step of a thread       *)
(* raises the one by what it lowers the other (Moves).  That the bucket is *)
(* still what the thread read of it is what the locks are for (Locking).   *)
(* That a flow without a flag is whole is what its flag is for (Complete): *)
(* nothing of it has come past a bucket that would take it.                *)
(***************************************************************************)
EXTENDS ElasticGpu, SumLemmas

InSection(t) == pc[t] \in {"read", "write", "unlockCounted", "unlockPass"}

\* A thread in the critical section of a bucket is the only one, and the bucket
\* is what it has read.
Locking ==
  /\ \A t \in Threads : InSection(t) => mutex[table[t]][Pos(t)] = 1
  /\ \A t, u \in Threads :
       InSection(t) /\ InSection(u) /\ table[t] = table[u] /\ Pos(t) = Pos(u) => t = u
  /\ \A t \in Threads : pc[t] = "write" => seen[t] = kernel_heavy[table[t]][Pos(t)]

\* A bucket that is not empty has packets, of a flow; so what displaces it goes
\* on with packets.  Who dropped a packet has ended.
Sense ==
  /\ \A i \in Table : \A b \in Buckets(i) :
       \/ Fills(kernel_heavy[i][b])
       \/ kernel_heavy[i][b].n # 0 /\ kernel_heavy[i][b].key \in Keys
  /\ \A t \in Threads : dropped[t] => pc[t] = "done"

\* No flow has more packets in the buckets and with the threads than the launch
\* gave.
Bounded == \A K \in SUBSET Keys : Mass(K) <= Cardinality(Given(K))

\* A flow that is not astray is at home, and offered at home.
Home ==
  /\ \A i \in Table : \A b \in Buckets(i) :
       LET e == kernel_heavy[i][b] IN
       Fills(e) \/ e.key \in astray \/ b = PosOf[i][e.key]
  /\ \A t \in Threads : pc[t] = "write" => key[t] \in astray \/ AtHome(t)
  /\ \A t \in Threads : dropped[t] => key[t] \in astray

\* The bucket of k in table i.
Own(i, k) == kernel_heavy[i][PosOf[i][k]]

\* The bucket e takes what comes of k, and without a flag.
Open(e, k) == Fills(e) \/ (e.key = k /\ ~e.flag)

Past(t, i) == pc[t] = "light" \/ table[t] > i \/ (table[t] = i /\ pc[t] = "unlockPass")

\* Nothing of k is beyond table i, in later tables or with threads.
NoneBeyond(i, k) ==
  /\ \A j \in Table : \A b \in Buckets(j) :
       j > i => Fills(kernel_heavy[j][b]) \/ kernel_heavy[j][b].key # k
  /\ \A t \in Threads : Carrying(t) /\ key[t] = k => ~Past(t, i)

\* While a flow's bucket in some table would hold it without a flag, nothing of
\* it has come past that table, and so nothing has come to the light part.
Complete ==
  \A k \in Keys \ astray : \A i \in Table :
    Open(Own(i, k), k) =>
      Mass({k}) = Cardinality(Given({k})) /\ NoneBeyond(i, k)

(***************************************************************************)
(* The inductive invariants.  Conservation needs Locking for the writes,   *)
(* Complete needs Home, and both rest on the first.                        *)
(***************************************************************************)
KernelInvariant == TypeOK /\ Conservation /\ Locking /\ Sense
FlowInvariant == Bounded /\ Home /\ Complete
-----------------------------------------------------------------------------
LEMMA Numbers ==
  /\ Table = 0 .. Tables - 1 /\ Tables \in Nat /\ Tables >= 1
  /\ MAX_TRIES \in Nat /\ MAX_TRIES >= 1 /\ FACTOR \in Nat /\ FACTOR >= 1
  /\ IsFiniteSet(Threads)
  /\ Cardinality(Threads) \in Nat /\ LightSize \in Nat /\ LightSize >= 1
  BY GpuAssumption, FS_CardinalityType DEF Table

LEMMA SlotIs ==
  ASSUME NEW s
  PROVE  s \in Slots <=> \E i \in Table : \E b \in Buckets(i) : s = <<i, b>>
  BY DEF Slots

LEMMA FiniteSlots == IsFiniteSet(Slots)
<1> DEFINE f == [p \in Table \X Keys |-> <<p[1], PosOf[p[1]][p[2]]>>]
<1>1. IsFiniteSet(Table)
  BY Numbers, FS_Interval
<1>2. IsFiniteSet(Table \X Keys)
  BY <1>1, GpuAssumption, FS_Product
<1>3. f \in Surjection(Table \X Keys, Slots)
  <2>1. \A p \in Table \X Keys : f[p] \in Slots
    BY SlotIs DEF Buckets
  <2>2. ASSUME NEW s \in Slots PROVE \E p \in Table \X Keys : f[p] = s
    <3>1. PICK i \in Table, k \in Keys : s = <<i, PosOf[i][k]>>
      BY SlotIs DEF Buckets
    <3>2. f[<<i, k>>] = s
      BY <3>1
    <3> QED
      BY <3>2
  <2> QED
    BY <2>1, <2>2 DEF Surjection
<1> QED
  BY <1>2, <1>3, FS_Surjection

\* A thread is at a bucket of one of the tables.
LEMMA AtBucket ==
  ASSUME TypeOK, NEW t \in Threads
  PROVE  /\ table[t] \in Table /\ Pos(t) \in Buckets(table[t])
         /\ kernel_heavy[table[t]][Pos(t)] \in Bucket
<1>1. table[t] \in Table /\ packet[t] \in Keys
  BY DEF TypeOK
<1>2. Pos(t) \in Buckets(table[t])
  BY <1>1 DEF Pos, Buckets
<1> QED
  BY <1>1, <1>2 DEF TypeOK

-----------------------------------------------------------------------------
(***************************************************************************)
(* How the sums change.                                                    *)
(***************************************************************************)
\* What the slots and the threads have are natural numbers, and so are the sums.
LEMMA Masses ==
  ASSUME TypeOK, NEW K
  PROVE  /\ \A s \in Slots : Stored(K)[s] \in Nat
         /\ \A t \in Threads : Carried(K)[t] \in Nat
         /\ SumFunctionOnSet(Stored(K), Slots) \in Nat
         /\ SumFunctionOnSet(Carried(K), Threads) \in Nat
         /\ Mass(K) \in Nat
<1>1. ASSUME NEW s \in Slots PROVE Stored(K)[s] \in Nat
  <2>1. PICK i \in Table : \E b \in Buckets(i) : s = <<i, b>>
    BY SlotIs
  <2>2. PICK b \in Buckets(i) : s = <<i, b>>
    BY <2>1
  <2>3. kernel_heavy[i][b].n \in Nat
    BY DEF TypeOK, Bucket
  <2> QED
    BY <2>2, <2>3 DEF Stored, PartOf
<1>2. ASSUME NEW t \in Threads PROVE Carried(K)[t] \in Nat
  BY DEF Carried, PartOf, TypeOK
<1>3. SumFunctionOnSet(Stored(K), Slots) \in Nat
  BY <1>1, FiniteSlots, SumNat
<1>4. SumFunctionOnSet(Carried(K), Threads) \in Nat
  BY <1>2, Numbers, SumNat
<1> QED
  BY <1>1, <1>2, <1>3, <1>4 DEF Mass

LEMMA GivenFinite ==
  ASSUME NEW K
  PROVE  /\ IsFiniteSet(Given(K)) /\ Cardinality(Given(K)) \in Nat
         /\ Cardinality(Given(K)) <= Cardinality(Threads)
<1>1. Given(K) \in SUBSET Threads
  BY DEF Given
<1> QED
  BY <1>1, Numbers, FS_Subset, FS_CardinalityType

\* Writing a bucket.
LEMMA BucketWritten ==
  ASSUME TypeOK, NEW i \in Table, NEW b \in Buckets(i), NEW e \in Bucket,
         kernel_heavy' = [kernel_heavy EXCEPT ![i][b] = e]
  PROVE  /\ DOMAIN kernel_heavy' = Table
         /\ \A j \in Table : kernel_heavy'[j] \in [Buckets(j) -> Bucket]
         /\ \A j \in Table : \A c \in Buckets(j) :
              kernel_heavy'[j][c] = IF j = i /\ c = b THEN e ELSE kernel_heavy[j][c]
<1>1. /\ DOMAIN kernel_heavy = Table
      /\ \A j \in Table : kernel_heavy[j] \in [Buckets(j) -> Bucket]
  BY DEF TypeOK
<1>2. \A j \in Table :
        kernel_heavy'[j] = IF j = i THEN [kernel_heavy[i] EXCEPT ![b] = e] ELSE kernel_heavy[j]
  BY <1>1
<1> QED
  BY <1>1, <1>2

\* A thread's write takes d packets of flows K to its bucket, from what it
\* carries.
Moves(K, t, d) ==
  /\ Raised(Stored(K), Stored(K)', Slots, <<table[t], Pos(t)>>, d)
  /\ Raised(Carried(K), Carried(K)', Threads, t, -d)

LEMMA MoveKeeps ==
  ASSUME TypeOK, NEW K, NEW t \in Threads, NEW d \in Int, Moves(K, t, d)
  PROVE  Mass(K)' = Mass(K)
<1>1. <<table[t], Pos(t)>> \in Slots
  BY AtBucket, SlotIs
<1>2. PICK s : s = <<table[t], Pos(t)>>
  OBVIOUS
<1>3. PICK c : c = -d
  OBVIOUS
<1>4. Raised(Stored(K), Stored(K)', Slots, s, d) /\ Raised(Carried(K), Carried(K)', Threads, t, c)
  BY <1>2, <1>3 DEF Moves
<1>5. /\ SumFunctionOnSet(Stored(K), Slots) \in Int
      /\ SumFunctionOnSet(Stored(K)', Slots) = SumFunctionOnSet(Stored(K), Slots) + d
  <2>1. s \in Slots
    BY <1>1, <1>2
  <2> QED
    BY <1>4, <2>1, FiniteSlots, SumRaise
<1>6. /\ SumFunctionOnSet(Carried(K), Threads) \in Int
      /\ SumFunctionOnSet(Carried(K)', Threads) = SumFunctionOnSet(Carried(K), Threads) + c
  BY <1>4, Numbers, SumRaise
<1> QED
  BY <1>3, <1>5, <1>6 DEF Mass

\* A thread that keeps its packets, in buckets that stay as they are.
LEMMA StayKeeps ==
  ASSUME NEW K, UNCHANGED <<kernel_heavy, key, val>>,
         \A t \in Threads : Carrying(t)' <=> Carrying(t)
  PROVE  Mass(K)' = Mass(K)
<1>1. Stored(K)' = Stored(K)
  BY DEF Stored, PartOf
<1>2. Carried(K)' = Carried(K)
  BY DEF Carried, PartOf
<1> QED
  BY <1>1, <1>2 DEF Mass

-----------------------------------------------------------------------------
(***************************************************************************)
(* Locking.                                                                *)
(***************************************************************************)
\* A step of a thread leaves what the others have.
Alone(t) ==
  /\ packet' = packet
  /\ \A u \in Threads \ {t} :
       /\ pc'[u] = pc[u] /\ table'[u] = table[u] /\ seen'[u] = seen[u]
       /\ key'[u] = key[u] /\ val'[u] = val[u] /\ dropped'[u] = dropped[u]

LEMMA StepsAlone ==
  ASSUME TypeOK, NEW t \in Threads, Step(t) PROVE Alone(t)
<1>1. CASE Lock(t) \/ Retry(t) \/ Read(t) \/ InsertLight(t)
  BY <1>1 DEF Alone, TypeOK, Lock, Retry, Read, InsertLight, shared, vars
<1>2. CASE GiveUp(t) \/ Unlock(t)
  BY <1>2 DEF Alone, TypeOK, GiveUp, Unlock, Return, shared
<1>3. CASE Write(t)
  BY <1>3 DEF Alone, TypeOK, Write, WriteFill, WriteMerge, WriteVote, WriteSwap
<1> QED
  BY <1>1, <1>2, <1>3 DEF Step

LEMMA MutexWritten ==
  ASSUME TypeOK, NEW i \in Table, NEW b \in Buckets(i), NEW e \in {0, 1},
         mutex' = [mutex EXCEPT ![i][b] = e]
  PROVE  /\ DOMAIN mutex' = Table
         /\ \A j \in Table : mutex'[j] \in [Buckets(j) -> {0, 1}]
         /\ \A j \in Table : \A c \in Buckets(j) :
              mutex'[j][c] = IF j = i /\ c = b THEN e ELSE mutex[j][c]
<1>1. /\ DOMAIN mutex = Table
      /\ \A j \in Table : mutex[j] \in [Buckets(j) -> {0, 1}]
  BY DEF TypeOK
<1>2. \A j \in Table :
        mutex'[j] = IF j = i THEN [mutex[i] EXCEPT ![b] = e] ELSE mutex[j]
  BY <1>1
<1> QED
  BY <1>1, <1>2

\* Who gets the lock finds it free, so no other thread is in the section.
LEMMA LockLocks ==
  ASSUME TypeOK, Locking, NEW t \in Threads, Lock(t), Alone(t) PROVE Locking'
<1>1. /\ \A u \in Threads : pc'[u] = IF u = t THEN "read" ELSE pc[u]
      /\ UNCHANGED <<table, packet, seen, kernel_heavy>>
      /\ mutex[table[t]][Pos(t)] = 0 /\ pc[t] = "lock"
      /\ mutex' = [mutex EXCEPT ![table[t]][Pos(t)] = 1]
  BY DEF TypeOK, Lock
<1>2. \A u \in Threads : table[u] \in Table /\ Pos(u) \in Buckets(table[u])
  BY AtBucket
<1>3. \A j \in Table : \A c \in Buckets(j) :
        mutex'[j][c] = IF j = table[t] /\ c = Pos(t) THEN 1 ELSE mutex[j][c]
  BY <1>1, <1>2, MutexWritten
<1>4. \A u \in Threads : Pos(u)' = Pos(u) /\ table'[u] = table[u]
  BY <1>1 DEF Pos
<1>5. \A u \in Threads : InSection(u)' => u = t \/ InSection(u)
  BY <1>1 DEF InSection
<1>6. \A u \in Threads :
        InSection(u) => ~(table[u] = table[t] /\ Pos(u) = Pos(t))
  BY <1>1 DEF Locking
<1>7. \A u \in Threads : InSection(u)' => mutex'[table[u]][Pos(u)] = 1
  BY <1>2, <1>3, <1>5 DEF Locking
<1>8. \A u, v \in Threads :
        InSection(u)' /\ InSection(v)' /\ table[u] = table[v] /\ Pos(u) = Pos(v) => u = v
  BY <1>5, <1>6 DEF Locking
<1>9. \A u \in Threads : pc'[u] = "write" => seen'[u] = kernel_heavy'[table[u]][Pos(u)]
  BY <1>1 DEF Locking
<1> QED
  BY <1>4, <1>7, <1>8, <1>9 DEF Locking

\* A thread that is not in a section, before and after, changes nobody's lock.
LEMMA OutsideLocks ==
  ASSUME TypeOK, Locking, NEW t \in Threads, Alone(t), ~InSection(t)',
         UNCHANGED <<kernel_heavy, mutex>>
  PROVE  Locking'
<1>1. \A u \in Threads :
        InSection(u)' => /\ InSection(u) /\ pc'[u] = pc[u] /\ seen'[u] = seen[u]
                         /\ table'[u] = table[u] /\ Pos(u)' = Pos(u)
  BY DEF Alone, InSection, Pos
<1>2. \A u \in Threads : pc'[u] = "write" => InSection(u)'
  BY DEF InSection
<1> QED
  BY <1>1, <1>2 DEF Locking

LEMMA ReadLocks ==
  ASSUME TypeOK, Locking, NEW t \in Threads, Read(t), Alone(t) PROVE Locking'
<1>1. /\ \A u \in Threads : pc'[u] = IF u = t THEN "write" ELSE pc[u]
      /\ seen'[t] = kernel_heavy[table[t]][Pos(t)] /\ pc[t] = "read"
      /\ UNCHANGED <<kernel_heavy, mutex, table, packet>>
  BY DEF TypeOK, Read, shared
<1>2. \A u \in Threads : /\ Pos(u)' = Pos(u) /\ table'[u] = table[u]
                         /\ InSection(u)' <=> InSection(u)
  BY <1>1 DEF Pos, InSection
<1>3. \A u \in Threads : pc'[u] = "write" => seen'[u] = kernel_heavy[table[u]][Pos(u)]
  BY <1>1 DEF Locking, Alone
<1> QED
  BY <1>1, <1>2, <1>3 DEF Locking

\* The bucket that is written is nobody else's.
LEMMA WriteLocks ==
  ASSUME TypeOK, Locking, NEW t \in Threads, Alone(t),
         NEW e \in Bucket, kernel_heavy' = [kernel_heavy EXCEPT ![table[t]][Pos(t)] = e],
         pc[t] = "write", pc'[t] \in {"unlockCounted", "unlockPass"},
         UNCHANGED <<mutex, table>>
  PROVE  Locking'
<1>1. \A u \in Threads : table[u] \in Table /\ Pos(u) \in Buckets(table[u])
  BY AtBucket
<1>2. \A j \in Table : \A c \in Buckets(j) :
        ~(j = table[t] /\ c = Pos(t)) => kernel_heavy'[j][c] = kernel_heavy[j][c]
  BY <1>1, BucketWritten
<1>3. \A u \in Threads : /\ Pos(u)' = Pos(u) /\ table'[u] = table[u]
                         /\ InSection(u)' <=> InSection(u)
  BY DEF Pos, InSection, Alone
<1>4. \A u \in Threads : pc'[u] = "write" => seen'[u] = kernel_heavy'[table[u]][Pos(u)]
  <2> SUFFICES ASSUME NEW u \in Threads, pc'[u] = "write"
               PROVE  seen'[u] = kernel_heavy'[table[u]][Pos(u)]
    OBVIOUS
  <2>1. u # t /\ pc[u] = "write" /\ seen'[u] = seen[u]
    BY DEF Alone
  <2>2. InSection(t) /\ InSection(u)
    BY <2>1 DEF InSection
  <2>3. ~(table[u] = table[t] /\ Pos(u) = Pos(t))
    BY <2>1, <2>2 DEF Locking
  <2> QED
    BY <1>1, <1>2, <2>1, <2>3 DEF Locking
<1> QED
  BY <1>3, <1>4 DEF Locking

\* The lock that is freed is nobody else's.
LEMMA UnlockLocks ==
  ASSUME TypeOK, Locking, NEW t \in Threads, Unlock(t), Alone(t) PROVE Locking'
<1>1. /\ pc'[t] \in {"lock", "light", "done"} /\ InSection(t)
      /\ mutex' = [mutex EXCEPT ![table[t]][Pos(t)] = 0]
      /\ UNCHANGED kernel_heavy
  BY DEF TypeOK, Unlock, Return, InSection
<1>2. \A u \in Threads : table[u] \in Table /\ Pos(u) \in Buckets(table[u])
  BY AtBucket
<1>3. \A j \in Table : \A c \in Buckets(j) :
        ~(j = table[t] /\ c = Pos(t)) => mutex'[j][c] = mutex[j][c]
  BY <1>1, <1>2, MutexWritten
<1>4. \A u \in Threads :
        InSection(u)' => /\ u # t /\ InSection(u) /\ pc'[u] = pc[u] /\ seen'[u] = seen[u]
                         /\ table'[u] = table[u] /\ Pos(u)' = Pos(u)
  BY <1>1 DEF Alone, InSection, Pos
<1>5. \A u \in Threads : InSection(u)' => mutex'[table[u]][Pos(u)] = mutex[table[u]][Pos(u)]
  BY <1>1, <1>2, <1>3, <1>4 DEF Locking
<1>6. \A u \in Threads : pc'[u] = "write" => InSection(u)'
  BY DEF InSection
<1> QED
  BY <1>1, <1>4, <1>5, <1>6 DEF Locking
-----------------------------------------------------------------------------
(***************************************************************************)
(* The critical section.                                                   *)
(***************************************************************************)
\* e is what thread t may leave in its bucket for b: a bucket that has packets,
\* such that what it has more of any flows, the thread carries less.
Exchanged(t, b, e) ==
  /\ e \in Bucket /\ e.n # 0 /\ e.key \in Keys
  /\ key'[t] \in Keys /\ val'[t] \in [flag : BOOLEAN, n : Nat \ {0}]
  /\ pc'[t] \in {"unlockCounted", "unlockPass"}
  /\ \A K \in SUBSET Keys :
       PartOf(K, e.key, e.n)
         + (IF pc'[t] = "unlockPass" THEN PartOf(K, key'[t], val'[t].n) ELSE 0)
       = PartOf(K, b.key, b.n) + PartOf(K, key[t], val[t].n)

LEMMA WriteExchanges ==
  ASSUME KernelInvariant, NEW t \in Threads, Write(t)
  PROVE  \E e \in Bucket : Put(t, e) /\ Exchanged(t, kernel_heavy[table[t]][Pos(t)], e)
<1> DEFINE Value == [flag : BOOLEAN, n : Nat \ {0}]
<1>1. PICK b : b = seen[t]
  OBVIOUS
<1>2. /\ b \in Bucket /\ b = kernel_heavy[table[t]][Pos(t)]
      /\ Fills(b) \/ (b.n # 0 /\ b.key \in Keys)
  <2>1. b = kernel_heavy[table[t]][Pos(t)]
    BY <1>1 DEF KernelInvariant, Locking, Write
  <2>2. table[t] \in Table /\ Pos(t) \in Buckets(table[t]) /\ b \in Bucket
    BY <2>1, AtBucket DEF KernelInvariant
  <2> QED
    BY <2>1, <2>2 DEF KernelInvariant, Sense
<1>3. /\ DOMAIN pc = Threads /\ key \in [Threads -> Keys] /\ val \in [Threads -> Value]
  BY DEF KernelInvariant, TypeOK
<1>4. /\ key[t] \in Keys /\ val[t] \in Value /\ val[t].n \in Nat \ {0} /\ val[t].flag \in BOOLEAN
      /\ b.n \in Nat /\ b.votes \in Nat /\ b.flag \in BOOLEAN
  BY <1>2, <1>3 DEF Bucket
<1>5. CASE WriteFill(t)
  <2>1. PICK e : e = Filled(b, t)
    OBVIOUS
  <2>2. /\ e \in Bucket /\ e.n = val[t].n /\ e.key = key[t]
    BY <1>2, <1>4, <2>1 DEF Filled, Bucket
  <2>3. /\ Put(t, e) /\ pc'[t] = "unlockCounted" /\ key' = key /\ val' = val /\ b.n = 0
    BY <1>1, <1>3, <1>5, <2>1 DEF WriteFill, Fills
  <2>4. Exchanged(t, b, e)
    BY <1>4, <2>2, <2>3 DEF Exchanged, PartOf
  <2> QED
    BY <1>2, <2>2, <2>3, <2>4
<1>6. CASE WriteMerge(t)
  <2>1. PICK e : e = Merged(b, t)
    OBVIOUS
  <2>2. /\ e \in Bucket /\ e.n = b.n + val[t].n /\ e.key = b.key
    <3>1. PICK f : f = (b.flag \/ val[t].flag)
      OBVIOUS
    <3>2. f \in BOOLEAN
      BY <3>1
    <3>3. PICK m : m = b.n + val[t].n
      OBVIOUS
    <3>4. m \in Nat
      BY <1>4, <3>3
    <3>5. e = [b EXCEPT !.flag = f, !.n = m]
      BY <2>1, <3>1, <3>3 DEF Merged
    <3> QED
      BY <1>2, <3>2, <3>3, <3>4, <3>5 DEF Bucket
  <2>3. /\ Put(t, e) /\ pc'[t] = "unlockCounted" /\ key' = key /\ val' = val /\ b.key = key[t]
    BY <1>1, <1>3, <1>6, <2>1 DEF WriteMerge
  <2>4. Exchanged(t, b, e)
    BY <1>4, <2>2, <2>3 DEF Exchanged, PartOf
  <2> QED
    BY <1>2, <2>2, <2>3, <2>4
<1>7. CASE WriteVote(t)
  <2>1. PICK e : e = [b EXCEPT !.votes = Votes(b, t)]
    OBVIOUS
  <2>2. /\ e \in Bucket /\ e.n = b.n /\ e.key = b.key
    BY <1>2, <1>4, <2>1 DEF Votes, Bucket
  <2>3. /\ Put(t, e) /\ pc'[t] = "unlockPass" /\ key' = key /\ val' = val /\ ~Fills(b)
    BY <1>1, <1>3, <1>7, <2>1 DEF WriteVote
  <2>4. Exchanged(t, b, e)
    BY <1>2, <1>4, <2>2, <2>3 DEF Exchanged, PartOf
  <2> QED
    BY <1>2, <2>2, <2>3, <2>4
<1>8. CASE WriteSwap(t)
  <2>1. PICK e : e = Taken(b, t)
    OBVIOUS
  <2>2. /\ e \in Bucket /\ e.n = val[t].n /\ e.key = key[t]
    BY <1>4, <2>1 DEF Taken, Bucket
  <2>3. /\ Put(t, e) /\ pc'[t] = "unlockPass" /\ ~Fills(b)
        /\ key'[t] = b.key /\ val'[t] = [flag |-> b.flag, n |-> b.n]
    BY <1>1, <1>3, <1>8, <2>1 DEF WriteSwap
  <2>4. Exchanged(t, b, e)
    BY <1>2, <1>4, <2>2, <2>3 DEF Exchanged, PartOf
  <2> QED
    BY <1>2, <2>2, <2>3, <2>4
<1> QED
  BY <1>5, <1>6, <1>7, <1>8 DEF Write

LEMMA WriteKeeps ==
  ASSUME KernelInvariant, NEW t \in Threads, Write(t), Alone(t),
         NEW e \in Bucket, Put(t, e), Exchanged(t, kernel_heavy[table[t]][Pos(t)], e),
         NEW K \in SUBSET Keys
  PROVE  Mass(K)' = Mass(K)
<1>1. PICK b : b = kernel_heavy[table[t]][Pos(t)]
  OBVIOUS
<1>2. /\ TypeOK /\ table[t] \in Table /\ Pos(t) \in Buckets(table[t]) /\ b \in Bucket
  BY <1>1, AtBucket DEF KernelInvariant
<1>3. \A j \in Table : \A c \in Buckets(j) :
        kernel_heavy'[j][c] = IF j = table[t] /\ c = Pos(t) THEN e ELSE kernel_heavy[j][c]
  BY <1>2, BucketWritten DEF Put
<1>4. PICK d : d = PartOf(K, e.key, e.n) - PartOf(K, b.key, b.n)
  OBVIOUS
<1>5. /\ PartOf(K, e.key, e.n) \in Nat /\ PartOf(K, b.key, b.n) \in Nat
      /\ PartOf(K, key[t], val[t].n) \in Nat
      /\ (IF pc'[t] = "unlockPass" THEN PartOf(K, key'[t], val'[t].n) ELSE 0) \in Nat
  BY <1>2 DEF Exchanged, TypeOK, Bucket, PartOf
<1>6. /\ d \in Int /\ -d \in Int /\ PartOf(K, e.key, e.n) = PartOf(K, b.key, b.n) + d
      /\ (IF pc'[t] = "unlockPass" THEN PartOf(K, key'[t], val'[t].n) ELSE 0)
          = PartOf(K, key[t], val[t].n) + (-d)
  BY <1>1, <1>4, <1>5 DEF Exchanged
<1>7. Raised(Stored(K), Stored(K)', Slots, <<table[t], Pos(t)>>, d)
  <2>1. ASSUME NEW s \in Slots
        PROVE  Stored(K)'[s] = IF s = <<table[t], Pos(t)>> THEN Stored(K)[s] + d ELSE Stored(K)[s]
    <3>1. PICK j \in Table : \E c \in Buckets(j) : s = <<j, c>>
      BY SlotIs
    <3>2. PICK c \in Buckets(j) : s = <<j, c>>
      BY <3>1
    <3>3. /\ Stored(K)[s] = PartOf(K, kernel_heavy[j][c].key, kernel_heavy[j][c].n)
          /\ Stored(K)'[s] = PartOf(K, kernel_heavy'[j][c].key, kernel_heavy'[j][c].n)
      BY <3>2 DEF Stored, PartOf
    <3>4. CASE s = <<table[t], Pos(t)>>
      <4>1. kernel_heavy[j][c] = b /\ kernel_heavy'[j][c] = e
        BY <1>1, <1>3, <3>2, <3>4
      <4> QED
        BY <1>6, <3>3, <3>4, <4>1
    <3>5. CASE s # <<table[t], Pos(t)>>
      <4>1. kernel_heavy'[j][c] = kernel_heavy[j][c]
        BY <1>3, <3>2, <3>5
      <4> QED
        BY <3>3, <3>5, <4>1
    <3> QED
      BY <3>4, <3>5
  <2>2. \A s \in Slots : Stored(K)[s] \in Int
    BY <1>2, Masses
  <2> QED
    BY <1>6, <2>1, <2>2 DEF Raised
<1>8. Raised(Carried(K), Carried(K)', Threads, t, -d)
  <2>1. ASSUME NEW u \in Threads
        PROVE  Carried(K)'[u] = IF u = t THEN Carried(K)[u] + (-d) ELSE Carried(K)[u]
    <3>1. CASE u = t
      <4>1. pc[t] = "write" /\ ~dropped'[t] /\ pc'[t] \in {"unlockCounted", "unlockPass"}
        BY DEF KernelInvariant, Sense, Write, Exchanged
      <4>2. /\ Carried(K)[t] = PartOf(K, key[t], val[t].n)
            /\ Carried(K)'[t] = IF pc'[t] = "unlockPass" THEN PartOf(K, key'[t], val'[t].n) ELSE 0
        BY <4>1 DEF Carried, Carrying, PartOf
      <4> QED
        BY <1>6, <3>1, <4>2
    <3>2. CASE u # t
      <4>1. pc'[u] = pc[u] /\ dropped'[u] = dropped[u] /\ key'[u] = key[u] /\ val'[u] = val[u]
        BY <3>2 DEF Alone
      <4> QED
        BY <3>2, <4>1 DEF Carried, Carrying, PartOf
    <3> QED
      BY <3>1, <3>2
  <2>2. \A u \in Threads : Carried(K)[u] \in Int
    BY <1>2, Masses
  <2> QED
    BY <1>6, <2>1, <2>2 DEF Raised
<1>9. Moves(K, t, d)
  BY <1>7, <1>8 DEF Moves
<1> QED
  BY <1>2, <1>6, <1>9, MoveKeeps
-----------------------------------------------------------------------------
(***************************************************************************)
(* The other steps: what the launch begins with, insert_light, and the     *)
(* steps that move nothing.                                                *)
(***************************************************************************)
LEMMA InitMass ==
  ASSUME Init, NEW K PROVE Mass(K) = Cardinality(Given(K))
<1>1. SumFunctionOnSet(Stored(K), Slots) = 0
  <2>1. ASSUME NEW s \in Slots PROVE Stored(K)[s] = 0
    <3>1. PICK i \in Table : \E b \in Buckets(i) : s = <<i, b>>
      BY SlotIs
    <3>2. PICK b \in Buckets(i) : s = <<i, b>>
      BY <3>1
    <3>3. kernel_heavy[i][b] = EmptyBucket
      BY DEF Init
    <3> QED
      BY <3>2, <3>3 DEF Stored, PartOf, EmptyBucket
  <2> QED
    BY <2>1, FiniteSlots, SumZero
<1>2. SumFunctionOnSet(Carried(K), Threads) = Cardinality(Given(K))
  <2>1. Counts(Carried(K), Threads, Given(K))
    BY DEF Counts, Carried, Carrying, PartOf, Given, Init
  <2> QED
    BY <2>1, Numbers, SumCounts
<1> QED
  BY <1>1, <1>2, GivenFinite DEF Mass

LEMMA LightTakes ==
  ASSUME KernelInvariant, NEW t \in Threads, InsertLight(t), NEW K
  PROVE  Mass(K)' = Mass(K) - PartOf(K, key[t], val[t].n)
<1>1. PICK d : d = PartOf(K, key[t], val[t].n)
  OBVIOUS
<1>2. d \in Int /\ -d \in Int /\ TypeOK
  BY <1>1 DEF KernelInvariant, TypeOK, PartOf
<1>3. Raised(Carried(K), Carried(K)', Threads, t, -d)
  <2>1. ASSUME NEW u \in Threads
        PROVE  Carried(K)'[u] = IF u = t THEN Carried(K)[u] + (-d) ELSE Carried(K)[u]
    <3>1. CASE u = t
      <4>1. pc[t] = "light" /\ ~dropped[t] /\ pc'[t] = "done" /\ dropped' = dropped
        BY DEF KernelInvariant, TypeOK, Sense, InsertLight
      <4>2. Carried(K)[t] = d /\ Carried(K)'[t] = 0
        BY <1>1, <4>1 DEF Carried, Carrying, PartOf
      <4> QED
        BY <1>2, <3>1, <4>2
    <3>2. CASE u # t
      <4>1. pc'[u] = pc[u] /\ dropped'[u] = dropped[u] /\ key'[u] = key[u] /\ val'[u] = val[u]
        BY <3>2 DEF KernelInvariant, TypeOK, InsertLight
      <4> QED
        BY <3>2, <4>1 DEF Carried, Carrying, PartOf
    <3> QED
      BY <3>1, <3>2
  <2>2. \A u \in Threads : Carried(K)[u] \in Int
    BY <1>2, Masses
  <2> QED
    BY <1>2, <2>1, <2>2 DEF Raised
<1>4. SumFunctionOnSet(Carried(K)', Threads) = SumFunctionOnSet(Carried(K), Threads) - d
  <2>1. PICK c : c = -d
    OBVIOUS
  <2>2. Raised(Carried(K), Carried(K)', Threads, t, c)
    BY <1>3, <2>1
  <2>3. /\ SumFunctionOnSet(Carried(K), Threads) \in Int
        /\ SumFunctionOnSet(Carried(K)', Threads) = SumFunctionOnSet(Carried(K), Threads) + c
    BY <2>2, Numbers, SumRaise
  <2> QED
    BY <1>2, <2>1, <2>3
<1>5. Stored(K)' = Stored(K)
  BY DEF InsertLight, Stored, PartOf
<1>6. /\ SumFunctionOnSet(Stored(K), Slots) \in Int
      /\ SumFunctionOnSet(Carried(K), Threads) \in Int
  BY <1>2, Masses
<1> QED
  BY <1>1, <1>2, <1>4, <1>5, <1>6 DEF Mass

\* Where Return leads to.
LEMMA Returns ==
  ASSUME TypeOK, NEW t \in Threads, NEW res \in BOOLEAN, Return(t, res)
  PROVE  /\ pc'[t] \in {"lock", "light", "done"} /\ (~res <=> pc'[t] = "done")
         /\ pc' = [pc EXCEPT ![t] = pc'[t]]
         /\ table' \in [Threads -> Table]
<1>1. pc' = [pc EXCEPT ![t] = pc'[t]] /\ pc'[t] \in {"lock", "light", "done"}
  BY DEF Return, TypeOK
<1>2. ~res <=> pc'[t] = "done"
  BY DEF Return, TypeOK
<1>3. table' \in [Threads -> Table]
  <2>1. table \in [Threads -> Table] /\ table[t] \in Nat
    BY Numbers DEF TypeOK
  <2>2. table[t] + 1 < Tables => table[t] + 1 \in Table
    BY <2>1, Numbers
  <2>3. table' = table \/ (table[t] + 1 < Tables /\ table' = [table EXCEPT ![t] = table[t] + 1])
    BY DEF Return
  <2> QED
    BY <2>1, <2>2, <2>3
<1> QED
  BY <1>1, <1>2, <1>3

\* What a step does not give to the light part stays in the buckets and with
\* the threads.
LEMMA StepMass ==
  ASSUME KernelInvariant, NEW t \in Threads, Step(t), Alone(t), NEW K \in SUBSET Keys
  PROVE  /\ Mass(K)' = IF pc[t] = "light" THEN Mass(K) - PartOf(K, key[t], val[t].n)
                                         ELSE Mass(K)
         /\ Given(K)' = Given(K)
<1>1. Given(K)' = Given(K)
  BY DEF Alone, Given
<1>2. CASE Lock(t) \/ Retry(t) \/ GiveUp(t) \/ Read(t) \/ Unlock(t)
  <2>1. pc[t] # "light" /\ UNCHANGED <<kernel_heavy, key, val>>
    BY <1>2 DEF Lock, Retry, GiveUp, Read, Unlock, shared
  <2>2. Carrying(t)' <=> Carrying(t)
    <3>1. CASE Lock(t) \/ Retry(t) \/ Read(t)
      BY <3>1 DEF KernelInvariant, TypeOK, Lock, Retry, Read, Carrying
    <3>2. CASE GiveUp(t)
      <4>1. PICK res \in BOOLEAN : Return(t, res) /\ dropped' = [dropped EXCEPT ![t] = ~res]
        BY <3>2 DEF GiveUp
      <4>2. pc'[t] \in {"lock", "light", "done"} /\ (~res <=> pc'[t] = "done")
        BY <4>1, Returns DEF KernelInvariant
      <4> QED
        BY <3>2, <4>1, <4>2 DEF KernelInvariant, TypeOK, GiveUp, Carrying
    <3>3. CASE Unlock(t)
      <4>1. PICK res \in BOOLEAN : res <=> pc[t] = "unlockPass"
        OBVIOUS
      <4>2. Return(t, res)
        BY <3>3, <4>1 DEF Unlock, Return
      <4>3. pc'[t] \in {"lock", "light", "done"} /\ (~res <=> pc'[t] = "done")
        BY <4>1, <4>2, Returns DEF KernelInvariant
      <4> QED
        BY <3>3, <4>1, <4>3 DEF KernelInvariant, Sense, Unlock, Carrying
    <3> QED
      BY <1>2, <3>1, <3>2, <3>3
  <2>3. \A u \in Threads : Carrying(u)' <=> Carrying(u)
    BY <2>2 DEF Alone, Carrying
  <2> QED
    BY <1>1, <2>1, <2>3, StayKeeps
<1>3. CASE Write(t)
  <2>1. pc[t] # "light"
    BY <1>3 DEF Write
  <2>2. PICK e \in Bucket : Put(t, e) /\ Exchanged(t, kernel_heavy[table[t]][Pos(t)], e)
    BY <1>3, WriteExchanges
  <2> QED
    BY <1>1, <1>3, <2>1, <2>2, WriteKeeps
<1>4. CASE InsertLight(t)
  BY <1>1, <1>4, LightTakes DEF InsertLight
<1> QED
  BY <1>2, <1>3, <1>4 DEF Step

LEMMA StepConserves ==
  ASSUME KernelInvariant, NEW t \in Threads, Step(t), Alone(t)
  PROVE  Conservation'
<1> SUFFICES ASSUME NEW q \in LightPositions
             PROVE  kernel_light'[q] + Mass(Sharing(q))' = Cardinality(Given(Sharing(q))')
  BY DEF Conservation, Sharing
<1>1. PICK K : K = Sharing(q)
  OBVIOUS
<1>2. K \in SUBSET Keys /\ \A k \in Keys : k \in K <=> LightPosOf[k] = q
  BY <1>1 DEF Sharing
<1>3. /\ Mass(K)' = IF pc[t] = "light" THEN Mass(K) - PartOf(K, key[t], val[t].n) ELSE Mass(K)
      /\ Given(K)' = Given(K)
  BY <1>2, StepMass
<1>4. /\ kernel_light[q] + Mass(K) = Cardinality(Given(K)) /\ kernel_light[q] \in Nat
      /\ Mass(K) \in Nat /\ key[t] \in Keys /\ val[t].n \in Nat
  BY <1>1, Masses, GpuAssumption DEF KernelInvariant, Conservation, TypeOK
<1>5. CASE pc[t] = "light"
  <2>1. /\ kernel_light' = [kernel_light EXCEPT ![LightPosOf[key[t]]] = @ + val[t].n]
        /\ kernel_light \in [LightPositions -> Nat]
    BY <1>5 DEF Step, Lock, Retry, GiveUp, Read, Write, Unlock, InsertLight, KernelInvariant, TypeOK
  <2>2. kernel_light'[q] = kernel_light[q] + PartOf(K, key[t], val[t].n)
    BY <1>2, <1>4, <2>1 DEF PartOf
  <2>3. PartOf(K, key[t], val[t].n) \in Nat
    BY <1>4 DEF PartOf
  <2> QED
    BY <1>1, <1>3, <1>4, <1>5, <2>2, <2>3
<1>6. CASE pc[t] # "light"
  <2>1. kernel_light' = kernel_light
    BY <1>6 DEF Step, Lock, Retry, GiveUp, Read, Write, Unlock, InsertLight, shared
  <2> QED
    BY <1>1, <1>3, <1>4, <1>6, <2>1
<1> QED
  BY <1>5, <1>6

-----------------------------------------------------------------------------
(***************************************************************************)
(* The first invariant, step by step.                                      *)
(***************************************************************************)
LEMMA InitInvariant ==
  ASSUME Init PROVE KernelInvariant
<1>1. TypeOK
  <2>1. /\ packet \in [Threads -> Keys] /\ key = packet
        /\ 0 \in 0 .. MAX_TRIES - 1 /\ 0 \in Table
    BY GpuAssumption, Numbers DEF Init
  <2>2. EmptyBucket \in Bucket
    BY DEF EmptyBucket, Bucket
  <2>3. val \in [Threads -> [flag : BOOLEAN, n : Nat \ {0}]]
    BY DEF Init
  <2> QED
    BY <2>1, <2>2, <2>3 DEF Init, TypeOK
<1>2. Locking
  BY DEF Init, Locking, InSection
<1>3. Sense
  BY DEF Init, Sense, Fills, EmptyBucket
<1>4. Conservation
  <2>1. kernel_light \in [LightPositions -> {0}]
    BY DEF Init
  <2>2. ASSUME NEW q \in LightPositions
        PROVE  kernel_light[q] + Mass(Sharing(q)) = Cardinality(Given(Sharing(q)))
    BY <2>1, InitMass, GivenFinite
  <2> QED
    BY <2>2 DEF Conservation
<1> QED
  BY <1>1, <1>2, <1>3, <1>4 DEF KernelInvariant

LEMMA LockInvariant ==
  ASSUME KernelInvariant, NEW t \in Threads, Lock(t), Alone(t) PROVE KernelInvariant'
<1>1. TypeOK /\ table[t] \in Table /\ Pos(t) \in Buckets(table[t])
  BY AtBucket DEF KernelInvariant
<1>2. DOMAIN mutex' = Table /\ \A j \in Table : mutex'[j] \in [Buckets(j) -> {0, 1}]
  BY <1>1, MutexWritten DEF Lock
<1>3. TypeOK'
  BY <1>1, <1>2 DEF TypeOK, Lock
<1>4. Conservation'
  BY StepConserves DEF Step
<1>5. Locking'
  BY LockLocks DEF KernelInvariant
<1>6. Sense'
  BY <1>1 DEF KernelInvariant, Sense, Lock, TypeOK
<1> QED
  BY <1>3, <1>4, <1>5, <1>6 DEF KernelInvariant

LEMMA RetryInvariant ==
  ASSUME KernelInvariant, NEW t \in Threads, Retry(t), Alone(t) PROVE KernelInvariant'
<1>1. TypeOK'
  BY Numbers DEF KernelInvariant, TypeOK, Retry, shared
<1>2. Conservation'
  BY StepConserves DEF Step
<1>3. Locking'
  BY OutsideLocks DEF KernelInvariant, Retry, shared, InSection
<1>4. Sense'
  BY DEF KernelInvariant, Sense, Retry, shared
<1> QED
  BY <1>1, <1>2, <1>3, <1>4 DEF KernelInvariant

\* Whatever the variable that is not set says.
LEMMA GiveUpInvariant ==
  ASSUME KernelInvariant, NEW t \in Threads, GiveUp(t), Alone(t) PROVE KernelInvariant'
<1>1. PICK res \in BOOLEAN : Return(t, res) /\ dropped' = [dropped EXCEPT ![t] = ~res]
  BY DEF GiveUp
<1>2. /\ pc'[t] \in {"lock", "light", "done"} /\ (~res <=> pc'[t] = "done")
      /\ pc' = [pc EXCEPT ![t] = pc'[t]] /\ table' \in [Threads -> Table] /\ TypeOK
  BY <1>1, Returns DEF KernelInvariant
<1>3. dropped' \in [Threads -> BOOLEAN]
  BY <1>1, <1>2 DEF TypeOK
<1>4. TypeOK'
  <2>1. /\ tries' = [tries EXCEPT ![t] = 0] /\ astray' = astray \cup {key[t]}
        /\ UNCHANGED <<shared, seen, key, val, packet>>
    BY DEF GiveUp
  <2>2. pc' \in [Threads -> {"lock", "read", "write", "unlockCounted", "unlockPass",
                            "light", "done"}]
    BY <1>2 DEF TypeOK
  <2>3. tries' \in [Threads -> 0 .. MAX_TRIES - 1] /\ astray' \subseteq Keys
    BY <1>2, <2>1, Numbers DEF TypeOK
  <2> QED
    BY <1>2, <1>3, <2>1, <2>2, <2>3 DEF TypeOK, shared
<1>5. Conservation'
  BY StepConserves DEF Step
<1>6. Locking'
  <2>1. ~InSection(t)'
    BY <1>2 DEF InSection
  <2> QED
    BY <2>1, OutsideLocks DEF KernelInvariant, GiveUp, shared
<1>7. Sense'
  <2>1. \A u \in Threads : dropped'[u] => pc'[u] = "done"
    <3>1. dropped'[t] => pc'[t] = "done"
      BY <1>1, <1>2 DEF TypeOK
    <3>2. \A u \in Threads \ {t} : dropped'[u] => pc'[u] = "done"
      BY DEF KernelInvariant, Sense, Alone
    <3> QED
      BY <3>1, <3>2
  <2> QED
    BY <2>1 DEF KernelInvariant, Sense, GiveUp, shared
<1> QED
  BY <1>4, <1>5, <1>6, <1>7 DEF KernelInvariant

LEMMA ReadInvariant ==
  ASSUME KernelInvariant, NEW t \in Threads, Read(t), Alone(t) PROVE KernelInvariant'
<1>1. TypeOK /\ kernel_heavy[table[t]][Pos(t)] \in Bucket
  BY AtBucket DEF KernelInvariant
<1>2. TypeOK'
  BY <1>1 DEF TypeOK, Read, shared
<1>3. Conservation'
  BY StepConserves DEF Step
<1>4. Locking'
  BY ReadLocks DEF KernelInvariant
<1>5. Sense'
  BY <1>1 DEF KernelInvariant, Sense, Read, shared, TypeOK
<1> QED
  BY <1>2, <1>3, <1>4, <1>5 DEF KernelInvariant

LEMMA WriteInvariant ==
  ASSUME KernelInvariant, NEW t \in Threads, Write(t), Alone(t) PROVE KernelInvariant'
<1>1. PICK e \in Bucket : Put(t, e) /\ Exchanged(t, kernel_heavy[table[t]][Pos(t)], e)
  BY WriteExchanges
<1>2. /\ TypeOK /\ table[t] \in Table /\ Pos(t) \in Buckets(table[t])
      /\ pc[t] = "write" /\ UNCHANGED <<mutex, kernel_light, table, tries, packet, dropped, astray>>
      /\ seen' = [seen EXCEPT ![t] = EmptyBucket]
  BY AtBucket DEF KernelInvariant, Write
<1>3. /\ DOMAIN kernel_heavy' = Table
      /\ \A j \in Table : kernel_heavy'[j] \in [Buckets(j) -> Bucket]
      /\ \A j \in Table : \A c \in Buckets(j) :
           kernel_heavy'[j][c] = IF j = table[t] /\ c = Pos(t) THEN e ELSE kernel_heavy[j][c]
  BY <1>1, <1>2, BucketWritten DEF Put
<1>4. /\ e.n # 0 /\ e.key \in Keys /\ pc'[t] \in {"unlockCounted", "unlockPass"}
      /\ key'[t] \in Keys /\ val'[t] \in [flag : BOOLEAN, n : Nat \ {0}]
  BY <1>1 DEF Exchanged
<1>5. TypeOK'
  <2>1. /\ pc' = [pc EXCEPT ![t] = pc'[t]] /\ key' = [key EXCEPT ![t] = key'[t]]
        /\ val' = [val EXCEPT ![t] = val'[t]]
    BY <1>2 DEF Write, WriteFill, WriteMerge, WriteVote, WriteSwap, TypeOK
  <2>2. EmptyBucket \in Bucket
    BY DEF EmptyBucket, Bucket
  <2>3. key' \in [Threads -> Keys] /\ seen' \in [Threads -> Bucket]
    BY <1>2, <1>4, <2>1, <2>2 DEF TypeOK
  <2>4. pc' \in [Threads -> {"lock", "read", "write", "unlockCounted", "unlockPass",
                            "light", "done"}]
    BY <1>2, <1>4, <2>1 DEF TypeOK
  <2>5. val' \in [Threads -> [flag : BOOLEAN, n : Nat \ {0}]]
    <3>1. PICK V : V = [flag : BOOLEAN, n : Nat \ {0}]
      OBVIOUS
    <3>2. val \in [Threads -> V] /\ val'[t] \in V
      BY <1>2, <1>4, <3>1 DEF TypeOK
    <3>3. val' \in [Threads -> V]
      BY <2>1, <3>2
    <3> QED
      BY <3>1, <3>3
  <2> QED
    BY <1>2, <1>3, <2>3, <2>4, <2>5 DEF TypeOK
<1>6. Conservation'
  BY StepConserves DEF Step
<1>7. Locking'
  BY <1>1, <1>2, <1>4, WriteLocks DEF KernelInvariant, Put
<1>8. Sense'
  <2>1. \A u \in Threads : dropped'[u] => pc'[u] = "done"
    BY <1>2 DEF KernelInvariant, Sense, Alone
  <2>2. \A j \in Table : \A c \in Buckets(j) :
          \/ Fills(kernel_heavy'[j][c])
          \/ kernel_heavy'[j][c].n # 0 /\ kernel_heavy'[j][c].key \in Keys
    BY <1>3, <1>4 DEF KernelInvariant, Sense
  <2> QED
    BY <2>1, <2>2 DEF Sense, Fills
<1> QED
  BY <1>5, <1>6, <1>7, <1>8 DEF KernelInvariant

LEMMA UnlockInvariant ==
  ASSUME KernelInvariant, NEW t \in Threads, Unlock(t), Alone(t) PROVE KernelInvariant'
<1>1. /\ TypeOK /\ table[t] \in Table /\ Pos(t) \in Buckets(table[t])
      /\ mutex' = [mutex EXCEPT ![table[t]][Pos(t)] = 0]
      /\ pc[t] \in {"unlockCounted", "unlockPass"} /\ Return(t, pc[t] = "unlockPass")
      /\ UNCHANGED <<kernel_heavy, kernel_light, seen, key, val, packet, dropped, astray>>
      /\ tries' = [tries EXCEPT ![t] = 0]
  BY AtBucket DEF KernelInvariant, Unlock
<1>2. /\ pc'[t] \in {"lock", "light", "done"} /\ (pc[t] # "unlockPass" <=> pc'[t] = "done")
      /\ pc' = [pc EXCEPT ![t] = pc'[t]] /\ table' \in [Threads -> Table]
  <2>1. PICK res \in BOOLEAN : res <=> pc[t] = "unlockPass"
    OBVIOUS
  <2>2. Return(t, res)
    BY <1>1, <2>1 DEF Return
  <2> QED
    BY <1>1, <2>1, <2>2, Returns
<1>3. DOMAIN mutex' = Table /\ \A j \in Table : mutex'[j] \in [Buckets(j) -> {0, 1}]
  BY <1>1, MutexWritten
<1>4. TypeOK'
  <2>1. pc' \in [Threads -> {"lock", "read", "write", "unlockCounted", "unlockPass",
                            "light", "done"}]
    BY <1>1, <1>2 DEF TypeOK
  <2>2. tries' \in [Threads -> 0 .. MAX_TRIES - 1]
    BY <1>1, Numbers DEF TypeOK
  <2> QED
    BY <1>1, <1>2, <1>3, <2>1, <2>2 DEF TypeOK
<1>5. Conservation'
  BY StepConserves DEF Step
<1>6. Locking'
  BY UnlockLocks DEF KernelInvariant
<1>7. Sense'
  <2>1. \A u \in Threads : dropped'[u] => pc'[u] = "done"
    BY <1>1 DEF KernelInvariant, Sense, Alone
  <2> QED
    BY <1>1, <2>1 DEF KernelInvariant, Sense
<1> QED
  BY <1>4, <1>5, <1>6, <1>7 DEF KernelInvariant

LEMMA LightInvariant ==
  ASSUME KernelInvariant, NEW t \in Threads, InsertLight(t), Alone(t) PROVE KernelInvariant'
<1>1. /\ TypeOK /\ pc[t] = "light" /\ pc' = [pc EXCEPT ![t] = "done"]
      /\ kernel_light' = [kernel_light EXCEPT ![LightPosOf[key[t]]] = @ + val[t].n]
      /\ UNCHANGED <<kernel_heavy, mutex, table, tries, seen, key, val, packet, dropped, astray>>
  BY DEF KernelInvariant, InsertLight
<1>2. Conservation'
  BY StepConserves DEF Step
<1>3. TypeOK'
  <2>1. LightPosOf[key[t]] \in LightPositions /\ val[t].n \in Nat
    BY <1>1 DEF TypeOK, LightPositions
  <2>2. kernel_light[LightPosOf[key[t]]] + val[t].n \in Nat
    BY <1>1, <2>1 DEF TypeOK
  <2>3. kernel_light' \in [LightPositions -> Nat]
    BY <1>1, <2>2 DEF TypeOK
  <2> QED
    BY <1>1, <2>3 DEF TypeOK
<1>4. Locking'
  <2>1. ~InSection(t)'
    BY <1>1 DEF InSection, TypeOK
  <2> QED
    BY <1>1, <2>1, OutsideLocks DEF KernelInvariant
<1>5. Sense'
  BY <1>1 DEF KernelInvariant, Sense, TypeOK
<1> QED
  BY <1>2, <1>3, <1>4, <1>5 DEF KernelInvariant

LEMMA StutterInvariant ==
  ASSUME KernelInvariant, UNCHANGED vars PROVE KernelInvariant'
<1>1. TypeOK' /\ Locking' /\ Sense'
  BY DEF KernelInvariant, vars, shared, TypeOK, Locking, Sense, InSection, Pos
<1>2. Conservation'
  <2>1. ASSUME NEW K PROVE Mass(K)' = Mass(K) /\ Given(K)' = Given(K)
    BY StayKeeps DEF vars, shared, Carrying, Given
  <2>2. kernel_light' = kernel_light
    BY DEF vars, shared
  <2> QED
    BY <2>1, <2>2 DEF KernelInvariant, Conservation, Sharing
<1> QED
  BY <1>1, <1>2 DEF KernelInvariant

LEMMA KernelInvariantHolds == Spec => []KernelInvariant
<1>1. Init => KernelInvariant
  BY InitInvariant
<1>2. KernelInvariant /\ [Next]_vars => KernelInvariant'
  <2> SUFFICES ASSUME KernelInvariant, [Next]_vars PROVE KernelInvariant'
    OBVIOUS
  <2>1. ASSUME NEW t \in Threads, Step(t) PROVE KernelInvariant'
    <3>1. Alone(t)
      BY <2>1, StepsAlone DEF KernelInvariant
    <3> QED
      BY <2>1, <3>1, LockInvariant, RetryInvariant, GiveUpInvariant, ReadInvariant,
         WriteInvariant, UnlockInvariant, LightInvariant DEF Step
  <2>2. CASE UNCHANGED vars
    BY <2>2, StutterInvariant
  <2> QED
    BY <2>1, <2>2 DEF Next
<1> QED
  BY <1>1, <1>2, PTL DEF Spec

(***************************************************************************)
(* However the threads of a launch interleave, however many they are and   *)
(* whatever insert_bucket says when it got no lock: every packet is in the *)
(* light part, in a bucket or with a thread, and none of them twice; and   *)
(* no light counter outgrows what query_light reads of it.                 *)
(***************************************************************************)
THEOREM TablesStaySound == Spec => []TablesSound
<1>1. KernelInvariant => TablesSound
  BY DEF KernelInvariant, TablesSound
<1> QED
  BY <1>1, KernelInvariantHolds, PTL
-----------------------------------------------------------------------------
(***************************************************************************)
(* The second invariant: no flow has too much, and where a flow that is    *)
(* not astray may lie.                                                     *)
(***************************************************************************)
LEMMA StepBounded ==
  ASSUME KernelInvariant, Bounded, NEW t \in Threads, Step(t), Alone(t)
  PROVE  Bounded'
<1> SUFFICES ASSUME NEW K \in SUBSET Keys PROVE Mass(K)' <= Cardinality(Given(K)')
  BY DEF Bounded
<1>1. /\ Mass(K)' = IF pc[t] = "light" THEN Mass(K) - PartOf(K, key[t], val[t].n) ELSE Mass(K)
      /\ Given(K)' = Given(K)
  BY StepMass
<1>2. /\ Mass(K) \in Nat /\ Mass(K) <= Cardinality(Given(K)) /\ Cardinality(Given(K)) \in Nat
      /\ PartOf(K, key[t], val[t].n) \in Nat
  BY Masses, GivenFinite DEF KernelInvariant, Bounded, TypeOK, PartOf
<1> QED
  BY <1>1, <1>2

LEMMA OwnBucket ==
  ASSUME NEW i \in Table, NEW k \in Keys PROVE PosOf[i][k] \in Buckets(i)
  BY DEF Buckets

\* A bucket that has an unflagged flow, or takes it so, did before; and what has
\* not come past its table does not.
Keeps(i, k) ==
  Open(Own(i, k), k)' => /\ Open(Own(i, k), k)
                         /\ NoneBeyond(i, k) => NoneBeyond(i, k)'

LEMMA KeepsComplete ==
  ASSUME KernelInvariant, FlowInvariant, NEW t \in Threads, Step(t), Alone(t),
         astray \subseteq astray', \A k \in Keys \ astray' : \A i \in Table : Keeps(i, k)
  PROVE  Complete'
<1> SUFFICES ASSUME NEW k \in Keys \ astray', NEW i \in Table, Open(Own(i, k), k)'
             PROVE  Mass({k})' = Cardinality(Given({k})') /\ NoneBeyond(i, k)'
  BY DEF Complete, Own
<1>1. Open(Own(i, k), k) /\ (NoneBeyond(i, k) => NoneBeyond(i, k)')
  BY DEF Keeps
<1>2. Mass({k}) = Cardinality(Given({k})) /\ NoneBeyond(i, k)
  BY <1>1 DEF FlowInvariant, Complete, Own
<1>3. pc[t] = "light" => key[t] # k
  BY <1>2 DEF NoneBeyond, Carrying, Past
<1>4. PICK K : K = {k}
  OBVIOUS
<1>5. /\ K \in SUBSET Keys
      /\ Mass(K)' = IF pc[t] = "light" THEN Mass(K) - PartOf(K, key[t], val[t].n) ELSE Mass(K)
      /\ Given(K)' = Given(K)
  <2>1. K \in SUBSET Keys
    BY <1>4
  <2> QED
    BY <2>1, StepMass
<1>6. pc[t] = "light" => PartOf(K, key[t], val[t].n) = 0
  BY <1>3, <1>4 DEF PartOf
<1>7. Mass(K) \in Nat
  BY Masses DEF KernelInvariant
<1> QED
  BY <1>1, <1>2, <1>4, <1>5, <1>6, <1>7

\* Steps that leave the buckets and the keys: the thread stays at its table or
\* moves on from one that it had passed.
LEMMA QuietKeeps ==
  ASSUME KernelInvariant, NEW t \in Threads, Alone(t), UNCHANGED <<kernel_heavy, key>>,
         NEW i \in Table, NEW k \in Keys,
         key[t] = k /\ Carrying(t)' /\ Past(t, i)' => Carrying(t) /\ Past(t, i)
  PROVE  Keeps(i, k)
<1>1. Open(Own(i, k), k)' <=> Open(Own(i, k), k)
  BY DEF Open, Fills, Own
<1>2. ASSUME NoneBeyond(i, k) PROVE NoneBeyond(i, k)'
  <2>1. \A u \in Threads : Carrying(u)' /\ key'[u] = k => ~Past(u, i)'
    <3>1. Carrying(t)' /\ key'[t] = k => ~Past(t, i)'
      BY <1>2 DEF NoneBeyond
    <3>2. \A u \in Threads \ {t} : Carrying(u)' /\ key'[u] = k => ~Past(u, i)'
      BY <1>2 DEF NoneBeyond, Alone, Carrying, Past
    <3> QED
      BY <3>1, <3>2
  <2>2. \A j \in Table : \A b \in Buckets(j) :
          j > i => Fills(kernel_heavy'[j][b]) \/ kernel_heavy'[j][b].key # k
    BY <1>2 DEF NoneBeyond
  <2> QED
    BY <2>1, <2>2 DEF NoneBeyond, Fills
<1> QED
  BY <1>1, <1>2 DEF Keeps

LEMMA QuietComplete ==
  ASSUME KernelInvariant, FlowInvariant, NEW t \in Threads, Alone(t),
         Lock(t) \/ Retry(t) \/ GiveUp(t) \/ Read(t) \/ Unlock(t) \/ InsertLight(t)
  PROVE  Complete'
<1>1. UNCHANGED <<kernel_heavy, key>> /\ astray \subseteq astray' /\ Step(t)
  BY DEF Lock, Retry, GiveUp, Read, Unlock, InsertLight, Step, shared
<1>2. ASSUME NEW i \in Table, NEW k \in Keys \ astray',
             key[t] = k, Carrying(t)', Past(t, i)'
      PROVE  Carrying(t) /\ Past(t, i)
  <2>1. TypeOK /\ table[t] \in Table /\ i \in Nat /\ table[t] \in Nat
    BY Numbers, AtBucket DEF KernelInvariant
  <2>2. CASE Lock(t) \/ Retry(t) \/ Read(t)
    BY <1>2, <2>1, <2>2 DEF Lock, Retry, Read, TypeOK, Carrying, Past
  <2>3. CASE GiveUp(t)
    BY <1>2, <2>3 DEF GiveUp
  <2>4. CASE Unlock(t)
    <3>1. pc[t] = "unlockPass"
      <4>1. pc[t] # "unlockPass" => pc'[t] = "done" /\ ~dropped'[t]
        BY <2>1, <2>4 DEF Unlock, Return, TypeOK, KernelInvariant, Sense
      <4> QED
        BY <1>2, <4>1 DEF Carrying
    <3>2. table[t] >= i
      <4>1. CASE table[t] + 1 < Tables
        <5>1. pc'[t] = "lock" /\ table'[t] = table[t] + 1
          BY <2>1, <2>4, <3>1, <4>1 DEF Unlock, Return, TypeOK
        <5> QED
          BY <1>2, <2>1, <5>1 DEF Past
      <4>2. CASE ~(table[t] + 1 < Tables)
        BY <2>1, <4>2, Numbers
      <4> QED
        BY <4>1, <4>2
    <3> QED
      BY <2>1, <3>1, <3>2 DEF Carrying, Past
  <2>5. CASE InsertLight(t)
    BY <2>1, <2>5 DEF InsertLight, TypeOK, Carrying, Past
  <2> QED
    BY <2>2, <2>3, <2>4, <2>5
<1>3. \A k \in Keys \ astray' : \A i \in Table : Keeps(i, k)
  BY <1>1, <1>2, QuietKeeps
<1> QED
  BY <1>1, <1>3, KeepsComplete

\* What a write does to its bucket, from b to e: what the thread has goes there,
\* or it votes and passes, or it takes the bucket with a flag and goes on with
\* what was there.
Puts(t, b, e) ==
  /\ pc'[t] = "unlockCounted" /\ key'[t] = key[t]
  /\ e.key = key[t] /\ (Fills(b) \/ b.key = key[t]) /\ (b.flag => e.flag)

Passes(t, b, e) ==
  /\ pc'[t] = "unlockPass" /\ key'[t] = key[t]
  /\ ~Fills(b) /\ b.key # key[t] /\ e.key = b.key /\ e.flag = b.flag

Displaced(t, b, e) ==
  /\ pc'[t] = "unlockPass" /\ key'[t] = b.key
  /\ ~Fills(b) /\ b.key # key[t] /\ e.key = key[t] /\ e.flag

Writes(t, e) ==
  LET b == kernel_heavy[table[t]][Pos(t)] IN
  /\ e \in Bucket /\ ~Fills(e) /\ Put(t, e)
  /\ Puts(t, b, e) \/ Passes(t, b, e) \/ Displaced(t, b, e)

LEMMA WriteWrites ==
  ASSUME KernelInvariant, NEW t \in Threads, Write(t)
  PROVE  \E e : Writes(t, e)
<1>1. PICK b : b = kernel_heavy[table[t]][Pos(t)]
  OBVIOUS
<1>2. /\ b = seen[t] /\ b \in Bucket /\ key[t] \in Keys
      /\ val[t].n \in Nat \ {0} /\ val[t].flag \in BOOLEAN
      /\ DOMAIN pc = Threads /\ DOMAIN key = Threads
  <2>1. b = seen[t]
    BY <1>1 DEF KernelInvariant, Locking, Write
  <2> QED
    BY <1>1, <2>1, AtBucket DEF KernelInvariant, TypeOK
<1>3. b.n \in Nat /\ b.flag \in BOOLEAN /\ b.votes \in Nat /\ b.key \in Keys \cup {NoKey}
  BY <1>2 DEF Bucket
<1>4. CASE WriteFill(t)
  <2>1. PICK e : e = Filled(b, t)
    OBVIOUS
  <2>2. /\ e \in Bucket /\ ~Fills(e) /\ e.key = key[t] /\ Fills(b) /\ Put(t, e)
        /\ pc'[t] = "unlockCounted" /\ key' = key
    BY <1>2, <1>3, <1>4, <2>1 DEF WriteFill, Filled, Fills, Bucket
  <2> QED
    BY <1>1, <2>2 DEF Writes, Puts, Fills
<1>5. CASE WriteMerge(t)
  <2>1. PICK f : f = (b.flag \/ val[t].flag)
    OBVIOUS
  <2>2. PICK n : n = b.n + val[t].n
    OBVIOUS
  <2>3. PICK e : e = [b EXCEPT !.flag = f, !.n = n]
    OBVIOUS
  <2>4. f \in BOOLEAN /\ n \in Nat /\ n # 0 /\ (b.flag => f)
    BY <1>2, <1>3, <2>1, <2>2
  <2>5. /\ e \in Bucket /\ ~Fills(e) /\ e.key = b.key /\ (b.flag => e.flag)
    BY <1>2, <1>3, <2>3, <2>4 DEF Fills, Bucket
  <2>6. /\ Put(t, e) /\ b.key = key[t] /\ pc'[t] = "unlockCounted" /\ key' = key
    BY <1>2, <1>5, <2>1, <2>2, <2>3 DEF WriteMerge, Merged
  <2> QED
    BY <1>1, <2>5, <2>6 DEF Writes, Puts
<1>6. CASE WriteVote(t)
  <2>1. PICK v : v = Votes(b, t)
    OBVIOUS
  <2>2. PICK e : e = [b EXCEPT !.votes = v]
    OBVIOUS
  <2>3. v \in Nat
    BY <1>2, <1>3, <2>1 DEF Votes
  <2>4. /\ e \in Bucket /\ e.key = b.key /\ e.flag = b.flag /\ e.n = b.n
    BY <1>2, <1>3, <2>2, <2>3 DEF Bucket
  <2>5. /\ Put(t, e) /\ ~Fills(b) /\ b.key # key[t] /\ pc'[t] = "unlockPass" /\ key' = key
    BY <1>2, <1>6, <2>1, <2>2 DEF WriteVote
  <2> QED
    BY <1>1, <2>4, <2>5 DEF Writes, Passes, Fills
<1>7. CASE WriteSwap(t)
  <2>1. PICK e : e = Taken(b, t)
    OBVIOUS
  <2>2. /\ e \in Bucket /\ ~Fills(e) /\ e.key = key[t] /\ e.flag
    BY <1>2, <1>3, <2>1 DEF Taken, Fills, Bucket
  <2>3. /\ Put(t, e) /\ ~Fills(b) /\ b.key # key[t] /\ pc'[t] = "unlockPass" /\ key'[t] = b.key
    BY <1>2, <1>7, <2>1 DEF WriteSwap
  <2> QED
    BY <1>1, <2>2, <2>3 DEF Writes, Displaced
<1> QED
  BY <1>4, <1>5, <1>6, <1>7 DEF Write

LEMMA WriteComplete ==
  ASSUME KernelInvariant, FlowInvariant, NEW t \in Threads, Write(t), Alone(t)
  PROVE  Complete'
<1>1. PICK e : Writes(t, e)
  BY WriteWrites
<1>2. PICK b : b = kernel_heavy[table[t]][Pos(t)]
  OBVIOUS
<1>3. /\ table[t] \in Table /\ Pos(t) \in Buckets(table[t]) /\ table' = table /\ packet' = packet
      /\ astray' = astray /\ pc[t] = "write" /\ dropped' = dropped /\ ~dropped[t]
      /\ \A j \in Table : j \in Nat
  BY AtBucket, Numbers DEF KernelInvariant, Sense, Write
<1>4. \A j \in Table : \A c \in Buckets(j) :
        kernel_heavy'[j][c] = IF j = table[t] /\ c = Pos(t) THEN e ELSE kernel_heavy[j][c]
  BY <1>1, <1>3, BucketWritten DEF Writes, Put, KernelInvariant
<1>5. ~Fills(e) /\ (Puts(t, b, e) \/ Passes(t, b, e) \/ Displaced(t, b, e))
  BY <1>1, <1>2 DEF Writes
<1>6. ASSUME NEW k \in Keys \ astray, NEW i \in Table, Open(Own(i, k), k)'
      PROVE  Open(Own(i, k), k) /\ (NoneBeyond(i, k) => NoneBeyond(i, k)')
  <2>1. PICK o : o = Own(i, k)
    OBVIOUS
  <2>2. PICK p : p = PosOf[i][k]
    OBVIOUS
  <2>3. p \in Buckets(i) /\ o = kernel_heavy[i][p]
    BY <2>1, <2>2, OwnBucket DEF Own
  <2>4. Open(kernel_heavy'[i][p], k)
    BY <1>6, <2>2 DEF Open, Own, Fills
  <2>5. key[t] \in astray \/ Pos(t) = PosOf[table[t]][key[t]]
    BY <1>3 DEF FlowInvariant, Home, AtHome
  <2>6. Fills(b) \/ b.key \in astray \/ Pos(t) = PosOf[table[t]][b.key]
    BY <1>2, <1>3 DEF FlowInvariant, Home
  <2>7. table[t] = i /\ Pos(t) = p => e.key = k /\ ~e.flag /\ b = o
    BY <1>2, <1>3, <1>4, <1>5, <2>3, <2>4 DEF Open
  <2>8. Open(o, k)
    <3>1. CASE table[t] = i /\ Pos(t) = p
      BY <1>5, <2>7, <3>1 DEF Open, Puts, Passes, Displaced
    <3>2. CASE ~(table[t] = i /\ Pos(t) = p)
      BY <1>4, <2>3, <2>4, <3>2
    <3> QED
      BY <3>1, <3>2
  <2>9. ASSUME NoneBeyond(i, k) PROVE NoneBeyond(i, k)'
    <3>1. key[t] = k => ~(table[t] > i)
      BY <1>3, <2>9 DEF NoneBeyond, Carrying, Past
    <3>2. table[t] > i => Fills(b) \/ b.key # k
      BY <1>2, <1>3, <2>9 DEF NoneBeyond
    <3>3. ASSUME NEW j \in Table, NEW c \in Buckets(j), j > i
          PROVE  Fills(kernel_heavy'[j][c]) \/ kernel_heavy'[j][c].key # k
      <4>1. CASE j = table[t] /\ c = Pos(t)
        <5>1. e.key # k
          BY <1>5, <3>1, <3>2, <3>3, <4>1 DEF Puts, Passes, Displaced
        <5> QED
          BY <1>4, <4>1, <5>1
      <4>2. CASE ~(j = table[t] /\ c = Pos(t))
        BY <1>4, <2>9, <3>3, <4>2 DEF NoneBeyond
      <4> QED
        BY <4>1, <4>2
    <3>4. ~(Carrying(t)' /\ key'[t] = k /\ Past(t, i)')
      <4>1. SUFFICES ASSUME Carrying(t)', key'[t] = k, Past(t, i)' PROVE FALSE
        OBVIOUS
      <4>2. pc'[t] = "unlockPass" /\ (table[t] > i \/ table[t] = i)
        BY <1>3, <1>5, <4>1 DEF Carrying, Past, Puts, Passes, Displaced
      <4>3. CASE Passes(t, b, e)
        <5>1. key[t] = k /\ b.key # k /\ e.key = b.key
          BY <4>1, <4>3 DEF Passes
        <5>2. table[t] = i /\ Pos(t) = p
          BY <2>2, <2>5, <3>1, <4>2, <5>1
        <5> QED
          BY <2>7, <5>1, <5>2
      <4>4. CASE Displaced(t, b, e)
        <5>1. b.key = k /\ ~Fills(b) /\ e.key # k
          BY <4>1, <4>4 DEF Displaced
        <5>2. table[t] = i /\ Pos(t) = p
          BY <2>2, <2>6, <3>2, <4>2, <5>1
        <5> QED
          BY <2>7, <5>1, <5>2
      <4>5. ~Puts(t, b, e)
        BY <4>2 DEF Puts
      <4> QED
        BY <1>5, <4>3, <4>4, <4>5
    <3>5. \A u \in Threads \ {t} : Carrying(u)' /\ key'[u] = k => ~Past(u, i)'
      BY <2>9 DEF NoneBeyond, Alone, Carrying, Past
    <3> QED
      BY <3>3, <3>4, <3>5 DEF NoneBeyond, Fills
  <2> QED
    BY <2>1, <2>8, <2>9
<1>7. \A k \in Keys \ astray' : \A i \in Table : Keeps(i, k)
  BY <1>3, <1>6 DEF Keeps
<1> QED
  BY <1>3, <1>7, KeepsComplete DEF Step
-----------------------------------------------------------------------------
LEMMA InitFlows ==
  ASSUME Init PROVE FlowInvariant
<1>1. Bounded
  <2>1. \A K \in SUBSET Keys : Mass(K) = Cardinality(Given(K)) /\ Cardinality(Given(K)) \in Nat
    BY InitMass, GivenFinite
  <2> QED
    BY <2>1 DEF Bounded
<1>2. \A i \in Table : \A b \in Buckets(i) : Fills(kernel_heavy[i][b])
  BY DEF Init, Fills, EmptyBucket
<1>3. Home
  BY <1>2 DEF Init, Home
<1>4. Complete
  <2>1. \A k \in Keys : Mass({k}) = Cardinality(Given({k}))
    BY InitMass
  <2>2. \A i \in Table : \A t \in Threads : ~Past(t, i)
    BY Numbers DEF Init, Past
  <2>3. \A i \in Table : \A k \in Keys : NoneBeyond(i, k)
    BY <1>2, <2>2 DEF NoneBeyond
  <2> QED
    BY <2>1, <2>3 DEF Complete
<1> QED
  BY <1>1, <1>3, <1>4 DEF FlowInvariant

LEMMA QuietHome ==
  ASSUME KernelInvariant, Home, NEW t \in Threads, Alone(t),
         Lock(t) \/ Retry(t) \/ GiveUp(t) \/ Read(t) \/ Unlock(t) \/ InsertLight(t)
  PROVE  Home'
<1>1. UNCHANGED <<kernel_heavy, key>> /\ astray \subseteq astray' /\ packet' = packet
  BY DEF Lock, Retry, GiveUp, Read, Unlock, InsertLight, shared
<1>2. \A i \in Table : \A b \in Buckets(i) :
        LET e == kernel_heavy'[i][b] IN Fills(e) \/ e.key \in astray' \/ b = PosOf[i][e.key]
  BY <1>1 DEF Home
<1>3. \A u \in Threads : pc'[u] = "write" => key'[u] \in astray' \/ AtHome(u)'
  <2>1. pc'[t] = "write" => key[t] \in astray' \/ AtHome(t)'
    <3>1. CASE Read(t)
      BY <3>1 DEF Read, AtHome, Pos, shared
    <3>2. CASE Lock(t) \/ Retry(t) \/ GiveUp(t) \/ Unlock(t) \/ InsertLight(t)
      <4>1. pc'[t] # "write"
        BY <3>2 DEF Lock, Retry, GiveUp, Unlock, InsertLight, Return, KernelInvariant, TypeOK
      <4> QED
        BY <4>1
    <3> QED
      BY <3>1, <3>2
  <2>2. \A u \in Threads \ {t} : pc'[u] = "write" => key[u] \in astray' \/ AtHome(u)'
    BY <1>1 DEF Home, Alone, AtHome, Pos
  <2> QED
    BY <1>1, <2>1, <2>2
<1>4. \A u \in Threads : dropped'[u] => key'[u] \in astray'
  <2>1. dropped'[t] => key[t] \in astray'
    BY <1>1 DEF Home, Lock, Retry, GiveUp, Read, Unlock, InsertLight
  <2>2. \A u \in Threads \ {t} : dropped'[u] => key[u] \in astray'
    BY <1>1 DEF Home, Alone
  <2> QED
    BY <1>1, <2>1, <2>2
<1> QED
  BY <1>2, <1>3, <1>4 DEF Home, Fills

LEMMA WriteHome ==
  ASSUME KernelInvariant, Home, NEW t \in Threads, Write(t), Alone(t)
  PROVE  Home'
<1>1. PICK e : Writes(t, e)
  BY WriteWrites
<1>2. PICK b : b = kernel_heavy[table[t]][Pos(t)]
  OBVIOUS
<1>3. /\ table[t] \in Table /\ Pos(t) \in Buckets(table[t]) /\ table' = table /\ packet' = packet
      /\ astray' = astray /\ pc[t] = "write" /\ dropped' = dropped /\ ~dropped[t]
  BY AtBucket DEF KernelInvariant, Sense, Write
<1>4. \A j \in Table : \A c \in Buckets(j) :
        kernel_heavy'[j][c] = IF j = table[t] /\ c = Pos(t) THEN e ELSE kernel_heavy[j][c]
  BY <1>1, <1>3, BucketWritten DEF Writes, Put, KernelInvariant
<1>5. ~Fills(e) /\ (Puts(t, b, e) \/ Passes(t, b, e) \/ Displaced(t, b, e))
  BY <1>1, <1>2 DEF Writes
<1>6. /\ key[t] \in astray \/ Pos(t) = PosOf[table[t]][key[t]]
      /\ Fills(b) \/ b.key \in astray \/ Pos(t) = PosOf[table[t]][b.key]
  BY <1>2, <1>3 DEF Home, AtHome
<1>7. e.key \in astray \/ Pos(t) = PosOf[table[t]][e.key]
  BY <1>5, <1>6 DEF Puts, Passes, Displaced
<1>8. \A i \in Table : \A c \in Buckets(i) :
        LET x == kernel_heavy'[i][c] IN Fills(x) \/ x.key \in astray \/ c = PosOf[i][x.key]
  BY <1>4, <1>7 DEF Home
<1>9. \A u \in Threads : pc'[u] = "write" => key'[u] \in astray \/ AtHome(u)'
  <2>1. pc'[t] # "write"
    BY <1>5 DEF Puts, Passes, Displaced
  <2>2. \A u \in Threads \ {t} : pc'[u] = "write" => key'[u] \in astray \/ AtHome(u)'
    BY <1>3 DEF Home, Alone, AtHome, Pos
  <2> QED
    BY <2>1, <2>2
<1>10. \A u \in Threads : dropped'[u] => key'[u] \in astray
  BY <1>3 DEF Home, Alone
<1> QED
  BY <1>3, <1>8, <1>9, <1>10 DEF Home, Fills

LEMMA StutterFlows ==
  ASSUME FlowInvariant, UNCHANGED vars PROVE FlowInvariant'
<1>1. ASSUME NEW K PROVE Mass(K)' = Mass(K) /\ Given(K)' = Given(K)
  BY StayKeeps DEF vars, shared, Carrying, Given
<1>2. Bounded'
  BY <1>1 DEF FlowInvariant, Bounded
<1>3. Home'
  BY DEF FlowInvariant, Home, Fills, AtHome, Pos, vars, shared
<1>4. Complete'
  <2>1. \A i \in Table : \A k \in Keys :
          /\ Open(kernel_heavy'[i][PosOf[i][k]], k) <=> Open(kernel_heavy[i][PosOf[i][k]], k)
          /\ NoneBeyond(i, k)' <=> NoneBeyond(i, k)
    BY DEF vars, shared, NoneBeyond, Carrying, Past, Open, Fills
  <2>2. astray' = astray
    BY DEF vars
  <2> QED
    BY <1>1, <2>1, <2>2 DEF FlowInvariant, Complete, Own, Open, Fills
<1> QED
  BY <1>2, <1>3, <1>4 DEF FlowInvariant

LEMMA FlowInvariantHolds == Spec => []FlowInvariant
<1>1. Init => FlowInvariant
  BY InitFlows
<1>2. KernelInvariant /\ FlowInvariant /\ [Next]_vars => FlowInvariant'
  <2> SUFFICES ASSUME KernelInvariant, FlowInvariant, [Next]_vars PROVE FlowInvariant'
    OBVIOUS
  <2>1. ASSUME NEW t \in Threads, Step(t) PROVE FlowInvariant'
    <3>1. Alone(t)
      BY <2>1, StepsAlone DEF KernelInvariant
    <3>2. Bounded'
      BY <2>1, <3>1, StepBounded DEF FlowInvariant
    <3>3. Home'
      BY <2>1, <3>1, QuietHome, WriteHome DEF FlowInvariant, Step
    <3>4. Complete'
      BY <2>1, <3>1, QuietComplete, WriteComplete DEF Step
    <3> QED
      BY <3>2, <3>3, <3>4 DEF FlowInvariant
  <2>2. CASE UNCHANGED vars
    BY <2>2, StutterFlows
  <2> QED
    BY <2>1, <2>2 DEF Next
<1> QED
  BY <1>1, <1>2, KernelInvariantHolds, PTL DEF Spec
-----------------------------------------------------------------------------
(***************************************************************************)
(* What the queries answer.                                                *)
(***************************************************************************)
\* Flows and one flow more.
LEMMA MassAdds ==
  ASSUME TypeOK, NEW L, NEW k, k \notin L
  PROVE  /\ Mass(L \cup {k}) = Mass(L) + Mass({k})
         /\ Cardinality(Given(L \cup {k})) = Cardinality(Given(L)) + Cardinality(Given({k}))
<1>1. PICK K : K = L \cup {k}
  OBVIOUS
<1>2. PICK E : E = {k}
  OBVIOUS
<1>3. \A j, n : n \in Nat => PartOf(K, j, n) = PartOf(L, j, n) + PartOf(E, j, n)
  BY <1>1, <1>2 DEF PartOf
<1>4. Adds(Stored(L), Stored(E), Stored(K), Slots)
  <2> SUFFICES ASSUME NEW s \in Slots
               PROVE  /\ Stored(L)[s] \in Int /\ Stored(E)[s] \in Int
                      /\ Stored(K)[s] = Stored(L)[s] + Stored(E)[s]
    BY DEF Adds
  <2>1. PICK i \in Table : \E b \in Buckets(i) : s = <<i, b>>
    BY SlotIs
  <2>2. PICK b \in Buckets(i) : s = <<i, b>>
    BY <2>1
  <2>3. kernel_heavy[i][b].n \in Nat
    BY DEF TypeOK, Bucket
  <2>4. \A J : Stored(J)[s] = PartOf(J, kernel_heavy[i][b].key, kernel_heavy[i][b].n)
    BY <2>2 DEF Stored
  <2> QED
    BY <1>3, <2>3, <2>4, Masses
<1>5. Adds(Carried(L), Carried(E), Carried(K), Threads)
  <2>1. \A t \in Threads : val[t].n \in Nat
    BY DEF TypeOK
  <2>2. \A t \in Threads : Carried(K)[t] = Carried(L)[t] + Carried(E)[t]
    BY <1>3, <2>1 DEF Carried
  <2> QED
    BY <2>2, Masses DEF Adds
<1>6. SumFunctionOnSet(Stored(K), Slots) =
        SumFunctionOnSet(Stored(L), Slots) + SumFunctionOnSet(Stored(E), Slots)
  BY <1>4, FiniteSlots, SumAdds
<1>7. SumFunctionOnSet(Carried(K), Threads) =
        SumFunctionOnSet(Carried(L), Threads) + SumFunctionOnSet(Carried(E), Threads)
  BY <1>5, Numbers, SumAdds
<1>8. Mass(K) = Mass(L) + Mass(E)
  BY <1>6, <1>7, Masses DEF Mass
<1>9. Cardinality(Given(K)) = Cardinality(Given(L)) + Cardinality(Given(E))
  <2>1. Given(K) = Given(L) \cup Given(E) /\ Given(L) \cap Given(E) = {}
    BY <1>1, <1>2 DEF Given
  <2>2. Cardinality({}) = 0
    BY FS_EmptySet
  <2>3. /\ IsFiniteSet(Given(L)) /\ IsFiniteSet(Given(E))
        /\ Cardinality(Given(L)) \in Nat /\ Cardinality(Given(E)) \in Nat
    BY GivenFinite
  <2>4. Cardinality(Given(L) \cup Given(E)) =
          Cardinality(Given(L)) + Cardinality(Given(E)) - Cardinality(Given(L) \cap Given(E))
    BY <2>3, FS_Union
  <2>5. Cardinality(Given(K)) = Cardinality(Given(L)) + Cardinality(Given(E)) - 0
    BY <2>1, <2>2, <2>4, Zenon
  <2> QED
    BY <2>3, <2>5
<1> QED
  BY <1>1, <1>2, <1>8, <1>9

\* What the buckets hold of a flow that is not astray is what query_heavy finds
\* in its places.
LEMMA HeldAtPlaces ==
  ASSUME KernelInvariant, FlowInvariant, NEW k \in Keys \ astray
  PROVE  SumFunctionOnSet(Stored({k}), Slots) = QueryHeavy(k)
<1>1. PICK h : h = [i \in Table |-> <<i, PosOf[i][k]>>]
  OBVIOUS
<1>2. PICK g : g = [i \in Table |-> kernel_heavy[i][PosOf[i][k]].n]
  OBVIOUS
<1>3. PICK P : P = Places(k)
  OBVIOUS
<1>4. PICK U : U = {s \in Slots : \E i \in P : s = h[i]}
  OBVIOUS
<1>5. PICK f : f = Stored({k})
  OBVIOUS
<1>6. P \in SUBSET Table /\ IsFiniteSet(P)
  <2>1. P \in SUBSET Table
    BY <1>3 DEF Places
  <2>2. IsFiniteSet(Table)
    BY Numbers, FS_Interval
  <2> QED
    BY <2>1, <2>2, FS_Subset
<1>7. \A i \in Table : /\ h[i] = <<i, PosOf[i][k]>> /\ h[i] \in Slots
                       /\ g[i] = kernel_heavy[i][PosOf[i][k]].n
                       /\ f[h[i]] = PartOf({k}, kernel_heavy[i][PosOf[i][k]].key, g[i])
  <2> SUFFICES ASSUME NEW i \in Table
               PROVE  /\ h[i] = <<i, PosOf[i][k]>> /\ h[i] \in Slots
                      /\ g[i] = kernel_heavy[i][PosOf[i][k]].n
                      /\ f[h[i]] = PartOf({k}, kernel_heavy[i][PosOf[i][k]].key, g[i])
    OBVIOUS
  <2>1. h[i] = <<i, PosOf[i][k]>> /\ g[i] = kernel_heavy[i][PosOf[i][k]].n
    BY <1>1, <1>2
  <2>2. h[i] \in Slots
    BY <2>1, SlotIs DEF Buckets
  <2> QED
    BY <1>5, <2>1, <2>2 DEF Stored
<1>8. \A s \in Slots : f[s] \in Int
  BY <1>5, Masses DEF KernelInvariant
<1>9. ASSUME NEW s \in Slots \ U PROVE f[s] = 0
  <2>1. PICK i \in Table : \E b \in Buckets(i) : s = <<i, b>>
    BY SlotIs
  <2>2. PICK b \in Buckets(i) : s = <<i, b>>
    BY <2>1
  <2>3. PICK e : e = kernel_heavy[i][b]
    OBVIOUS
  <2>4. f[s] = PartOf({k}, e.key, e.n)
    BY <1>5, <2>2, <2>3 DEF Stored
  <2>5. Fills(e) \/ e.key # k
    <3> SUFFICES ASSUME ~Fills(e), e.key = k PROVE FALSE
      OBVIOUS
    <3>1. b = PosOf[i][k]
      BY <2>3 DEF FlowInvariant, Home
    <3>2. i \in P /\ s = h[i]
      BY <1>3, <1>7, <2>2, <2>3, <3>1 DEF Places
    <3> QED
      BY <1>4, <3>2
  <2> QED
    BY <2>4, <2>5 DEF Fills, PartOf
<1>10. Names(f, U, g, P, h)
  <2>1. \A i \in P : h[i] \in U /\ g[i] = f[h[i]]
    <3>1. \A i \in P : kernel_heavy[i][PosOf[i][k]].key = k
      BY <1>3 DEF Places
    <3> QED
      BY <1>4, <1>6, <1>7, <3>1 DEF PartOf
  <2>2. \A s \in U : \E i \in P : h[i] = s
    BY <1>4
  <2>3. \A i, j \in P : h[i] = h[j] => i = j
    BY <1>6, <1>7
  <2> QED
    BY <2>1, <2>2, <2>3 DEF Names
<1>11. U \in SUBSET Slots /\ \A s \in U : f[s] \in Int
  BY <1>4, <1>8
<1>12. SumFunctionOnSet(f, Slots) = SumFunctionOnSet(f, U)
  BY <1>8, <1>9, <1>11, FiniteSlots, SumRestrict
<1>13. SumFunctionOnSet(f, U) = SumFunctionOnSet(g, P)
  BY <1>6, <1>10, <1>11, SumNames
<1>14. QueryHeavy(k) = SumFunctionOnSet(g, P)
  BY <1>2, <1>3 DEF QueryHeavy
<1> QED
  BY <1>5, <1>12, <1>13, <1>14

\* When the launch has ended, the threads carry nothing of it any more.
LEMMA EndedMass ==
  ASSUME KernelInvariant, FlowInvariant, Ended, NEW k \in Keys \ astray
  PROVE  Mass({k}) = QueryHeavy(k) /\ QueryHeavy(k) \in Nat
<1>1. \A t \in Threads : Carried({k})[t] = 0
  <2>1. \A t \in Threads : Carrying(t) => key[t] # k
    BY DEF Ended, Carrying, FlowInvariant, Home
  <2> QED
    BY <2>1 DEF Carried, PartOf
<1>2. SumFunctionOnSet(Carried({k}), Threads) = 0
  <2>1. PICK f : f = Carried({k})
    OBVIOUS
  <2>2. SumFunctionOnSet(f, Threads) = 0
    BY <1>1, <2>1, Numbers, SumZero
  <2> QED
    BY <2>1, <2>2
<1>3. SumFunctionOnSet(Stored({k}), Slots) = QueryHeavy(k)
  BY HeldAtPlaces
<1>4. SumFunctionOnSet(Stored({k}), Slots) \in Nat
  BY Masses DEF KernelInvariant
<1> QED
  BY <1>2, <1>3, <1>4 DEF Mass

\* The light counter of a flow has what the buckets lack of it, in the part that
\* query_light reads and the part that it masks off.
LEMMA LightHasTheRest ==
  ASSUME KernelInvariant, FlowInvariant, NEW k \in Keys
  PROVE  /\ QueryLight(k) \in Nat /\ Cut(k) \in Nat
         /\ QueryLight(k) + Cut(k) + Mass({k}) >= PacketsOf(k)
<1>1. PICK q : q = LightPosOf[k]
  OBVIOUS
<1>2. PICK L : L = Sharing(q) \ {k}
  OBVIOUS
<1>3. q \in LightPositions /\ k \notin L /\ Sharing(q) = L \cup {k} /\ L \in SUBSET Keys
  BY <1>1, <1>2 DEF LightPositions, Sharing
<1>4. kernel_light[q] + Mass(Sharing(q)) = Cardinality(Given(Sharing(q)))
  BY <1>3 DEF KernelInvariant, Conservation
<1>5. /\ Mass(L \cup {k}) = Mass(L) + Mass({k})
      /\ Cardinality(Given(L \cup {k})) = Cardinality(Given(L)) + Cardinality(Given({k}))
  BY <1>3, MassAdds DEF KernelInvariant
<1>6. Mass(L) <= Cardinality(Given(L))
  BY <1>3 DEF FlowInvariant, Bounded
<1>7. /\ Mass(L) \in Nat /\ Mass({k}) \in Nat
      /\ Cardinality(Given(L)) \in Nat /\ Cardinality(Given({k})) \in Nat
  BY Masses, GivenFinite DEF KernelInvariant
<1>8. /\ QueryLight(k) \in Nat /\ Cut(k) \in Nat
      /\ QueryLight(k) + Cut(k) = kernel_light[q]
  <2>1. PICK n : n = kernel_light[q]
    OBVIOUS
  <2>2. n \in Nat
    BY <1>3, <2>1 DEF KernelInvariant, TypeOK
  <2>3. PICK m : m = n % LightSize
    OBVIOUS
  <2>4. m \in Nat /\ m <= n
    BY <2>2, <2>3, Numbers
  <2>5. QueryLight(k) = m
    BY <1>1, <2>1, <2>3, Zenon DEF QueryLight
  <2>6. Cut(k) = n - m
    BY <1>1, <2>1, <2>5, Zenon DEF Cut
  <2> QED
    BY <2>1, <2>2, <2>4, <2>5, <2>6
<1> QED
  BY <1>3, <1>4, <1>5, <1>6, <1>7, <1>8 DEF PacketsOf

\* A flow that some table holds without a flag is in the tables only.
LEMMA UnflaggedIsWhole ==
  ASSUME KernelInvariant, FlowInvariant, NEW k \in Keys \ astray,
         Places(k) # {}, ~ShouldQueryLight(k)
  PROVE  Mass({k}) = PacketsOf(k)
<1>1. PICK i \in Table : i \in Places(k)
  BY DEF Places
<1>2. Open(kernel_heavy[i][PosOf[i][k]], k)
  BY <1>1 DEF Open, Places, ShouldQueryLight
<1> QED
  BY <1>2 DEF FlowInvariant, Complete, Own, PacketsOf

LEMMA QueriesFollow ==
  ASSUME KernelInvariant, FlowInvariant PROVE QueriesSound
<1> SUFFICES ASSUME Ended, NEW k \in Keys \ astray
             PROVE  /\ Query(k) + Cut(k) >= PacketsOf(k)
                    /\ Places(k) # {} /\ ~ShouldQueryLight(k) => QueryHeavy(k) = PacketsOf(k)
  BY DEF QueriesSound
<1>1. Mass({k}) = QueryHeavy(k) /\ QueryHeavy(k) \in Nat
  BY EndedMass
<1>2. Places(k) # {} /\ ~ShouldQueryLight(k) => QueryHeavy(k) = PacketsOf(k)
  BY <1>1, UnflaggedIsWhole
<1>3. /\ QueryLight(k) \in Nat /\ Cut(k) \in Nat
      /\ QueryLight(k) + Cut(k) + QueryHeavy(k) >= PacketsOf(k)
  BY <1>1, LightHasTheRest
<1>4. CASE ShouldQueryLight(k) \/ QueryHeavy(k) = 0
  BY <1>1, <1>3, <1>4, <1>2 DEF Query
<1>5. CASE ~ShouldQueryLight(k) /\ QueryHeavy(k) # 0
  <2>1. Places(k) # {}
    BY <1>5, SumEmpty DEF QueryHeavy
  <2> QED
    BY <1>1, <1>2, <1>3, <1>5, <2>1 DEF Query
<1> QED
  BY <1>2, <1>4, <1>5

(***************************************************************************)
(* After a launch query(), in elastic_gpu.cu, answers a flow that it finds *)
(* without a flag exactly, and otherwise falls short of the flow's packets *)
(* by no more than what query_light masks off its light counter, nothing   *)
(* unless 256 packets have come to that counter; but for flows of which a  *)
(* part went astray.                                                       *)
(***************************************************************************)
THEOREM QueriesStaySound == Spec => []QueriesSound
<1>1. KernelInvariant /\ FlowInvariant => QueriesSound
  BY QueriesFollow
<1> QED
  BY <1>1, KernelInvariantHolds, FlowInvariantHolds, PTL
=============================================================================
