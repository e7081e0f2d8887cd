-------------------------- MODULE MultiCoreProofs --------------------------
(***************************************************************************)
(* Theorems about the multi-core program, for every number of threads,     *)
(* every size of the rings and of main's buffers, every trace, any number  *)
(* of passes and whatever the compiler makes of the spin on begin_insert.  *)
(*                                                                         *)
(* First come the two things the proofs need from outside the program: the *)
(* recursion of Dealt has a solution, and remainders tell nearby numbers   *)
(* apart.  Then MainInvariant is proved part by part, action by action,    *)
(* and what follows from it: no memcpy meets an insertion, the counts are  *)
(* the insertions, the rings are channels.                                 *)
(***************************************************************************)
EXTENDS MultiCore, SequenceTheorems, WellFoundedInduction, TLAPS

\* A nonempty set of naturals has a least element.
LEMMA LeastNatural ==
  ASSUME NEW S \in SUBSET Nat, S # {}
  PROVE  \E m \in S : \A n \in S : m <= n
<1> DEFINE R == OpToRel(<, Nat)
<1>1. IsWellFoundedOn(R, Nat)
  BY NatLessThanWellFounded
<1>2. \A x, y \in Nat : x < y => <<x, y>> \in R
  BY DEF OpToRel
<1> HIDE DEF R
<1>3. PICK m \in S : \A n \in S : ~(<<n, m>> \in R)
  BY <1>1, WFMin
<1>4. \A n \in S : ~(n < m)
  BY <1>2, <1>3
<1> QED
  BY <1>4

\* The recursion of Dealt has a solution: a first part of the trace for which
\* it has none would be one packet longer than one for which it has.
LEMMA DealtOneByOne ==
  /\ Dealt[0] = [t \in Threads |-> <<>>]
  /\ \A n \in 1 .. PacketCnt :
       Dealt[n] = [Dealt[n - 1] EXCEPT ![ThreadOf[n]] = Append(Dealt[n - 1][ThreadOf[n]], n)]
<1> DEFINE None == [t \in Threads |-> <<>>]
           Deal(x, n) == [x EXCEPT ![ThreadOf[n]] = Append(@, n)]
           F(g, n) == IF n = 0 THEN None ELSE Deal(g[n - 1], n)
           DealtTo(g, m) == g = [n \in 0 .. m |-> F(g, n)]
           Missing == {m \in Nat : ~ \E g : DealtTo(g, m)}
<1>5. (\E g : DealtTo(g, PacketCnt)) => DealtTo(Dealt, PacketCnt)
  BY DEF Dealt
<1>6. DealtTo(Dealt, PacketCnt) => 
  /\ Dealt[0] = [t \in Threads |-> <<>>]
  /\ \A n \in 1 .. PacketCnt :
       Dealt[n] = [Dealt[n - 1] EXCEPT ![ThreadOf[n]] = Append(Dealt[n - 1][ThreadOf[n]], n)]
  <2> SUFFICES ASSUME DealtTo(Dealt, PacketCnt) PROVE /\ Dealt[0] = None
        /\ \A n \in 1 .. PacketCnt : Dealt[n] = Deal(Dealt[n - 1], n)
    OBVIOUS
  <2> HIDE DEF None, Deal
  <2>1. \A n \in 0 .. PacketCnt : Dealt[n] = F(Dealt, n)
    OBVIOUS
  <2> HIDE DEF DealtTo
  <2> QED
  BY <2>1, MultiCoreAssumption
<1> HIDE DEF None, Deal
<1>1. \E g : DealtTo(g, 0)
  <2>0. \A n \in 0 .. 0 : n = 0
    OBVIOUS
  <2>1. DealtTo([n \in 0 .. 0 |-> None], 0)
    BY <2>0
  <2> QED
    BY <2>1
<1>2. ASSUME NEW m \in Nat, NEW g, DealtTo(g, m)
      PROVE  \E h : DealtTo(h, m + 1)
  <2> DEFINE h == [n \in 0 .. m + 1 |-> IF n <= m THEN g[n] ELSE F(g, n)]
  <2>0. \A n \in 0 .. m : g[n] = F(g, n)
     BY <1>2
  <2>1. \A n \in 0 .. m + 1 : h[n] = F(h, n)
    <3> SUFFICES ASSUME NEW n \in 0 .. m + 1 PROVE h[n] = F(h, n)
      OBVIOUS
    <3>1. h[n] = F(g, n)
      BY <2>0
    <3>2. n # 0 => h[n - 1] = g[n - 1]
      OBVIOUS
    <3> QED
      BY <3>1, <3>2
  <2>2. h = [n \in 0 .. m + 1 |-> h[n]]
    OBVIOUS
  <2> HIDE DEF h, F
  <2>3. [n \in 0 .. m + 1 |-> h[n]] = [n \in 0 .. m + 1 |-> F(h, n)]
    BY <2>1
  <2>4. DealtTo(h, m + 1)
    BY <2>2, <2>3
  <2> QED
    BY <2>4
<1>3. Missing = {}
  <2> HIDE DEF DealtTo
  <2> SUFFICES ASSUME Missing # {} PROVE FALSE
    OBVIOUS
  <2>1. PICK m \in Missing : \A k \in Missing : m <= k
    <3>1. Missing \in SUBSET Nat 
      OBVIOUS
    <3> HIDE DEF Missing
    <3> QED
    BY <3>1, LeastNatural
  <2>2. m # 0
    BY <1>1
  <2>3. m - 1 \in Nat /\ m - 1 \notin Missing
    BY <2>1, <2>2
  <2>4. PICK g : DealtTo(g, m - 1)
    BY <2>3
  <2>5. \E h : DealtTo(h, (m - 1) + 1)
    BY <1>2, <2>3, <2>4
  <2>6. (m - 1) + 1 = m
    BY <2>3
  <2> QED
    BY <2>1, <2>5, <2>6
<1>4. \E g : DealtTo(g, PacketCnt)
  BY <1>3, MultiCoreAssumption
<1> QED
  BY <1>4, <1>5, <1>6


\* Nearby numbers fall into different slots, and slots follow each other up to
\* the end of the ring.
LEMMA IndexType ==
  ASSUME NEW n \in Nat
  PROVE  Index(n) \in Nat /\ Index(n) < BUFFER_MAX_PACKET_NUM /\ Index(n) \in Slots
<1>1. BUFFER_MAX_PACKET_NUM \in Nat \ {0}
  BY MultiCoreAssumption
<1> QED
  BY <1>1 DEF Index, Slots

LEMMA IndexApart ==
  ASSUME NEW m \in Nat, NEW n \in Nat, m < n, n < m + BUFFER_MAX_PACKET_NUM
  PROVE  Index(m) # Index(n)
<1> DEFINE B == BUFFER_MAX_PACKET_NUM
<1>1. B \in Nat \ {0}
  BY MultiCoreAssumption
<1> HIDE DEF B
<1>2. \A k \in Nat : k \div B \in Int /\ k % B \in Int /\ k = B * (k \div B) + (k % B)
  BY <1>1
<1> DEFINE p == m \div B  q == n \div B
<1>3. p \in Int /\ q \in Int /\ m = B * p + (m % B) /\ n = B * q + (n % B)
  BY <1>2
<1> HIDE DEF p, q
<1>4. SUFFICES ASSUME m % B = n % B PROVE FALSE
  BY DEF Index, B
<1>5. n - m = B * (q - p)
  BY <1>1, <1>2, <1>3, <1>4
<1>6. 0 < B * (q - p) /\ B * (q - p) < B
  BY <1>1, <1>5 DEF B
<1>7. q - p <= 0 => B * (q - p) <= 0
  BY <1>1, <1>3
<1>8. q - p >= 1 => B * (q - p) >= B
  BY <1>1, <1>3
<1> QED
  BY <1>1, <1>3, <1>6, <1>7, <1>8

LEMMA IndexAlong ==
  ASSUME NEW n \in Nat, NEW i \in Nat, i < BUFFER_MAX_PACKET_NUM
  PROVE  Index(n + i) = IF Index(n) + i < BUFFER_MAX_PACKET_NUM
                          THEN Index(n) + i ELSE Index(n) + i - BUFFER_MAX_PACKET_NUM
<1> DEFINE B == BUFFER_MAX_PACKET_NUM
<1>1. B \in Nat \ {0}
  BY MultiCoreAssumption
<1> HIDE DEF B
<1>2. \A k \in Nat : k \div B \in Int /\ k % B \in Nat /\ k % B < B /\ k = B * (k \div B) + (k % B)
  BY <1>1
<1> DEFINE p == n \div B  q == (n + i) \div B  r == n % B  s == (n + i) % B
<1>3. p \in Int /\ q \in Int /\ r \in Nat /\ s \in Nat /\ r < B /\ s < B /\ n = B * p + r /\ n + i = B * q + s
  BY <1>2
<1> HIDE DEF p, q, r, s
<1>4. r + i - s = B * (q - p)
  BY <1>1, <1>3
<1>5. 0 - B < r + i - s /\ r + i - s < B + B
  BY <1>1, <1>3 DEF B
<1>6. q - p <= -1 => B * (q - p) <= 0 - B
  BY <1>1, <1>3
<1>7. q - p >= 2 => B * (q - p) >= B + B
  BY <1>1, <1>3
<1>8. q - p = 0 \/ q - p = 1
  BY <1>1, <1>3, <1>4, <1>5, <1>6, <1>7
<1>9. r + i - s = 0 \/ r + i - s = B
  BY <1>1, <1>3, <1>4, <1>8
<1> QED
  BY <1>1, <1>3, <1>9 DEF Index, B, r, s

-----------------------------------------------------------------------------
\* What is dealt is taken from the trace, at most once per packet.
LEMMA DealtType ==
  ASSUME NEW n \in 0 .. PacketCnt
  PROVE  /\ Dealt[n] \in [Threads -> Seq(1 .. PacketCnt)]
         /\ \A t \in Threads : Len(Dealt[n][t]) \in Nat /\ Len(Dealt[n][t]) <= n
<1> DEFINE Good(m) == /\ Dealt[m] \in [Threads -> Seq(1 .. PacketCnt)]
                      /\ \A t \in Threads : Len(Dealt[m][t]) <= m
           Bad == {m \in 0 .. PacketCnt : ~ Good(m)}
<1>1. Good(0)
  BY DealtOneByOne
<1>2. ASSUME NEW m \in 1 .. PacketCnt, Good(m - 1) PROVE Good(m)
  <2> DEFINE u == ThreadOf[m]
  <2>1. u \in Threads /\ m \in Nat
    BY MultiCoreAssumption
  <2>2. Dealt[m] = [Dealt[m - 1] EXCEPT ![u] = Append(Dealt[m - 1][u], m)]
    BY DealtOneByOne
  <2>3. /\ Append(Dealt[m - 1][u], m) \in Seq(1 .. PacketCnt)
        /\ Len(Append(Dealt[m - 1][u], m)) = Len(Dealt[m - 1][u]) + 1
    BY <1>2, <2>1, AppendProperties
  <2>4. Dealt[m] \in [Threads -> Seq(1 .. PacketCnt)]
    BY <1>2, <2>2, <2>3
  <2>5. \A t \in Threads : Dealt[m][t] = IF t = u THEN Append(Dealt[m - 1][u], m) ELSE Dealt[m - 1][t]
    BY <1>2, <2>2
  <2>6. \A t \in Threads : Len(Dealt[m - 1][t]) \in Nat /\ Len(Dealt[m - 1][t]) <= m - 1
    BY <1>2
  <2>7. ASSUME NEW t \in Threads PROVE Len(Dealt[m][t]) <= m
    <3>1. CASE t = u
      <4>1. Len(Dealt[m][t]) = Len(Dealt[m - 1][t]) + 1
        BY <2>3, <2>5, <3>1
      <4> QED
        BY <2>1, <2>6, <4>1
    <3>2. CASE t # u
      <4>1. Len(Dealt[m][t]) = Len(Dealt[m - 1][t])
        BY <2>5, <3>2
      <4> QED
        BY <2>1, <2>6, <4>1
    <3> QED
      BY <3>1, <3>2
  <2> QED
    BY <2>4, <2>7
<1>3. Bad = {}
  <2> SUFFICES ASSUME Bad # {} PROVE FALSE
    OBVIOUS
  <2> HIDE DEF Good
  <2>1. PICK m \in Bad : \A k \in Bad : m <= k
    <3>1. Bad \in SUBSET Nat
      BY MultiCoreAssumption
    <3> HIDE DEF Bad
    <3> QED
      BY <3>1, LeastNatural
  <2>2. m \in 0 .. PacketCnt /\ ~ Good(m) /\ PacketCnt \in Nat
    BY MultiCoreAssumption
  <2>3. m \in 1 .. PacketCnt
    BY <1>1, <2>2
  <2>4. Good(m - 1)
    <3>1. m - 1 \in 0 .. PacketCnt /\ m - 1 \notin Bad
      BY <2>1, <2>2, <2>3
    <3> QED
      BY <3>1
  <2> QED
    BY <1>2, <2>2, <2>3, <2>4
<1> QED
  BY <1>3
-----------------------------------------------------------------------------
\* The inductive invariant: MainInvariant without the part that follows.
IInv == TypeOK /\ Collecting /\ Counting /\ Carrying

\* What the steps use of the types.
Typed ==
  /\ BUFFER_MAX_PACKET_NUM \in Nat /\ MAIN_THREAD_BUFFER_SIZE \in Nat /\ PacketCnt \in Nat
  /\ 1 < MAIN_THREAD_BUFFER_SIZE /\ MAIN_THREAD_BUFFER_SIZE <= BUFFER_MAX_PACKET_NUM
  /\ next \in Nat /\ 1 <= next /\ next <= PacketCnt + 1 /\ cycle \in Nat
  /\ \A t \in Threads :
       /\ cur_packet_num_push[t] \in Nat /\ cur_packet_num_pull[t] \in Nat
       /\ val_push[t] \in Nat /\ val_pull[t] \in Nat /\ insertion_cnt[t] \in Nat
       /\ Len(main_buffer[t]) \in Nat /\ Len(inserted[t]) \in Nat

LEMMA InvariantTyped == IInv => Typed
<1> SUFFICES ASSUME IInv PROVE Typed
  OBVIOUS
<1>1. TypeOK
  BY DEF IInv
<1>2. \A t \in Threads : Len(main_buffer[t]) \in Nat /\ Len(inserted[t]) \in Nat
  BY <1>1 DEF TypeOK
<1> QED
  BY <1>1, <1>2, MultiCoreAssumption DEF TypeOK, Typed

\* The packets dealt to a thread so far, and that push does not run ahead.
LEMMA DealtSoFar ==
  ASSUME IInv, NEW t \in Threads
  PROVE  /\ Dealt[next - 1][t] \in Seq(1 .. PacketCnt)
         /\ Len(Dealt[next - 1][t]) = cur_packet_num_push[t] + Len(main_buffer[t])
         /\ Len(Dealt[next - 1][t]) \in Nat
         /\ cur_packet_num_push[t] + Len(main_buffer[t]) <= PacketCnt
         /\ \A i \in 1 .. cur_packet_num_push[t] : Dealt[next - 1][t][i] \in 1 .. PacketCnt
<1> USE DEF Typed
<1>0. Typed
  BY InvariantTyped
<1>1. next - 1 \in 0 .. PacketCnt
  BY <1>0
<1>2. /\ Dealt[next - 1][t] \in Seq(1 .. PacketCnt)
      /\ Len(Dealt[next - 1][t]) \in Nat
      /\ Len(Dealt[next - 1][t]) <= next - 1
  BY <1>1, DealtType
<1>3. Len(Dealt[next - 1][t]) = cur_packet_num_push[t] + Len(main_buffer[t])
  BY DEF IInv, Carrying
<1>4. \A i \in 1 .. Len(Dealt[next - 1][t]) : Dealt[next - 1][t][i] \in 1 .. PacketCnt
  BY <1>2, ElementOfSeq
<1>5. cur_packet_num_push[t] <= Len(Dealt[next - 1][t])
  BY <1>0, <1>3
<1>6. cur_packet_num_push[t] + Len(main_buffer[t]) <= PacketCnt
  BY <1>0, <1>2, <1>3
<1> HIDE DEF Typed
<1> QED
  BY <1>0, <1>2, <1>3, <1>4, <1>5, <1>6 DEF Typed

\* While main is busy with a thread, this thread's buffer is the full one.
LEMMA FullIsFull ==
  ASSUME IInv, mainpc \in {"space", "copy", "wrap", "push"}
  PROVE  Full \in Threads /\ Len(main_buffer[Full]) = MAIN_THREAD_BUFFER_SIZE
  BY DEF IInv, Collecting

\* The packet a thread inserts next is the next that was dealt to it.
LEMMA InsertsNext ==
  ASSUME IInv, NEW t \in Threads, InsertOne(t)
  PROVE  /\ packet_buffer[t][Index(val_pull[t])] = Dealt[next - 1][t][val_pull[t] + 1]
         /\ packet_buffer[t][Index(val_pull[t])] \in 1 .. PacketCnt
         /\ val_pull[t] < val_push[t] /\ val_pull[t] < cur_packet_num_push[t]
<1> USE DEF Typed
<1>0. Typed
  BY InvariantTyped
<1>1. pc[t] = "insert" /\ val_push[t] # val_pull[t]
  BY DEF InsertOne, Goto
<1>2. val_pull[t] <= val_push[t] /\ val_push[t] <= cur_packet_num_push[t]
  BY <1>1 DEF IInv, Counting
<1>3. val_pull[t] < val_push[t] /\ val_pull[t] < cur_packet_num_push[t]
  BY <1>0, <1>1, <1>2
<1>4. val_pull[t] \in val_pull[t] .. cur_packet_num_push[t] - 1
  BY <1>0, <1>3
<1>5. packet_buffer[t][Index(val_pull[t])] = Dealt[next - 1][t][val_pull[t] + 1]
  BY <1>4 DEF IInv, Carrying
<1>6. val_pull[t] + 1 \in 1 .. cur_packet_num_push[t]
  BY <1>0, <1>3
<1> QED
  BY <1>3, <1>5, <1>6, DealtSoFar
-----------------------------------------------------------------------------
\* Wraps tells whether the packets reach beyond the end of the ring.
LEMMA WrapsAtEnd ==
  ASSUME IInv, NEW t \in Threads
  PROVE  Wraps(t) <=> Index(cur_packet_num_push[t]) + (MAIN_THREAD_BUFFER_SIZE - 1)
                        >= BUFFER_MAX_PACKET_NUM
<1> USE DEF Typed
<1>0. Typed
  BY InvariantTyped
<1> DEFINE p == cur_packet_num_push[t]  m == MAIN_THREAD_BUFFER_SIZE - 1
<1>1. p \in Nat /\ m \in Nat /\ 0 < m /\ m < BUFFER_MAX_PACKET_NUM
  BY <1>0
<1>2. Index(p) \in Nat /\ Index(p) < BUFFER_MAX_PACKET_NUM
  BY <1>1, IndexType
<1>3. Index(p + m) = IF Index(p) + m < BUFFER_MAX_PACKET_NUM
                       THEN Index(p) + m ELSE Index(p) + m - BUFFER_MAX_PACKET_NUM
  BY <1>1, IndexAlong
<1>4. p + MAIN_THREAD_BUFFER_SIZE - 1 = p + m
  BY <1>0
<1>5. Wraps(t) <=> ~ (Index(p + m) > Index(p))
  BY <1>4 DEF Wraps
<1> QED
  BY <1>0, <1>1, <1>2, <1>3, <1>5

\* A memcpy stores packets.
LEMMA CopiedType ==
  ASSUME TypeOK, NEW t \in Threads, NEW from \in Nat, NEW first \in Nat \ {0},
         NEW n \in Int, first + n - 1 <= Len(main_buffer[t])
  PROVE  Copied(t, from, first, n) \in [Threads -> [Slots -> 0 .. PacketCnt]]
<1>1. main_buffer[t] \in Seq(1 .. PacketCnt) /\ Len(main_buffer[t]) \in Nat
  BY DEF TypeOK
<1>2. ASSUME NEW s \in Slots, s \in from .. from + n - 1
      PROVE  main_buffer[t][first + s - from] \in 0 .. PacketCnt
  <2>1. first + s - from \in 1 .. Len(main_buffer[t])
    <3>1. s \in Int /\ from <= s /\ s <= from + n - 1
      BY <1>2 DEF Slots
    <3> HIDE DEF Slots
    <3> DEFINE L == Len(main_buffer[t])
    <3>2. L \in Nat /\ first + n - 1 <= L
      BY <1>1
    <3> HIDE DEF L
    <3>3. first + s - from \in 1 .. L
      BY <3>1, <3>2
    <3> QED
      BY <3>3 DEF L
  <2>2. main_buffer[t][first + s - from] \in 1 .. PacketCnt
    BY <1>1, <2>1, ElementOfSeq
  <2> QED
    BY <2>2
<1>3. \A s \in Slots : packet_buffer[t][s] \in 0 .. PacketCnt
  BY DEF TypeOK
<1>4. [s \in Slots |-> IF s \in from .. from + n - 1
                         THEN main_buffer[t][first + s - from] ELSE packet_buffer[t][s]]
        \in [Slots -> 0 .. PacketCnt]
  BY <1>2, <1>3
<1> QED
  BY <1>4 DEF Copied, TypeOK

LEMMA StepType ==
  ASSUME IInv, [Next]_vars
  PROVE  TypeOK'
<1> USE DEF Typed
<1>0. Typed
  BY InvariantTyped
<1>1. TypeOK
  BY DEF IInv
<1>2. ASSUME AllReady \/ NotReady \/ HasSpace \/ Join PROVE TypeOK'
  BY <1>1, <1>2 DEF AllReady, NotReady, HasSpace, Join, TypeOK, shared, threadVars
<1>3. ASSUME Dispatch PROVE TypeOK'
  <2> DEFINE t == ThreadOf[next]
  <2>1. next \in 1 .. PacketCnt /\ next' = next + 1
    BY <1>0, <1>3 DEF Dispatch
  <2>2. t \in Threads
    BY <2>1, MultiCoreAssumption
  <2>3. Append(main_buffer[t], next) \in Seq(1 .. PacketCnt)
    BY <1>1, <2>1, <2>2, AppendProperties DEF TypeOK
  <2>4. main_buffer' \in [Threads -> Seq(1 .. PacketCnt)]
    BY <1>1, <1>3, <2>3 DEF Dispatch, TypeOK
  <2>5. next' \in 1 .. PacketCnt + 1
    BY <1>0, <2>1
  <2>6. mainpc' \in {"space", "dispatch"} /\ UNCHANGED <<shared, cycle, threadVars>>
    BY <1>3 DEF Dispatch
  <2> QED
    BY <1>1, <2>4, <2>5, <2>6 DEF TypeOK, shared, threadVars
<1>4. ASSUME CopyStraight \/ CopyLatter \/ CopyFormer PROVE TypeOK'
  <2> DEFINE t == Full
  <2>1. t \in Threads /\ Len(main_buffer[t]) = MAIN_THREAD_BUFFER_SIZE
    BY <1>4, FullIsFull DEF CopyStraight, CopyLatter, CopyFormer
  <2>2. /\ Index(cur_packet_num_push[t]) \in Nat
        /\ Index(cur_packet_num_push[t]) < BUFFER_MAX_PACKET_NUM
    BY <1>0, <2>1, IndexType
  <2>3. LatterLen(t) \in Nat \ {0}
    BY <1>0, <2>2 DEF LatterLen
  <2> HIDE DEF t
  <2>4. CASE CopyStraight
    <3>1. packet_buffer' = Copied(t, Index(cur_packet_num_push[t]), 1, MAIN_THREAD_BUFFER_SIZE)
      BY <2>4 DEF CopyStraight, t
    <3>2. packet_buffer' \in [Threads -> [Slots -> 0 .. PacketCnt]]
      BY <1>0, <1>1, <2>1, <2>2, <3>1, CopiedType
    <3> QED
      BY <1>1, <2>4, <3>2 DEF CopyStraight, TypeOK, threadVars
  <2>5. CASE CopyLatter
    <3>1. LatterLen(t) <= MAIN_THREAD_BUFFER_SIZE
      <4>1. Wraps(t)
        BY <2>5 DEF CopyLatter, t
      <4>2. Index(cur_packet_num_push[t]) + (MAIN_THREAD_BUFFER_SIZE - 1) >= BUFFER_MAX_PACKET_NUM
        BY <2>1, <4>1, WrapsAtEnd
      <4> QED
        BY <1>0, <2>2, <4>2 DEF LatterLen
    <3>2. packet_buffer' = Copied(t, Index(cur_packet_num_push[t]), 1, LatterLen(t))
      BY <2>5 DEF CopyLatter, t
    <3>3. 1 + LatterLen(t) - 1 <= Len(main_buffer[t])
      BY <1>0, <2>1, <2>3, <3>1
    <3>4. packet_buffer' \in [Threads -> [Slots -> 0 .. PacketCnt]]
      BY <1>0, <1>1, <2>1, <2>2, <2>3, <3>2, <3>3, CopiedType
    <3> QED
      BY <1>1, <2>5, <3>4 DEF CopyLatter, TypeOK, threadVars
  <2>6. CASE CopyFormer
    <3>1. packet_buffer' = Copied(t, 0, 1 + LatterLen(t), MAIN_THREAD_BUFFER_SIZE - LatterLen(t))
      BY <2>6 DEF CopyFormer, t
    <3>2. /\ (1 + LatterLen(t)) + (MAIN_THREAD_BUFFER_SIZE - LatterLen(t)) - 1 <= Len(main_buffer[t])
          /\ 1 + LatterLen(t) \in Nat \ {0} /\ MAIN_THREAD_BUFFER_SIZE - LatterLen(t) \in Int
      BY <1>0, <2>1, <2>3
    <3>3. packet_buffer' \in [Threads -> [Slots -> 0 .. PacketCnt]]
      BY <1>0, <1>1, <2>1, <3>1, <3>2, CopiedType
    <3> QED
      BY <1>1, <2>6, <3>3 DEF CopyFormer, TypeOK, threadVars
  <2> QED
    BY <1>4, <2>4, <2>5, <2>6
<1>5. ASSUME Push PROVE TypeOK'
  <2> DEFINE t == Full
  <2>1. t \in Threads /\ Len(main_buffer[t]) = MAIN_THREAD_BUFFER_SIZE
    BY <1>5, FullIsFull DEF Push
  <2>2. cur_packet_num_push[t] + MAIN_THREAD_BUFFER_SIZE \in 0 .. PacketCnt
    BY <1>0, <2>1, DealtSoFar
  <2>3. cur_packet_num_push' \in [Threads -> 0 .. PacketCnt]
    BY <1>1, <1>5, <2>2 DEF Push, TypeOK
  <2>4. main_buffer' \in [Threads -> Seq(1 .. PacketCnt)]
    <3>1. <<>> \in Seq(1 .. PacketCnt)
      OBVIOUS
    <3>2. main_buffer' = [main_buffer EXCEPT ![t] = <<>>]
      BY <1>5 DEF Push
    <3> QED
      BY <1>1, <3>1, <3>2 DEF TypeOK
  <2> QED
    BY <1>1, <1>5, <2>3, <2>4 DEF Push, TypeOK, threadVars
<1>6. ASSUME NEW t \in Threads, Finish(t) PROVE TypeOK'
  BY <1>1, <1>6 DEF Finish, TypeOK, mainVars, threadVars
<1>7. ASSUME NextCycle PROVE TypeOK'
  <2>1. <<>> \in Seq(1 .. PacketCnt) /\ cycle + 1 \in 1 .. TestCycles
    BY <1>1, <1>7, MultiCoreAssumption DEF NextCycle, TypeOK
  <2> QED
    BY <1>0, <1>7, <2>1 DEF NextCycle, Fresh, TypeOK
<1>8. ASSUME NEW t \in Threads, Ready(t) \/ LoadPull(t) \/ CheckFinish(t) PROVE TypeOK'
  BY <1>1, <1>8 DEF Ready, LoadPull, CheckFinish, Goto, TypeOK, shared, mainVars
<1>9. ASSUME NEW t \in Threads, LoadPush(t) PROVE TypeOK'
  BY <1>1, <1>9 DEF LoadPush, Goto, TypeOK, shared, mainVars
<1>10. ASSUME NEW t \in Threads, InsertOne(t) PROVE TypeOK'
  <2>1. /\ packet_buffer[t][Index(val_pull[t])] \in 1 .. PacketCnt
        /\ val_pull[t] < val_push[t]
    BY <1>10, InsertsNext
  <2>2. val_pull[t] + 1 \in 0 .. PacketCnt
    BY <1>0, <1>1, <2>1 DEF TypeOK
  <2>3. Append(inserted[t], packet_buffer[t][Index(val_pull[t])]) \in Seq(1 .. PacketCnt)
    BY <1>1, <2>1, AppendProperties DEF TypeOK
  <2>4. inserted' \in [Threads -> Seq(1 .. PacketCnt)] /\ val_pull' \in [Threads -> 0 .. PacketCnt]
    BY <1>1, <1>10, <2>2, <2>3 DEF InsertOne, TypeOK
  <2> QED
    BY <1>1, <1>10, <2>4 DEF InsertOne, Goto, TypeOK, shared, mainVars
<1>11. ASSUME NEW t \in Threads, Pull(t) PROVE TypeOK'
  <2>1. insertion_cnt[t] = cur_packet_num_pull[t]
    BY DEF IInv, Counting
  <2>2. insertion_cnt[t] + val_push[t] - cur_packet_num_pull[t] = val_push[t]
    BY <1>0, <2>1
  <2>3. insertion_cnt' \in [Threads -> 0 .. PacketCnt] /\ cur_packet_num_pull' \in [Threads -> 0 .. PacketCnt]
    BY <1>1, <1>11, <2>2 DEF Pull, TypeOK
  <2> QED
    BY <1>1, <1>11, <2>3 DEF Pull, Goto, TypeOK, mainVars
<1>12. ASSUME UNCHANGED vars PROVE TypeOK'
  BY <1>1, <1>12 DEF vars, TypeOK, shared, mainVars, threadVars
<1> QED
  BY <1>2, <1>3, <1>4, <1>5, <1>6, <1>7, <1>8, <1>9, <1>10, <1>11, <1>12 DEF Next, Main, Child
-----------------------------------------------------------------------------
\* Only the packet main has taken last can make a buffer full.
LEMMA StepCollecting ==
  ASSUME IInv, [Next]_vars
  PROVE  Collecting'
<1> USE DEF Typed
<1>0. Typed
  BY InvariantTyped
<1> DEFINE M == MAIN_THREAD_BUFFER_SIZE
           Busy == mainpc \in {"space", "copy", "wrap", "push"}
<1>1. /\ Busy => Full \in Threads
      /\ \A t \in Threads : Len(main_buffer[t]) <= M
      /\ \A t \in Threads : Len(main_buffer[t]) = M <=> Busy /\ t = Full
  BY DEF IInv, Collecting
<1>2. ASSUME UNCHANGED main_buffer, Busy' = Busy PROVE Collecting'
  <2>1. Full' = Full
    BY <1>2 DEF Full
  <2>2. (mainpc' \in {"space", "copy", "wrap", "push"}) = (mainpc \in {"space", "copy", "wrap", "push"})
    BY <1>2
  <2> QED
    BY <1>1, <1>2, <2>1, <2>2 DEF Collecting
<1>3. ASSUME Dispatch PROVE Collecting'
  <2> DEFINE u == ThreadOf[next]
             l(t) == Len(main_buffer[t])
  <2>1. u \in Threads /\ ~ Busy
    <3>1. next \in 1 .. PacketCnt
      BY <1>0, <1>3 DEF Dispatch
    <3> QED
      BY <1>3, <3>1, MultiCoreAssumption DEF Dispatch
  <2>2. main_buffer' = [main_buffer EXCEPT ![u] = Append(main_buffer[u], next)]
    BY <1>3 DEF Dispatch
  <2>3. Len(Append(main_buffer[u], next)) = l(u) + 1
    <3>1. main_buffer[u] \in Seq(1 .. PacketCnt) /\ next \in 1 .. PacketCnt
      BY <1>0, <1>3, <2>1 DEF IInv, TypeOK, Dispatch
    <3> QED
      BY <3>1, AppendProperties
  <2>4. \A t \in Threads : Len(main_buffer'[t]) = IF t = u THEN l(u) + 1 ELSE l(t)
    BY <2>2, <2>3 DEF IInv, TypeOK
  <2>5. \A t \in Threads : l(t) \in Nat /\ l(t) <= M /\ l(t) # M
    BY <1>0, <1>1, <2>1
  <2>6. mainpc' = IF Len(main_buffer'[u]) = M THEN "space" ELSE "dispatch"
    BY <1>3 DEF Dispatch
  <2> HIDE DEF u, l
  <2>7. /\ \A t \in Threads : Len(main_buffer'[t]) <= M
        /\ \A t \in Threads : Len(main_buffer'[t]) = M => t = u /\ mainpc' = "space"
        /\ Len(main_buffer'[u]) = M <=> mainpc' = "space"
        /\ mainpc' \in {"space", "dispatch"}
    BY <1>0, <2>1, <2>4, <2>5, <2>6
  <2>8. mainpc' = "space" => Full' = u
    BY <2>1, <2>7 DEF Full
  <2> QED
    BY <2>1, <2>7, <2>8 DEF Collecting
<1>4. ASSUME Push PROVE Collecting'
  <2>1. mainpc' = "dispatch" /\ main_buffer' = [main_buffer EXCEPT ![Full] = <<>>] /\ Busy
    BY <1>4 DEF Push
  <2>2. \A t \in Threads : Len(main_buffer'[t]) = IF t = Full THEN 0 ELSE Len(main_buffer[t])
    BY <1>1, <2>1 DEF IInv, TypeOK
  <2>3. \A t \in Threads : Len(main_buffer'[t]) <= M /\ Len(main_buffer'[t]) # M
    BY <1>0, <1>1, <2>2
  <2> QED
    BY <2>1, <2>3 DEF Collecting
<1>5. ASSUME NextCycle PROVE Collecting'
  <2>1. mainpc' = "wait" /\ \A t \in Threads : Len(main_buffer'[t]) = 0
    BY <1>5 DEF NextCycle, Fresh
  <2> QED
    BY <1>0, <2>1 DEF Collecting
<1>6. ASSUME AllReady \/ NotReady \/ HasSpace \/ CopyStraight \/ CopyLatter \/ CopyFormer \/ Join
      PROVE  Collecting'
  <2>1. UNCHANGED main_buffer /\ Busy' = Busy
    BY <1>6 DEF AllReady, NotReady, HasSpace, CopyStraight, CopyLatter, CopyFormer, Join
  <2> QED
    BY <1>2, <2>1
<1>7. ASSUME UNCHANGED mainVars PROVE Collecting'
  BY <1>2, <1>7 DEF mainVars
<1> QED
  BY <1>3, <1>4, <1>5, <1>6, <1>7
  DEF Next, Main, Child, Finish, Ready, LoadPull, LoadPush, InsertOne, Pull, CheckFinish, vars
-----------------------------------------------------------------------------
\* main copies only what fits, and a thread only moves its own counters, to
\* where main's have been.
LEMMA StepCounting ==
  ASSUME IInv, [Next]_vars
  PROVE  Counting'
<1> USE DEF Typed
<1>0. Typed
  BY InvariantTyped
<1> DEFINE B == BUFFER_MAX_PACKET_NUM
           M == MAIN_THREAD_BUFFER_SIZE
           Order(u) ==
             /\ cur_packet_num_pull[u] <= val_pull[u] /\ val_pull[u] <= cur_packet_num_push[u]
             /\ IF pc[u] = "insert"
                  THEN val_pull[u] <= val_push[u] /\ val_push[u] <= cur_packet_num_push[u]
                  ELSE val_pull[u] = cur_packet_num_pull[u]
           Room(u) ==
             /\ cur_packet_num_push[u] <= cur_packet_num_pull[u] + B
             /\ mainpc \in {"copy", "wrap", "push"} /\ u = Full =>
                  cur_packet_num_push[u] + M <= cur_packet_num_pull[u] + B
           Count(u) ==
             /\ insertion_cnt[u] = cur_packet_num_pull[u]
             /\ Len(inserted[u]) = val_pull[u]
<1>1. \A u \in Threads : Order(u) /\ Room(u) /\ Count(u)
  BY DEF IInv, Counting
<1>2. TypeOK
  BY DEF IInv
<1>3. SUFFICES \A u \in Threads : Order(u)' /\ Room(u)' /\ Count(u)'
  BY DEF Counting
<1>4. ASSUME mainpc' \in {"copy", "wrap", "push"} => mainpc \in {"copy", "wrap", "push"} /\ Full' = Full,
             UNCHANGED <<cur_packet_num_push, cur_packet_num_pull, val_pull, val_push, pc,
                         insertion_cnt, inserted>>
      PROVE  \A u \in Threads : Order(u)' /\ Room(u)' /\ Count(u)'
  BY <1>1, <1>4
<1>5. ASSUME AllReady \/ NotReady \/ Dispatch \/ CopyStraight \/ CopyLatter \/ CopyFormer \/ Join
      PROVE  \A u \in Threads : Order(u)' /\ Room(u)' /\ Count(u)'
  <2>1. mainpc' \in {"copy", "wrap", "push"} => mainpc \in {"copy", "wrap", "push"} /\ Full' = Full
    BY <1>5 DEF AllReady, NotReady, Dispatch, CopyStraight, CopyLatter, CopyFormer, Join, Full
  <2>2. UNCHANGED <<cur_packet_num_push, cur_packet_num_pull, val_pull, val_push, pc,
                    insertion_cnt, inserted>>
    BY <1>5 DEF AllReady, NotReady, Dispatch, CopyStraight, CopyLatter, CopyFormer, Join, shared, threadVars
  <2> QED
    BY <1>4, <2>1, <2>2
<1>6. ASSUME HasSpace PROVE \A u \in Threads : Order(u)' /\ Room(u)' /\ Count(u)'
  <2>1. /\ UNCHANGED <<cur_packet_num_push, cur_packet_num_pull, val_pull, val_push, pc,
                       insertion_cnt, inserted>>
        /\ Full' = Full /\ mainpc = "space"
        /\ cur_packet_num_push[Full] - cur_packet_num_pull[Full] + M <= B
    BY <1>6 DEF HasSpace, Full, shared, threadVars
  <2>2. Full \in Threads
    BY <2>1, FullIsFull
  <2>3. cur_packet_num_push[Full] + M <= cur_packet_num_pull[Full] + B
    BY <1>0, <2>1, <2>2
  <2> QED
    BY <1>1, <2>1, <2>3
<1>7. ASSUME Push PROVE \A u \in Threads : Order(u)' /\ Room(u)' /\ Count(u)'
  <2>1. /\ UNCHANGED <<cur_packet_num_pull, val_pull, val_push, pc, insertion_cnt, inserted>>
        /\ mainpc = "push" /\ mainpc' = "dispatch"
        /\ cur_packet_num_push' = [cur_packet_num_push EXCEPT ![Full] = @ + M]
    BY <1>7 DEF Push, threadVars
  <2>2. \A u \in Threads : cur_packet_num_push'[u] = IF u = Full THEN cur_packet_num_push[u] + M
                                                                 ELSE cur_packet_num_push[u]
    BY <1>2, <2>1 DEF TypeOK
  <2>3. \A u \in Threads : Order(u)'
    BY <1>0, <1>1, <2>1, <2>2
  <2>4. \A u \in Threads : Room(u)'
    BY <1>0, <1>1, <2>1, <2>2
  <2>5. \A u \in Threads : Count(u)'
    BY <1>1, <2>1
  <2> QED
    BY <2>3, <2>4, <2>5
<1>8. ASSUME NextCycle PROVE \A u \in Threads : Order(u)' /\ Room(u)' /\ Count(u)'
  <2>1. /\ mainpc' = "wait"
        /\ \A u \in Threads :
             /\ cur_packet_num_pull'[u] = 0 /\ cur_packet_num_push'[u] = 0
             /\ val_pull'[u] = 0 /\ pc'[u] = "start"
             /\ insertion_cnt'[u] = 0 /\ Len(inserted'[u]) = 0
    BY <1>8 DEF NextCycle, Fresh
  <2> QED
    BY <1>0, <2>1
<1>9. ASSUME NEW t \in Threads, Child(t)
      PROVE  \A u \in Threads : Order(u)' /\ Room(u)' /\ Count(u)'
  <2>1. /\ UNCHANGED <<cur_packet_num_push, mainpc>> /\ Full' = Full
        /\ \A u \in Threads \ {t} :
             /\ cur_packet_num_pull'[u] = cur_packet_num_pull[u] /\ val_pull'[u] = val_pull[u]
             /\ val_push'[u] = val_push[u] /\ pc'[u] = pc[u]
             /\ insertion_cnt'[u] = insertion_cnt[u] /\ inserted'[u] = inserted[u]
    BY <1>2, <1>9 DEF Child, Ready, LoadPull, LoadPush, InsertOne, Pull, CheckFinish, Goto, Full,
                      TypeOK, shared, mainVars
  <2>2. \A u \in Threads \ {t} : Order(u)' /\ Room(u)' /\ Count(u)'
    BY <1>1, <2>1
  <2>3. ASSUME cur_packet_num_pull[t] <= cur_packet_num_pull'[t], cur_packet_num_pull'[t] \in Nat
        PROVE  Room(t)'
    BY <1>0, <1>1, <2>1, <2>3
  <2>4. CASE Ready(t) \/ CheckFinish(t)
    <3>1. /\ UNCHANGED <<cur_packet_num_pull, val_pull, val_push, insertion_cnt, inserted>>
          /\ pc[t] # "insert" /\ pc'[t] # "insert"
      BY <1>2, <2>4 DEF Ready, CheckFinish, Goto, TypeOK, shared
    <3> QED
      BY <1>0, <1>1, <2>1, <2>2, <2>3, <3>1
  <2>5. CASE LoadPull(t)
    <3>1. /\ UNCHANGED <<cur_packet_num_pull, val_push, insertion_cnt, inserted>>
          /\ pc[t] # "insert" /\ pc'[t] # "insert"
          /\ val_pull'[t] = cur_packet_num_pull[t]
      BY <1>2, <2>5 DEF LoadPull, Goto, TypeOK, shared
    <3> QED
      BY <1>0, <1>1, <2>1, <2>2, <2>3, <3>1
  <2>6. CASE LoadPush(t)
    <3>1. /\ UNCHANGED <<cur_packet_num_pull, val_pull, insertion_cnt, inserted>>
          /\ pc[t] # "insert"
          /\ val_push'[t] = cur_packet_num_push[t]
      BY <1>2, <2>6 DEF LoadPush, Goto, TypeOK, shared
    <3> QED
      BY <1>0, <1>1, <2>1, <2>2, <2>3, <3>1
  <2>7. CASE InsertOne(t)
    <3>1. /\ UNCHANGED <<cur_packet_num_pull, val_push, insertion_cnt>>
          /\ pc[t] = "insert" /\ pc'[t] = "insert"
          /\ val_pull'[t] = val_pull[t] + 1
          /\ inserted'[t] = Append(inserted[t], packet_buffer[t][Index(val_pull[t])])
      BY <1>2, <2>7 DEF InsertOne, Goto, TypeOK, shared
    <3>2. Len(inserted'[t]) = Len(inserted[t]) + 1
      BY <1>2, <2>7, <3>1, InsertsNext, AppendProperties DEF TypeOK
    <3>3. val_pull[t] < val_push[t] /\ val_pull[t] < cur_packet_num_push[t]
      BY <2>7, InsertsNext
    <3>4. Count(t)'
      BY <1>0, <1>1, <3>1, <3>2
    <3>5. Order(t)' /\ Room(t)'
      <4>1. Order(t)
        BY <1>1
      <4>2. UNCHANGED cur_packet_num_pull /\ pc'[t] = "insert" /\ pc[t] = "insert"
            /\ val_pull'[t] = val_pull[t] + 1 /\ UNCHANGED val_push
        BY <3>1
      <4>3. Order(t)'
        BY <1>0, <2>1, <3>3, <4>1, <4>2
      <4> QED
        BY <1>0, <2>3, <4>2, <4>3
    <3> QED
      BY <2>2, <3>4, <3>5
  <2>8. CASE Pull(t)
    <3>1. /\ UNCHANGED <<val_pull, val_push, inserted>>
          /\ pc[t] = "insert" /\ pc'[t] = "pull"
          /\ cur_packet_num_pull'[t] = val_pull[t]
          /\ insertion_cnt'[t] = insertion_cnt[t] + val_push[t] - cur_packet_num_pull[t]
          /\ val_push[t] = val_pull[t]
      BY <1>2, <2>8 DEF Pull, Goto, TypeOK
    <3>2. insertion_cnt'[t] = val_pull[t]
      BY <1>0, <1>1, <3>1
    <3> QED
      BY <1>0, <1>1, <2>1, <2>2, <2>3, <3>1, <3>2
  <2> QED
    BY <1>9, <2>4, <2>5, <2>6, <2>7, <2>8 DEF Child
<1>10. ASSUME UNCHANGED vars \/ \E t \in Threads : Finish(t)
       PROVE  \A u \in Threads : Order(u)' /\ Room(u)' /\ Count(u)'
  <2>1. UNCHANGED <<mainpc, main_buffer, cur_packet_num_push, cur_packet_num_pull, val_pull, val_push,
                    pc, insertion_cnt, inserted>>
    BY <1>10 DEF vars, Finish, shared, mainVars, threadVars
  <2>2. Full' = Full
    BY <2>1 DEF Full
  <2> QED
    BY <1>4, <2>1, <2>2
<1> QED
  BY <1>5, <1>6, <1>7, <1>8, <1>9, <1>10 DEF Next, Main
-----------------------------------------------------------------------------
\* A memcpy of n packets from position lo on writes the slots they belong to,
\* and no other slot of the last turn before the end of main's packets.
LEMMA CopyPart ==
  ASSUME IInv, NEW t \in Threads, NEW lo \in Nat, NEW n \in Nat,
         lo + n <= MAIN_THREAD_BUFFER_SIZE,
         Index(cur_packet_num_push[t] + lo) + n <= BUFFER_MAX_PACKET_NUM,
         packet_buffer' = Copied(t, Index(cur_packet_num_push[t] + lo), 1 + lo, n)
  PROVE  /\ \A i \in lo .. lo + n - 1 :
              packet_buffer'[t][Index(cur_packet_num_push[t] + i)] = main_buffer[t][i + 1]
         /\ \A k \in Nat :
              /\ k < cur_packet_num_push[t] + MAIN_THREAD_BUFFER_SIZE
              /\ cur_packet_num_push[t] + MAIN_THREAD_BUFFER_SIZE <= k + BUFFER_MAX_PACKET_NUM
              /\ k < cur_packet_num_push[t] + lo \/ cur_packet_num_push[t] + lo + n <= k
              => packet_buffer'[t][Index(k)] = packet_buffer[t][Index(k)]
         /\ \A u \in Threads \ {t} : packet_buffer'[u] = packet_buffer[u]
<1> USE DEF Typed
<1>0. Typed
  BY InvariantTyped
<1> DEFINE p == cur_packet_num_push[t]
           from == Index(p + lo)
           B == BUFFER_MAX_PACKET_NUM
           M == MAIN_THREAD_BUFFER_SIZE
<1>1. /\ p \in Nat /\ B \in Nat /\ M \in Nat /\ M <= B
      /\ from \in Nat /\ from < B
  BY <1>0, IndexType
<1>2. packet_buffer \in [Threads -> [Slots -> 0 .. PacketCnt]]
  BY DEF IInv, TypeOK
<1>3. /\ \A s \in Slots : packet_buffer'[t][s] = IF s \in from .. from + n - 1
                                                   THEN main_buffer[t][1 + lo + s - from]
                                                   ELSE packet_buffer[t][s]
      /\ \A u \in Threads \ {t} : packet_buffer'[u] = packet_buffer[u]
  BY <1>2 DEF Copied
<1>4. \A j \in 0 .. n - 1 : Index(p + lo + j) = from + j
  <2> TAKE j \in 0 .. n - 1
  <2>1. j \in Nat /\ j < B /\ from + j < B /\ p + lo \in Nat
    BY <1>1
  <2> QED
    BY <2>1, IndexAlong
<1>5. from + n <= B /\ lo + n <= M
  OBVIOUS
<1> HIDE DEF from, B, M, p
<1>6. ASSUME NEW i \in lo .. lo + n - 1
      PROVE  packet_buffer'[t][Index(p + i)] = main_buffer[t][i + 1]
  <2> DEFINE j == i - lo
  <2>1. j \in 0 .. n - 1 /\ p + lo + j = p + i
    BY <1>1, <1>6
  <2>2. Index(p + i) = from + j
    BY <1>4, <2>1
  <2>3. from + j \in Slots /\ from + j \in from .. from + n - 1
    BY <1>1, <1>5, <2>1 DEF Slots, B
  <2>4. 1 + lo + (from + j) - from = i + 1
    BY <1>1, <2>1
  <2> QED
    BY <1>3, <2>2, <2>3, <2>4
<1>7. ASSUME NEW k \in Nat, k < p + M, p + M <= k + B, k < p + lo \/ p + lo + n <= k
      PROVE  packet_buffer'[t][Index(k)] = packet_buffer[t][Index(k)]
  <2>1. Index(k) \notin from .. from + n - 1
    <3> SUFFICES ASSUME Index(k) \in from .. from + n - 1 PROVE FALSE
      OBVIOUS
    <3> DEFINE j == Index(k) - from
    <3>1. j \in 0 .. n - 1 /\ from + j = Index(k)
      BY <1>1, IndexType
    <3> HIDE DEF j
    <3>2. Index(p + lo + j) = Index(k)
      BY <1>4, <3>1
    <3>3. p + lo + j \in Nat /\ p + lo + j # k /\ p + lo + j < k + B /\ k < p + lo + j + B
      BY <1>1, <1>5, <1>7, <3>1
    <3>4. p + lo + j < k \/ k < p + lo + j
      BY <3>3
    <3> QED
      BY <3>2, <3>3, <3>4, IndexApart DEF B
  <2> QED
    BY <1>3, <2>1, IndexType
<1> QED
  BY <1>3, <1>6, <1>7 DEF p, B, M

\* Taking a packet from the trace adds it to what was dealt to its thread.
LEMMA DealtNext ==
  ASSUME IInv, Dispatch, NEW u \in Threads
  PROVE  LET d == Dealt[next - 1][u]  e == Dealt[next' - 1][u]
         IN  IF u = ThreadOf[next]
               THEN /\ Len(e) = Len(d) + 1 /\ e[Len(d) + 1] = next
                    /\ \A i \in 1 .. Len(d) : e[i] = d[i]
               ELSE e = d
<1> USE DEF Typed
<1>0. Typed
  BY InvariantTyped
<1> DEFINE d == Dealt[next - 1][u]  e == Dealt[next' - 1][u]
<1>1. next \in 1 .. PacketCnt /\ next' - 1 = next /\ next - 1 \in 0 .. PacketCnt
  BY <1>0 DEF Dispatch
<1>2. Dealt[next - 1] \in [Threads -> Seq(1 .. PacketCnt)]
  BY <1>1, DealtType
<1>3. Dealt[next] = [Dealt[next - 1] EXCEPT ![ThreadOf[next]]
                       = Append(Dealt[next - 1][ThreadOf[next]], next)]
  BY <1>1, DealtOneByOne
<1>4. e = IF u = ThreadOf[next] THEN Append(d, next) ELSE d
  BY <1>1, <1>2, <1>3
<1>5. d \in Seq(1 .. PacketCnt)
  BY <1>2
<1>6. /\ Len(Append(d, next)) = Len(d) + 1 /\ Append(d, next)[Len(d) + 1] = next
      /\ \A i \in 1 .. Len(d) : Append(d, next)[i] = d[i]
  BY <1>1, <1>5, AppendProperties
<1> HIDE DEF d, e
<1>7. IF u = ThreadOf[next]
        THEN /\ Len(e) = Len(d) + 1 /\ e[Len(d) + 1] = next
             /\ \A i \in 1 .. Len(d) : e[i] = d[i]
        ELSE e = d
  BY <1>4, <1>6
<1> QED
  BY <1>7 DEF d, e

\* Every packet moves on from buffer to buffer in its turn.
LEMMA StepCarrying ==
  ASSUME IInv, [Next]_vars
  PROVE  Carrying'
<1> USE DEF Typed
<1>0. Typed
  BY InvariantTyped
<1> DEFINE B == BUFFER_MAX_PACKET_NUM
           M == MAIN_THREAD_BUFFER_SIZE
           dealt(u) == Dealt[next - 1][u]
           push(u) == cur_packet_num_push[u]
           Sum(u) == Len(dealt(u)) = push(u) + Len(main_buffer[u])
           Kept(u) == \A i \in 1 .. Len(main_buffer[u]) : main_buffer[u][i] = dealt(u)[push(u) + i]
           InBuffer(u) == \A n \in val_pull[u] .. push(u) - 1 : packet_buffer[u][Index(n)] = dealt(u)[n + 1]
           InSketch(u) == \A i \in 1 .. val_pull[u] : inserted[u][i] = dealt(u)[i]
           Copies(u, n) == \A i \in 0 .. n - 1 : packet_buffer[u][Index(push(u) + i)] = main_buffer[u][i + 1]
           Copying(u) ==
             /\ mainpc = "push" /\ u = Full => Copies(u, M)
             /\ mainpc = "wrap" /\ u = Full => Wraps(u) /\ Copies(u, LatterLen(u))
<1>1. \A u \in Threads : Sum(u) /\ Kept(u) /\ InBuffer(u) /\ InSketch(u) /\ Copying(u)
  BY DEF IInv, Carrying
<1>2. TypeOK
  BY DEF IInv
<1>3. SUFFICES \A u \in Threads : Sum(u)' /\ Kept(u)' /\ InBuffer(u)' /\ InSketch(u)' /\ Copying(u)'
  BY DEF Carrying
\* Steps that move no packet
<1>4. ASSUME UNCHANGED <<packet_buffer, cur_packet_num_push, main_buffer, next, inserted>>,
             \A u \in Threads : val_pull'[u] = val_pull[u],
             mainpc' \in {"wrap", "push"} => mainpc' = mainpc
      PROVE  \A u \in Threads : Sum(u)' /\ Kept(u)' /\ InBuffer(u)' /\ InSketch(u)' /\ Copying(u)'
  <2>1. Full' = Full
    BY <1>4 DEF Full
  <2>2. \A u \in Threads : Wraps(u)' = Wraps(u) /\ LatterLen(u)' = LatterLen(u)
    BY <1>4 DEF Wraps, LatterLen
  <2>3. \A u \in Threads : Copying(u)'
    BY <1>1, <1>4, <2>1, <2>2
  <2>4. \A u \in Threads : Sum(u)' /\ Kept(u)' /\ InBuffer(u)' /\ InSketch(u)'
    BY <1>1, <1>4
  <2> QED
    BY <2>3, <2>4
<1>5. ASSUME AllReady \/ NotReady \/ HasSpace \/ Join \/ (\E t \in Threads : Finish(t)) \/ UNCHANGED vars
      PROVE  \A u \in Threads : Sum(u)' /\ Kept(u)' /\ InBuffer(u)' /\ InSketch(u)' /\ Copying(u)'
  <2>1. /\ UNCHANGED <<packet_buffer, cur_packet_num_push, main_buffer, next, inserted, val_pull>>
        /\ mainpc' \in {"wrap", "push"} => mainpc' = mainpc
    BY <1>5 DEF AllReady, NotReady, HasSpace, Join, Finish, vars, shared, mainVars, threadVars
  <2> QED
    BY <1>4, <2>1
<1>6. ASSUME NEW t \in Threads, Ready(t) \/ LoadPull(t) \/ LoadPush(t) \/ Pull(t) \/ CheckFinish(t)
      PROVE  \A u \in Threads : Sum(u)' /\ Kept(u)' /\ InBuffer(u)' /\ InSketch(u)' /\ Copying(u)'
  <2>1. UNCHANGED <<packet_buffer, cur_packet_num_push, main_buffer, next, inserted, mainpc>>
    BY <1>6 DEF Ready, LoadPull, LoadPush, Pull, CheckFinish, shared, mainVars
  <2>2. \A u \in Threads : val_pull'[u] = val_pull[u]
    <3>1. CASE LoadPull(t)
      <4>1. val_pull[t] = cur_packet_num_pull[t]
        BY <3>1 DEF LoadPull, Goto, IInv, Counting
      <4> QED
        BY <1>2, <3>1, <4>1 DEF LoadPull, TypeOK
    <3> QED
      BY <1>6, <3>1 DEF Ready, LoadPush, Pull, CheckFinish
  <2> QED
    BY <1>4, <2>1, <2>2
\* From the trace to main's buffer
<1>7. ASSUME Dispatch
      PROVE  \A u \in Threads : Sum(u)' /\ Kept(u)' /\ InBuffer(u)' /\ InSketch(u)' /\ Copying(u)'
  <2> TAKE u \in Threads
  <2> DEFINE d == dealt(u)  e == dealt(u)'  l == Len(main_buffer[u])
  <2>1. /\ UNCHANGED <<packet_buffer, cur_packet_num_push, val_pull, inserted>>
        /\ mainpc' \in {"space", "dispatch"} /\ next <= PacketCnt
        /\ main_buffer' = [main_buffer EXCEPT ![ThreadOf[next]] = Append(@, next)]
    BY <1>7 DEF Dispatch, shared, threadVars
  <2>2. Copying(u)'
    BY <2>1
  <2>3. CASE u # ThreadOf[next]
    <3>1. e = d
      BY <1>7, <2>3, DealtNext
    <3>2. main_buffer'[u] = main_buffer[u]
      BY <1>2, <2>1, <2>3 DEF TypeOK
    <3>3. Sum(u) /\ Kept(u) /\ InBuffer(u) /\ InSketch(u)
      BY <1>1
    <3> HIDE DEF d, e, dealt
    <3>4. dealt(u)' = dealt(u)
      BY <3>1 DEF d, e
    <3>5. Sum(u)' /\ Kept(u)'
      BY <2>1, <3>2, <3>3, <3>4
    <3>6. InBuffer(u)' /\ InSketch(u)'
      BY <2>1, <3>3, <3>4
    <3> QED
      BY <2>2, <3>5, <3>6
  <2>4. CASE u = ThreadOf[next]
    <3>1. Len(e) = Len(d) + 1 /\ e[Len(d) + 1] = next /\ \A i \in 1 .. Len(d) : e[i] = d[i]
      BY <1>7, <2>4, DealtNext
    <3>2. main_buffer'[u] = Append(main_buffer[u], next) /\ main_buffer[u] \in Seq(1 .. PacketCnt)
      BY <1>2, <2>1, <2>4 DEF TypeOK
    <3>3. next \in 1 .. PacketCnt
      BY <1>0, <2>1
    <3>4. /\ Len(main_buffer'[u]) = l + 1 /\ main_buffer'[u][l + 1] = next
          /\ \A i \in 1 .. l : main_buffer'[u][i] = main_buffer[u][i]
      BY <3>2, <3>3, AppendProperties
    <3>5. Len(d) = push(u) + l /\ push(u) \in Nat /\ l \in Nat /\ val_pull[u] \in Nat
      BY <1>0, <1>1
    <3>6. \A i \in 1 .. l : main_buffer[u][i] = d[push(u) + i]
      BY <1>1
    <3>7. InBuffer(u) /\ InSketch(u)
      BY <1>1
    <3>8. push(u)' = push(u) /\ val_pull' = val_pull /\ inserted' = inserted /\ packet_buffer' = packet_buffer
      BY <2>1
    <3>9. val_pull[u] <= push(u)
      BY DEF IInv, Counting
    <3> DEFINE p == push(u)
    <3> HIDE DEF d, e, l
    <3>10. Len(main_buffer'[u]) = l + 1 /\ Len(e) = p + (l + 1)
      BY <3>1, <3>4, <3>5
    <3>11. Sum(u)'
      BY <3>8, <3>10 DEF e
    <3>12. ASSUME NEW i \in 1 .. l + 1 PROVE main_buffer'[u][i] = e[p + i]
      <4>1. CASE i = l + 1
        <5>1. p + i = Len(d) + 1
          BY <3>5, <4>1
        <5> QED
          BY <3>1, <3>4, <4>1, <5>1
      <4>2. CASE i # l + 1
        <5>1. i \in 1 .. l /\ p + i \in 1 .. Len(d)
          BY <3>5, <4>2
        <5> QED
          BY <3>1, <3>4, <3>6, <5>1
      <4> QED
        BY <4>1, <4>2
    <3>13. Kept(u)'
      BY <3>8, <3>10, <3>12 DEF e
    <3>14. InBuffer(u)'
      <4>1. \A n \in val_pull[u] .. p - 1 : n + 1 \in 1 .. Len(d)
        BY <3>5
      <4>2. \A n \in val_pull[u] .. p - 1 : packet_buffer[u][Index(n)] = d[n + 1]
        BY <3>7 DEF d
      <4>3. \A n \in val_pull[u] .. p - 1 : packet_buffer[u][Index(n)] = e[n + 1]
        BY <3>1, <4>1, <4>2
      <4> QED
        BY <3>8, <4>3 DEF e
    <3>15. InSketch(u)'
      <4>1. \A i \in 1 .. val_pull[u] : i \in 1 .. Len(d)
        BY <3>5, <3>9
      <4>2. \A i \in 1 .. val_pull[u] : inserted[u][i] = d[i]
        BY <3>7 DEF d
      <4>3. \A i \in 1 .. val_pull[u] : inserted[u][i] = e[i]
        BY <3>1, <4>1, <4>2
      <4> QED
        BY <3>8, <4>3 DEF e
    <3> QED
      BY <2>2, <3>11, <3>13, <3>14, <3>15
  <2> QED
    BY <2>3, <2>4
\* From main's buffer to the ring
<1>8. ASSUME NEW t \in Threads, t = Full, mainpc \in {"copy", "wrap"},
             UNCHANGED <<cur_packet_num_push, main_buffer, next, inserted, val_pull>>,
             NEW lo \in Nat, NEW n \in Nat, lo + n <= M, Index(push(t) + lo) + n <= B,
             packet_buffer' = Copied(t, Index(push(t) + lo), 1 + lo, n),
             Copies(t, lo),
             mainpc' = IF lo + n = M THEN "push" ELSE "wrap",
             lo + n # M => Wraps(t) /\ lo + n = LatterLen(t)
      PROVE  \A u \in Threads : Sum(u)' /\ Kept(u)' /\ InBuffer(u)' /\ InSketch(u)' /\ Copying(u)'
  <2>1. /\ \A i \in lo .. lo + n - 1 : packet_buffer'[t][Index(push(t) + i)] = main_buffer[t][i + 1]
        /\ \A k \in Nat : /\ k < push(t) + M
                          /\ push(t) + M <= k + B
                          /\ k < push(t) + lo \/ push(t) + lo + n <= k
                          => packet_buffer'[t][Index(k)] = packet_buffer[t][Index(k)]
        /\ \A u \in Threads \ {t} : packet_buffer'[u] = packet_buffer[u]
    BY <1>8, CopyPart
  <2>2. push(t) + M <= cur_packet_num_pull[t] + B /\ cur_packet_num_pull[t] <= val_pull[t]
    BY <1>8 DEF IInv, Counting
  <2>3. /\ \A u \in Threads : push(u)' = push(u) /\ dealt(u)' = dealt(u)
        /\ val_pull' = val_pull /\ main_buffer' = main_buffer /\ inserted' = inserted
    BY <1>8
  <2>4. /\ push(t) \in Nat /\ val_pull[t] \in Nat /\ cur_packet_num_pull[t] \in Nat
        /\ B \in Nat /\ M \in Nat /\ M <= B
    BY <1>0
  <2>5. \A u \in Threads : Sum(u)' /\ Kept(u)' /\ InSketch(u)'
    BY <1>1, <2>3
  <2>6. \A u \in Threads : InBuffer(u)'
    <3> TAKE u \in Threads
    <3>1. CASE u = t
      <4> HIDE DEF dealt
      <4> SUFFICES ASSUME NEW k \in val_pull[t] .. push(t) - 1
                   PROVE  packet_buffer'[t][Index(k)] = dealt(t)[k + 1]
        BY <2>3, <3>1
      <4>1. k \in Nat /\ k < push(t) + M /\ push(t) + M <= k + B /\ k < push(t) + lo
        BY <2>2, <2>4
      <4>2. packet_buffer'[t][Index(k)] = packet_buffer[t][Index(k)]
        BY <2>1, <4>1
      <4> QED
        BY <1>1, <4>2
    <3>2. CASE u # t
      BY <1>1, <2>1, <2>3, <3>2
    <3> QED
      BY <3>1, <3>2
  <2>7. \A i \in 0 .. lo + n - 1 : packet_buffer'[t][Index(push(t) + i)] = main_buffer[t][i + 1]
    <3> SUFFICES ASSUME NEW i \in 0 .. lo + n - 1, i < lo
                 PROVE  packet_buffer'[t][Index(push(t) + i)] = main_buffer[t][i + 1]
      BY <2>1
    <3>1. /\ push(t) + i \in Nat /\ push(t) + i < push(t) + M /\ push(t) + M <= (push(t) + i) + B
          /\ push(t) + i < push(t) + lo
      BY <1>8, <2>4
    <3>2. packet_buffer'[t][Index(push(t) + i)] = packet_buffer[t][Index(push(t) + i)]
      BY <2>1, <3>1
    <3>3. i \in 0 .. lo - 1
      OBVIOUS
    <3> QED
      BY <1>8, <3>2, <3>3
  <2>8. \A u \in Threads : Copying(u)'
    <3>1. Full' = Full /\ Wraps(t)' = Wraps(t) /\ LatterLen(t)' = LatterLen(t)
      BY <1>8 DEF Full, Wraps, LatterLen
    <3>2. mainpc' = "push" => lo + n = M
      BY <1>8
    <3>3. mainpc' = "wrap" => Wraps(t)' /\ lo + n = LatterLen(t)'
      BY <1>8, <3>1
    <3>4. \A i \in 0 .. lo + n - 1 : packet_buffer'[t][Index(push(t)' + i)] = main_buffer'[t][i + 1]
      BY <2>3, <2>7
    <3>5. Full' = t
      BY <1>8, <3>1
    <3>6. mainpc' = "push" => Copies(t, M)'
      BY <3>2, <3>4
    <3>7. mainpc' = "wrap" => Copies(t, LatterLen(t))'
      BY <3>3, <3>4
    <3> QED
      BY <3>3, <3>5, <3>6, <3>7
  <2> QED
    BY <2>5, <2>6, <2>8
<1>9. ASSUME CopyStraight \/ CopyLatter \/ CopyFormer
      PROVE  \A u \in Threads : Sum(u)' /\ Kept(u)' /\ InBuffer(u)' /\ InSketch(u)' /\ Copying(u)'
  <2> DEFINE t == Full  p == cur_packet_num_push[Full]  L == LatterLen(Full)
  <2>1. t \in Threads
    BY <1>9, FullIsFull DEF CopyStraight, CopyLatter, CopyFormer
  <2>2. /\ p \in Nat /\ Index(p) \in Nat /\ Index(p) < B /\ p + 0 = p
        /\ B \in Nat /\ M \in Nat /\ M <= B /\ 1 < M /\ L \in Nat /\ Index(p) + L = B /\ 0 < L
    <3>1. p \in Nat /\ B \in Nat /\ M \in Nat /\ M <= B /\ 1 < M
      BY <1>0, <2>1
    <3>2. Index(p) \in Nat /\ Index(p) < B
      BY <3>1, IndexType
    <3>3. L = B - Index(p)
      BY DEF LatterLen
    <3> HIDE DEF L, p, B, M
    <3> QED
      BY <3>1, <3>2, <3>3
  <2>3. UNCHANGED <<cur_packet_num_push, main_buffer, next, inserted, val_pull>>
    BY <1>9 DEF CopyStraight, CopyLatter, CopyFormer, threadVars
  <2>4. Copies(t, 0)
    OBVIOUS
  <2>5. CASE CopyStraight
    <3>1. ~ Wraps(t) /\ mainpc = "copy" /\ mainpc' = "push" /\ packet_buffer' = Copied(t, Index(p), 1, M)
      BY <2>5 DEF CopyStraight
    <3>2. Index(p) + M <= B
      BY <2>1, <2>2, <3>1, WrapsAtEnd
    <3>3. /\ 0 + M <= M /\ Index(p + 0) + M <= B /\ 0 + M = M /\ 0 \in Nat
          /\ packet_buffer' = Copied(t, Index(p + 0), 1 + 0, M)
      BY <2>2, <3>1, <3>2
    <3> HIDE DEF Copies
    <3> QED
      BY <1>8, <2>1, <2>2, <2>3, <2>4, <3>1, <3>3
  <2>6. CASE CopyLatter
    <3>1. Wraps(t) /\ mainpc = "copy" /\ mainpc' = "wrap" /\ packet_buffer' = Copied(t, Index(p), 1, L)
      BY <2>6 DEF CopyLatter
    <3>2. L <= M - 1
      BY <2>1, <2>2, <3>1, WrapsAtEnd
    <3>3. /\ 0 + L <= M /\ Index(p + 0) + L <= B /\ 0 + L # M /\ 0 + L = L /\ 0 \in Nat
          /\ packet_buffer' = Copied(t, Index(p + 0), 1 + 0, L)
      BY <2>2, <3>1, <3>2
    <3> HIDE DEF Copies
    <3> QED
      BY <1>8, <2>1, <2>2, <2>3, <2>4, <3>1, <3>3
  <2>7. CASE CopyFormer
    <3>1. mainpc = "wrap" /\ mainpc' = "push" /\ packet_buffer' = Copied(t, 0, 1 + L, M - L)
      BY <2>7 DEF CopyFormer
    <3>2. Wraps(t) /\ Copies(t, L)
      BY <1>1, <2>1, <3>1
    <3>3. L <= M - 1
      BY <2>1, <2>2, <3>2, WrapsAtEnd
    <3>4. Index(p + L) = 0
      BY <2>2, <3>3, IndexAlong
    <3>5. /\ M - L \in Nat /\ L + (M - L) <= M /\ L + (M - L) = M /\ 0 + (M - L) <= B
      BY <2>2, <3>3
    <3> HIDE DEF Copies
    <3> QED
      BY <1>8, <2>1, <2>2, <2>3, <3>1, <3>2, <3>4, <3>5
  <2> QED
    BY <1>9, <2>5, <2>6, <2>7
<1>10. ASSUME NEW t \in Threads, t = Full, Push
       PROVE  \A u \in Threads : Sum(u)' /\ Kept(u)' /\ InBuffer(u)' /\ InSketch(u)' /\ Copying(u)'
  <2>0. t = Full
    BY <1>10
  <2>1. Len(main_buffer[t]) = M
    BY <1>10, FullIsFull DEF Push
  <2>2. /\ UNCHANGED <<packet_buffer, next, val_pull, inserted>>
        /\ mainpc = "push" /\ mainpc' = "dispatch"
        /\ cur_packet_num_push' = [cur_packet_num_push EXCEPT ![t] = @ + M]
        /\ main_buffer' = [main_buffer EXCEPT ![t] = <<>>]
    BY <1>10 DEF Push, threadVars
  <2>3. /\ \A u \in Threads : push(u)' = IF u = t THEN push(t) + M ELSE push(u)
        /\ \A u \in Threads : main_buffer'[u] = IF u = t THEN <<>> ELSE main_buffer[u]
        /\ \A u \in Threads : dealt(u)' = dealt(u)
    BY <1>2, <2>1, <2>2 DEF TypeOK
  <2>4. \A u \in Threads : Copying(u)' /\ InSketch(u)'
    BY <1>1, <2>2, <2>3
  <2>5. \A u \in Threads \ {t} : Sum(u)' /\ Kept(u)' /\ InBuffer(u)'
    <3> HIDE DEF dealt
    <3> QED
      BY <1>1, <2>2, <2>3
  <2>6. Len(main_buffer'[t]) = 0 /\ push(t)' = push(t) + M
    <3>1. main_buffer'[t] = <<>>
      BY <2>3
    <3> QED
      BY <2>3, <3>1
  <2>7. push(t) \in Nat /\ M \in Nat /\ val_pull[t] \in Nat
    BY <1>0, <2>1
  <2>8. Sum(t)' /\ Kept(t)'
    <3> HIDE DEF dealt
    <3>1. Len(dealt(t)) = push(t) + M /\ dealt(t)' = dealt(t)
      BY <1>1, <2>1, <2>3
    <3>2. Sum(t)'
      BY <2>6, <2>7, <3>1
    <3>3. Kept(t)'
      BY <2>6
    <3> QED
      BY <3>2, <3>3
  <2>9. InBuffer(t)'
    <3> HIDE DEF dealt
    <3> SUFFICES ASSUME NEW k \in val_pull[t] .. push(t) + M - 1
                 PROVE  packet_buffer[t][Index(k)] = dealt(t)[k + 1]
      <4>1. dealt(t)' = dealt(t) /\ val_pull' = val_pull /\ packet_buffer' = packet_buffer
        BY <2>2, <2>3
      <4> QED
        BY <2>6, <2>7, <4>1
    <3>1. CASE k < push(t)
      <4>1. k \in val_pull[t] .. push(t) - 1
        BY <2>7, <3>1
      <4> QED
        BY <1>1, <2>1, <4>1
    <3>2. CASE k >= push(t)
      <4> DEFINE i == k - push(t)
      <4>1. i \in 0 .. M - 1 /\ i + 1 \in 1 .. M /\ push(t) + i = k /\ push(t) + (i + 1) = k + 1
        BY <2>7, <3>2
      <4> HIDE DEF i
      <4>2. packet_buffer[t][Index(push(t) + i)] = main_buffer[t][i + 1]
        BY <1>1, <2>0, <2>2, <4>1
      <4>3. main_buffer[t][i + 1] = dealt(t)[push(t) + (i + 1)]
        BY <1>1, <2>1, <4>1
      <4> QED
        BY <4>1, <4>2, <4>3
    <3> QED
      BY <2>7, <3>1, <3>2
  <2> QED
    BY <2>4, <2>5, <2>8, <2>9
<1>11. ASSUME NextCycle
       PROVE  \A u \in Threads : Sum(u)' /\ Kept(u)' /\ InBuffer(u)' /\ InSketch(u)' /\ Copying(u)'
  <2>1. /\ mainpc' = "wait" /\ next' = 1
        /\ \A u \in Threads : push(u)' = 0 /\ val_pull'[u] = 0 /\ main_buffer'[u] = <<>>
    BY <1>11 DEF NextCycle, Fresh
  <2>2. \A u \in Threads : dealt(u)' = <<>>
    BY <2>1, DealtOneByOne
  <2> HIDE DEF dealt
  <2>3. \A u \in Threads : Len(dealt(u)') = 0 /\ Len(main_buffer'[u]) = 0
    BY <2>1, <2>2
  <2>4. \A u \in Threads : Sum(u)'
    BY <2>1, <2>3
  <2>5. \A u \in Threads : Kept(u)' /\ InBuffer(u)' /\ InSketch(u)'
    BY <2>1, <2>3
  <2>6. \A u \in Threads : Copying(u)'
    BY <2>1
  <2> QED
    BY <2>4, <2>5, <2>6
\* From the ring to the sketch
<1>12. ASSUME NEW t \in Threads, InsertOne(t)
       PROVE  \A u \in Threads : Sum(u)' /\ Kept(u)' /\ InBuffer(u)' /\ InSketch(u)' /\ Copying(u)'
  <2> DEFINE x == packet_buffer[t][Index(val_pull[t])]
  <2>1. /\ UNCHANGED <<packet_buffer, cur_packet_num_push, main_buffer, mainpc, next>>
        /\ inserted' = [inserted EXCEPT ![t] = Append(@, x)]
        /\ val_pull' = [val_pull EXCEPT ![t] = @ + 1]
    BY <1>12 DEF InsertOne, shared, mainVars
  <2>2. /\ \A u \in Threads : val_pull'[u] = IF u = t THEN val_pull[t] + 1 ELSE val_pull[u]
        /\ \A u \in Threads : inserted'[u] = IF u = t THEN Append(inserted[t], x) ELSE inserted[u]
        /\ \A u \in Threads : dealt(u)' = dealt(u) /\ push(u)' = push(u)
    BY <1>2, <2>1 DEF TypeOK
  <2>3. \A u \in Threads : Copying(u)'
    <3>1. Full' = Full
      BY <2>1 DEF Full
    <3>2. \A u \in Threads : Wraps(u)' = Wraps(u) /\ LatterLen(u)' = LatterLen(u)
      BY <2>1 DEF Wraps, LatterLen
    <3> QED
      BY <1>1, <2>1, <3>1, <3>2
  <2> HIDE DEF dealt
  <2>4. \A u \in Threads : Sum(u)' /\ Kept(u)'
    BY <1>1, <2>1, <2>2
  <2>5. \A u \in Threads : InBuffer(u)'
    BY <1>0, <1>1, <2>1, <2>2
  <2>6. \A u \in Threads \ {t} : InSketch(u)'
    BY <1>1, <2>2
  <2>7. InSketch(t)'
    <3>1. x = dealt(t)[val_pull[t] + 1] /\ x \in 1 .. PacketCnt
      BY <1>12, InsertsNext DEF dealt
    <3>2. Len(inserted[t]) = val_pull[t] /\ inserted[t] \in Seq(1 .. PacketCnt)
      BY <1>2 DEF IInv, Counting, TypeOK
    <3>3. /\ Append(inserted[t], x)[val_pull[t] + 1] = x
          /\ \A i \in 1 .. val_pull[t] : Append(inserted[t], x)[i] = inserted[t][i]
      BY <3>1, <3>2, AppendProperties
    <3>4. \A i \in 1 .. val_pull[t] : inserted[t][i] = dealt(t)[i]
      BY <1>1
    <3>5. val_pull[t] \in Nat
      BY <1>0
    <3>6. \A i \in 1 .. val_pull[t] + 1 : i \in 1 .. val_pull[t] \/ i = val_pull[t] + 1
      BY <3>5
    <3> HIDE DEF x
    <3>7. \A i \in 1 .. val_pull[t] + 1 : Append(inserted[t], x)[i] = dealt(t)[i]
      BY <3>1, <3>3, <3>4, <3>6
    <3> QED
      BY <2>2, <3>7
  <2> QED
    BY <2>3, <2>4, <2>5, <2>6, <2>7
<1>13. ASSUME Push
       PROVE  \A u \in Threads : Sum(u)' /\ Kept(u)' /\ InBuffer(u)' /\ InSketch(u)' /\ Copying(u)'
  <2>1. \E t \in Threads : t = Full
    BY <1>13, FullIsFull DEF Push
  <2> QED
    BY <1>10, <1>13, <2>1
<1> QED
  BY <1>5, <1>6, <1>7, <1>9, <1>11, <1>12, <1>13 DEF Next, Main, Child
-----------------------------------------------------------------------------
LEMMA InitMain == Init => IInv
<1> SUFFICES ASSUME Init PROVE IInv
  OBVIOUS
<1>1. next - 1 = 0 /\ next = 1 /\ cycle = 1 /\ mainpc = "wait" /\ PacketCnt \in Nat /\ TestCycles \in Nat \ {0}
  BY MultiCoreAssumption DEF Init
<1>2. <<>> \in Seq(1 .. PacketCnt)
  OBVIOUS
<1>3. TypeOK
  BY <1>1, <1>2 DEF Init, Fresh, TypeOK
<1>4. \A t \in Threads :
        /\ cur_packet_num_push[t] = 0 /\ cur_packet_num_pull[t] = 0
        /\ val_pull[t] = 0 /\ insertion_cnt[t] = 0 /\ pc[t] = "start"
        /\ Len(main_buffer[t]) = 0 /\ Len(inserted[t]) = 0
  BY DEF Init, Fresh
<1>5. \A t \in Threads : Len(Dealt[next - 1][t]) = 0
  BY <1>1, DealtOneByOne
<1>6. Collecting
  BY <1>1, <1>4, MultiCoreAssumption DEF Collecting
<1>7. Counting
  BY <1>1, <1>4, MultiCoreAssumption DEF Counting
<1>8. Carrying
  BY <1>1, <1>4, <1>5 DEF Carrying
<1> QED
  BY <1>3, <1>6, <1>7, <1>8 DEF IInv

LEMMA MainHolds == Spec => []IInv
<1>1. IInv /\ [Next]_vars => IInv'
  BY StepType, StepCollecting, StepCounting, StepCarrying DEF IInv
<1> QED
  BY InitMain, <1>1, PTL DEF Spec

LEMMA WithinATurn ==
  ASSUME NEW n \in Nat, NEW i \in Nat, NEW push \in Nat, NEW pull \in Nat,
         NEW from \in Nat, NEW to \in Nat, NEW chunk \in Nat, NEW turn \in Nat,
         from <= n, n < to, i < chunk, pull <= from, to <= push, push + chunk <= pull + turn
  PROVE  push + i \in Nat /\ n < push + i /\ push + i < n + turn
  OBVIOUS

\* The packets the thread is inserting and those main is copying lie within
\* one turn of the ring.
LEMMA CopiesApart ==
  ASSUME IInv
  PROVE  NoSlotRace
<1> USE DEF Typed
<1>0. Typed
  BY InvariantTyped
<1> SUFFICES ASSUME mainpc \in {"copy", "wrap"}, pc[Full] = "insert",
                    NEW n \in val_pull[Full] .. val_push[Full] - 1,
                    NEW i \in 0 .. MAIN_THREAD_BUFFER_SIZE - 1
             PROVE  Index(n) # Index(cur_packet_num_push[Full] + i)
  BY DEF NoSlotRace, Target
<1>1. Full \in Threads
  BY FullIsFull
<1>2. /\ val_pull[Full] <= n /\ n < val_push[Full] /\ n \in Nat
      /\ i \in Nat /\ i < MAIN_THREAD_BUFFER_SIZE /\ cur_packet_num_push[Full] \in Nat
      /\ cur_packet_num_pull[Full] \in Nat /\ val_pull[Full] \in Nat /\ val_push[Full] \in Nat
  BY <1>0, <1>1
<1>3. /\ cur_packet_num_pull[Full] <= val_pull[Full] /\ val_push[Full] <= cur_packet_num_push[Full]
      /\ cur_packet_num_push[Full] + MAIN_THREAD_BUFFER_SIZE
           <= cur_packet_num_pull[Full] + BUFFER_MAX_PACKET_NUM
  BY <1>1 DEF IInv, Counting
<1> DEFINE m == cur_packet_num_push[Full] + i
<1>4. m \in Nat /\ n < m /\ m < n + BUFFER_MAX_PACKET_NUM
  <2>1. MAIN_THREAD_BUFFER_SIZE \in Nat /\ BUFFER_MAX_PACKET_NUM \in Nat
    BY MultiCoreAssumption
  <2> QED
    BY <1>2, <1>3, <2>1, WithinATurn
<1> HIDE DEF m
<1>5. Index(n) # Index(m)
  BY <1>2, <1>4, IndexApart
<1> QED
  BY <1>5 DEF m

(***************************************************************************)
(* In every reachable state of the program the counters keep their order,  *)
(* every packet is where they say it is, and what main copies never meets  *)
(* what a thread inserts: for any sizes, of which main's chunks need not   *)
(* divide the rings, and although no lock is taken.                        *)
(***************************************************************************)
THEOREM MainInvariantHolds == Spec => []MainInvariant
<1>1. IInv => MainInvariant
  BY CopiesApart DEF IInv, MainInvariant
<1> QED
  BY <1>1, MainHolds, PTL

(***************************************************************************)
(* The number a thread prints is the number of packets in its sketch.      *)
(***************************************************************************)
THEOREM CountsAreRight == Spec => []CountIsInsertions
<1>1. IInv => CountIsInsertions
  BY DEF IInv, Counting, CountIsInsertions
<1> QED
  BY <1>1, MainHolds, PTL
-----------------------------------------------------------------------------
\* A longer part of a sequence begins with every shorter one.
LEMMA PartPrefix ==
  ASSUME NEW S, NEW s \in Seq(S), NEW m \in Nat, NEW n \in Nat, m <= n, n <= Len(s)
  PROVE  /\ Len(SubSeq(s, 1, n)) = n
         /\ Rings!IsPrefix(SubSeq(s, 1, m), SubSeq(s, 1, n))
         /\ m < n => Rings!IsStrictPrefix(SubSeq(s, 1, m), SubSeq(s, 1, n))
<1> DEFINE a == SubSeq(s, 1, m)  b == SubSeq(s, 1, n)
<1>1. \A i \in 1 .. Len(s) : s[i] \in S
  BY ElementOfSeq
<1>2. Len(s) \in Nat
  OBVIOUS
<1>3. /\ a \in Seq(S) /\ Len(a) = m /\ \A i \in 1 .. m : a[i] = s[i]
      /\ b \in Seq(S) /\ Len(b) = n /\ \A i \in 1 .. n : b[i] = s[i]
  BY <1>1, <1>2, SubSeqProperties
<1> HIDE DEF a, b
<1>4. SubSeq(a, 1, m) = SubSeq(b, 1, m)
  BY <1>3
<1>5. Rings!IsPrefix(a, b)
  BY <1>3, <1>4 DEF Rings!IsPrefix
<1>6. m < n => a # b
  BY <1>3
<1> QED
  BY <1>3, <1>5, <1>6 DEF Rings!IsStrictPrefix, a, b

\* What a thread has inserted, and what it has been sent.
LEMMA InsertedPart ==
  ASSUME IInv, NEW t \in Threads
  PROVE  /\ inserted[t] = SubSeq(Dealt[next - 1][t], 1, val_pull[t])
         /\ val_pull[t] <= cur_packet_num_push[t]
         /\ cur_packet_num_push[t] <= Len(Dealt[next - 1][t])
         /\ cur_packet_num_push[t] <= val_pull[t] + BUFFER_MAX_PACKET_NUM
<1> USE DEF Typed
<1>0. Typed
  BY InvariantTyped
<1> DEFINE d == Dealt[next - 1][t]
<1>1. d \in Seq(1 .. PacketCnt) /\ Len(d) \in Nat
  BY DealtSoFar
<1>2. /\ val_pull[t] <= cur_packet_num_push[t] /\ cur_packet_num_pull[t] <= val_pull[t]
      /\ cur_packet_num_push[t] <= cur_packet_num_pull[t] + BUFFER_MAX_PACKET_NUM
  BY DEF IInv, Counting
<1>3. Len(d) = cur_packet_num_push[t] + Len(main_buffer[t])
  BY DealtSoFar
<1> HIDE DEF d
<1>4. cur_packet_num_push[t] <= Len(d)
  BY <1>0, <1>3
<1>5. val_pull[t] <= Len(d) /\ cur_packet_num_push[t] <= val_pull[t] + BUFFER_MAX_PACKET_NUM
  BY <1>0, <1>1, <1>2, <1>4
<1>6. inserted[t] \in Seq(1 .. PacketCnt) /\ Len(inserted[t]) = val_pull[t] /\ val_pull[t] \in Nat
  BY <1>0 DEF IInv, TypeOK, Counting
<1>7. \A i \in 1 .. val_pull[t] : inserted[t][i] = d[i]
  BY DEF IInv, Carrying, d
<1>8. \A i \in 1 .. Len(d) : d[i] \in 1 .. PacketCnt
  BY <1>1, ElementOfSeq
<1>9. /\ SubSeq(d, 1, val_pull[t]) \in Seq(1 .. PacketCnt)
      /\ Len(SubSeq(d, 1, val_pull[t])) = val_pull[t]
      /\ \A i \in 1 .. val_pull[t] : SubSeq(d, 1, val_pull[t])[i] = d[i]
  BY <1>1, <1>5, <1>6, <1>8, SubSeqProperties
<1>10. inserted[t] = SubSeq(d, 1, val_pull[t])
  BY <1>6, <1>7, <1>9, SeqEqual
<1> QED
  BY <1>2, <1>4, <1>5, <1>10 DEF d

(***************************************************************************)
(* The rings implement the bundle of channels: Push is a Send to the       *)
(* thread, InsertOne a Receive, NextCycle starts from empty channels, and  *)
(* every other step leaves the channels alone.                             *)
(***************************************************************************)
THEOREM RingsAreChannels == Spec => ImplementsChannels
<1> DEFINE sent == [t \in Threads |-> Pushed(t)]
<1>1. Init => Rings!Init
  <2> SUFFICES ASSUME Init PROVE Rings!Init
    OBVIOUS
  <2>1. next - 1 = 0 /\ \A t \in Threads : cur_packet_num_push[t] = 0
    BY DEF Init, Fresh
  <2>2. \A t \in Threads : Pushed(t) = <<>>
    BY <2>1, SubSeqEmpty DEF Pushed
  <2>3. sent = [t \in Threads |-> <<>>]
    BY <2>2
  <2>4. inserted = [t \in Threads |-> <<>>]
    BY DEF Init, Fresh
  <2> QED
    BY <2>3, <2>4 DEF Rings!Init
<1>2. ASSUME IInv, NextCycle PROVE Rings!Init'
  <2>1. next' - 1 = 0 /\ \A t \in Threads : cur_packet_num_push'[t] = 0
    BY <1>2 DEF NextCycle, Fresh
  <2>2. \A t \in Threads : Pushed(t)' = <<>>
    BY <2>1, SubSeqEmpty DEF Pushed
  <2>3. sent' = [t \in Threads |-> <<>>]
    BY <2>2
  <2>4. inserted' = [t \in Threads |-> <<>>]
    BY <1>2 DEF NextCycle, Fresh
  <2> QED
    BY <2>3, <2>4 DEF Rings!Init
<1>3. ASSUME IInv, NEW t \in Threads, t = Full, Push PROVE Rings!Send(t)
  <2> USE DEF Typed
  <2>0. Typed
    BY <1>3, InvariantTyped
  <2> DEFINE d == Dealt[next - 1][t]
             p == cur_packet_num_push[t]
             M == MAIN_THREAD_BUFFER_SIZE
  <2>1. /\ UNCHANGED <<next, inserted>> /\ mainpc = "push"
        /\ \A u \in Threads : cur_packet_num_push'[u] = IF u = t THEN p + M ELSE cur_packet_num_push[u]
    BY <1>3 DEF Push, threadVars, IInv, TypeOK
  <2>2. /\ d \in Seq(1 .. PacketCnt) /\ Len(d) \in Nat
        /\ Len(d) = p + Len(main_buffer[t]) /\ Len(main_buffer[t]) = M
    BY <1>3, <2>1, DealtSoFar, FullIsFull
  <2>3. /\ p + M <= cur_packet_num_pull[t] + BUFFER_MAX_PACKET_NUM
        /\ cur_packet_num_pull[t] <= val_pull[t] /\ Len(inserted[t]) = val_pull[t]
    BY <1>3, <2>1 DEF IInv, Counting
  <2>4. \A u \in Threads \ {t} : Pushed(u)' = Pushed(u)
    BY <2>1 DEF Pushed
  <2>5. Pushed(t) = SubSeq(d, 1, p) /\ Pushed(t)' = SubSeq(d, 1, p + M)
    BY <2>1 DEF Pushed
  <2>6. p \in Nat /\ p + M \in Nat /\ p < p + M /\ p <= p + M
    BY <2>0
  <2>7. p + M <= Len(d)
    BY <2>2, <2>6
  <2> HIDE DEF d, p, M
  <2>8. Rings!IsStrictPrefix(Pushed(t), Pushed(t)') /\ Len(Pushed(t)') = p + M
    BY <2>2, <2>5, <2>6, <2>7, PartPrefix
  <2>9. (p + M) - val_pull[t] <= BUFFER_MAX_PACKET_NUM
    BY <2>0, <2>3 DEF p, M
  <2>10. Rings!IsStrictPrefix(sent[t], sent'[t]) /\ sent[t] = Pushed(t) /\ sent'[t] = Pushed(t)'
    BY <2>8
  <2>11. Len(sent'[t]) - Len(inserted[t]) <= BUFFER_MAX_PACKET_NUM
    BY <2>3, <2>8, <2>9, <2>10
  <2>12. \A u \in Threads \ {t} : sent'[u] = sent[u]
    BY <2>4
  <2> QED
    BY <2>1, <2>10, <2>11, <2>12 DEF Rings!Send
<1>4. ASSUME IInv, NEW t \in Threads, InsertOne(t) PROVE Rings!Receive(t)
  <2> USE DEF Typed
  <2>0. Typed
    BY <1>4, InvariantTyped
  <2> DEFINE d == Dealt[next - 1][t]
             p == cur_packet_num_push[t]
             v == val_pull[t]
             x == packet_buffer[t][Index(v)]
  <2>1. /\ UNCHANGED <<next, cur_packet_num_push>>
        /\ inserted' = [inserted EXCEPT ![t] = Append(@, x)]
    BY <1>4 DEF InsertOne, shared, mainVars
  <2>2. /\ inserted'[t] = Append(inserted[t], x)
        /\ \A u \in Threads \ {t} : inserted'[u] = inserted[u]
    BY <1>4, <2>1 DEF IInv, TypeOK
  <2>3. d \in Seq(1 .. PacketCnt) /\ x = d[v + 1]
    BY <1>4, DealtSoFar, InsertsNext
  <2>4. inserted[t] = SubSeq(d, 1, v) /\ p <= Len(d) /\ Len(d) \in Nat
    BY <1>4, InsertedPart, DealtSoFar
  <2>5. v \in Nat /\ v + 1 \in Nat /\ p \in Nat /\ v + 1 <= p /\ v < v + 1 /\ v <= v + 1
    BY <1>4, <2>0, InsertsNext
  <2>6. Pushed(t) = SubSeq(d, 1, p) /\ \A u \in Threads : Pushed(u)' = Pushed(u)
    BY <2>1 DEF Pushed
  <2> HIDE DEF d, p, v, x
  <2>7. v + 1 <= Len(d)
    BY <2>4, <2>5
  <2>8. Append(SubSeq(d, 1, v), d[v + 1]) = SubSeq(d, 1, v + 1)
    BY <2>3, <2>4, <2>5, <2>7
  <2>9. inserted'[t] = SubSeq(d, 1, v + 1)
    BY <2>2, <2>3, <2>4, <2>8
  <2>10. Rings!IsStrictPrefix(inserted[t], inserted'[t]) /\ Rings!IsPrefix(inserted'[t], Pushed(t))
    BY <2>3, <2>4, <2>5, <2>6, <2>7, <2>9, PartPrefix
  <2>11. sent' = sent /\ sent[t] = Pushed(t)
    BY <2>6
  <2> QED
    BY <2>2, <2>10, <2>11 DEF Rings!Receive
<1>5. ASSUME IInv, Dispatch PROVE UNCHANGED <<sent, inserted>>
  <2> USE DEF Typed
  <2>0. Typed
    BY <1>5, InvariantTyped
  <2>1. UNCHANGED <<cur_packet_num_push, inserted>>
    BY <1>5 DEF Dispatch, shared, threadVars
  <2>2. ASSUME NEW t \in Threads PROVE Pushed(t)' = Pushed(t)
    <3> DEFINE d == Dealt[next - 1][t]  e == Dealt[next' - 1][t]  p == cur_packet_num_push[t]
    <3>1. /\ d \in Seq(1 .. PacketCnt) /\ Len(d) \in Nat /\ p <= Len(d) /\ p \in Nat
      BY <1>5, <2>0, InsertedPart, DealtSoFar
    <3>2. IF t = ThreadOf[next] THEN \A i \in 1 .. Len(d) : e[i] = d[i] ELSE e = d
      BY <1>5, DealtNext
    <3>3. Pushed(t) = SubSeq(d, 1, p) /\ Pushed(t)' = SubSeq(e, 1, p)
      BY <2>1 DEF Pushed
    <3> HIDE DEF d, e, p
    <3>4. \A i \in 1 .. p : e[i] = d[i] /\ d[i] \in 1 .. PacketCnt
      <4>1. \A i \in 1 .. Len(d) : d[i] \in 1 .. PacketCnt
        BY <3>1, ElementOfSeq
      <4>2. \A i \in 1 .. p : i \in 1 .. Len(d)
        BY <3>1
      <4>3. \A i \in 1 .. Len(d) : e[i] = d[i]
        BY <3>2
      <4> QED
        BY <4>1, <4>2, <4>3
    <3>5. SubSeq(e, 1, p) = SubSeq(d, 1, p)
      BY <3>1, <3>4
    <3> QED
      BY <3>3, <3>5
  <2> QED
    BY <2>1, <2>2
<1>6. IInv /\ [Next]_vars => IF cycle' = cycle THEN [Rings!Next]_<<sent, inserted>> ELSE Rings!Init'
  <2> SUFFICES ASSUME IInv, [Next]_vars
               PROVE  IF cycle' = cycle THEN [Rings!Next]_<<sent, inserted>> ELSE Rings!Init'
    OBVIOUS
  <2>1. CASE NextCycle
    <3>1. Rings!Init' /\ cycle' = cycle + 1 /\ cycle \in Nat
      BY <1>2, <2>1, InvariantTyped DEF NextCycle, Typed
    <3> QED
      BY <3>1
  <2>2. CASE Push
    <3>1. PICK t \in Threads : t = Full
      BY <2>2, FullIsFull DEF Push
    <3>2. Rings!Send(t) /\ cycle' = cycle
      BY <1>3, <2>2, <3>1 DEF Push
    <3> QED
      BY <3>2 DEF Rings!Next
  <2>3. CASE \E t \in Threads : InsertOne(t)
    <3>1. PICK t \in Threads : InsertOne(t)
      BY <2>3
    <3>2. Rings!Receive(t) /\ cycle' = cycle
      BY <1>4, <3>1 DEF InsertOne, mainVars
    <3> QED
      BY <3>2 DEF Rings!Next
  <2>4. CASE Dispatch
    <3>1. UNCHANGED <<sent, inserted>> /\ cycle' = cycle
      BY <1>5, <2>4 DEF Dispatch
    <3> QED
      BY <3>1
  <2>5. ASSUME UNCHANGED <<next, cur_packet_num_push, inserted, cycle>>
        PROVE  IF cycle' = cycle THEN [Rings!Next]_<<sent, inserted>> ELSE Rings!Init'
    <3>1. \A t \in Threads : Pushed(t)' = Pushed(t)
      BY <2>5 DEF Pushed
    <3>2. sent' = sent
      BY <3>1
    <3> QED
      BY <2>5, <3>2
  <2> QED
    BY <2>1, <2>2, <2>3, <2>4, <2>5
    DEF Next, Main, Child, AllReady, NotReady, HasSpace, CopyStraight, CopyLatter, CopyFormer,
        Finish, Join, Ready, LoadPull, LoadPush, Pull, CheckFinish, vars, shared, mainVars, threadVars
<1> QED
  BY <1>1, <1>6, MainHolds, PTL DEF Spec, ImplementsChannels
=============================================================================
