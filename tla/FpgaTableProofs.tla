-------------------------- MODULE FpgaTableProofs --------------------------
(***************************************************************************)
(* Proofs about one heavy table of the FPGA: no FIFO ever has to refuse a  *)
(* word (TableSound), a word whose read was made is judged by that read    *)
(* (JudgedByItsRead), and while the words follow each other closely and no *)
(* bucket comes again within four clocks table 0 accounts for every packet *)
(* (SmoothIsExact).  They hold for any stream of addresses, any depth of   *)
(* the FIFOs above four and whenever the next table stalls this one.       *)
(***************************************************************************)
EXTENDS FpgaTable, SumLemmas, SequenceTheorems

Addresses == Ips \cup {0}
One(b) == IF b THEN 1 ELSE 0

FpgaTypes ==
  /\ TypeOK
  /\ TableNo \in 0 .. 3
  /\ coming \in Seq(Addresses)
  /\ alf_seen \in BOOLEAN \X BOOLEAN
  /\ received \in [Addresses -> Nat] /\ sent \in [Addresses -> Nat]
  /\ {tag, core_tag, rd_tag} \subseteq Int
  /\ last_read \in [Buckets -> Int]

(***************************************************************************)
(* A FIFO calls itself almost full when it is half full.  What then is     *)
(* still on its way are the words that the sender decided about one and    *)
(* two edges ago, or those that the reader has taken and sent.             *)
(***************************************************************************)
Half == Depth \div 2

Room ==
  /\ Len(in_fifo) <= Half + 2
  /\ ~alf_seen[1] => Len(in_fifo) <= Half + 1
  /\ ~alf_seen[2] => Len(in_fifo) <= Half
  /\ Len(cmp_fifo) + One(out_wr) + One(rstate = "start_read_s") <= Half + 2

(***************************************************************************)
(* The read of a word moves through the RAM's registers clock by clock     *)
(* while the word waits for it.                                            *)
(***************************************************************************)
Awaits(w) ==
  w.fetched =>
    /\ w.time <= read_time - 2
    /\ read_time - w.time = 2 => core_tag = w.time
    /\ read_time - w.time = 3 => rd_tag = w.time

ReadsOnTheWay ==
  /\ out_wr => out.time = read_time - 1 /\ (out.fetched => rden /\ tag = out.time)
  /\ \A i \in DOMAIN cmp_fifo : Awaits(cmp_fifo[i])
  /\ Awaits(cmp_last)
  /\ cstate = "write_data_s0_r" => read_time - q_r.time <= 3 /\ Awaits(q_r)

(***************************************************************************)
(* In a smooth flow the read that a word waits for is the last one of its  *)
(* bucket, and brings what the bucket holds: nothing is written to it from *)
(* the read until the word is judged.                                      *)
(***************************************************************************)
Current(w) ==
  /\ w.time <= read_time - 2
  /\ read_time - w.time <= 3 => last_read[AddrOf[w.ip]] = w.time
  /\ read_time - w.time = 2 => ram_core = Now[AddrOf[w.ip]]
  /\ read_time - w.time = 3 => rdvalue = Now[AddrOf[w.ip]]

ReadsAreCurrent ==
  /\ in_rd <=> rstate = "start_read_s"
  /\ TableNo = 0 => (cmp_rd <=> cstate = "write_data_s0")
  /\ smooth /\ TableNo = 0 =>
       /\ out_wr => rden /\ rdaddr = AddrOf[out.ip] /\ last_read[rdaddr] = out.time
       /\ \A i \in DOMAIN cmp_fifo : Current(cmp_fifo[i])
       /\ cstate = "write_data_s0_r" => Current(q_r)
       /\ wren => last_read[wraddr] = read_time - 4

FpgaInvariant ==
  FpgaTypes /\ Room /\ ReadsOnTheWay /\ ReadsAreCurrent /\ SmoothIsExact
-----------------------------------------------------------------------------
(* The FIFOs *)

\* Where the words in a FIFO come from at an edge.
Follows(next, fifo, wr, w) ==
  \A i \in DOMAIN next : \/ wr /\ next[i] = w
                         \/ \E j \in DOMAIN fifo : next[i] = fifo[j]

\* What an edge does to a FIFO that is not full.
LEMMA EdgeMoves ==
  ASSUME NEW T, NEW fifo, fifo \in Seq(T), Len(fifo) < Depth, NEW rd \in BOOLEAN,
         NEW wr \in BOOLEAN, NEW w, w \in T, NEW next, next = Edge(fifo, rd, wr, w)
  PROVE  /\ next \in Seq(T)
         /\ Len(fifo) \in Nat /\ Len(next) \in Nat
         /\ Len(next) <= Len(fifo) + 1
         /\ ~wr => Len(next) <= Len(fifo)
         /\ Follows(next, fifo, wr, w)
<1>1. PICK rest : rest = IF rd /\ fifo # <<>> THEN Tail(fifo) ELSE fifo
  OBVIOUS
<1>2. /\ rest \in Seq(T) /\ Len(rest) <= Len(fifo) /\ Len(fifo) \in Nat /\ Len(rest) \in Nat
      /\ \A i \in 1 .. Len(rest) : \E j \in 1 .. Len(fifo) : rest[i] = fifo[j]
  <2>1. CASE rd /\ fifo # <<>>
    <3>1. rest = Tail(fifo)
      BY <1>1, <2>1
    <3>2. /\ rest \in Seq(T) /\ Len(rest) = Len(fifo) - 1
          /\ \A i \in 1 .. Len(rest) : rest[i] = fifo[i + 1]
      BY <2>1, <3>1, HeadTailProperties
    <3>3. Len(fifo) \in Nat
      BY LenProperties
    <3> QED
      BY <2>1, <3>2, <3>3
  <2>2. CASE ~(rd /\ fifo # <<>>)
    BY <1>1, <2>2
  <2> QED
    BY <2>1, <2>2
<1>3. CASE wr
  <2>1. next = rest \o <<w>>
    BY <1>1, <1>3 DEF Edge
  <2>2. next = Append(rest, w)
    BY <1>2, <2>1, AppendIsConcat
  <2>3. /\ next \in Seq(T) /\ Len(next) = Len(rest) + 1
        /\ \A i \in 1 .. Len(rest) : next[i] = rest[i]
        /\ next[Len(rest) + 1] = w
    BY <1>2, <2>2, AppendProperties
  <2>4. DOMAIN next = 1 .. Len(rest) + 1 /\ DOMAIN fifo = 1 .. Len(fifo) /\ Len(rest) \in Nat
        /\ Len(fifo) \in Nat
    BY <1>2, <2>3, LenProperties
  <2>5. \A i \in DOMAIN next : i = Len(rest) + 1 \/ i \in 1 .. Len(rest)
    BY <2>4
  <2>6. Len(next) \in Nat /\ Len(next) <= Len(fifo) + 1
    BY <1>2, <2>3
  <2>7. ASSUME NEW i \in DOMAIN next
        PROVE  next[i] = w \/ \E j \in DOMAIN fifo : next[i] = fifo[j]
    <3>1. CASE i = Len(rest) + 1
      BY <2>3, <3>1
    <3>2. CASE i \in 1 .. Len(rest)
      <4>1. PICK j \in 1 .. Len(fifo) : rest[i] = fifo[j]
        BY <1>2, <3>2
      <4>2. next[i] = fifo[j] /\ j \in DOMAIN fifo
        BY <2>3, <2>4, <3>2, <4>1
      <4> QED
        BY <4>2
    <3> QED
      BY <2>5, <3>1, <3>2
  <2>8. Follows(next, fifo, wr, w)
    BY <1>3, <2>7 DEF Follows
  <2> QED
    BY <1>2, <1>3, <2>3, <2>6, <2>8
<1>4. CASE ~wr
  <2>1. next = rest
    BY <1>1, <1>2, <1>4, ConcatEmptySeq DEF Edge
  <2>2. DOMAIN next = 1 .. Len(rest) /\ DOMAIN fifo = 1 .. Len(fifo) /\ Len(rest) \in Nat
        /\ Len(fifo) \in Nat
    BY <1>2, <2>1, LenProperties
  <2>3. Len(next) \in Nat /\ Len(next) <= Len(fifo)
    BY <1>2, <2>1
  <2>4. \A i \in DOMAIN next : \E j \in DOMAIN fifo : next[i] = fifo[j]
    BY <1>2, <2>1, <2>2
  <2>5. Follows(next, fifo, wr, w)
    BY <2>4 DEF Follows
  <2> QED
    BY <1>2, <1>4, <2>1, <2>3, <2>5
<1> QED
  BY <1>3, <1>4

LEMMA EdgeFollows ==
  ASSUME NEW fifo \in Seq(Word), Len(fifo) < Depth, NEW rd \in BOOLEAN,
         NEW wr \in BOOLEAN, NEW w \in Word
  PROVE  /\ Edge(fifo, rd, wr, w) \in Seq(Word)
         /\ Follows(Edge(fifo, rd, wr, w), fifo, wr, w)
<1>1. PICK next : next = Edge(fifo, rd, wr, w)
  OBVIOUS
<1> QED
  BY <1>1, EdgeMoves

\* Half of the depth is a number, and three words more fit.
LEMMA HalfFits == Half \in Nat /\ Depth = 2 * Half /\ Half + 2 < Depth
  BY FpgaAssumption DEF Half

\* With that much room no FIFO is full.
LEMMA RoomIsEnough ==
  ASSUME FpgaTypes, Room PROVE NeverFull
<1>1. Len(in_fifo) \in Nat /\ Len(cmp_fifo) \in Nat
  BY DEF FpgaTypes, TypeOK
<1>2. Len(in_fifo) <= Half + 2
  BY DEF Room
<1>3. Len(cmp_fifo) <= Half + 2
  <2>1. PICK a \in {0, 1} : a = One(out_wr)
    BY DEF One
  <2>2. PICK b \in {0, 1} : b = One(rstate = "start_read_s")
    BY DEF One
  <2>3. Len(cmp_fifo) + a + b <= Half + 2
    BY <2>1, <2>2 DEF Room
  <2> QED
    BY <1>1, <2>3, HalfFits
<1> QED
  BY <1>1, <1>2, <1>3, HalfFits DEF NeverFull
-----------------------------------------------------------------------------
(* Types *)

\* The words and buckets that a reset leaves.
LEMMA Zeros ==
  /\ NoWord \in Word /\ NoWord.fetched = FALSE /\ EmptyBucket \in Bucket
  /\ \A ip \in Addresses : AddrOf[ip] \in Buckets
  /\ 0 \in Addresses /\ Addresses = Ips \cup {0}
  BY DEF NoWord, Word, EmptyBucket, Bucket, Buckets, Addresses

\* The type invariant, variable by variable.
Typed ==
  /\ TableNo \in 0 .. 3 /\ read_time \in Nat /\ coming \in Seq(Addresses)
  /\ in_fifo \in Seq(Word) /\ cmp_fifo \in Seq(Word)
  /\ in_last \in Word /\ cmp_last \in Word /\ out \in Word /\ q_r \in Word
  /\ value_out \in Word
  /\ in_rd \in BOOLEAN /\ rden \in BOOLEAN /\ out_wr \in BOOLEAN /\ cmp_rd \in BOOLEAN
  /\ wren \in BOOLEAN /\ value_out_wr \in BOOLEAN /\ smooth \in BOOLEAN
  /\ rstate \in {"idle_s", "start_read_s"}
  /\ cstate \in {"idle_s", "write_data_s0", "write_data_s0_r"}
  /\ rdaddr \in Buckets /\ wraddr \in Buckets
  /\ ram \in [Buckets -> Bucket]
  /\ ram_core \in Bucket /\ rdvalue \in Bucket /\ wrvalue \in Bucket
  /\ alf_seen \in BOOLEAN \X BOOLEAN
  /\ received \in [Addresses -> Nat] /\ sent \in [Addresses -> Nat]
  /\ tag \in Int /\ core_tag \in Int /\ rd_tag \in Int
  /\ last_read \in [Buckets -> Int]

\* The types, membership by membership.
LEMMA TypesTyped == FpgaTypes <=> Typed
  BY DEF FpgaTypes, TypeOK, Typed

\* What a word carries.
LEMMA WordFields ==
  ASSUME NEW w \in Word
  PROVE  /\ w.time \in Nat /\ w.ip \in Addresses /\ w.val \in Nat /\ w.fetched \in BOOLEAN
         /\ ValueOf(w) \in Nat
  BY DEF Word, ValueOf, Addresses

\* What a FIFO shows is a word.
LEMMA ShownIsWord ==
  ASSUME NEW fifo \in Seq(Word), NEW last \in Word, NEW w \in Shown(fifo, last)
  PROVE  /\ w \in Word
         /\ fifo # <<>> => w = Head(fifo) /\ w = fifo[1] /\ 1 \in DOMAIN fifo
         /\ fifo = <<>> => w = last \/ w = NoWord
  BY Zeros DEF Shown

\* What an empty FIFO shows is a word, too.
LEMMA LastIsWord ==
  ASSUME NEW fifo \in Seq(Word), NEW last \in Word, NEW rd
  PROVE  /\ LastOf(fifo, rd, last) \in Word
         /\ \/ LastOf(fifo, rd, last) = last
            \/ 1 \in DOMAIN fifo /\ LastOf(fifo, rd, last) = fifo[1]
  BY DEF LastOf

\* The RAM with the write at its port is a RAM.
LEMMA NowIsRam == ASSUME Typed PROVE Now \in [Buckets -> Bucket]
  BY DEF Typed, Now, Written

\* The sender puts a word into the first FIFO, or nothing.
LEMMA ArrivalTypes ==
  ASSUME Typed, NeverFull, Arrives \/ Silence
  PROVE  /\ in_fifo' \in Seq(Word) /\ coming' \in Seq(Addresses)
         /\ received' \in [Addresses -> Nat]
         /\ Len(in_fifo') <= Len(in_fifo) + 1
         /\ alf_seen[1] => Len(in_fifo') <= Len(in_fifo)
<1>0. /\ in_fifo \in Seq(Word) /\ Len(in_fifo) < Depth /\ in_rd \in BOOLEAN
      /\ coming \in Seq(Addresses) /\ received \in [Addresses -> Nat]
  BY DEF Typed, NeverFull
<1>1. CASE Arrives
  <2>1. /\ Head(coming) \in Addresses /\ coming' \in Seq(Addresses) /\ ~alf_seen[1]
    <3>1. coming # <<>> /\ ~alf_seen[1] /\ coming' = Tail(coming)
      BY <1>1 DEF Arrives, Sends
    <3> QED
      BY <1>0, <3>1, HeadTailProperties
  <2>2. PICK v \in IF TableNo = 0 THEN {1} ELSE Values :
          /\ in_fifo' = Edge(in_fifo, in_rd, TRUE, [NoWord EXCEPT !.ip = Head(coming), !.val = v])
          /\ received' = [received EXCEPT ![Head(coming)] = @ + v]
    BY <1>1 DEF Arrives
  <2>3. v \in Nat
    BY FpgaAssumption
  <2>4. PICK w : w = [NoWord EXCEPT !.ip = Head(coming), !.val = v]
    OBVIOUS
  <2>5. w \in Word
    BY <2>1, <2>3, <2>4, Zeros DEF Word
  <2>6. in_fifo' \in Seq(Word) /\ Len(in_fifo') <= Len(in_fifo) + 1
    <3>1. PICK yes \in BOOLEAN : yes = TRUE
      OBVIOUS
    <3>2. in_fifo' = Edge(in_fifo, in_rd, yes, w)
      BY <2>2, <2>4, <3>1
    <3> QED
      BY <1>0, <2>5, <3>2, EdgeMoves
  <2>7. received' \in [Addresses -> Nat]
    BY <1>0, <2>1, <2>2, <2>3
  <2> QED
    BY <2>1, <2>6, <2>7
<1>2. CASE Silence
  <2>1. in_fifo' = Edge(in_fifo, in_rd, FALSE, NoWord) /\ received' = received
    BY <1>2 DEF Silence
  <2>2. PICK no \in BOOLEAN : no = FALSE
    OBVIOUS
  <2>3. in_fifo' = Edge(in_fifo, in_rd, no, NoWord)
    BY <2>1, <2>2
  <2>4. /\ in_fifo' \in Seq(Word) /\ Len(in_fifo') <= Len(in_fifo)
        /\ Len(in_fifo) \in Nat /\ Len(in_fifo') \in Nat
    BY <1>0, <2>2, <2>3, Zeros, EdgeMoves
  <2>5. coming' \in Seq(Addresses)
    BY <1>0, <1>2, HeadTailProperties DEF Silence
  <2>6. Len(in_fifo') <= Len(in_fifo) + 1
    BY <2>4
  <2>7. received' \in [Addresses -> Nat]
    BY <1>0, <2>1
  <2> QED
    BY <2>4, <2>5, <2>6, <2>7
<1> QED
  BY <1>1, <1>2

\* The reader keeps the types of its registers.
LEMMA ReaderTypes ==
  ASSUME Typed, Reader
  PROVE  /\ in_rd' \in BOOLEAN /\ rstate' \in {"idle_s", "start_read_s"}
         /\ rden' \in BOOLEAN /\ rdaddr' \in Buckets
         /\ out_wr' \in BOOLEAN /\ out' \in Word
         /\ tag' \in Int /\ last_read' \in [Buckets -> Int]
<1>1. CASE ReaderIdle
  BY <1>1, Zeros DEF Typed, ReaderIdle, ReadsOn
<1>2. CASE \E w \in Shown(in_fifo, in_last) : ReaderStart(w)
  <2>1. PICK w \in Shown(in_fifo, in_last) : ReaderStart(w)
    BY <1>2
  <2>2. w \in Word
    BY <2>1, ShownIsWord DEF Typed
  <2>3. AddrOf[w.ip] \in Buckets /\ w.ip \in Addresses /\ w.val \in Nat
    BY <2>2, WordFields, Zeros
  <2>4. /\ in_rd' \in BOOLEAN /\ rstate' \in {"idle_s", "start_read_s"}
        /\ rden' \in BOOLEAN /\ rdaddr' \in Buckets /\ out_wr' \in BOOLEAN
    BY <2>1, <2>3 DEF ReaderStart, ReadsOn
  <2>5. out' \in Word
    <3>1. out' = [time |-> read_time, ip |-> w.ip, val |-> w.val, fetched |-> rden']
      BY <2>1 DEF ReaderStart
    <3> QED
      BY <2>3, <2>4, <3>1 DEF Typed, Word, Addresses
  <2>6. tag' \in Int /\ last_read' \in [Buckets -> Int]
    BY <2>1, <2>4 DEF ReaderStart, Typed
  <2> QED
    BY <2>4, <2>5, <2>6
<1> QED
  BY <1>1, <1>2 DEF Reader

\* So does the RAM,
LEMMA RamTypes ==
  ASSUME Typed, Ram
  PROVE  /\ ram' \in [Buckets -> Bucket] /\ ram_core' \in Bucket /\ rdvalue' \in Bucket
         /\ core_tag' \in Int /\ rd_tag' \in Int
<1>1. ram' \in [Buckets -> Bucket]
  BY NowIsRam DEF Ram
<1>2. CASE rden
  BY <1>1, <1>2 DEF Typed, Ram
<1>3. CASE ~rden
  BY <1>1, <1>3 DEF Typed, Ram
<1> QED
  BY <1>2, <1>3

\* What the comparer sends, and what it writes.
Output ==
  /\ value_out_wr \in BOOLEAN /\ value_out \in Word /\ sent \in [Addresses -> Nat]
  /\ wren \in BOOLEAN /\ wraddr \in Buckets /\ wrvalue \in Bucket

\* a word sent on,
LEMMA SendTypes ==
  ASSUME Typed, NEW ip \in Addresses, NEW v \in Nat, Send(ip, v)
  PROVE  value_out_wr' \in BOOLEAN /\ value_out' \in Word /\ sent' \in [Addresses -> Nat]
<1>1. value_out' = [NoWord EXCEPT !.ip = ip, !.val = v] /\ value_out_wr' = TRUE
  BY DEF Send
<1>2. value_out' \in Word
  BY <1>1, Zeros DEF Word
<1>3. sent' \in [Addresses -> Nat]
  BY DEF Send, Typed
<1> QED
  BY <1>1, <1>2, <1>3

\* none sent on,
LEMMA SendNothingTypes ==
  ASSUME Typed, SendNothing
  PROVE  value_out_wr' \in BOOLEAN /\ value_out' \in Word /\ sent' \in [Addresses -> Nat]
<1>1. value_out.ip \in Addresses /\ value_out.val \in Nat
  BY WordFields DEF Typed
<1>2. CASE value_out_wr'
  BY <1>1, <1>2 DEF Typed, SendNothing, Keeps
<1>3. CASE ~value_out_wr'
  BY <1>3 DEF Typed, SendNothing, Keeps
<1> QED
  BY <1>2, <1>3

\* no write,
LEMMA WriteNothingTypes ==
  ASSUME Typed, WriteNothing
  PROVE  wren' \in BOOLEAN /\ wraddr' \in Buckets /\ wrvalue' \in Bucket
  BY DEF Typed, WriteNothing, Keeps

\* a write,
LEMMA WriteTypes ==
  ASSUME NEW ip \in Addresses, NEW bucket \in Bucket, Write(ip, bucket)
  PROVE  wren' \in BOOLEAN /\ wraddr' \in Buckets /\ wrvalue' \in Bucket
  BY Zeros DEF Write

\* each way to judge a word,
LEMMA JudgeTypes ==
  ASSUME Typed, NEW w \in Word, Judge(w) PROVE Output'
<1>1. w.ip \in Addresses /\ ValueOf(w) \in Nat
  BY WordFields
<1>2. rdvalue.ip \in Addresses /\ rdvalue.val \in Nat /\ rdvalue.votes \in Nat
  BY DEF Typed, Bucket, Addresses
<1>3. CASE Record(w)
  <2>1. PICK bucket : bucket = [rdvalue EXCEPT !.ip = w.ip, !.val = @ + ValueOf(w)]
    OBVIOUS
  <2>2. bucket \in Bucket
    <3>1. rdvalue \in Bucket
      BY DEF Typed
    <3>2. PICK sum \in Nat : sum = rdvalue.val + ValueOf(w)
      BY <1>1, <1>2
    <3>3. bucket = [ip |-> w.ip, val |-> sum, votes |-> rdvalue.votes]
      BY <2>1, <3>1, <3>2 DEF Bucket
    <3> QED
      BY <1>1, <1>2, <3>2, <3>3 DEF Bucket, Addresses
  <2>3. Write(w.ip, bucket) /\ SendNothing
    BY <1>3, <2>1 DEF Record
  <2> QED
    BY <1>1, <2>2, <2>3, WriteTypes, SendNothingTypes DEF Output
<1>4. CASE Displace(w)
  <2>1. PICK bucket : bucket = [ip |-> w.ip, val |-> ValueOf(w), votes |-> 0]
    OBVIOUS
  <2>2. bucket \in Bucket
    BY <1>1, <2>1 DEF Bucket, Addresses
  <2>3. Write(w.ip, bucket) /\ Send(rdvalue.ip, rdvalue.val)
    BY <1>4, <2>1 DEF Displace
  <2> QED
    BY <1>1, <1>2, <2>2, <2>3, WriteTypes, SendTypes DEF Output
<1>5. CASE Refuse(w)
  <2>1. PICK bucket : bucket = [rdvalue EXCEPT !.votes = @ + ValueOf(w)]
    OBVIOUS
  <2>2. bucket \in Bucket
    <3>1. rdvalue \in Bucket
      BY DEF Typed
    <3>2. PICK sum \in Nat : sum = rdvalue.votes + ValueOf(w)
      BY <1>1, <1>2
    <3>3. bucket = [ip |-> rdvalue.ip, val |-> rdvalue.val, votes |-> sum]
      BY <2>1, <3>1, <3>2 DEF Bucket
    <3> QED
      BY <1>1, <1>2, <3>2, <3>3 DEF Bucket, Addresses
  <2>3. Write(w.ip, bucket) /\ Send(w.ip, ValueOf(w))
    BY <1>5, <2>1 DEF Refuse
  <2> QED
    BY <1>1, <2>2, <2>3, WriteTypes, SendTypes DEF Output
<1> QED
  BY <1>3, <1>4, <1>5 DEF Judge

\* the comparer,
LEMMA ComparerTypes ==
  ASSUME Typed, NEW alf \in BOOLEAN, Comparer(alf)
  PROVE  /\ Output' /\ q_r' \in Word /\ cmp_rd' \in BOOLEAN
         /\ cstate' \in {"idle_s", "write_data_s0", "write_data_s0_r"}
<1>1. CASE CompareIdle(alf)
  BY <1>1, Zeros DEF Typed, CompareIdle, Output, ComparesOn
<1>2. CASE \E w \in Shown(cmp_fifo, cmp_last) :
             CompareNow(w, alf) \/ CompareEarly(w) \/ CompareLate(w, alf)
  <2>1. PICK w \in Shown(cmp_fifo, cmp_last) :
               CompareNow(w, alf) \/ CompareEarly(w) \/ CompareLate(w, alf)
    BY <1>2
  <2>2. w \in Word
    BY ShownIsWord DEF Typed
  <2>3. w.ip \in Addresses /\ ValueOf(w) \in Nat
    BY <2>2, WordFields
  <2>4. CASE CompareNow(w, alf)
    BY <2>2, <2>4, JudgeTypes DEF CompareNow, Go, ComparesOn, Typed
  <2>5. CASE CompareEarly(w)
    BY <2>2, <2>5, WriteNothingTypes, SendNothingTypes DEF CompareEarly, Output
  <2>6. CASE CompareLate(w, alf)
    <3>1. Send(w.ip, ValueOf(w)) /\ WriteNothing /\ Go(alf) /\ q_r' = q_r
      BY <2>6 DEF CompareLate
    <3>2. Output'
      BY <2>3, <3>1, WriteNothingTypes, SendTypes DEF Output
    <3> QED
      BY <3>1, <3>2 DEF Go, ComparesOn, Typed
  <2> QED
    BY <2>1, <2>4, <2>5, <2>6
<1>3. CASE CompareWaited(alf)
  <2>1. CASE read_time - q_r.time = 3
    BY <1>3, <2>1, JudgeTypes DEF CompareWaited, Go, ComparesOn, Typed
  <2>2. CASE read_time - q_r.time # 3
    BY <1>3, <2>2, WriteNothingTypes, SendNothingTypes DEF CompareWaited, Output, Typed
  <2> QED
    BY <2>1, <2>2
<1> QED
  BY <1>1, <1>2, <1>3 DEF Comparer

\* and the edge as a whole.
LEMMA TickTypes ==
  ASSUME FpgaTypes, NeverFull, Tick PROVE FpgaTypes'
<1>1. Typed
  BY TypesTyped
<1>2. PICK alf \in BOOLEAN : Comparer(alf)
  BY FpgaAssumption DEF Tick
<1>3. /\ Output' /\ q_r' \in Word /\ cmp_rd' \in BOOLEAN
      /\ cstate' \in {"idle_s", "write_data_s0", "write_data_s0_r"}
  BY <1>1, <1>2, ComparerTypes
<1>4. /\ in_fifo' \in Seq(Word) /\ coming' \in Seq(Addresses)
      /\ received' \in [Addresses -> Nat]
  BY <1>1, ArrivalTypes DEF Tick
<1>5. /\ in_rd' \in BOOLEAN /\ rstate' \in {"idle_s", "start_read_s"}
      /\ rden' \in BOOLEAN /\ rdaddr' \in Buckets
      /\ out_wr' \in BOOLEAN /\ out' \in Word
      /\ tag' \in Int /\ last_read' \in [Buckets -> Int]
  BY <1>1, ReaderTypes DEF Tick
<1>6. /\ ram' \in [Buckets -> Bucket] /\ ram_core' \in Bucket /\ rdvalue' \in Bucket
      /\ core_tag' \in Int /\ rd_tag' \in Int
  BY <1>1, RamTypes DEF Tick
<1>7. cmp_fifo' \in Seq(Word)
  <2>1. /\ cmp_fifo \in Seq(Word) /\ cmp_rd \in BOOLEAN /\ out_wr \in BOOLEAN
        /\ out \in Word /\ Len(cmp_fifo) < Depth
        /\ cmp_fifo' = Edge(cmp_fifo, cmp_rd, out_wr, out)
    BY <1>1 DEF Tick, Typed, NeverFull
  <2> QED
    BY <2>1, EdgeFollows
<1>8. in_last' \in Word /\ cmp_last' \in Word
  BY <1>1, LastIsWord DEF Tick, Typed
<1>9. /\ read_time' \in Nat /\ TableNo' \in 0 .. 3 /\ alf_seen' \in BOOLEAN \X BOOLEAN
      /\ smooth' \in BOOLEAN
  <2>1. read_time' \in Nat /\ TableNo' \in 0 .. 3
    BY <1>1 DEF Tick, Typed
  <2>2. AlmostFull(in_fifo) \in BOOLEAN
    BY DEF AlmostFull
  <2>3. alf_seen[2] \in BOOLEAN
    BY <1>1 DEF Typed
  <2>4. alf_seen' \in BOOLEAN \X BOOLEAN
    BY <2>2, <2>3 DEF Tick
  <2>5. (smooth /\ StaysSmooth) \in BOOLEAN
    OBVIOUS
  <2>6. smooth' \in BOOLEAN
    BY <2>5 DEF Tick
  <2> QED
    BY <2>1, <2>4, <2>6
<1>10. Typed'
  BY <1>3, <1>4, <1>5, <1>6, <1>7, <1>8, <1>9 DEF Typed, Output
<1>11. (Typed => FpgaTypes)'
  BY TypesTyped, PTL
<1> QED
  BY <1>10, <1>11

-----------------------------------------------------------------------------
(* The room in the FIFOs *)

\* The sender sees the almost-full signal two edges late: two words more.
LEMMA TickRoomIn ==
  ASSUME Typed, NeverFull, Room, Tick
  PROVE  /\ Len(in_fifo') <= Half + 2
         /\ ~alf_seen'[1] => Len(in_fifo') <= Half + 1
         /\ ~alf_seen'[2] => Len(in_fifo') <= Half
<1>1. /\ Len(in_fifo) \in Nat /\ Len(in_fifo') \in Nat /\ Half \in Nat
      /\ Len(in_fifo') <= Len(in_fifo) + 1
      /\ alf_seen[1] => Len(in_fifo') <= Len(in_fifo)
  <2>1. in_fifo' \in Seq(Word) /\ in_fifo \in Seq(Word)
    BY ArrivalTypes DEF Tick, Typed
  <2>2. Len(in_fifo) \in Nat /\ Len(in_fifo') \in Nat
    BY <2>1
  <2> QED
    BY <2>2, HalfFits, ArrivalTypes DEF Tick
<1>2. alf_seen'[1] = alf_seen[2] /\ alf_seen'[2] = AlmostFull(in_fifo)
  BY DEF Tick
<1>3. Len(in_fifo) < Half \/ AlmostFull(in_fifo)
  BY <1>1 DEF NeverFull, AlmostFull, Half
<1>4. CASE alf_seen[1]
  BY <1>1, <1>2, <1>3, <1>4 DEF Room
<1>5. CASE ~alf_seen[1]
  BY <1>1, <1>2, <1>3, <1>5 DEF Room
<1> QED
  BY <1>4, <1>5

\* The reader sends the word it took an edge before.
LEMMA ReaderHolds ==
  ASSUME Reader
  PROVE  /\ out_wr' <=> rstate = "start_read_s"
         /\ rstate' = (IF ReadsOn THEN "start_read_s" ELSE "idle_s")
         /\ in_rd' = ReadsOn
  BY DEF Reader, ReaderIdle, ReaderStart

\* The words in the second FIFO, and those that are sure to follow.
LEMMA TickRoomOut ==
  ASSUME Typed, NeverFull, Room, Tick
  PROVE  Len(cmp_fifo') + One(out_wr') + One(rstate' = "start_read_s") <= Half + 2
<1>1. /\ Len(cmp_fifo) \in Nat /\ Len(cmp_fifo') \in Nat
      /\ Len(cmp_fifo') <= Len(cmp_fifo) + One(out_wr)
  <2>1. cmp_fifo' = Edge(cmp_fifo, cmp_rd, out_wr, out)
    BY DEF Tick
  <2>2. /\ Len(cmp_fifo) \in Nat /\ Len(cmp_fifo') \in Nat
        /\ Len(cmp_fifo') <= Len(cmp_fifo) + 1
        /\ ~out_wr => Len(cmp_fifo') <= Len(cmp_fifo)
    <3>1. /\ cmp_fifo \in Seq(Word) /\ cmp_rd \in BOOLEAN /\ out_wr \in BOOLEAN
          /\ out \in Word /\ Len(cmp_fifo) < Depth
      BY DEF Typed, NeverFull
    <3> QED
      BY <2>1, <3>1, EdgeMoves
  <2> QED
    BY <2>2 DEF One
<1>2. One(out_wr') = One(rstate = "start_read_s")
  BY ReaderHolds DEF Tick, One
<1>3. /\ One(out_wr) \in {0, 1} /\ One(rstate = "start_read_s") \in {0, 1}
      /\ One(rstate' = "start_read_s") \in {0, 1}
  BY DEF One
<1>4. CASE ReadsOn
  <2>1. Len(cmp_fifo) < Half
    <3>1. Len(cmp_fifo) < Half \/ AlmostFull(cmp_fifo)
      <4>1. Len(cmp_fifo) < Depth
        BY DEF NeverFull
      <4> QED
        BY <1>1, <4>1, HalfFits DEF AlmostFull, Half
    <3> QED
      BY <1>4, <3>1 DEF ReadsOn
  <2> QED
    BY <1>1, <1>2, <1>3, <2>1, HalfFits
<1>5. CASE ~ReadsOn
  <2>1. One(rstate' = "start_read_s") = 0
    BY <1>5, ReaderHolds DEF Tick, One
  <2>2. Len(cmp_fifo) + One(out_wr) + One(rstate = "start_read_s") <= Half + 2
    BY DEF Room
  <2> QED
    BY <1>1, <1>2, <1>3, <2>1, <2>2, HalfFits
<1> QED
  BY <1>4, <1>5

-----------------------------------------------------------------------------
(* The reads on the way *)

\* The tag of a read goes one register on while its word waits.
LEMMA AwaitsNext ==
  ASSUME Typed, Ram, read_time' = read_time + 1, NEW w \in Word, w.fetched => w.time <= read_time - 1,
         w.fetched /\ w.time = read_time - 1 => rden /\ tag = w.time,
         read_time - w.time = 2 /\ w.fetched => core_tag = w.time
  PROVE  Awaits(w)'
<1>1. /\ w.time \in Nat /\ read_time \in Nat /\ w.fetched \in BOOLEAN
  BY WordFields DEF Typed
<1>2. rd_tag' = core_tag /\ (rden => core_tag' = tag)
  BY DEF Ram
<1>3. ASSUME w.fetched
      PROVE  /\ w.time <= read_time' - 2
             /\ read_time' - w.time = 2 => core_tag' = w.time
             /\ read_time' - w.time = 3 => rd_tag' = w.time
  BY <1>1, <1>2, <1>3
<1> QED
  BY <1>3 DEF Awaits

\* An edge keeps every read with its word.
LEMMA TickReads ==
  ASSUME Typed, NeverFull, ReadsOnTheWay, Tick PROVE ReadsOnTheWay'
<1>1. /\ read_time' = read_time + 1 /\ Ram /\ Reader /\ read_time \in Nat
      /\ cmp_fifo' = Edge(cmp_fifo, cmp_rd, out_wr, out)
      /\ cmp_last' = LastOf(cmp_fifo, cmp_rd, cmp_last)
  BY DEF Tick, Typed
<1>2. ASSUME NEW w \in Word, Awaits(w) PROVE Awaits(w)'
  <2>1. w.time \in Nat
    BY WordFields
  <2>2. /\ w.fetched => w.time <= read_time - 1
        /\ ~(w.fetched /\ w.time = read_time - 1)
        /\ read_time - w.time = 2 /\ w.fetched => core_tag = w.time
    BY <1>1, <1>2, <2>1 DEF Awaits
  <2> QED
    BY <1>1, <2>2, AwaitsNext
<1>3. ASSUME NEW w, w = out, out_wr PROVE w \in Word /\ Awaits(w)'
  <2>1. w \in Word /\ w.time = read_time - 1 /\ (w.fetched => rden /\ tag = w.time)
    BY <1>3 DEF Typed, ReadsOnTheWay
  <2>2. w.time \in Nat
    BY <2>1, WordFields
  <2>3. w.time <= read_time - 1 /\ ~(read_time - w.time = 2)
    BY <1>1, <2>1, <2>2
  <2> QED
    BY <1>1, <2>1, <2>3, AwaitsNext
<1>4. ASSUME NEW i \in DOMAIN cmp_fifo, NEW w, w = cmp_fifo[i]
      PROVE  w \in Word /\ Awaits(w) /\ Awaits(w)'
  <2>1. w \in Word /\ Awaits(w)
    BY <1>4, ElementOfSeq DEF Typed, ReadsOnTheWay
  <2> QED
    BY <1>2, <2>1
<1>5. out_wr' => out'.time = read_time' - 1 /\ (out'.fetched => rden' /\ tag' = out'.time)
  <2> SUFFICES ASSUME out_wr'
               PROVE  out'.time = read_time' - 1 /\ (out'.fetched => rden' /\ tag' = out'.time)
    OBVIOUS
  <2>1. PICK w : ReaderStart(w)
    BY <1>1 DEF Reader, ReaderIdle
  <2>2. /\ out' = [time |-> read_time, ip |-> w.ip, val |-> w.val, fetched |-> rden']
        /\ tag' = IF rden' THEN read_time ELSE tag
    BY <2>1 DEF ReaderStart
  <2> QED
    BY <1>1, <2>2
<1>6. ASSUME NEW i \in DOMAIN cmp_fifo' PROVE Awaits(cmp_fifo[i])'
  <2>1. PICK w : w = cmp_fifo'[i]
    OBVIOUS
  <2>2. (out_wr /\ w = out) \/ \E j \in DOMAIN cmp_fifo : w = cmp_fifo[j]
    <3>1. /\ cmp_fifo \in Seq(Word) /\ cmp_rd \in BOOLEAN /\ out_wr \in BOOLEAN
          /\ out \in Word /\ Len(cmp_fifo) < Depth
      BY DEF Typed, NeverFull
    <3>2. Follows(cmp_fifo', cmp_fifo, out_wr, out)
      BY <1>1, <3>1, EdgeFollows
    <3> QED
      BY <2>1, <3>2 DEF Follows
  <2>3. Awaits(w)'
    BY <1>3, <1>4, <2>2
  <2> QED
    BY <2>1, <2>3 DEF Awaits
<1>7. Awaits(cmp_last)'
  <2>1. PICK w : w = cmp_last'
    OBVIOUS
  <2>2. w = cmp_last \/ (1 \in DOMAIN cmp_fifo /\ w = cmp_fifo[1])
    BY <1>1, <2>1, LastIsWord DEF Typed
  <2>3. Awaits(w)'
    BY <1>2, <1>4, <2>2 DEF ReadsOnTheWay, Typed
  <2> QED
    BY <2>1, <2>3 DEF Awaits
<1>8. cstate' = "write_data_s0_r" => read_time' - q_r'.time <= 3 /\ Awaits(q_r)'
  <2> SUFFICES ASSUME cstate' = "write_data_s0_r"
               PROVE  read_time' - q_r'.time <= 3 /\ Awaits(q_r)'
    OBVIOUS
  <2>1. PICK w : w = q_r'
    OBVIOUS
  <2>2. PICK alf \in BOOLEAN : Comparer(alf)
    BY FpgaAssumption DEF Tick
  <2>3. w \in Word /\ read_time - w.time < 3 /\ Awaits(w)
    <3>1. CASE \E v \in Shown(cmp_fifo, cmp_last) : CompareEarly(v)
      <4>1. w \in Shown(cmp_fifo, cmp_last) /\ read_time - w.time < 3
        BY <2>1, <3>1 DEF CompareEarly
      <4>2. w \in Word /\ (w = cmp_last \/ w = NoWord \/ (1 \in DOMAIN cmp_fifo /\ w = cmp_fifo[1]))
        BY <4>1, ShownIsWord DEF Typed
      <4>3. Awaits(w)
        BY <1>4, <4>2, Zeros DEF ReadsOnTheWay, Awaits
      <4> QED
        BY <4>1, <4>2, <4>3
    <3>2. CASE CompareWaited(alf)
      <4>1. /\ cstate = "write_data_s0_r" /\ q_r' = q_r
            /\ read_time - q_r.time # 3
        BY <3>2 DEF CompareWaited, Go
      <4>2. q_r \in Word /\ q_r.time \in Nat
        BY WordFields DEF Typed
      <4> QED
        BY <1>1, <2>1, <4>1, <4>2 DEF ReadsOnTheWay
    <3> QED
      BY <2>2, <3>1, <3>2 DEF Comparer, CompareIdle, CompareNow, CompareLate, Go
  <2>4. Awaits(w)' /\ w.time \in Nat
    BY <1>2, <2>3, WordFields
  <2> QED
    BY <1>1, <2>1, <2>3, <2>4 DEF Awaits
<1> QED
  BY <1>5, <1>6, <1>7, <1>8 DEF ReadsOnTheWay

\* A word judged three clocks after its read meets that read.
LEMMA ReadsJudge ==
  ASSUME Typed, ReadsOnTheWay PROVE JudgedByItsRead
<1>1. cmp_fifo # <<>> => Head(cmp_fifo) = cmp_fifo[1] /\ 1 \in DOMAIN cmp_fifo
  BY DEF Typed
<1>2. cmp_fifo # <<>> => Awaits(Head(cmp_fifo))
  BY <1>1 DEF ReadsOnTheWay
<1> QED
  BY <1>2 DEF ReadsOnTheWay, JudgedByItsRead, Awaits

-----------------------------------------------------------------------------
(* The smooth flow *)

SmoothTick == Typed /\ NeverFull /\ ReadsAreCurrent /\ Tick /\ smooth' /\ TableNo = 0

\* A word whose bucket still holds what its read brings, or that is just being
\* read.
Coming(w) ==
  /\ w \in Word /\ w.time <= read_time - 1
  /\ read_time - w.time <= 3 => last_read[AddrOf[w.ip]] = w.time
  /\ read_time - w.time = 1 => rden /\ rdaddr = AddrOf[w.ip]
  /\ read_time - w.time = 2 => ram_core = Now[AddrOf[w.ip]]

\* What a smooth edge starts from.
LEMMA SmoothBefore ==
  ASSUME SmoothTick
  PROVE  /\ smooth /\ StaysSmooth /\ TableNo' = 0
         /\ read_time \in Nat /\ read_time' = read_time + 1
         /\ \A i \in DOMAIN cmp_fifo : cmp_fifo[i] \in Word /\ Current(cmp_fifo[i])
         /\ cstate = "write_data_s0_r" => q_r \in Word /\ Current(q_r)
         /\ wren => last_read[wraddr] = read_time - 4
         /\ out_wr => rden /\ rdaddr = AddrOf[out.ip] /\ last_read[rdaddr] = out.time
<1>1. smooth /\ StaysSmooth /\ TableNo' = 0 /\ TableNo = 0
  BY DEF SmoothTick, Tick
<1>2. read_time \in Nat /\ read_time' = read_time + 1
  BY DEF SmoothTick, Tick, Typed
<1>3. \A i \in DOMAIN cmp_fifo : cmp_fifo[i] \in Word
  BY ElementOfSeq DEF SmoothTick, Typed
<1> QED
  BY <1>1, <1>2, <1>3 DEF SmoothTick, ReadsAreCurrent, Typed

\* The word that is judged or put aside, when its half has not run out.
LEMMA SmoothHead ==
  ASSUME SmoothTick, cstate = "write_data_s0", NEW w \in Shown(cmp_fifo, cmp_last)
  PROVE  cmp_fifo # <<>> /\ w = cmp_fifo[1] /\ w \in Word /\ Current(w)
<1>1. cmp_fifo # <<>>
  BY SmoothBefore DEF StaysSmooth
<1>2. w = cmp_fifo[1] /\ 1 \in DOMAIN cmp_fifo
  BY <1>1, ShownIsWord DEF SmoothTick, Typed
<1> QED
  BY <1>1, <1>2, SmoothBefore

\* The reads of the last three clocks stay the last ones of their buckets.
LEMMA SmoothReader ==
  ASSUME SmoothTick
  PROVE  /\ \A b \in Buckets : last_read[b] >= read_time - 3 => last_read'[b] = last_read[b]
         /\ out_wr' => rden' /\ rdaddr' = AddrOf[out'.ip] /\ last_read'[rdaddr'] = out'.time
         /\ rstate = "start_read_s" => in_fifo # <<>> /\ out'.ip = in_fifo[1].ip /\ out'.val = in_fifo[1].val
<1>1. Reader /\ read_time \in Nat /\ last_read \in [Buckets -> Int] /\ in_fifo \in Seq(Word)
      /\ in_last \in Word /\ TableNo = 0
  BY DEF SmoothTick, Tick, Typed
<1>2. CASE ReaderIdle
  BY <1>2 DEF ReaderIdle
<1>3. CASE \E w \in Shown(in_fifo, in_last) : ReaderStart(w)
  <2>1. PICK w \in Shown(in_fifo, in_last) : ReaderStart(w)
    BY <1>3
  <2>2. ReadsOn /\ read_time - last_read[AddrOf[Head(in_fifo).ip]] >= 4 /\ in_fifo # <<>>
    BY <2>1, SmoothBefore DEF StaysSmooth, ReaderStart, ReadSpacing, ReadsOn
  <2>3. w = Head(in_fifo) /\ w = in_fifo[1] /\ w \in Word
    BY <1>1, <2>2, ShownIsWord
  <2>4. /\ AddrOf[w.ip] \in Buckets /\ rdaddr' = AddrOf[w.ip] /\ rden'
        /\ last_read' = [last_read EXCEPT ![AddrOf[w.ip]] = read_time]
        /\ out' = [time |-> read_time, ip |-> w.ip, val |-> w.val, fetched |-> rden']
    <3>1. /\ rdaddr' = AddrOf[w.ip] /\ rden' = (ReadsOn /\ TableNo # 3)
          /\ last_read' = [last_read EXCEPT ![rdaddr'] = read_time]
          /\ out' = [time |-> read_time, ip |-> w.ip, val |-> w.val, fetched |-> rden']
      BY <2>1 DEF ReaderStart
    <3>2. ReadsOn /\ TableNo # 3
      BY <1>1, <2>2
    <3>3. AddrOf[w.ip] \in Buckets
      BY <2>3, Zeros, WordFields
    <3> QED
      BY <3>1, <3>2, <3>3, Zenon
  <2>5. \A b \in Buckets : last_read[b] >= read_time - 3 => last_read'[b] = last_read[b]
    BY <1>1, <2>2, <2>3, <2>4
  <2>6. last_read'[AddrOf[w.ip]] = read_time
    BY <1>1, <2>4
  <2>7. /\ rdaddr' = AddrOf[out'.ip] /\ last_read'[rdaddr'] = out'.time
        /\ out'.ip = in_fifo[1].ip /\ out'.val = in_fifo[1].val
    BY <2>3, <2>4, <2>6
  <2> QED
    BY <2>2, <2>4, <2>5, <2>7
<1> QED
  BY <1>1, <1>2, <1>3 DEF Reader

\* What a judgement finds: the bucket as it is.  What it leaves: the bucket
\* written, the others as they are.
LEMMA SmoothJudge ==
  ASSUME SmoothTick, NEW w \in Word, Current(w), read_time - w.time = 3, Judge(w)
  PROVE  /\ rdvalue = Now[AddrOf[w.ip]] /\ AddrOf[w.ip] \in Buckets
         /\ wren' /\ wraddr' = AddrOf[w.ip] /\ last_read[wraddr'] = read_time - 3
         /\ Now' = [Now EXCEPT ![AddrOf[w.ip]] = wrvalue']
<1>1. /\ rdvalue = Now[AddrOf[w.ip]] /\ last_read[AddrOf[w.ip]] = w.time
      /\ w.time \in Nat /\ w.ip \in Addresses
  BY WordFields DEF Current
<1>2. wren' /\ wraddr' = AddrOf[w.ip]
  BY DEF Judge, Record, Displace, Refuse, Write
<1>3. ram' = Now
  BY DEF SmoothTick, Tick, Ram
<1>4. Now' = [Now EXCEPT ![AddrOf[w.ip]] = wrvalue']
  BY <1>2, <1>3 DEF Now, Written
<1> QED
  BY <1>1, <1>2, <1>4, SmoothBefore, Zeros

\* The RAM changes at the bucket of the word judged, or not at all.
LEMMA SmoothNow ==
  ASSUME SmoothTick, ~wren' PROVE Now' = Now
  BY DEF SmoothTick, Tick, Ram, Now

\* An edge judges a word, hands one on, or does neither.
Judges(w) ==
  /\ w \in Word /\ Current(w) /\ read_time - w.time = 3 /\ Judge(w)
  /\ cstate' # "write_data_s0_r"

\* The word that leaves the second FIFO at the edge.
Taken(w) == cstate = "write_data_s0" /\ cmp_fifo # <<>> /\ w = cmp_fifo[1]

Waiting(w) == cstate = "write_data_s0_r" /\ w = q_r

SmoothCases ==
  \/ /\ cstate = "idle_s" /\ cstate' # "write_data_s0_r"
     /\ ~wren' /\ sent' = sent
  \/ \E w \in Word : Judges(w) /\ (Taken(w) \/ Waiting(w))
  \/ \E w \in Word : /\ Taken(w) /\ Current(w) /\ cstate' = "write_data_s0_r" /\ q_r' = w
                     /\ ~wren' /\ sent' = sent
  \/ \E w \in Word : /\ Taken(w) /\ cstate' # "write_data_s0_r"
                     /\ ~wren' /\ Send(w.ip, ValueOf(w))
  \/ /\ Waiting(q_r) /\ Current(q_r) /\ cstate' = "write_data_s0_r" /\ q_r' = q_r
     /\ ~wren' /\ sent' = sent

\* Table 0 clears its strobes.
LEMMA Quiet ==
  ASSUME TableNo = 0, TableNo' = 0
  PROVE  /\ WriteNothing => ~wren'
         /\ SendNothing => sent' = sent
<1>1. ~Keeps(wren) /\ ~Keeps(value_out_wr)
  BY DEF Keeps
<1>2. WriteNothing => ~wren'
  BY <1>1 DEF WriteNothing
<1>3. SendNothing => ~value_out_wr'
  BY <1>1 DEF SendNothing
<1>4. SendNothing => sent' = sent
  BY <1>3 DEF SendNothing
<1> QED
  BY <1>2, <1>4

\* The comparer asks for a word exactly when it goes on to one.
LEMMA GoesOn ==
  ASSUME NEW alf, Go(alf)
  PROVE  (cmp_rd' <=> cstate' = "write_data_s0") /\ cstate' # "write_data_s0_r"
  BY DEF Go

\* In a smooth flow the comparer judges a word at its read's value, puts it
\* aside to wait for it, lets it go on, or rests.
LEMMA SmoothComparer == ASSUME SmoothTick PROVE SmoothCases
<1>1. PICK alf \in BOOLEAN : Comparer(alf)
  BY FpgaAssumption DEF SmoothTick, Tick
<1>2. TableNo = 0 /\ TableNo' = 0
  BY SmoothBefore DEF SmoothTick
<1>3. CASE CompareIdle(alf)
  BY <1>2, <1>3 DEF CompareIdle, SmoothCases
<1>4. CASE \E w \in Shown(cmp_fifo, cmp_last) :
             CompareNow(w, alf) \/ CompareEarly(w) \/ CompareLate(w, alf)
  <2>1. PICK w \in Shown(cmp_fifo, cmp_last) :
               CompareNow(w, alf) \/ CompareEarly(w) \/ CompareLate(w, alf)
    BY <1>4
  <2>2. cstate = "write_data_s0"
    BY <2>1 DEF CompareNow, CompareEarly, CompareLate
  <2>3. Taken(w) /\ w \in Word /\ Current(w)
    BY <2>2, SmoothHead DEF Taken
  <2>4. CASE CompareNow(w, alf)
    <3>1. read_time - w.time = 3 /\ Judge(w) /\ Go(alf)
      BY <2>4 DEF CompareNow
    <3>2. Judges(w)
      BY <2>3, <3>1, GoesOn DEF Judges
    <3> QED
      BY <2>3, <3>2 DEF SmoothCases
  <2>5. CASE CompareEarly(w)
    <3>1. /\ cstate' = "write_data_s0_r" /\ q_r' = w /\ ~wren' /\ sent' = sent
      BY <1>2, <2>5, Quiet DEF CompareEarly
    <3> QED
      BY <2>3, <3>1 DEF SmoothCases
  <2>6. CASE CompareLate(w, alf)
    <3>1. Send(w.ip, ValueOf(w)) /\ ~wren' /\ Go(alf)
      BY <1>2, <2>6, Quiet DEF CompareLate
    <3> QED
      BY <2>3, <3>1, GoesOn DEF SmoothCases
  <2> QED
    BY <2>1, <2>4, <2>5, <2>6
<1>5. CASE CompareWaited(alf)
  <2>1. cstate = "write_data_s0_r" /\ q_r' = q_r
    BY <1>5 DEF CompareWaited
  <2>2. Waiting(q_r) /\ q_r \in Word /\ Current(q_r)
    BY <2>1, SmoothBefore DEF Waiting
  <2>3. CASE read_time - q_r.time = 3
    <3>1. Judge(q_r) /\ Go(alf)
      BY <1>5, <2>3 DEF CompareWaited
    <3>2. Judges(q_r)
      BY <2>2, <2>3, <3>1, GoesOn DEF Judges
    <3> QED
      BY <2>2, <3>2 DEF SmoothCases
  <2>4. CASE read_time - q_r.time # 3
    <3>1. ~wren' /\ sent' = sent /\ cstate' = cstate
      BY <1>2, <1>5, <2>4, Quiet DEF CompareWaited
    <3> QED
      BY <2>1, <2>2, <3>1 DEF SmoothCases
  <2> QED
    BY <2>3, <2>4
<1> QED
  BY <1>1, <1>3, <1>4, <1>5 DEF Comparer

\* Only a bucket read three clocks ago changes.
LEMMA SmoothWrites ==
  ASSUME SmoothTick
  PROVE  /\ \A b \in Buckets : last_read[b] # read_time - 3 => Now'[b] = Now[b]
         /\ wren' => wraddr' \in Buckets /\ last_read[wraddr'] = read_time - 3
<1>1. CASE ~wren'
  BY <1>1, SmoothNow
<1>2. CASE wren'
  <2>1. PICK w \in Word : Judges(w)
    BY <1>2, SmoothComparer DEF SmoothCases
  <2>2. /\ AddrOf[w.ip] \in Buckets /\ wraddr' = AddrOf[w.ip]
        /\ last_read[wraddr'] = read_time - 3
        /\ Now' = [Now EXCEPT ![AddrOf[w.ip]] = wrvalue']
    BY <2>1, SmoothJudge DEF Judges
  <2>3. Now \in [Buckets -> Bucket]
    BY NowIsRam DEF SmoothTick
  <2> QED
    BY <2>2, <2>3
<1> QED
  BY <1>1, <1>2

\* A read keeps its value while nothing is written to its bucket.
LEMMA StaysCurrent ==
  ASSUME SmoothTick, NEW w, Coming(w) PROVE Current(w)'
<1>1. /\ w.time \in Nat /\ w.ip \in Addresses /\ AddrOf[w.ip] \in Buckets
      /\ read_time \in Nat /\ read_time' = read_time + 1 /\ w.time <= read_time - 1
  BY WordFields, Zeros, SmoothBefore DEF Coming
<1>2. /\ ram' = Now /\ rdvalue' = ram_core
      /\ rden => ram_core' \in {ram[rdaddr], ram'[rdaddr]}
  BY DEF SmoothTick, Tick, Ram
<1>3. read_time - w.time <= 2 => last_read[AddrOf[w.ip]] = w.time /\ last_read'[AddrOf[w.ip]] = w.time
  BY <1>1, SmoothReader DEF Coming
<1>4. read_time - w.time <= 2 => Now'[AddrOf[w.ip]] = Now[AddrOf[w.ip]]
  BY <1>1, <1>3, SmoothWrites
<1>5. read_time - w.time = 1 => ram_core' = Now'[AddrOf[w.ip]]
  <2> SUFFICES ASSUME read_time - w.time = 1 PROVE ram_core' = Now'[AddrOf[w.ip]]
    OBVIOUS
  <2>1. rden /\ rdaddr = AddrOf[w.ip] /\ last_read[rdaddr] = read_time - 1
    BY <1>1, <1>3 DEF Coming
  <2>2. wren => wraddr # rdaddr
    BY <1>1, <2>1, SmoothBefore
  <2>3. ram[rdaddr] = Now[rdaddr]
    <3>1. ram \in [Buckets -> Bucket]
      BY DEF SmoothTick, Typed
    <3> QED
      BY <2>2, <3>1 DEF Now, Written
  <2> QED
    BY <1>1, <1>2, <1>4, <2>1, <2>3
<1>6. read_time - w.time = 2 => rdvalue' = Now'[AddrOf[w.ip]]
  BY <1>1, <1>2, <1>4 DEF Coming
<1> QED
  BY <1>1, <1>3, <1>5, <1>6 DEF Current

\* A word that waits is such a word,
LEMMA CurrentIsComing ==
  ASSUME Typed, NEW w \in Word, Current(w) PROVE Coming(w)
<1>1. w.time \in Nat /\ read_time \in Nat
  BY WordFields DEF Typed
<1>2. w.time <= read_time - 1 /\ read_time - w.time # 1
  BY <1>1 DEF Current
<1> QED
  BY <1>2 DEF Current, Coming

\* and so is the one that the reader sends.
LEMMA OutIsComing ==
  ASSUME SmoothTick, ReadsOnTheWay, out_wr PROVE Coming(out)
<1>1. out \in Word /\ out.time = read_time - 1
  BY DEF SmoothTick, Typed, ReadsOnTheWay
<1>2. rden /\ rdaddr = AddrOf[out.ip] /\ last_read[rdaddr] = out.time
  BY SmoothBefore
<1> QED
  BY <1>1, <1>2, WordFields, SmoothBefore DEF Coming

\* A smooth edge keeps the reads current.
LEMMA SmoothStep ==
  ASSUME SmoothTick, ReadsOnTheWay
  PROVE  /\ out_wr' => rden' /\ rdaddr' = AddrOf[out'.ip] /\ last_read'[rdaddr'] = out'.time
         /\ \A i \in DOMAIN cmp_fifo' : Current(cmp_fifo[i])'
         /\ cstate' = "write_data_s0_r" => Current(q_r)'
         /\ wren' => last_read'[wraddr'] = read_time' - 4
<1>0. Typed
  BY DEF SmoothTick
<1>1. ASSUME NEW i \in DOMAIN cmp_fifo' PROVE Current(cmp_fifo[i])'
  <2>1. PICK w : w = cmp_fifo'[i]
    OBVIOUS
  <2>2. (out_wr /\ w = out) \/ \E j \in DOMAIN cmp_fifo : w = cmp_fifo[j]
    <3>1. /\ cmp_fifo \in Seq(Word) /\ cmp_rd \in BOOLEAN /\ out_wr \in BOOLEAN
          /\ out \in Word /\ Len(cmp_fifo) < Depth
          /\ cmp_fifo' = Edge(cmp_fifo, cmp_rd, out_wr, out)
      BY <1>0 DEF Typed, NeverFull, SmoothTick, Tick
    <3>2. Follows(cmp_fifo', cmp_fifo, out_wr, out)
      BY <3>1, EdgeFollows
    <3> QED
      BY <2>1, <3>2 DEF Follows
  <2>3. CASE out_wr /\ w = out
    <3>1. Coming(w)
      BY <2>3, OutIsComing
    <3>2. Current(w)'
      BY <3>1, StaysCurrent
    <3> QED
      BY <2>1, <3>2 DEF Current
  <2>4. CASE \E j \in DOMAIN cmp_fifo : w = cmp_fifo[j]
    <3>1. w \in Word /\ Current(w)
      BY <2>4, SmoothBefore
    <3>2. Coming(w)
      BY <1>0, <3>1, CurrentIsComing
    <3>3. Current(w)'
      BY <3>2, StaysCurrent
    <3> QED
      BY <2>1, <3>3 DEF Current
  <2> QED
    BY <2>2, <2>3, <2>4
<1>2. cstate' = "write_data_s0_r" => Current(q_r)'
  <2> SUFFICES ASSUME cstate' = "write_data_s0_r" PROVE Current(q_r)'
    OBVIOUS
  <2>1. PICK w : w = q_r'
    OBVIOUS
  <2>2. w \in Word /\ Current(w)
    BY <2>1, SmoothComparer, SmoothBefore DEF SmoothCases, Judges, Waiting
  <2>3. Coming(w)
    BY <1>0, <2>2, CurrentIsComing
  <2>4. Current(w)'
    BY <2>3, StaysCurrent
  <2> QED
    BY <2>1, <2>4 DEF Current
<1>3. wren' => last_read'[wraddr'] = read_time' - 4
  BY SmoothWrites, SmoothReader, SmoothBefore
<1> QED
  BY <1>1, <1>2, <1>3, SmoothReader

\* So does any edge: an edge that is not smooth ends the claim.
LEMMA TickCurrent ==
  ASSUME Typed, NeverFull, ReadsOnTheWay, ReadsAreCurrent, Tick PROVE ReadsAreCurrent'
<1>1. in_rd' <=> rstate' = "start_read_s"
  BY ReaderHolds DEF Tick
<1>2. TableNo' = 0 => (cmp_rd' <=> cstate' = "write_data_s0")
  <2> SUFFICES ASSUME TableNo = 0 PROVE cmp_rd' <=> cstate' = "write_data_s0"
    BY DEF Tick
  <2>1. cmp_rd <=> cstate = "write_data_s0"
    BY DEF ReadsAreCurrent
  <2>2. PICK alf \in BOOLEAN : Comparer(alf)
    BY FpgaAssumption DEF Tick
  <2> QED
    BY <2>1, <2>2, GoesOn DEF Comparer, CompareIdle, CompareNow, CompareEarly, CompareLate, CompareWaited
<1>3. CASE smooth' /\ TableNo' = 0
  <2>1. SmoothTick
    BY <1>3 DEF SmoothTick, Tick
  <2> QED
    BY <1>1, <1>2, <2>1, SmoothStep DEF ReadsAreCurrent
<1>4. CASE ~(smooth' /\ TableNo' = 0)
  BY <1>1, <1>2, <1>4 DEF ReadsAreCurrent
<1> QED
  BY <1>3, <1>4

-----------------------------------------------------------------------------
(* The account *)

Worths(s, ip) == [i \in DOMAIN s |-> Worth(s[i], ip)]

\* A word is worth a number.
LEMMA HereIsNat ==
  ASSUME NEW w \in Word, NEW there, NEW ip
  PROVE  Here(w, there, ip) \in Nat /\ Worth(w, ip) \in Nat
  BY WordFields DEF Here, Worth

\* So are the words of a FIFO.
LEMMA WorthIsNat ==
  ASSUME NEW s \in Seq(Word), NEW ip
  PROVE  /\ DOMAIN s = 1 .. Len(s) /\ Len(s) \in Nat /\ IsFiniteSet(DOMAIN s)
         /\ \A i \in DOMAIN s : Worths(s, ip)[i] \in Nat /\ Worths(s, ip)[i] = Worth(s[i], ip)
         /\ WordsOf(s, ip) = SumFunctionOnSet(Worths(s, ip), DOMAIN s)
         /\ WordsOf(s, ip) \in Nat
<1>1. DOMAIN s = 1 .. Len(s) /\ Len(s) \in Nat
  OBVIOUS
<1>2. IsFiniteSet(DOMAIN s)
  BY <1>1, FS_Interval
<1>3. \A i \in DOMAIN s : Worths(s, ip)[i] \in Nat /\ Worths(s, ip)[i] = Worth(s[i], ip)
  BY HereIsNat, ElementOfSeq DEF Worths
<1>4. WordsOf(s, ip) = SumFunctionOnSet(Worths(s, ip), DOMAIN s)
  BY DEF WordsOf, Worths
<1> QED
  BY <1>1, <1>2, <1>3, <1>4, SumNat

\* A word more at the end.
LEMMA WordsPush ==
  ASSUME NEW s \in Seq(Word), NEW w \in Word, NEW ip, NEW t, t = Append(s, w)
  PROVE  WordsOf(t, ip) = WordsOf(s, ip) + Worth(w, ip)
<1>1. PICK n \in Nat : n = Len(s)
  OBVIOUS
<1>2. /\ t \in Seq(Word) /\ Len(t) = n + 1 /\ t[n + 1] = w
      /\ \A i \in 1 .. n : t[i] = s[i]
  BY <1>1, AppendProperties
<1>3. PICK f : f = Worths(t, ip)
  OBVIOUS
<1>4. PICK g : g = Worths(s, ip)
  OBVIOUS
<1>5. /\ WordsOf(t, ip) = SumFunctionOnSet(f, 1 .. n + 1)
      /\ \A i \in 1 .. n + 1 : f[i] \in Int /\ f[i] = Worth(t[i], ip)
      /\ WordsOf(s, ip) = SumFunctionOnSet(g, 1 .. n)
      /\ \A i \in 1 .. n : g[i] = Worth(s[i], ip)
  <2>1. /\ DOMAIN t = 1 .. n + 1 /\ WordsOf(t, ip) = SumFunctionOnSet(f, DOMAIN t)
        /\ \A i \in DOMAIN t : f[i] \in Nat /\ f[i] = Worth(t[i], ip)
    BY <1>1, <1>2, <1>3, <1>4, WorthIsNat
  <2>2. /\ DOMAIN s = 1 .. n /\ WordsOf(s, ip) = SumFunctionOnSet(g, DOMAIN s)
        /\ \A i \in DOMAIN s : g[i] \in Nat /\ g[i] = Worth(s[i], ip)
    BY <1>1, <1>2, <1>3, <1>4, WorthIsNat
  <2> QED
    BY <2>1, <2>2
<1>6. n + 1 \in 1 .. n + 1 /\ (1 .. n + 1) \ {n + 1} = 1 .. n
  OBVIOUS
<1>7. SumFunctionOnSet(f, 1 .. n + 1) = f[n + 1] + SumFunctionOnSet(f, 1 .. n)
  <2>1. IsFiniteSet(1 .. n + 1)
    BY FS_Interval
  <2>2. SumFunctionOnSet(f, 1 .. n + 1) = f[n + 1] + SumFunctionOnSet(f, (1 .. n + 1) \ {n + 1})
    BY <1>5, <1>6, <2>1, SumWithout
  <2> QED
    BY <1>6, <2>2
<1>8. SumFunctionOnSet(f, 1 .. n) = SumFunctionOnSet(g, 1 .. n)
  <2>1. \A i \in 1 .. n : f[i] = g[i]
    BY <1>2, <1>5
  <2>2. IsFiniteSet(1 .. n)
    BY FS_Interval
  <2> QED
    BY <2>1, <2>2, SumSame
<1>9. f[n + 1] = Worth(w, ip) /\ f[n + 1] \in Int /\ WordsOf(s, ip) \in Nat
  BY <1>2, <1>5, <1>6, WorthIsNat
<1> QED
  BY <1>5, <1>7, <1>8, <1>9

\* A word less at the front.
LEMMA WordsPop ==
  ASSUME NEW s \in Seq(Word), s # <<>>, NEW ip, NEW t, t = Tail(s)
  PROVE  WordsOf(t, ip) = WordsOf(s, ip) - Worth(s[1], ip)
<1>1. PICK n \in Nat : Len(s) = n + 1
  <2>1. Len(s) \in Nat /\ Len(s) # 0
    BY EmptySeq
  <2> QED
    BY <2>1
<1>2. /\ t \in Seq(Word) /\ Len(t) = n
      /\ \A i \in 1 .. n : t[i] = s[i + 1]
  BY <1>1, HeadTailProperties
<1>3. PICK f : f = Worths(s, ip)
  OBVIOUS
<1>4. PICK g : g = Worths(t, ip)
  OBVIOUS
<1>5. /\ WordsOf(s, ip) = SumFunctionOnSet(f, 1 .. n + 1)
      /\ \A i \in 1 .. n + 1 : f[i] \in Int /\ f[i] = Worth(s[i], ip)
      /\ WordsOf(t, ip) = SumFunctionOnSet(g, 1 .. n)
      /\ \A i \in 1 .. n : g[i] = Worth(t[i], ip)
  <2>1. /\ DOMAIN s = 1 .. n + 1 /\ WordsOf(s, ip) = SumFunctionOnSet(f, DOMAIN s)
        /\ \A i \in DOMAIN s : f[i] \in Nat /\ f[i] = Worth(s[i], ip)
    BY <1>1, <1>2, <1>3, <1>4, WorthIsNat
  <2>2. /\ DOMAIN t = 1 .. n /\ WordsOf(t, ip) = SumFunctionOnSet(g, DOMAIN t)
        /\ \A i \in DOMAIN t : g[i] \in Nat /\ g[i] = Worth(t[i], ip)
    BY <1>1, <1>2, <1>3, <1>4, WorthIsNat
  <2> QED
    BY <2>1, <2>2
<1>6. PICK rest : rest = (1 .. n + 1) \ {1}
  OBVIOUS
<1>7. SumFunctionOnSet(f, 1 .. n + 1) = f[1] + SumFunctionOnSet(f, rest)
  <2>1. PICK all : all = 1 .. n + 1
    OBVIOUS
  <2>2. IsFiniteSet(all) /\ 1 \in all /\ \A i \in all : f[i] \in Int
    BY <1>5, <2>1, FS_Interval
  <2>3. SumFunctionOnSet(f, all) = f[1] + SumFunctionOnSet(f, all \ {1})
    BY <2>2, SumWithout
  <2> QED
    BY <1>6, <2>1, <2>3
<1>8. SumFunctionOnSet(f, rest) = SumFunctionOnSet(g, 1 .. n)
  <2>1. PICK h : h = [i \in 1 .. n |-> i + 1]
    OBVIOUS
  <2>2. Names(f, rest, g, 1 .. n, h)
    <3>1. \A i \in 1 .. n : h[i] \in rest /\ g[i] = f[h[i]]
      BY <1>2, <1>5, <1>6, <2>1
    <3>2. \A j \in rest : j - 1 \in 1 .. n /\ h[j - 1] = j
      BY <1>6, <2>1
    <3>3. \A i, k \in 1 .. n : h[i] = h[k] => i = k
      BY <2>1
    <3> QED
      BY <3>1, <3>2, <3>3 DEF Names
  <2>3. IsFiniteSet(1 .. n) /\ \A j \in rest : f[j] \in Int
    BY <1>5, <1>6, FS_Interval
  <2> QED
    BY <2>2, <2>3, SumNames
<1>9. f[1] = Worth(s[1], ip) /\ f[1] \in Int /\ WordsOf(t, ip) \in Nat
  <2>1. 1 \in 1 .. n + 1
    OBVIOUS
  <2>2. WordsOf(t, ip) \in Nat
    BY <1>2, WorthIsNat
  <2> QED
    BY <1>5, <2>1, <2>2
<1> QED
  BY <1>5, <1>7, <1>8, <1>9

\* An edge at a FIFO with room.
LEMMA WordsEdge ==
  ASSUME NEW s \in Seq(Word), Len(s) < Depth, NEW rd \in BOOLEAN, NEW wr \in BOOLEAN,
         NEW w \in Word, NEW ip, NEW t, t = Edge(s, rd, wr, w)
  PROVE  /\ WordsOf(s, ip) \in Nat /\ WordsOf(t, ip) \in Nat
         /\ WordsOf(t, ip) = WordsOf(s, ip) + Here(w, wr, ip)
                             - (IF rd /\ s # <<>> THEN Worth(s[1], ip) ELSE 0)
<1>1. PICK rest : rest = IF rd /\ s # <<>> THEN Tail(s) ELSE s
  OBVIOUS
<1>2. PICK a \in Int : a = IF rd /\ s # <<>> THEN Worth(s[1], ip) ELSE 0
  <2>1. s # <<>> => s[1] \in Word
    BY ElementOfSeq
  <2> QED
    BY <2>1, HereIsNat
<1>3. /\ rest \in Seq(Word) /\ WordsOf(s, ip) \in Nat /\ WordsOf(rest, ip) \in Nat
      /\ WordsOf(rest, ip) = WordsOf(s, ip) - a
  <2>1. CASE rd /\ s # <<>>
    BY <1>1, <1>2, <2>1, WordsPop, WorthIsNat, HeadTailProperties
  <2>2. CASE ~(rd /\ s # <<>>)
    BY <1>1, <1>2, <2>2, WorthIsNat
  <2> QED
    BY <2>1, <2>2
<1>4. t \in Seq(Word) /\ WordsOf(t, ip) \in Nat
  BY EdgeMoves, WorthIsNat
<1>5. WordsOf(t, ip) = WordsOf(rest, ip) + Here(w, wr, ip)
  <2>1. CASE wr
    <3>1. t = Append(rest, w)
      BY <1>1, <1>3, <2>1, AppendIsConcat DEF Edge
    <3>2. Here(w, wr, ip) = Worth(w, ip)
      BY <2>1 DEF Here
    <3>3. WordsOf(t, ip) = WordsOf(rest, ip) + Worth(w, ip)
      BY <1>3, <3>1, WordsPush
    <3> QED
      BY <3>2, <3>3
  <2>2. CASE ~wr
    <3>1. t = rest /\ Here(w, wr, ip) = 0
      BY <1>1, <1>3, <2>2, ConcatEmptySeq DEF Edge, Here
    <3> QED
      BY <1>3, <3>1
  <2> QED
    BY <2>1, <2>2
<1>6. Here(w, wr, ip) \in Nat
  BY HereIsNat
<1> QED
  BY <1>2, <1>3, <1>4, <1>5, <1>6

\* The buckets are finitely many, as the addresses are.
LEMMA BucketsFinite == IsFiniteSet(Buckets)
<1>1. IsFiniteSet(Addresses)
  BY FpgaAssumption, FS_AddElement DEF Addresses
<1>2. PICK f : f = [ip \in Addresses |-> AddrOf[ip]]
  OBVIOUS
<1>3. f \in Surjection(Addresses, Buckets)
  BY <1>2 DEF Surjection, Buckets, Addresses
<1> QED
  BY <1>1, <1>3, FS_Surjection

\* A bucket holds a number,
LEMMA HoldsIsNat ==
  ASSUME NEW bucket \in Bucket, NEW ip PROVE Holds(bucket, ip) \in Nat
  BY DEF Holds, Bucket

\* and so does the RAM.
LEMMA RamIsNat == ASSUME Typed, NEW ip PROVE RamOf(ip) \in Nat
<1>1. PICK f : f = [b \in Buckets |-> Holds(Now[b], ip)]
  OBVIOUS
<1>2. \A b \in Buckets : f[b] \in Nat
  BY <1>1, NowIsRam, HoldsIsNat
<1>3. RamOf(ip) = SumFunctionOnSet(f, Buckets)
  BY <1>1 DEF RamOf
<1> QED
  BY <1>2, <1>3, BucketsFinite, SumNat

\* One bucket of the RAM changes.
LEMMA RamChanges ==
  ASSUME Typed, NEW ip, NEW b \in Buckets, NEW v \in Bucket, Now' = [Now EXCEPT ![b] = v]
  PROVE  RamOf(ip)' = RamOf(ip) - Holds(Now[b], ip) + Holds(v, ip)
<1>1. PICK f : f = [c \in Buckets |-> Holds(Now[c], ip)]
  OBVIOUS
<1>2. PICK g : g = [c \in Buckets |-> Holds(Now'[c], ip)]
  OBVIOUS
<1>3. Now \in [Buckets -> Bucket]
  BY NowIsRam
<1>4. /\ \A c \in Buckets : f[c] \in Int /\ g[c] \in Int
      /\ \A c \in Buckets \ {b} : g[c] = f[c]
      /\ f[b] = Holds(Now[b], ip) /\ g[b] = Holds(v, ip)
  <2>1. \A c \in Buckets : Now[c] \in Bucket /\ Now'[c] = IF c = b THEN v ELSE Now[c]
    BY <1>3
  <2>2. \A c \in Buckets : Holds(Now[c], ip) \in Nat /\ Holds(Now'[c], ip) \in Nat
    BY <2>1, HoldsIsNat
  <2> QED
    BY <1>1, <1>2, <2>1, <2>2
<1>5. SumFunctionOnSet(g, Buckets) = SumFunctionOnSet(f, Buckets) - f[b] + g[b]
  <2>1. PICK d \in Int : d = g[b] - f[b]
    BY <1>4
  <2>2. Raised(f, g, Buckets, b, d)
    BY <1>4, <2>1 DEF Raised
  <2>3. /\ SumFunctionOnSet(f, Buckets) \in Int
        /\ SumFunctionOnSet(g, Buckets) = SumFunctionOnSet(f, Buckets) + d
    BY <2>2, BucketsFinite, SumRaise
  <2> QED
    BY <1>4, <2>1, <2>3
<1>6. RamOf(ip) = SumFunctionOnSet(f, Buckets)
  BY <1>1 DEF RamOf
<1>7. RamOf(ip)' = SumFunctionOnSet(g, Buckets)
  BY <1>2 DEF RamOf
<1> QED
  BY <1>4, <1>5, <1>6, <1>7

\* A word judged is recorded or sent on, and so is the one it displaces.
LEMMA JudgeAccounts ==
  ASSUME SmoothTick, NEW w \in Word, Judges(w), NEW ip \in Addresses
  PROVE  /\ RamOf(ip)' \in Int /\ sent'[ip] \in Int
         /\ RamOf(ip)' + sent'[ip] = RamOf(ip) + sent[ip] + Worth(w, ip)
<1>1. /\ Typed /\ rdvalue \in Bucket /\ sent \in [Addresses -> Nat]
  BY DEF SmoothTick, Typed
<1>2. w.ip \in Addresses /\ ValueOf(w) \in Nat
  BY WordFields
<1>3. rdvalue.ip \in Addresses /\ rdvalue.val \in Nat /\ rdvalue.votes \in Nat
  BY <1>1 DEF Bucket, Addresses
<1>4. /\ rdvalue = Now[AddrOf[w.ip]] /\ AddrOf[w.ip] \in Buckets
      /\ Now' = [Now EXCEPT ![AddrOf[w.ip]] = wrvalue']
  BY SmoothJudge DEF Judges
<1>5. PICK v : v = wrvalue'
  OBVIOUS
<1>6. v \in Bucket
  BY <1>1, <1>5, JudgeTypes DEF Judges, Output
<1>7. PICK b \in Buckets : b = AddrOf[w.ip]
  BY <1>4
<1>8. Now' = [Now EXCEPT ![b] = v] /\ rdvalue = Now[b]
  BY <1>4, <1>5, <1>7
<1>9. RamOf(ip)' = RamOf(ip) - Holds(rdvalue, ip) + Holds(v, ip)
  BY <1>1, <1>6, <1>8, RamChanges
<1>10. RamOf(ip) \in Nat /\ Holds(rdvalue, ip) \in Nat /\ Holds(v, ip) \in Nat /\ sent[ip] \in Nat
       /\ Worth(w, ip) \in Nat
  BY <1>1, <1>6, RamIsNat, HoldsIsNat, HereIsNat
<1>11. Holds(v, ip) + sent'[ip] = Holds(rdvalue, ip) + sent[ip] + Worth(w, ip)
  <2>1. CASE Record(w)
    <3>1. v.ip = w.ip /\ v.val = rdvalue.val + ValueOf(w)
      BY <1>1, <1>5, <2>1 DEF Record, Write, Bucket
    <3>2. rdvalue.ip = w.ip \/ rdvalue.val = 0
      BY <2>1 DEF Record, EmptyBucket
    <3>3. sent' = sent
      BY <2>1, Quiet, SmoothBefore DEF Record, SmoothTick
    <3> QED
      BY <1>1, <1>2, <1>3, <3>1, <3>2, <3>3 DEF Holds, Worth
  <2>2. CASE Displace(w)
    <3>1. v.ip = w.ip /\ v.val = ValueOf(w)
      BY <1>5, <2>2 DEF Displace, Write
    <3>2. sent' = [sent EXCEPT ![rdvalue.ip] = @ + rdvalue.val]
      BY <2>2 DEF Displace, Send
    <3> QED
      BY <1>1, <1>2, <1>3, <3>1, <3>2 DEF Holds, Worth
  <2>3. CASE Refuse(w)
    <3>1. v.ip = rdvalue.ip /\ v.val = rdvalue.val
      BY <1>1, <1>5, <2>3 DEF Refuse, Write, Bucket
    <3>2. sent' = [sent EXCEPT ![w.ip] = @ + ValueOf(w)]
      BY <2>3 DEF Refuse, Send
    <3> QED
      BY <1>1, <1>2, <1>3, <3>1, <3>2 DEF Holds, Worth
  <2> QED
    BY <2>1, <2>2, <2>3 DEF Judges, Judge
<1>12. sent'[ip] \in Int
  <2>1. sent' \in [Addresses -> Nat]
    BY <1>1, JudgeTypes DEF Judges, Output
  <2> QED
    BY <2>1
<1> QED
  BY <1>9, <1>10, <1>11, <1>12

Beyond(ip) == Here(q_r, cstate = "write_data_s0_r", ip) + RamOf(ip) + sent[ip]

\* What a register that is in use is worth, and one that is not.
LEMMA HereThere ==
  ASSUME NEW w, NEW ip, NEW b
  PROVE  /\ b => Here(w, b, ip) = Worth(w, ip)
         /\ ~b => Here(w, b, ip) = 0
  BY DEF Here

\* Without a write the RAM stays.
LEMMA RamStays ==
  ASSUME SmoothTick, ~wren', NEW ip PROVE RamOf(ip)' = RamOf(ip)
  BY SmoothNow DEF RamOf

\* A word that leaves the second FIFO is in the comparer, in the RAM or sent.
LEMMA CompareAccounts ==
  ASSUME SmoothTick, NEW ip \in Addresses
  PROVE  /\ Beyond(ip) \in Nat
         /\ Beyond(ip)' = Beyond(ip) + (IF cmp_rd /\ cmp_fifo # <<>>
                                        THEN Worth(cmp_fifo[1], ip) ELSE 0)
<1>1. /\ Typed /\ sent \in [Addresses -> Nat] /\ q_r \in Word /\ TableNo = 0 /\ TableNo' = 0
      /\ cmp_rd <=> cstate = "write_data_s0"
  BY SmoothBefore DEF SmoothTick, Typed, ReadsAreCurrent
<1>2. /\ sent[ip] \in Nat /\ RamOf(ip) \in Nat
      /\ Here(q_r, cstate = "write_data_s0_r", ip) \in Nat /\ Worth(q_r, ip) \in Nat
  BY <1>1, RamIsNat, HereIsNat
<1>3. PICK kept : kept = Here(q_r, cstate = "write_data_s0_r", ip)
  OBVIOUS
<1>4. PICK keeps : keeps = Here(q_r, cstate = "write_data_s0_r", ip)'
  OBVIOUS
<1>5. /\ cstate = "write_data_s0_r" => kept = Worth(q_r, ip)
      /\ cstate # "write_data_s0_r" => kept = 0
  BY <1>3 DEF Here
<1>6. /\ cstate' = "write_data_s0_r" => keeps = Worth(q_r', ip)
      /\ cstate' # "write_data_s0_r" => keeps = 0
  BY <1>1, <1>4 DEF Here, Worth, ValueOf
<1>7. PICK taken : taken = IF cmp_rd /\ cmp_fifo # <<>> THEN Worth(cmp_fifo[1], ip) ELSE 0
  OBVIOUS
<1>8. keeps + RamOf(ip)' + sent'[ip] = kept + RamOf(ip) + sent[ip] + taken
  <2>1. ASSUME NEW w, Taken(w)
        PROVE  taken = Worth(w, ip) /\ kept = 0
    BY <1>1, <1>5, <1>7, <2>1 DEF Taken
  <2>2. ASSUME NEW w, Waiting(w)
        PROVE  taken = 0 /\ kept = Worth(w, ip)
    BY <1>1, <1>5, <1>7, <2>2 DEF Waiting
  <2>3. CASE cstate = "idle_s" /\ cstate' # "write_data_s0_r" /\ ~wren' /\ sent' = sent
    BY <1>1, <1>2, <1>5, <1>6, <1>7, <2>3, RamStays
  <2>4. CASE \E w \in Word : Judges(w) /\ (Taken(w) \/ Waiting(w))
    <3>1. PICK w \in Word : Judges(w) /\ (Taken(w) \/ Waiting(w))
      BY <2>4
    <3>2. RamOf(ip)' + sent'[ip] = RamOf(ip) + sent[ip] + Worth(w, ip) /\ keeps = 0
      BY <1>6, <3>1, JudgeAccounts DEF Judges
    <3>3. taken + kept = Worth(w, ip) /\ Worth(w, ip) \in Nat /\ taken \in Nat /\ kept \in Nat
      <4>1. Worth(w, ip) \in Nat
        BY HereIsNat
      <4> QED
        BY <2>1, <2>2, <3>1, <4>1
    <3>4. RamOf(ip)' \in Int /\ sent'[ip] \in Int
      BY <3>1, JudgeAccounts
    <3> QED
      BY <1>2, <3>2, <3>3, <3>4
  <2>5. CASE \E w \in Word : /\ Taken(w) /\ Current(w) /\ cstate' = "write_data_s0_r" /\ q_r' = w
                           /\ ~wren' /\ sent' = sent
    <3>1. PICK w \in Word : Taken(w) /\ cstate' = "write_data_s0_r" /\ q_r' = w
      BY <2>5
    <3>2. taken = Worth(w, ip) /\ kept = 0 /\ keeps = Worth(w, ip) /\ Worth(w, ip) \in Nat
      BY <1>6, <2>1, <3>1, HereIsNat
    <3>3. RamOf(ip)' = RamOf(ip) /\ sent' = sent
      BY <2>5, RamStays
    <3> QED
      BY <1>2, <3>2, <3>3
  <2>6. CASE \E w \in Word : /\ Taken(w) /\ cstate' # "write_data_s0_r"
                           /\ ~wren' /\ Send(w.ip, ValueOf(w))
    <3>1. PICK w \in Word : /\ Taken(w) /\ cstate' # "write_data_s0_r"
                            /\ ~wren' /\ Send(w.ip, ValueOf(w))
      BY <2>6
    <3>2. w.ip \in Addresses /\ ValueOf(w) \in Nat
      BY WordFields
    <3>3. sent'[ip] = sent[ip] + Worth(w, ip)
      BY <1>1, <3>1, <3>2 DEF Send, Worth
    <3>4. taken = Worth(w, ip) /\ kept = 0 /\ keeps = 0 /\ RamOf(ip)' = RamOf(ip)
      BY <1>6, <2>1, <3>1, RamStays
    <3>5. Worth(w, ip) \in Nat
      BY HereIsNat
    <3> QED
      BY <1>2, <3>3, <3>4, <3>5
  <2>7. CASE /\ Waiting(q_r) /\ Current(q_r) /\ cstate' = "write_data_s0_r" /\ q_r' = q_r
             /\ ~wren' /\ sent' = sent
    BY <1>1, <1>2, <1>6, <2>2, <2>7, RamStays
  <2> QED
    BY <2>3, <2>4, <2>5, <2>6, <2>7, SmoothComparer DEF SmoothCases
<1>9. Beyond(ip) = kept + RamOf(ip) + sent[ip] /\ Beyond(ip) \in Nat
  BY <1>2, <1>3 DEF Beyond
<1>10. Beyond(ip)' = keeps + RamOf(ip)' + sent'[ip]
  BY <1>4 DEF Beyond
<1> QED
  BY <1>7, <1>8, <1>9, <1>10

\* What comes in goes into the first FIFO, what leaves it into the register.
LEMMA ArrivalAccounts ==
  ASSUME SmoothTick, NEW ip \in Addresses
  PROVE  \E d \in Nat :
           /\ received'[ip] = received[ip] + d /\ received[ip] \in Nat
           /\ WordsOf(in_fifo, ip) \in Nat
           /\ WordsOf(in_fifo', ip) = WordsOf(in_fifo, ip) + d
                - (IF in_rd /\ in_fifo # <<>> THEN Worth(in_fifo[1], ip) ELSE 0)
<1>1. /\ in_fifo \in Seq(Word) /\ Len(in_fifo) < Depth /\ in_rd \in BOOLEAN /\ TableNo = 0
      /\ coming \in Seq(Addresses) /\ received \in [Addresses -> Nat]
  BY DEF SmoothTick, Typed, NeverFull
<1>2. CASE Arrives
  <2>1. /\ Head(coming) \in Addresses
        /\ in_fifo' = Edge(in_fifo, in_rd, TRUE, [NoWord EXCEPT !.ip = Head(coming), !.val = 1])
        /\ received' = [received EXCEPT ![Head(coming)] = @ + 1]
    BY <1>1, <1>2, HeadTailProperties DEF Arrives, Sends
  <2>2. PICK w : w = [NoWord EXCEPT !.ip = Head(coming), !.val = 1]
    OBVIOUS
  <2>3. w \in Word /\ w.ip = Head(coming)
    BY <2>1, <2>2, Zeros DEF Word
  <2>4. PICK yes \in BOOLEAN : yes = TRUE
    OBVIOUS
  <2>5. in_fifo' = Edge(in_fifo, in_rd, yes, w)
    BY <2>1, <2>2, <2>4
  <2>6. /\ WordsOf(in_fifo, ip) \in Nat
        /\ WordsOf(in_fifo', ip) = WordsOf(in_fifo, ip) + Here(w, yes, ip)
             - (IF in_rd /\ in_fifo # <<>> THEN Worth(in_fifo[1], ip) ELSE 0)
    BY <1>1, <2>3, <2>5, WordsEdge
  <2>7. Here(w, yes, ip) = Worth(w, ip) /\ Worth(w, ip) \in Nat
    BY <2>3, <2>4, HereThere, HereIsNat
  <2>8. received'[ip] = received[ip] + Worth(w, ip) /\ received[ip] \in Nat
    BY <1>1, <2>1, <2>3 DEF Worth, ValueOf
  <2> QED
    BY <2>6, <2>7, <2>8
<1>3. CASE Silence
  <2>1. in_fifo' = Edge(in_fifo, in_rd, FALSE, NoWord) /\ received' = received
    BY <1>3 DEF Silence
  <2>2. PICK no \in BOOLEAN : no = FALSE
    OBVIOUS
  <2>3. in_fifo' = Edge(in_fifo, in_rd, no, NoWord)
    BY <2>1, <2>2
  <2>4. /\ WordsOf(in_fifo, ip) \in Nat
        /\ WordsOf(in_fifo', ip) = WordsOf(in_fifo, ip) + Here(NoWord, no, ip)
             - (IF in_rd /\ in_fifo # <<>> THEN Worth(in_fifo[1], ip) ELSE 0)
    BY <1>1, <2>3, Zeros, WordsEdge
  <2>5. Here(NoWord, no, ip) = 0
    BY <2>2, HereThere
  <2>6. received'[ip] = received[ip] + 0 /\ received[ip] \in Nat
    BY <1>1, <2>1
  <2> QED
    BY <2>4, <2>5, <2>6
<1> QED
  BY <1>2, <1>3 DEF SmoothTick, Tick

\* The word that left the first FIFO is in the register.
LEMMA ReaderAccounts ==
  ASSUME SmoothTick, NEW ip \in Addresses
  PROVE  Here(out, out_wr, ip)' =
           IF in_rd /\ in_fifo # <<>> THEN Worth(in_fifo[1], ip) ELSE 0
<1>1. /\ TableNo = 0 /\ TableNo' = 0
      /\ out_wr' <=> rstate = "start_read_s"
      /\ in_rd <=> rstate = "start_read_s"
  BY ReaderHolds, SmoothBefore DEF SmoothTick, Tick, ReadsAreCurrent
<1>2. rstate = "start_read_s" => in_fifo # <<>> /\ out'.ip = in_fifo[1].ip
  BY SmoothReader
<1>3. Here(out, out_wr, ip)' = IF out_wr' THEN Worth(out', ip) ELSE 0
  BY <1>1 DEF Here, Worth, ValueOf
<1>4. rstate = "start_read_s" => Worth(out', ip) = Worth(in_fifo[1], ip)
  BY <1>1, <1>2 DEF Worth, ValueOf
<1> QED
  BY <1>1, <1>2, <1>3, <1>4

\* The account with what lies beyond the second FIFO as one number.
LEMMA AccountedBeyond ==
  ASSUME Typed, NEW ip \in Addresses, WordsOf(in_fifo, ip) \in Nat,
         Here(out, out_wr, ip) \in Nat, WordsOf(cmp_fifo, ip) \in Nat
  PROVE  Accounted(ip) <=>
           received[ip] = WordsOf(in_fifo, ip) + Here(out, out_wr, ip) + WordsOf(cmp_fifo, ip)
                          + Beyond(ip)
<1>1. PICK a \in Nat, b \in Nat, c \in Nat :
             /\ a = WordsOf(in_fifo, ip) /\ b = Here(out, out_wr, ip) /\ c = WordsOf(cmp_fifo, ip)
  OBVIOUS
<1>2. PICK k \in Nat, r \in Nat, z \in Nat :
             /\ k = Here(q_r, cstate = "write_data_s0_r", ip) /\ r = RamOf(ip) /\ z = sent[ip]
  <2>1. q_r \in Word /\ sent[ip] \in Nat
    BY DEF Typed
  <2> QED
    BY <2>1, HereIsNat, RamIsNat
<1>3. Accounted(ip) <=> received[ip] = a + b + c + k + r + z
  BY <1>1, <1>2 DEF Accounted
<1>4. Beyond(ip) = k + r + z
  BY <1>2 DEF Beyond
<1> QED
  BY <1>1, <1>3, <1>4

\* The same after the edge.
LEMMA AccountedNext ==
  (Typed => \A ip \in Addresses :
     /\ WordsOf(in_fifo, ip) \in Nat /\ Here(out, out_wr, ip) \in Nat
     /\ WordsOf(cmp_fifo, ip) \in Nat
     => (Accounted(ip) <=>
           received[ip] = WordsOf(in_fifo, ip) + Here(out, out_wr, ip) + WordsOf(cmp_fifo, ip)
                          + Beyond(ip)))'
<1>1. Typed => \A ip \in Addresses :
        /\ WordsOf(in_fifo, ip) \in Nat /\ Here(out, out_wr, ip) \in Nat
        /\ WordsOf(cmp_fifo, ip) \in Nat
        => (Accounted(ip) <=>
              received[ip] = WordsOf(in_fifo, ip) + Here(out, out_wr, ip) + WordsOf(cmp_fifo, ip)
                             + Beyond(ip))
  BY AccountedBeyond
<1> QED
  BY <1>1, PTL

\* A smooth edge keeps the account of an address.
LEMMA TickAccounts ==
  ASSUME SmoothTick, NEW ip \in Addresses, Accounted(ip) PROVE Accounted(ip)'
<1>1. PICK d \in Nat :
           /\ received'[ip] = received[ip] + d /\ received[ip] \in Nat
           /\ WordsOf(in_fifo, ip) \in Nat
           /\ WordsOf(in_fifo', ip) = WordsOf(in_fifo, ip) + d
                - (IF in_rd /\ in_fifo # <<>> THEN Worth(in_fifo[1], ip) ELSE 0)
  BY ArrivalAccounts
<1>2. /\ in_fifo \in Seq(Word) /\ cmp_fifo \in Seq(Word) /\ out \in Word /\ Len(cmp_fifo) < Depth
      /\ cmp_rd \in BOOLEAN /\ out_wr \in BOOLEAN
      /\ cmp_fifo' = Edge(cmp_fifo, cmp_rd, out_wr, out) /\ TableNo = 0 /\ TableNo' = 0
  BY SmoothBefore DEF SmoothTick, Typed, NeverFull, Tick
<1>3. PICK moved \in Nat : moved = IF in_rd /\ in_fifo # <<>> THEN Worth(in_fifo[1], ip) ELSE 0
  <2>1. in_fifo # <<>> => in_fifo[1] \in Word
    BY <1>2
  <2> QED
    BY <2>1, HereIsNat
<1>4. PICK taken \in Nat : taken = IF cmp_rd /\ cmp_fifo # <<>> THEN Worth(cmp_fifo[1], ip) ELSE 0
  <2>1. cmp_fifo # <<>> => cmp_fifo[1] \in Word
    BY <1>2
  <2> QED
    BY <2>1, HereIsNat
<1>5. Here(out, out_wr, ip)' = moved
  BY <1>3, ReaderAccounts
<1>6. /\ WordsOf(cmp_fifo, ip) \in Nat /\ Here(out, out_wr, ip) \in Nat
      /\ WordsOf(cmp_fifo', ip) = WordsOf(cmp_fifo, ip) + Here(out, out_wr, ip) - taken
  BY <1>2, <1>4, WordsEdge, HereIsNat
<1>7. Beyond(ip) \in Nat /\ Beyond(ip)' = Beyond(ip) + taken
  BY <1>4, CompareAccounts
<1>8. /\ WordsOf(in_fifo, ip)' = WordsOf(in_fifo', ip)
      /\ WordsOf(cmp_fifo, ip)' = WordsOf(cmp_fifo', ip)
  BY <1>2 DEF WordsOf, Worth, ValueOf
<1>9. received[ip] = WordsOf(in_fifo, ip) + Here(out, out_wr, ip) + WordsOf(cmp_fifo, ip) + Beyond(ip)
  BY <1>1, <1>6, AccountedBeyond DEF SmoothTick
<1>10. received'[ip] = WordsOf(in_fifo, ip)' + Here(out, out_wr, ip)' + WordsOf(cmp_fifo, ip)'
                       + Beyond(ip)'
  <2>1. PICK a \in Nat, b \in Nat, c \in Nat, e \in Nat :
               /\ a = WordsOf(in_fifo, ip) /\ b = Here(out, out_wr, ip)
               /\ c = WordsOf(cmp_fifo, ip) /\ e = Beyond(ip)
    BY <1>1, <1>6, <1>7
  <2>2. /\ received[ip] = a + b + c + e
        /\ WordsOf(in_fifo, ip)' = a + d - moved /\ Here(out, out_wr, ip)' = moved
        /\ WordsOf(cmp_fifo, ip)' = c + b - taken /\ Beyond(ip)' = e + taken
    BY <1>1, <1>3, <1>5, <1>6, <1>7, <1>8, <1>9, <2>1
  <2>3. received'[ip] = a + b + c + e + d
    BY <1>1, <2>2
  <2> QED
    BY <2>2, <2>3
<1> QED
  <2>1. /\ Typed' /\ WordsOf(in_fifo, ip)' \in Nat /\ Here(out, out_wr, ip)' \in Nat
        /\ WordsOf(cmp_fifo, ip)' \in Nat
    <3>1. Typed'
      <4>1. (FpgaTypes => Typed)'
        BY TypesTyped, PTL
      <4> QED
        BY <4>1, TickTypes, TypesTyped DEF SmoothTick
    <3>2. in_fifo' \in Seq(Word) /\ cmp_fifo' \in Seq(Word)
      BY <3>1 DEF Typed
    <3>3. WordsOf(in_fifo', ip) \in Nat /\ WordsOf(cmp_fifo', ip) \in Nat
      BY <3>2, WorthIsNat
    <3> QED
      BY <1>5, <1>8, <3>1, <3>3
  <2>2. Accounted(ip)' <=> received'[ip] = WordsOf(in_fifo, ip)' + Here(out, out_wr, ip)'
                                          + WordsOf(cmp_fifo, ip)' + Beyond(ip)'
    BY <2>1, AccountedNext
  <2> QED
    BY <1>10, <2>1, <2>2
-----------------------------------------------------------------------------
(* The invariant *)

\* Before the first edge nothing is anywhere.
LEMMA InitAccounts == ASSUME Init, NEW ip \in Addresses PROVE Accounted(ip)
<1>1. PICK none : none = <<>>
  OBVIOUS
<1>2. WordsOf(none, ip) = 0
  <2>1. DOMAIN none = {}
    BY <1>1
  <2> QED
    BY <2>1, SumEmpty DEF WordsOf
<1>3. in_fifo = none /\ cmp_fifo = none
  BY <1>1 DEF Init
<1>4. Here(out, out_wr, ip) = 0 /\ Here(q_r, cstate = "write_data_s0_r", ip) = 0
  BY DEF Init, Here
<1>5. RamOf(ip) = 0
  <2>1. PICK f : f = [b \in Buckets |-> Holds(Now[b], ip)]
    OBVIOUS
  <2>2. \A b \in Buckets : f[b] = 0
    BY <2>1 DEF Init, Now, Holds, EmptyBucket
  <2>3. SumFunctionOnSet(f, Buckets) = 0
    BY <2>2, BucketsFinite, SumZero
  <2> QED
    BY <2>1, <2>3 DEF RamOf
<1>6. received[ip] = 0 /\ sent[ip] = 0
  BY DEF Init, Addresses
<1> QED
  BY <1>2, <1>3, <1>4, <1>5, <1>6 DEF Accounted

\* The invariant holds after the reset,
LEMMA InitFpga == ASSUME Init PROVE FpgaInvariant
<1>1. FpgaTypes
  <2>1. Typed
    <3>1. read_time \in Nat /\ TableNo \in 0 .. 3 /\ coming \in Seq(Addresses)
      BY FpgaAssumption DEF Init, Addresses
    <3>2. /\ ram \in [Buckets -> Bucket] /\ last_read \in [Buckets -> Int]
          /\ received \in [Addresses -> Nat] /\ sent \in [Addresses -> Nat]
      BY Zeros DEF Init, Never
    <3>3. alf_seen \in BOOLEAN \X BOOLEAN
      BY DEF Init
    <3>4. /\ in_fifo \in Seq(Word) /\ cmp_fifo \in Seq(Word)
          /\ in_last \in Word /\ cmp_last \in Word /\ out \in Word /\ q_r \in Word
          /\ value_out \in Word
      BY Zeros DEF Init
    <3>5. /\ rdaddr \in Buckets /\ wraddr \in Buckets
          /\ ram_core \in Bucket /\ rdvalue \in Bucket /\ wrvalue \in Bucket
          /\ tag \in Int /\ core_tag \in Int /\ rd_tag \in Int
      BY Zeros DEF Init, Never
    <3>6. /\ in_rd \in BOOLEAN /\ rden \in BOOLEAN /\ out_wr \in BOOLEAN /\ cmp_rd \in BOOLEAN
          /\ wren \in BOOLEAN /\ value_out_wr \in BOOLEAN /\ smooth \in BOOLEAN
          /\ rstate \in {"idle_s", "start_read_s"}
          /\ cstate \in {"idle_s", "write_data_s0", "write_data_s0_r"}
      BY DEF Init
    <3> QED
      BY <3>1, <3>2, <3>3, <3>4, <3>5, <3>6 DEF Typed
  <2> QED
    BY <2>1, TypesTyped
<1>2. Room
  <2>1. Len(in_fifo) = 0 /\ Len(cmp_fifo) = 0 /\ One(out_wr) = 0 /\ One(rstate = "start_read_s") = 0
    BY DEF Init, One
  <2> QED
    BY <2>1, HalfFits DEF Room
<1>3. ReadsOnTheWay
  <2>1. Awaits(cmp_last)
    BY Zeros DEF Init, Awaits
  <2> QED
    BY <2>1 DEF Init, ReadsOnTheWay
<1>4. ReadsAreCurrent
  BY DEF Init, ReadsAreCurrent
<1>5. SmoothIsExact
  BY InitAccounts DEF SmoothIsExact, Addresses
<1> QED
  BY <1>1, <1>2, <1>3, <1>4, <1>5 DEF FpgaInvariant

\* at every edge,
LEMMA TickInvariant == ASSUME FpgaInvariant, Tick PROVE FpgaInvariant'
<1>1. /\ Typed /\ NeverFull /\ FpgaTypes /\ Room /\ ReadsOnTheWay /\ ReadsAreCurrent
      /\ SmoothIsExact
  BY TypesTyped, RoomIsEnough DEF FpgaInvariant
<1>2. FpgaTypes'
  BY <1>1, TickTypes
<1>3. Room'
  BY <1>1, TickRoomIn, TickRoomOut DEF Room
<1>4. ReadsOnTheWay'
  BY <1>1, TickReads
<1>5. ReadsAreCurrent'
  BY <1>1, TickCurrent
<1>6. SmoothIsExact'
  <2> SUFFICES ASSUME smooth', TableNo' = 0, NEW ip \in Addresses PROVE Accounted(ip)'
    BY DEF SmoothIsExact, Addresses
  <2>1. SmoothTick /\ smooth /\ TableNo = 0
    BY <1>1 DEF SmoothTick, Tick
  <2>2. Accounted(ip)
    BY <1>1, <2>1 DEF SmoothIsExact, Addresses
  <2> QED
    BY <2>1, <2>2, TickAccounts
<1> QED
  BY <1>2, <1>3, <1>4, <1>5, <1>6 DEF FpgaInvariant

\* and when nothing happens.
LEMMA StutterInvariant == ASSUME FpgaInvariant, UNCHANGED vars PROVE FpgaInvariant'
<1> USE DEF vars, reader, comparer
<1>1. FpgaTypes'
  BY DEF FpgaInvariant, FpgaTypes, TypeOK
<1>2. Room'
  BY DEF FpgaInvariant, Room
<1>3. ReadsOnTheWay'
  BY DEF FpgaInvariant, ReadsOnTheWay, Awaits
<1>4. ReadsAreCurrent'
  BY DEF FpgaInvariant, ReadsAreCurrent, Current, Now, Written
<1>5. SmoothIsExact'
  <2>1. Now' = Now
    BY DEF Now, Written
  <2>2. ASSUME NEW ip \in Addresses PROVE Accounted(ip)' <=> Accounted(ip)
    <3>1. RamOf(ip)' = RamOf(ip)
      BY <2>1 DEF RamOf
    <3>2. /\ WordsOf(in_fifo, ip)' = WordsOf(in_fifo, ip)
          /\ WordsOf(cmp_fifo, ip)' = WordsOf(cmp_fifo, ip)
      BY DEF WordsOf, Worth, ValueOf
    <3>3. /\ Here(out, out_wr, ip)' = Here(out, out_wr, ip)
          /\ Here(q_r, cstate = "write_data_s0_r", ip)' = Here(q_r, cstate = "write_data_s0_r", ip)
      BY DEF Here, Worth, ValueOf
    <3>4. received'[ip] = received[ip] /\ sent'[ip] = sent[ip]
      OBVIOUS
    <3> QED
      BY <3>1, <3>2, <3>3, <3>4 DEF Accounted
  <2> QED
    BY <2>2 DEF FpgaInvariant, SmoothIsExact, Addresses
<1> QED
  BY <1>1, <1>2, <1>3, <1>4, <1>5 DEF FpgaInvariant

\* The invariant of the table holds at every clock edge.
THEOREM FpgaInvariantHolds == Spec => []FpgaInvariant
<1>1. Init => FpgaInvariant
  BY InitFpga
<1>2. FpgaInvariant /\ [Next]_vars => FpgaInvariant'
  BY TickInvariant, StutterInvariant DEF Next
<1> QED
  BY <1>1, <1>2, PTL DEF Spec

\* heavy_part_table_read, heavy_part_table_compare: the almost-full signals,
\* given at half the depth, leave room for every word that is on its way then.
THEOREM TableIsSound == Spec => []TableSound
<1>1. FpgaInvariant => TableSound
  BY RoomIsEnough DEF FpgaInvariant, FpgaTypes, TableSound
<1> QED
  BY <1>1, FpgaInvariantHolds, PTL

\* heavy_part_table_compare: the comparison of the read's time with the
\* counter finds the very edge at which the RAM shows the value of that read.
THEOREM ReadsAreJudged == Spec => []JudgedByItsRead
<1>1. FpgaInvariant => JudgedByItsRead
  BY TypesTyped, ReadsJudge DEF FpgaInvariant
<1> QED
  BY <1>1, FpgaInvariantHolds, PTL

\* Table 0 loses no packet and counts none twice while its words follow each
\* other and four clocks lie between two reads of a bucket.
THEOREM SmoothFlowIsExact == Spec => []SmoothIsExact
<1>1. FpgaInvariant => SmoothIsExact
  BY DEF FpgaInvariant
<1> QED
  BY <1>1, FpgaInvariantHolds, PTL
=============================================================================
