----------------------------- MODULE FpgaTable -----------------------------
(***************************************************************************)
(* One heavy table of the FPGA pipeline: heavy_part_table_read<i>, which   *)
(* takes words from a FIFO and issues the reads of the table's RAM, and    *)
(* heavy_part_table_compare<i>, which takes the same words from a second   *)
(* FIFO, with the time of their read, and writes the RAM when the read     *)
(* value is there, three clocks later.                                     *)
(*                                                                         *)
(* An action is a clock edge.  Every register takes its next value from    *)
(* the values before the edge, so the edge is the conjunction of what each *)
(* part does.  The FIFOs (scfifo, show-ahead) and the RAM (altsyncram,     *)
(* registered address and output) are external: a FIFO's q is its first    *)
(* word, and a read request removes that word at the next edge; the RAM's  *)
(* output follows an enabled read by two edges.                            *)
(*                                                                         *)
(* The four tables differ in what TableNo says: table 0 takes packets,     *)
(* which count 1, the others words with a value; table 1 never leaves its  *)
(* idle state; table 2 keeps its strobes; table 3 never enables a read.    *)
(***************************************************************************)
EXTENDS Integers, Sequences, FiniteSetsExt

CONSTANTS
  TableNos,   (* tables of this instance, among 0 .. 3                      *)
  Ips,        (* addresses of the packets, not 0                            *)
  Values,     (* values of words between tables                             *)
  Arrivals,   (* sequences of addresses that come in, edge by edge, 0: none *)
  AddrOf,     (* AddrOf[ip]: the bucket of an address, also of 0            *)
  FACTOR,     (* votes per packet that displace an address, 8               *)
  Depth,      (* words a FIFO holds, 512                                    *)
  Stalls,     (* what the next table's FIFO may say: it is almost full      *)
  MaxTime     (* bound: clock edges                                         *)

ASSUME FpgaAssumption ==
  /\ TableNos \subseteq 0 .. 3
  /\ IsFiniteSet(Ips) /\ 0 \notin Ips
  /\ Arrivals \subseteq Seq(Ips \cup {0})
  /\ Values \subseteq Nat \ {0}
  /\ DOMAIN AddrOf = Ips \cup {0}
  /\ FACTOR \in Nat \ {0} /\ MaxTime \in Nat
  /\ Depth \in Nat /\ Depth % 2 = 0 /\ Depth > 4
  /\ Stalls \subseteq BOOLEAN /\ FALSE \in Stalls

VARIABLES
  TableNo,
  read_time,         \* the counter both halves keep
  coming,            \* what the sender has still to send
  in_fifo, in_last,  \* the words that wait for a read; the last one removed
  in_rd, rstate,     \* the reader: read request, current_state
  rden, rdaddr,      \* the RAM's read port
  out_wr, out,       \* the word for the other half
  cmp_fifo, cmp_last,
  cmp_rd, cstate,    \* the comparer
  q_r,               \* the word that waits for its read value
  wren, wraddr, wrvalue,  \* the RAM's write port
  value_out_wr, value_out,  \* the word for the next table
  ram, ram_core, rdvalue,   \* the RAM, its output before and in the register
  alf_seen,          \* the last two values of in_alf, which the sender has seen
  received, sent,    \* per address: values in and out (history)
  tag, core_tag, rd_tag,  \* time of the read behind rden, ram_core, rdvalue (history)
  last_read,         \* per bucket: time of its last read (history)
  smooth             \* no word was read in vain so far (history)

reader == <<in_rd, rstate, rden, rdaddr, out_wr, out>>
comparer == <<cmp_rd, cstate, q_r, wren, wraddr, wrvalue, value_out_wr, value_out>>
vars == <<TableNo, read_time, coming, in_fifo, in_last, reader, cmp_fifo, cmp_last,
          comparer, ram, ram_core, rdvalue, alf_seen, received, sent,
          tag, core_tag, rd_tag, last_read, smooth>>
-----------------------------------------------------------------------------
Buckets == {AddrOf[ip] : ip \in Ips \cup {0}}
EmptyBucket == [ip |-> 0, val |-> 0, votes |-> 0]
NoWord == [time |-> 0, ip |-> 0, val |-> 0, fetched |-> FALSE]
Never == -100

\* A word as the comparer takes its value: a packet counts one.
ValueOf(w) == IF TableNo = 0 THEN 1 ELSE w.val

\* usedw[8]
AlmostFull(fifo) == Len(fifo) >= Depth \div 2 /\ Len(fifo) < Depth

\* The output of a FIFO.  Of an empty one it is the word that left last, or
\* the memory after it, still zero.
Shown(fifo, last) == IF fifo = <<>> THEN {last, NoWord} ELSE {Head(fifo)}

Edge(fifo, rd, wr, w) ==
  (IF rd /\ fifo # <<>> THEN Tail(fifo) ELSE fifo)
    \o (IF wr /\ Len(fifo) < Depth THEN <<w>> ELSE <<>>)

LastOf(fifo, rd, last) == IF rd /\ fifo # <<>> THEN Head(fifo) ELSE last

Init ==
  /\ TableNo \in TableNos
  /\ read_time = 0 /\ coming \in Arrivals
  /\ in_fifo = <<>> /\ in_last = NoWord
  /\ in_rd = FALSE /\ rstate = "idle_s" /\ rden = FALSE /\ rdaddr = AddrOf[0]
  /\ out_wr = FALSE /\ out = NoWord
  /\ cmp_fifo = <<>> /\ cmp_last = NoWord
  /\ cmp_rd = FALSE /\ cstate = "idle_s" /\ q_r = NoWord
  /\ wren = FALSE /\ wraddr = AddrOf[0] /\ wrvalue = EmptyBucket
  /\ value_out_wr = FALSE /\ value_out = NoWord
  /\ ram = [b \in Buckets |-> EmptyBucket]
  /\ ram_core = EmptyBucket /\ rdvalue = EmptyBucket
  /\ alf_seen = <<FALSE, FALSE>>
  /\ received = [ip \in Ips \cup {0} |-> 0] /\ sent = [ip \in Ips \cup {0} |-> 0]
  /\ tag = Never /\ core_tag = Never /\ rd_tag = Never
  /\ last_read = [b \in Buckets |-> Never]
  /\ smooth = TRUE
-----------------------------------------------------------------------------
(***************************************************************************)
(* heavy_part_table_read<i>                                                *)
(***************************************************************************)
\* Slip: reads whatever the other half's FIFO says.
ReadsOnUnasked == in_fifo # <<>>

ReadsOn == in_fifo # <<>> /\ ~AlmostFull(cmp_fifo)

ReaderIdle ==
  /\ rstate = "idle_s"
  /\ out_wr' = FALSE /\ out' = NoWord
  /\ rden' = FALSE /\ rdaddr' = AddrOf[0]
  /\ in_rd' = ReadsOn
  /\ rstate' = IF ReadsOn THEN "start_read_s" ELSE "idle_s"
  /\ UNCHANGED <<tag, last_read>>

\* The word on the FIFO's output goes on with the time.  When no other is to
\* follow, its read is taken back.
ReaderStart(w) ==
  /\ rstate = "start_read_s"
  /\ out_wr' = TRUE
  /\ rden' = (ReadsOn /\ TableNo # 3)
  /\ rdaddr' = AddrOf[w.ip]
  /\ out' = [time |-> read_time, ip |-> w.ip, val |-> w.val, fetched |-> rden']
  /\ in_rd' = ReadsOn
  /\ rstate' = IF ReadsOn THEN "start_read_s" ELSE "idle_s"
  /\ tag' = IF rden' THEN read_time ELSE tag
  /\ last_read' = [last_read EXCEPT ![rdaddr'] = read_time]

Reader == ReaderIdle \/ \E w \in Shown(in_fifo, in_last) : ReaderStart(w)
-----------------------------------------------------------------------------
(***************************************************************************)
(* ram_96_4096: a read that meets a write of its bucket gives the old or   *)
(* the new value.                                                          *)
(***************************************************************************)
Written == [ram EXCEPT ![wraddr] = wrvalue]

\* The RAM as the write at its port leaves it.
Now == IF wren THEN Written ELSE ram

\* Slip: a RAM without the output register.
RamAtOnce ==
  /\ ram' = Now
  /\ IF rden THEN /\ ram_core' \in {ram[rdaddr], ram'[rdaddr]}
                  /\ core_tag' = tag
             ELSE UNCHANGED <<ram_core, core_tag>>
  /\ rdvalue' = ram_core'
  /\ rd_tag' = core_tag'

Ram ==
  /\ ram' = Now
  /\ IF rden THEN /\ ram_core' \in {ram[rdaddr], ram'[rdaddr]}
                  /\ core_tag' = tag
             ELSE UNCHANGED <<ram_core, core_tag>>
  /\ rdvalue' = ram_core
  /\ rd_tag' = core_tag
-----------------------------------------------------------------------------
(***************************************************************************)
(* heavy_part_table_compare<i>                                             *)
(***************************************************************************)
ComparesOn(alf) == cmp_fifo # <<>> /\ ~alf

\* To the next word, or to rest.
Go(alf) ==
  /\ cmp_rd' = ComparesOn(alf)
  /\ cstate' = IF ComparesOn(alf) THEN "write_data_s0" ELSE "idle_s"

Send(ip, v) ==
  /\ value_out_wr' = TRUE
  /\ value_out' = [NoWord EXCEPT !.ip = ip, !.val = v]
  /\ sent' = [sent EXCEPT ![ip] = @ + v]

\* Table 2 leaves its strobes as they are where the others clear them: it
\* sends its last word again, and writes its last bucket again.
Keeps(strobe) == TableNo = 2 /\ strobe

SendNothing ==
  /\ value_out_wr' = Keeps(value_out_wr)
  /\ sent' = IF value_out_wr' THEN [sent EXCEPT ![value_out.ip] = @ + value_out.val] ELSE sent
  /\ UNCHANGED value_out

Write(ip, bucket) ==
  /\ wren' = TRUE
  /\ wraddr' = AddrOf[ip]
  /\ wrvalue' = bucket

WriteNothing == wren' = Keeps(wren) /\ UNCHANGED <<wraddr, wrvalue>>

\* The word w against the value read for it.
Record(w) ==
  /\ rdvalue = EmptyBucket \/ rdvalue.ip = w.ip
  /\ Write(w.ip, [rdvalue EXCEPT !.ip = w.ip, !.val = @ + ValueOf(w)])
  /\ SendNothing

\* Slip: the resident is overwritten and the newcomer sent on.
DisplaceUnsent(w) ==
  /\ rdvalue # EmptyBucket /\ rdvalue.ip # w.ip
  /\ rdvalue.votes + ValueOf(w) >= FACTOR * rdvalue.val
  /\ Write(w.ip, [ip |-> w.ip, val |-> ValueOf(w), votes |-> 0])
  /\ Send(w.ip, ValueOf(w))

Displace(w) ==
  /\ rdvalue # EmptyBucket /\ rdvalue.ip # w.ip
  /\ rdvalue.votes + ValueOf(w) >= FACTOR * rdvalue.val
  /\ Write(w.ip, [ip |-> w.ip, val |-> ValueOf(w), votes |-> 0])
  /\ Send(rdvalue.ip, rdvalue.val)

Refuse(w) ==
  /\ rdvalue # EmptyBucket /\ rdvalue.ip # w.ip
  /\ rdvalue.votes + ValueOf(w) < FACTOR * rdvalue.val
  /\ Write(w.ip, [rdvalue EXCEPT !.votes = @ + ValueOf(w)])
  /\ Send(w.ip, ValueOf(w))

Judge(w) == Record(w) \/ Displace(w) \/ Refuse(w)

CompareIdle(alf) ==
  /\ cstate = "idle_s"
  /\ q_r' = NoWord
  /\ wren' = FALSE /\ wraddr' = AddrOf[0] /\ wrvalue' = EmptyBucket
  /\ value_out_wr' = FALSE /\ value_out' = NoWord
  /\ UNCHANGED sent
  /\ cmp_rd' = ComparesOn(alf)
  /\ cstate' = IF ComparesOn(alf) /\ TableNo # 1 THEN "write_data_s0" ELSE "idle_s"

\* Its value is there.
CompareNow(w, alf) ==
  /\ cstate = "write_data_s0"
  /\ read_time - w.time = 3
  /\ Judge(w)
  /\ Go(alf)
  /\ UNCHANGED q_r

\* Its value comes later.
CompareEarly(w) ==
  /\ cstate = "write_data_s0"
  /\ read_time - w.time < 3
  /\ q_r' = w
  /\ cmp_rd' = FALSE
  /\ cstate' = "write_data_s0_r"
  /\ WriteNothing /\ SendNothing

\* Its value has been replaced by the next: the word goes on unseen.
CompareLate(w, alf) ==
  /\ cstate = "write_data_s0"
  /\ read_time - w.time > 3
  /\ Send(w.ip, ValueOf(w))
  /\ WriteNothing
  /\ Go(alf)
  /\ UNCHANGED q_r

\* The wait: time_cnt of table 0 and the comparison of the times in the other
\* tables come to the same edge.
CompareWaited(alf) ==
  /\ cstate = "write_data_s0_r"
  /\ IF read_time - q_r.time = 3
     THEN Judge(q_r) /\ Go(alf)
     ELSE WriteNothing /\ SendNothing /\ UNCHANGED <<cmp_rd, cstate>>
  /\ UNCHANGED q_r

Comparer(alf) ==
  \/ CompareIdle(alf)
  \/ \E w \in Shown(cmp_fifo, cmp_last) :
       CompareNow(w, alf) \/ CompareEarly(w) \/ CompareLate(w, alf)
  \/ CompareWaited(alf)
-----------------------------------------------------------------------------
\* What comes in at an edge.  The sender is a table like this one: it decided
\* two edges ago, by the almost-full signal of then.
Sends == coming # <<>> /\ Head(coming) # 0 /\ ~alf_seen[1]

Arrives ==
  /\ Sends
  /\ \E v \in IF TableNo = 0 THEN {1} ELSE Values :
       /\ in_fifo' = Edge(in_fifo, in_rd, TRUE, [NoWord EXCEPT !.ip = Head(coming), !.val = v])
       /\ received' = [received EXCEPT ![Head(coming)] = @ + v]
  /\ coming' = Tail(coming)

Silence ==
  /\ ~Sends
  /\ in_fifo' = Edge(in_fifo, in_rd, FALSE, NoWord)
  /\ coming' = IF coming # <<>> /\ Head(coming) = 0 THEN Tail(coming) ELSE coming
  /\ UNCHANGED received

\* Neither half has run out of words, and no bucket is read again before it has
\* been written, four clocks after its read: the flow the pipeline is made for.
\* A half that runs out takes what its FIFO then shows for one more word.
ReadSpacing == 4

StaysSmooth ==
  /\ rstate = "start_read_s" =>
       /\ ReadsOn
       /\ read_time - last_read[AddrOf[Head(in_fifo).ip]] >= ReadSpacing
  /\ cstate = "write_data_s0" => cmp_fifo # <<>>

Tick ==
  /\ read_time < MaxTime
  /\ read_time' = read_time + 1
  /\ Arrives \/ Silence
  /\ in_last' = LastOf(in_fifo, in_rd, in_last)
  /\ alf_seen' = <<alf_seen[2], AlmostFull(in_fifo)>>
  /\ Reader
  /\ Ram
  /\ cmp_fifo' = Edge(cmp_fifo, cmp_rd, out_wr, out)
  /\ cmp_last' = LastOf(cmp_fifo, cmp_rd, cmp_last)
  /\ \E alf \in Stalls : Comparer(alf)
  /\ smooth' = (smooth /\ StaysSmooth)
  /\ UNCHANGED TableNo

Next == Tick

Spec == Init /\ [][Next]_vars
-----------------------------------------------------------------------------
(***************************************************************************)
(* Properties                                                              *)
(***************************************************************************)
Word == [time : Nat, ip : Ips \cup {0}, val : Nat, fetched : BOOLEAN]
Bucket == [ip : Ips \cup {0}, val : Nat, votes : Nat]

TypeOK ==
  /\ read_time \in Nat
  /\ in_fifo \in Seq(Word) /\ cmp_fifo \in Seq(Word)
  /\ {in_last, cmp_last, out, q_r, value_out} \subseteq Word
  /\ {in_rd, rden, out_wr, cmp_rd, wren, value_out_wr, smooth} \subseteq BOOLEAN
  /\ rstate \in {"idle_s", "start_read_s"}
  /\ cstate \in {"idle_s", "write_data_s0", "write_data_s0_r"}
  /\ {rdaddr, wraddr} \subseteq Buckets
  /\ ram \in [Buckets -> Bucket]
  /\ {ram_core, rdvalue, wrvalue} \subseteq Bucket

\* A word whose read was made is judged by the value of that very read.
JudgedByItsRead ==
  /\ cstate = "write_data_s0" /\ cmp_fifo # <<>> =>
       LET w == Head(cmp_fifo) IN
       w.fetched /\ read_time - w.time = 3 => rd_tag = w.time
  /\ cstate = "write_data_s0_r" =>
       /\ read_time - q_r.time <= 3
       /\ q_r.fetched /\ read_time - q_r.time = 3 => rd_tag = q_r.time

\* What the almost-full signals leave free takes what is already on its way:
\* no FIFO ever has to refuse a word.
NeverFull == Len(in_fifo) < Depth /\ Len(cmp_fifo) < Depth

\* What the table relies on at every edge.
TableSound == TypeOK /\ NeverFull

\* What the word w is worth to the address ip: in a register, in a FIFO.
Worth(w, ip) == IF w.ip = ip THEN ValueOf(w) ELSE 0

Here(w, there, ip) == IF there THEN Worth(w, ip) ELSE 0

WordsOf(fifo, ip) ==
  SumFunctionOnSet([i \in DOMAIN fifo |-> Worth(fifo[i], ip)], DOMAIN fifo)

Holds(bucket, ip) == IF bucket.ip = ip THEN bucket.val ELSE 0

RamOf(ip) == SumFunctionOnSet([b \in Buckets |-> Holds(Now[b], ip)], Buckets)

Accounted(ip) ==
  received[ip] = WordsOf(in_fifo, ip) + Here(out, out_wr, ip) + WordsOf(cmp_fifo, ip)
                 + Here(q_r, cstate = "write_data_s0_r", ip) + RamOf(ip) + sent[ip]

\* As long as the words follow each other and no bucket comes again within
\* four clocks, every packet is recorded or sent on, once.  Table 0 only: the
\* others lose or repeat words even then.
SmoothIsExact == smooth /\ TableNo = 0 => \A ip \in Ips \cup {0} : Accounted(ip)

\* FPGA/README.md: a table records the address in its bucket or sends it on.
RecordedOrSent == \A ip \in Ips : received[ip] <= WordsOf(in_fifo, ip)
  + Here(out, out_wr, ip) + WordsOf(cmp_fifo, ip)
  + Here(q_r, cstate = "write_data_s0_r", ip) + RamOf(ip) + sent[ip]
=============================================================================
