------------------------------ MODULE OvsRing ------------------------------
(***************************************************************************)
(* The ring in shared memory between a poll-mode thread of Open vSwitch,   *)
(* which writes a tuple for every packet it forwards, and the user-space   *)
(* reader that feeds the sketch (struct RingBuffer, write_ringbuffer,      *)
(* read_ringbuffer).  There is no lock: each side owns a private index,    *)
(* publishes it every RB_BATCH tuples, and reads the other side's          *)
(* published index only when its cached copy says full or empty.           *)
(*                                                                         *)
(* An action is one access to what the two share, and for the reader, who  *)
(* may be killed, also one change of what it keeps in the shared memory.   *)
(* received holds the tuples taken out of the ring.  The data is written   *)
(* through unsigned char pointers, which may alias the volatile indices,   *)
(* so the compiler keeps their order, and so does an x86 processor.        *)
(* Tuples are numbered 1, 2, ... in the order the writer produces them; 0  *)
(* is the zeroed memory.                                                   *)
(*                                                                         *)
(* Every index lives in the shared memory, also the private ones, so a     *)
(* reader that is stopped anywhere and started again carries on from them. *)
(***************************************************************************)
EXTENDS RingParam, Integers, Sequences

CONSTANTS
  GarbageFlag   (* TRUE: a tuple's flag, which nobody writes, may be        *)
                (* TUPLE_TERM; FALSE: the memory never holds that value     *)

ASSUME RingAssumption ==
  /\ RB_SIZE \in Nat \ {0}
  /\ RB_BATCH \in 1 .. RB_SIZE - 1
  /\ GarbageFlag \in BOOLEAN
  /\ MaxTuples \in Nat
  /\ MaxRestarts \in Nat

VARIABLES
  readIndex, writeIndex,                        \* published
  localReadIndex, nextWriteIndex, wBatchCount,  \* the writer's
  localWriteIndex, nextReadIndex, rBatchCount,  \* the reader's
  data,               \* the slots
  tuple,              \* the tuple the reader has copied
  wpc, rpc,           \* where the writer and the reader are in their loops
  written, received,  \* history: how many were written, and those read
  restarts

indices == <<readIndex, writeIndex>>
writerVars == <<localReadIndex, nextWriteIndex, wBatchCount, wpc, written>>
readerVars == <<localWriteIndex, nextReadIndex, rBatchCount, rpc, tuple,
                received, restarts>>
vars == <<indices, data, writerVars, readerVars>>
-----------------------------------------------------------------------------
Slot == 0 .. RB_SIZE - 1

nextVal(x) == IF x + 1 >= RB_SIZE THEN 0 ELSE x + 1

\* create_ringbuffer_shm: everything zeroed
Init ==
  /\ readIndex = 0 /\ writeIndex = 0
  /\ localReadIndex = 0 /\ nextWriteIndex = 0 /\ wBatchCount = 0
  /\ localWriteIndex = 0 /\ nextReadIndex = 0 /\ rBatchCount = 0
  /\ data = [s \in Slot |-> 0]
  /\ tuple = 0
  /\ wpc = "idle" /\ rpc = "idle"
  /\ written = 0 /\ received = <<>>
  /\ restarts = 0
-----------------------------------------------------------------------------
(***************************************************************************)
(* The writer: while (write_ringbuffer(...) != 0);                         *)
(***************************************************************************)
PacketArrives ==
  /\ wpc = "idle"
  /\ written < MaxTuples
  /\ wpc' = "try"
  /\ UNCHANGED <<indices, data, localReadIndex, nextWriteIndex, wBatchCount,
                 written, readerVars>>

\* Not full by the cached index.  (Full by the published index too: the call
\* fails, and the loop repeats it without a change.)
WriteRoom ==
  /\ wpc = "try"
  /\ nextVal(nextWriteIndex) # localReadIndex
  /\ wpc' = "copy"
  /\ UNCHANGED <<indices, data, localReadIndex, nextWriteIndex, wBatchCount,
                 written, readerVars>>

WriteStale ==
  /\ wpc = "try"
  /\ nextVal(nextWriteIndex) = localReadIndex
  /\ nextVal(nextWriteIndex) # readIndex
  /\ wpc' = "refresh"
  /\ UNCHANGED <<indices, data, localReadIndex, nextWriteIndex, wBatchCount,
                 written, readerVars>>

WriteRefresh ==
  /\ wpc = "refresh"
  /\ localReadIndex' = readIndex
  /\ wpc' = "copy"
  /\ UNCHANGED <<indices, data, nextWriteIndex, wBatchCount, written, readerVars>>

WriteCopy ==
  /\ wpc = "copy"
  /\ data' = [data EXCEPT ![nextWriteIndex] = written + 1]
  /\ nextWriteIndex' = nextVal(nextWriteIndex)
  /\ wBatchCount' = wBatchCount + 1
  /\ wpc' = IF wBatchCount + 1 >= RB_BATCH THEN "publish" ELSE "idle"
  /\ written' = written + 1
  /\ UNCHANGED <<indices, localReadIndex, readerVars>>

\* Slip: the slot after the last one written is published with them.
WritePublishNext ==
  /\ wpc = "publish"
  /\ writeIndex' = nextVal(nextWriteIndex)
  /\ wBatchCount' = 0
  /\ wpc' = "idle"
  /\ UNCHANGED <<readIndex, data, localReadIndex, nextWriteIndex, written,
                 readerVars>>

WritePublish ==
  /\ wpc = "publish"
  /\ writeIndex' = nextWriteIndex
  /\ wBatchCount' = 0
  /\ wpc' = "idle"
  /\ UNCHANGED <<readIndex, data, localReadIndex, nextWriteIndex, written,
                 readerVars>>

Write == WriteRoom \/ WriteStale \/ WriteRefresh \/ WriteCopy \/ WritePublish
-----------------------------------------------------------------------------
(***************************************************************************)
(* The reader: read_ringbuffer in the loop of user_reader.                 *)
(***************************************************************************)

\* Not empty by the cached index.  (Empty by the published index too: the
\* call fails, and the loop goes on to the next ring.)
ReadAvailable ==
  /\ rpc = "idle"
  /\ nextReadIndex # localWriteIndex
  /\ rpc' = "copy"
  /\ UNCHANGED <<indices, data, writerVars, localWriteIndex, nextReadIndex,
                 rBatchCount, tuple, received, restarts>>

ReadStale ==
  /\ rpc = "idle"
  /\ nextReadIndex = localWriteIndex
  /\ nextReadIndex # writeIndex
  /\ rpc' = "refresh"
  /\ UNCHANGED <<indices, data, writerVars, localWriteIndex, nextReadIndex,
                 rBatchCount, tuple, received, restarts>>

ReadRefresh ==
  /\ rpc = "refresh"
  /\ localWriteIndex' = writeIndex
  /\ rpc' = "copy"
  /\ UNCHANGED <<indices, data, writerVars, nextReadIndex, rBatchCount, tuple,
                 received, restarts>>

ReadCopy ==
  /\ rpc = "copy"
  /\ tuple' = data[nextReadIndex]
  /\ rpc' = "advance"
  /\ UNCHANGED <<indices, data, writerVars, localWriteIndex, nextReadIndex,
                 rBatchCount, received, restarts>>

ReadAdvance ==
  /\ rpc = "advance"
  /\ received' = Append(received, tuple)
  /\ nextReadIndex' = nextVal(nextReadIndex)
  /\ rpc' = "count"
  /\ UNCHANGED <<indices, data, writerVars, localWriteIndex, rBatchCount, tuple,
                 restarts>>

\* Slip: the batch is recognised by equality.
ReadCountExact ==
  /\ rpc = "count"
  /\ rBatchCount' = rBatchCount + 1
  /\ rpc' = IF rBatchCount + 1 = RB_BATCH THEN "publish" ELSE "idle"
  /\ UNCHANGED <<indices, data, writerVars, localWriteIndex, nextReadIndex, tuple,
                 received, restarts>>

ReadCount ==
  /\ rpc = "count"
  /\ rBatchCount' = rBatchCount + 1
  /\ rpc' = IF rBatchCount + 1 >= RB_BATCH THEN "publish" ELSE "idle"
  /\ UNCHANGED <<indices, data, writerVars, localWriteIndex, nextReadIndex, tuple,
                 received, restarts>>

\* Slip: the slot is released that will be read next.
ReadPublishNext ==
  /\ rpc = "publish"
  /\ readIndex' = nextVal(nextReadIndex)
  /\ rpc' = "reset"
  /\ UNCHANGED <<writeIndex, data, writerVars, localWriteIndex, nextReadIndex,
                 rBatchCount, tuple, received, restarts>>

ReadPublish ==
  /\ rpc = "publish"
  /\ readIndex' = nextReadIndex
  /\ rpc' = "reset"
  /\ UNCHANGED <<writeIndex, data, writerVars, localWriteIndex, nextReadIndex,
                 rBatchCount, tuple, received, restarts>>

ReadReset ==
  /\ rpc = "reset"
  /\ rBatchCount' = 0
  /\ rpc' = "idle"
  /\ UNCHANGED <<indices, data, writerVars, localWriteIndex, nextReadIndex, tuple,
                 received, restarts>>

\* The loop ends on a tuple whose flag is TUPLE_TERM.  The writer leaves the
\* flag uninitialised, and so is the reader's own tuple before the first read.
ReaderStops ==
  /\ GarbageFlag
  /\ rpc = "idle"
  /\ rpc' = "stopped"
  /\ UNCHANGED <<indices, data, writerVars, localWriteIndex, nextReadIndex,
                 rBatchCount, tuple, received, restarts>>

\* The reader's process dies anywhere in its loop and is started again:
\* connect_ringbuffer_shm maps the same memory and initialises nothing.
ReaderRestart ==
  /\ restarts < MaxRestarts
  /\ restarts' = restarts + 1
  /\ rpc' = "idle"
  /\ UNCHANGED <<indices, data, writerVars, localWriteIndex, nextReadIndex,
                 rBatchCount, tuple, received>>

Read ==
  \/ ReadAvailable \/ ReadStale \/ ReadRefresh \/ ReadCopy
  \/ ReadAdvance \/ ReadCount \/ ReadPublish \/ ReadReset
-----------------------------------------------------------------------------
Next ==
  \/ PacketArrives \/ Write
  \/ Read \/ ReaderStops \/ ReaderRestart

Spec == Init /\ [][Next]_vars

\* Both threads spin without blocking, so each keeps taking the steps it can.
FairSpec == Spec /\ WF_vars(Write) /\ WF_vars(Read)
-----------------------------------------------------------------------------
TypeOK ==
  /\ {readIndex, writeIndex, localReadIndex, nextWriteIndex,
      localWriteIndex, nextReadIndex} \subseteq Slot
  /\ wBatchCount \in 0 .. RB_BATCH
  /\ rBatchCount \in 0 .. RB_BATCH + restarts
  /\ data \in [Slot -> 0 .. MaxTuples]
  /\ tuple \in 0 .. MaxTuples
  /\ wpc \in {"idle", "try", "refresh", "copy", "publish"}
  /\ rpc \in {"idle", "refresh", "copy", "advance", "count", "publish", "reset",
             "stopped"}
  /\ written \in 0 .. MaxTuples
  /\ received \in Seq(0 .. MaxTuples)
  /\ restarts \in 0 .. MaxRestarts

\* From slot a forward to slot b.
Distance(a, b) == IF b >= a THEN b - a ELSE b - a + RB_SIZE

(***************************************************************************)
(* The ring is a channel of RB_SIZE - 1 tuples: whatever the interleaving  *)
(* of the two unlocked sides, and wherever the reader is restarted, the    *)
(* reader takes exactly the tuples that were written, in order.            *)
(***************************************************************************)
RingChannel == INSTANCE Channel WITH
  Capacity <- RB_SIZE - 1,
  sent     <- [n \in 1 .. written |-> n]

ImplementsChannel == RingChannel!Spec

(***************************************************************************)
(* The two memcpy calls never touch the same slot at the same time.        *)
(***************************************************************************)
NoSlotRace ==
  wpc = "copy" /\ rpc = "copy" => nextWriteIndex # nextReadIndex

(***************************************************************************)
(* The picture above RBMeta (ringbuffer.h): going round from the global    *)
(* read index come the next read, the reader's cached write index, the     *)
(* global write index and the next write, within one turn, and the         *)
(* writer's cached read index is not ahead of the global one.  "at most    *)
(* rBatch", "at most wBatch": a side never runs more than a batch ahead of *)
(* what it has published, but for a tuple per restart of the reader.       *)
(***************************************************************************)
IndexOrder ==
  LET from(i) == Distance(readIndex, i)
  IN  /\ from(nextReadIndex) <= from(localWriteIndex)
      /\ from(localWriteIndex) <= from(writeIndex)
      /\ from(writeIndex) <= from(nextWriteIndex)
      /\ Distance(localReadIndex, readIndex) <= Distance(localReadIndex, nextWriteIndex)
      /\ from(nextReadIndex) <= RB_BATCH + restarts
      /\ Distance(writeIndex, nextWriteIndex) <= RB_BATCH

\* A batch count says how far its side is ahead of what it has published; the
\* reader's misses at most one tuple for each restart.
Counted ==
  LET ahead == Distance(readIndex, nextReadIndex)
  IN  /\ Distance(writeIndex, nextWriteIndex) = wBatchCount
      /\ wpc # "publish" => wBatchCount < RB_BATCH
      /\ ahead <= rBatchCount + restarts + (IF rpc = "count" THEN 1 ELSE 0)
      /\ rpc \notin {"count", "publish"} => ahead < RB_BATCH + restarts
      /\ rpc \notin {"publish", "reset"} => rBatchCount < RB_BATCH + restarts
      /\ rpc = "reset" => ahead = 0

\* What a side has seen of the other's index is still true when it acts on it.
Guarded ==
  /\ wpc \in {"try", "refresh", "copy"} => written < MaxTuples
  /\ wpc = "refresh" => nextVal(nextWriteIndex) # readIndex
  /\ wpc = "copy" => nextVal(nextWriteIndex) # localReadIndex
  /\ rpc = "refresh" => nextReadIndex # writeIndex
  /\ rpc \in {"copy", "advance"} => nextReadIndex # localWriteIndex
  /\ rpc = "advance" => tuple = Len(received) + 1

\* The first tuples have been read, the others are in the ring, in order.
Contents ==
  LET inside == written - Len(received)
  IN  /\ received = [n \in 1 .. Len(received) |-> n]
      /\ inside = Distance(nextReadIndex, nextWriteIndex)
      /\ \A s \in Slot :
           LET n == Distance(nextReadIndex, s)
           IN  n < inside => data[s] = Len(received) + n + 1

(***************************************************************************)
(* What the two unlocked sides rely on in every state: indices that stay   *)
(* in order, copies that stay apart, and the reasons for it, from which    *)
(* every step leads to the same again: counts that keep up with the        *)
(* indices, observations that stay true, and the tuples where they belong. *)
(***************************************************************************)
RingInvariant == TypeOK /\ IndexOrder /\ NoSlotRace /\ Counted /\ Guarded /\ Contents

(***************************************************************************)
(* The poll-mode thread never spins forever on a full ring, unless the     *)
(* reader has stopped: although each side keeps up to a batch to itself,   *)
(* the two hoards never fill the ring.  (A reader restarted just before it *)
(* counts a tuple hoards one more.)                                        *)
(***************************************************************************)
WriterProgress == wpc = "try" ~> wpc = "idle" \/ rpc = "stopped"

(***************************************************************************)
(* Every tuple in a published batch is read, also across restarts, unless  *)
(* the reader stops.                                                       *)
(***************************************************************************)
PublishedDelivered ==
  \A n \in 1 .. MaxTuples :
    written - wBatchCount >= n ~> Len(received) >= n \/ rpc = "stopped"

(***************************************************************************)
(* Both sides get on, as long as the reader does not stop: the writer      *)
(* finds room, and what is published is read.                              *)
(***************************************************************************)
RingProgress == WriterProgress /\ PublishedDelivered
=============================================================================
