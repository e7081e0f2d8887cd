----------------------------- MODULE OvsProofs -----------------------------
(***************************************************************************)
(* Theorems about the rings in shared memory, for every size of the ring   *)
(* and of the batches, any number of tuples and any number of restarts of  *)
(* the reader.  First one ring, step by step (module OvsRing); then the    *)
(* reader with all its rings (module OvsReader).                           *)
(*                                                                         *)
(* IInv is proved action by action, in three parts: the types, the indices *)
(* (IndexOrder and what is needed for it), and the tuples.                 *)
(* The indices are only compared by their distance going round the ring;   *)
(* the lemmas about Distance are all that is used of the arithmetic.       *)
(***************************************************************************)
EXTENDS OvsRing, OvsReader, SequenceTheorems, TLAPS

\* Going round: distances lie within the ring and tell slots apart.
LEMMA DistanceType ==
  ASSUME NEW a \in Slot, NEW b \in Slot
  PROVE  /\ Distance(a, b) \in Nat /\ Distance(a, b) < RB_SIZE
         /\ Distance(a, b) = 0 <=> a = b
         /\ nextVal(a) \in Slot
  BY RingAssumption DEF Slot, Distance, nextVal

\* A distance grows by one with each step of its end, until the turn is full.
LEMMA DistanceToNext ==
  ASSUME NEW a \in Slot, NEW b \in Slot
  PROVE  /\ nextVal(b) = a <=> Distance(a, b) = RB_SIZE - 1
         /\ nextVal(b) # a => Distance(a, nextVal(b)) = Distance(a, b) + 1
  BY RingAssumption DEF Slot, Distance, nextVal

\* A distance shrinks by one with each step of its start.
LEMMA DistanceFromNext ==
  ASSUME NEW a \in Slot, NEW b \in Slot, a # b
  PROVE  Distance(nextVal(a), b) = Distance(a, b) - 1
  BY RingAssumption DEF Slot, Distance, nextVal

\* Distances along the way add up.
LEMMA DistanceAdds ==
  ASSUME NEW a \in Slot, NEW b \in Slot, NEW c \in Slot,
         Distance(a, b) <= Distance(a, c)
  PROVE  Distance(b, c) = Distance(a, c) - Distance(a, b)
  BY RingAssumption DEF Slot, Distance

LEMMA DistanceJoins ==
  ASSUME NEW a \in Slot, NEW b \in Slot, NEW c \in Slot,
         Distance(a, b) + Distance(b, c) < RB_SIZE
  PROVE  Distance(a, c) = Distance(a, b) + Distance(b, c)
  BY RingAssumption DEF Slot, Distance

\* One slot at each distance, and the slot behind the start at the largest.
LEMMA DistanceTells ==
  ASSUME NEW a \in Slot, NEW b \in Slot, NEW c \in Slot
  PROVE  /\ Distance(a, b) = Distance(a, c) => b = c
         /\ Distance(nextVal(a), a) = RB_SIZE - 1
  BY RingAssumption DEF Slot, Distance, nextVal

\* The sequence of the first n tuples, and its length and successor.
LEMMA FirstTuples ==
  ASSUME NEW n \in Nat
  PROVE  /\ [i \in 1 .. n |-> i] \in Seq(Nat)
         /\ Len([i \in 1 .. n |-> i]) = n
         /\ Append([i \in 1 .. n |-> i], n + 1) = [i \in 1 .. n + 1 |-> i]
<1> DEFINE s == [i \in 1 .. n |-> i]
<1>1. s \in Seq(Nat) /\ Len(s) = n
  OBVIOUS
<1>2. Append(s, n + 1) = [i \in 1 .. n + 1 |-> i]
  BY <1>1
<1> QED
  BY <1>1, <1>2
-----------------------------------------------------------------------------
\* The inductive invariant.  The copies stay apart because of the others.
IInv == TypeOK /\ IndexOrder /\ Counted /\ Guarded /\ Contents

\* What the steps use of the types.
Typed ==
  /\ readIndex \in Slot /\ writeIndex \in Slot /\ localReadIndex \in Slot
  /\ nextWriteIndex \in Slot /\ localWriteIndex \in Slot /\ nextReadIndex \in Slot
  /\ RB_SIZE \in Nat /\ RB_BATCH \in Nat /\ MaxTuples \in Nat
  /\ 1 <= RB_BATCH /\ RB_BATCH < RB_SIZE
  /\ wBatchCount \in Nat /\ rBatchCount \in Nat /\ restarts \in Nat
  /\ written \in Nat

LEMMA InvariantTyped == IInv => Typed
  BY RingAssumption DEF IInv, TypeOK, Typed

LEMMA StepType ==
  ASSUME IInv, [Next]_vars
  PROVE  TypeOK'
<1> USE DEF Typed
<1>0. Typed
  BY InvariantTyped
<1>1. TypeOK
  BY DEF IInv
<1>2. ASSUME WriteCopy PROVE TypeOK'
  <2>1. nextWriteIndex' \in Slot
    BY <1>0, <1>2, DistanceType DEF WriteCopy
  <2>2. wBatchCount' \in 0 .. RB_BATCH
    BY <1>0, <1>2, <1>1 DEF WriteCopy, IInv, Counted, TypeOK
  <2>3. written' \in 0 .. MaxTuples /\ data' \in [Slot -> 0 .. MaxTuples]
    BY <1>0, <1>2, <1>1 DEF WriteCopy, IInv, Guarded, TypeOK
  <2> QED
    BY <1>0, <1>2, <1>1, <2>1, <2>2, <2>3 DEF WriteCopy, TypeOK, indices, readerVars
<1>3. ASSUME PacketArrives \/ WriteRoom \/ WriteStale \/ WriteRefresh PROVE TypeOK'
  BY <1>0, <1>3, <1>1 DEF PacketArrives, WriteRoom, WriteStale, WriteRefresh, TypeOK, indices, readerVars
<1>4. ASSUME WritePublish PROVE TypeOK'
  BY <1>0, <1>4, <1>1 DEF WritePublish, TypeOK, readerVars
<1>5. ASSUME ReadAvailable \/ ReadStale \/ ReadRefresh \/ ReaderStops PROVE TypeOK'
  BY <1>0, <1>5, <1>1 DEF ReadAvailable, ReadStale, ReadRefresh, ReaderStops, TypeOK, indices, writerVars
<1>6. ASSUME ReadCopy PROVE TypeOK'
  BY <1>0, <1>6, <1>1 DEF ReadCopy, TypeOK, indices, writerVars
<1>7. ASSUME ReadAdvance PROVE TypeOK'
  <2>1. nextReadIndex' \in Slot
    BY <1>0, <1>7, DistanceType DEF ReadAdvance
  <2>2. received' \in Seq(0 .. MaxTuples)
    BY <1>0, <1>7, <1>1, AppendProperties DEF ReadAdvance, TypeOK
  <2> QED
    BY <1>0, <1>7, <1>1, <2>1, <2>2 DEF ReadAdvance, TypeOK, indices, writerVars
<1>8. ASSUME ReadCount PROVE TypeOK'
  <2>1. rBatchCount' \in 0 .. RB_BATCH + restarts'
    BY <1>0, <1>8, <1>1 DEF ReadCount, IInv, Counted, TypeOK
  <2> QED
    BY <1>0, <1>8, <1>1, <2>1 DEF ReadCount, TypeOK, indices, writerVars
<1>9. ASSUME ReadPublish PROVE TypeOK'
  BY <1>0, <1>9, <1>1 DEF ReadPublish, TypeOK, writerVars
<1>10. ASSUME ReadReset PROVE TypeOK'
  BY <1>0, <1>10, <1>1 DEF ReadReset, TypeOK, indices, writerVars
<1>11. ASSUME ReaderRestart PROVE TypeOK'
  <2>1. rBatchCount' \in 0 .. RB_BATCH + restarts' /\ restarts' \in 0 .. MaxRestarts
    BY <1>0, <1>11, <1>1, RingAssumption DEF ReaderRestart, TypeOK
  <2> QED
    BY <1>0, <1>11, <1>1, <2>1 DEF ReaderRestart, TypeOK, indices, writerVars
<1>12. ASSUME UNCHANGED vars PROVE TypeOK'
  BY <1>0, <1>12, <1>1 DEF vars, TypeOK, indices, writerVars, readerVars
<1> QED
  BY <1>0, <1>2, <1>3, <1>4, <1>5, <1>6, <1>7, <1>8, <1>9, <1>10, <1>11, <1>12 DEF Next, Write, Read
-----------------------------------------------------------------------------
\* The order of the indices, and the slots they leave to each other.
LEMMA Ordered ==
  ASSUME IInv
  PROVE  /\ Distance(readIndex, nextReadIndex) <= Distance(readIndex, localWriteIndex)
         /\ Distance(readIndex, localWriteIndex) <= Distance(readIndex, writeIndex)
         /\ Distance(readIndex, writeIndex) <= Distance(readIndex, nextWriteIndex)
         /\ Distance(localReadIndex, nextWriteIndex)
              = Distance(localReadIndex, readIndex) + Distance(readIndex, nextWriteIndex)
         /\ Distance(nextReadIndex, nextWriteIndex)
              = Distance(readIndex, nextWriteIndex) - Distance(readIndex, nextReadIndex)
<1> USE DEF Typed
<1>0. Typed
  BY InvariantTyped
<1>1. Distance(localReadIndex, readIndex) <= Distance(localReadIndex, nextWriteIndex)
  BY DEF IInv, IndexOrder
<1>2. Distance(readIndex, nextWriteIndex)
        = Distance(localReadIndex, nextWriteIndex) - Distance(localReadIndex, readIndex)
  BY <1>0, <1>1, DistanceAdds
<1>3. /\ Distance(readIndex, nextReadIndex) <= Distance(readIndex, localWriteIndex)
      /\ Distance(readIndex, localWriteIndex) <= Distance(readIndex, writeIndex)
      /\ Distance(readIndex, writeIndex) <= Distance(readIndex, nextWriteIndex)
  BY DEF IInv, IndexOrder
<1>4. \A a, b \in Slot : Distance(a, b) \in Int
  BY DistanceType, RingAssumption
<1>5. Distance(readIndex, nextReadIndex) <= Distance(readIndex, nextWriteIndex)
  BY <1>0, <1>3, <1>4
<1>6. Distance(nextReadIndex, nextWriteIndex)
        = Distance(readIndex, nextWriteIndex) - Distance(readIndex, nextReadIndex)
  BY <1>0, <1>5, DistanceAdds
<1> QED
  BY <1>0, <1>2, <1>3, <1>4, <1>6

\* What the writer has seen to be free is free: it does not catch up with the
\* reader's published index when it copies.
LEMMA CopyHasRoom ==
  ASSUME IInv, wpc = "copy"
  PROVE  /\ nextVal(nextWriteIndex) # readIndex
         /\ nextVal(nextWriteIndex) # localReadIndex
         /\ nextVal(nextWriteIndex) # writeIndex
         /\ nextVal(nextWriteIndex) # nextReadIndex
<1> USE DEF Typed
<1>0. Typed
  BY InvariantTyped
<1>1. \A a, b \in Slot : Distance(a, b) \in Nat /\ Distance(a, b) < RB_SIZE
  BY DistanceType
<1>2. nextVal(nextWriteIndex) # localReadIndex
  BY DEF IInv, Guarded
<1>3. Distance(localReadIndex, nextWriteIndex) < RB_SIZE - 1
  BY <1>0, <1>1, <1>2, DistanceToNext
<1>4. Distance(readIndex, nextWriteIndex) < RB_SIZE - 1
  BY <1>0, <1>1, <1>3, Ordered
<1>5. Distance(nextReadIndex, nextWriteIndex) < RB_SIZE - 1
  BY <1>0, <1>1, <1>4, Ordered
<1>6. Distance(writeIndex, nextWriteIndex) < RB_SIZE - 1
  BY <1>0, <1>0 DEF IInv, Counted
<1> QED
  BY <1>0, <1>2, <1>4, <1>5, <1>6, DistanceToNext

\* What the reader has seen to be there is there.
LEMMA ReadHasTuple ==
  ASSUME IInv, rpc \in {"copy", "advance"}
  PROVE  /\ nextReadIndex # localWriteIndex
         /\ Distance(readIndex, nextReadIndex) < Distance(readIndex, localWriteIndex)
         /\ Distance(nextReadIndex, nextWriteIndex) > 0
<1> USE DEF Typed
<1>0. Typed
  BY InvariantTyped
<1>1. \A a, b \in Slot : Distance(a, b) \in Nat /\ Distance(a, b) < RB_SIZE /\ (Distance(a, b) = 0 <=> a = b)
  BY DistanceType
<1>2. nextReadIndex # localWriteIndex
  BY DEF IInv, Guarded
<1>3. Distance(nextReadIndex, localWriteIndex)
        = Distance(readIndex, localWriteIndex) - Distance(readIndex, nextReadIndex)
  BY <1>0, Ordered, DistanceAdds
<1>4. Distance(nextReadIndex, localWriteIndex) > 0
  BY <1>0, <1>1, <1>2
<1> QED
  BY <1>0, <1>1, <1>2, <1>3, <1>4, Ordered

LEMMA StepOrder ==
  ASSUME IInv, [Next]_vars
  PROVE  IndexOrder'
<1> USE DEF Typed
<1>0. Typed
  BY InvariantTyped
<1> DEFINE D(a, b) == Distance(a, b)
<1>1. \A a, b \in Slot : D(a, b) \in Nat /\ D(a, b) < RB_SIZE /\ D(a, a) = 0
  BY DistanceType
<1>2. IndexOrder /\ Counted
  BY DEF IInv
<1>3. ASSUME WriteCopy PROVE IndexOrder'
  <2>1. /\ D(readIndex, nextWriteIndex') = D(readIndex, nextWriteIndex) + 1
        /\ D(localReadIndex, nextWriteIndex') = D(localReadIndex, nextWriteIndex) + 1
        /\ D(writeIndex, nextWriteIndex') = D(writeIndex, nextWriteIndex) + 1
    BY <1>0, <1>3, CopyHasRoom, DistanceToNext DEF WriteCopy
  <2>2. D(writeIndex, nextWriteIndex) < RB_BATCH
    BY <1>0, <1>2, <1>3 DEF Counted, WriteCopy
  <2>3. UNCHANGED <<readIndex, writeIndex, localReadIndex, localWriteIndex, nextReadIndex, restarts>>
    BY <1>0, <1>3 DEF WriteCopy, indices, readerVars
  <2> QED
    BY <1>0, <1>1, <1>2, <2>1, <2>2, <2>3 DEF IndexOrder
<1>4. ASSUME WriteRefresh PROVE IndexOrder'
  BY <1>0, <1>1, <1>2, <1>4 DEF WriteRefresh, IndexOrder, indices, readerVars
<1>5. ASSUME WritePublish PROVE IndexOrder'
  BY <1>0, <1>1, <1>2, <1>5, Ordered DEF WritePublish, IndexOrder, readerVars
<1>6. ASSUME ReadRefresh PROVE IndexOrder'
  BY <1>0, <1>1, <1>2, <1>6, Ordered DEF ReadRefresh, IndexOrder, indices, writerVars
<1>7. ASSUME ReadAdvance PROVE IndexOrder'
  <2>1. D(readIndex, nextReadIndex) < D(readIndex, localWriteIndex)
    BY <1>0, <1>7, ReadHasTuple DEF ReadAdvance
  <2>2. D(readIndex, nextReadIndex') = D(readIndex, nextReadIndex) + 1
    <3>1. nextReadIndex' = nextVal(nextReadIndex)
      BY <1>7 DEF ReadAdvance
    <3> QED
      BY <1>0, <1>1, <2>1, <3>1, DistanceToNext
  <2>3. D(readIndex, nextReadIndex) < RB_BATCH + restarts
    BY <1>0, <1>2, <1>7 DEF Counted, ReadAdvance
  <2>4. UNCHANGED <<readIndex, writeIndex, localReadIndex, localWriteIndex, nextWriteIndex, restarts>>
    BY <1>0, <1>7 DEF ReadAdvance, indices, writerVars
  <2> QED
    BY <1>0, <1>1, <1>2, <2>1, <2>2, <2>3, <2>4 DEF IndexOrder
<1>8. ASSUME ReadPublish PROVE IndexOrder'
  <2> DEFINE r == readIndex  n == nextReadIndex
  <2>1. \A x \in {localWriteIndex, writeIndex, nextWriteIndex} : D(n, x) = D(r, x) - D(r, n)
    <3>1. \A x \in {localWriteIndex, writeIndex, nextWriteIndex} : x \in Slot /\ D(r, n) <= D(r, x)
      BY <1>0, <1>1, Ordered
    <3> QED
      BY <1>0, <3>1, DistanceAdds
  <2>2. D(localReadIndex, n) = D(localReadIndex, r) + D(r, n)
    BY <1>0, <1>1, Ordered, DistanceJoins
  <2>3. D(localReadIndex, n) <= D(localReadIndex, nextWriteIndex)
    BY <1>0, <1>1, <2>2, Ordered
  <2>4. readIndex' = n /\ UNCHANGED <<writeIndex, localReadIndex, localWriteIndex, nextWriteIndex,
                                      nextReadIndex, restarts>>
    BY <1>0, <1>8 DEF ReadPublish, writerVars
  <2> QED
    BY <1>0, <1>1, <1>2, <2>1, <2>3, <2>4, Ordered DEF IndexOrder
<1>9. ASSUME ReaderRestart PROVE IndexOrder'
  BY <1>0, <1>1, <1>2, <1>9 DEF ReaderRestart, IndexOrder, indices, writerVars
<1>10. ASSUME UNCHANGED <<readIndex, writeIndex, localReadIndex, localWriteIndex, nextWriteIndex,
                         nextReadIndex, restarts>>
       PROVE  IndexOrder'
  BY <1>0, <1>2, <1>10 DEF IndexOrder
<1> QED
  BY <1>0, <1>3, <1>4, <1>5, <1>6, <1>7, <1>8, <1>9, <1>10
  DEF Next, Write, Read, PacketArrives, WriteRoom, WriteStale, ReadAvailable, ReadStale, ReadCopy,
      ReadCount, ReadReset, ReaderStops, vars, indices, writerVars, readerVars

\* The two copies are at most where the order leaves them: in different slots.
LEMMA CopiesApart ==
  ASSUME IInv
  PROVE  NoSlotRace
<1> USE DEF Typed
<1>0. Typed
  BY InvariantTyped
<1>1. ASSUME wpc = "copy", rpc = "copy" PROVE nextWriteIndex # nextReadIndex
  <2>1. Distance(nextReadIndex, nextWriteIndex) > 0
    BY <1>1, ReadHasTuple
  <2> QED
    BY <1>0, <2>1, DistanceType
<1> QED
  BY <1>1 DEF NoSlotRace

LEMMA StepCounted ==
  ASSUME IInv, [Next]_vars
  PROVE  Counted'
<1> USE DEF Typed
<1>0. Typed
  BY InvariantTyped
<1> DEFINE D(a, b) == Distance(a, b)
<1>1. \A a, b \in Slot : D(a, b) \in Nat /\ D(a, b) < RB_SIZE /\ D(a, a) = 0
  BY DistanceType
<1>2. Counted /\ D(readIndex, nextReadIndex) <= RB_BATCH + restarts /\ rBatchCount <= RB_BATCH + restarts
  BY <1>0 DEF IInv, IndexOrder, TypeOK
<1>3. ASSUME WriteCopy PROVE Counted'
  <2>1. D(writeIndex, nextWriteIndex') = D(writeIndex, nextWriteIndex) + 1
    BY <1>0, <1>3, CopyHasRoom, DistanceToNext DEF WriteCopy
  <2>2. UNCHANGED <<readIndex, writeIndex, nextReadIndex, rBatchCount, rpc, restarts>>
    BY <1>3 DEF WriteCopy, indices, readerVars
  <2>3. /\ wBatchCount < RB_BATCH
        /\ wBatchCount' = wBatchCount + 1
        /\ wpc' # "publish" => wBatchCount' < RB_BATCH
    BY <1>0, <1>2, <1>3 DEF Counted, WriteCopy
  <2> QED
    BY <1>0, <1>2, <2>1, <2>2, <2>3 DEF Counted
<1>4. ASSUME PacketArrives \/ WriteRoom \/ WriteStale \/ WriteRefresh PROVE Counted'
  BY <1>2, <1>4 DEF PacketArrives, WriteRoom, WriteStale, WriteRefresh, Counted, indices, readerVars
<1>5. ASSUME WritePublish PROVE Counted'
  BY <1>0, <1>1, <1>2, <1>5 DEF WritePublish, Counted, readerVars
<1>6. ASSUME ReadAvailable \/ ReadStale \/ ReadRefresh \/ ReadCopy \/ ReaderStops PROVE Counted'
  BY <1>2, <1>6 DEF ReadAvailable, ReadStale, ReadRefresh, ReadCopy, ReaderStops, Counted, indices, writerVars
<1>7. ASSUME ReadAdvance PROVE Counted'
  <2>1. D(readIndex, nextReadIndex') = D(readIndex, nextReadIndex) + 1
    <3>1. nextReadIndex' = nextVal(nextReadIndex)
      BY <1>7 DEF ReadAdvance
    <3>2. D(readIndex, nextReadIndex) < D(readIndex, localWriteIndex)
      BY <1>7, ReadHasTuple DEF ReadAdvance
    <3> QED
      BY <1>0, <1>1, <3>1, <3>2, DistanceToNext
  <2>2. /\ UNCHANGED <<readIndex, writeIndex, nextWriteIndex, wBatchCount, wpc, rBatchCount, restarts>>
        /\ rpc = "advance" /\ rpc' = "count"
    BY <1>7 DEF ReadAdvance, indices, writerVars
  <2> QED
    BY <1>0, <1>1, <1>2, <2>1, <2>2 DEF Counted
<1>8. ASSUME ReadCount PROVE Counted'
  BY <1>0, <1>1, <1>2, <1>8 DEF ReadCount, Counted, indices, writerVars
<1>9. ASSUME ReadPublish PROVE Counted'
  BY <1>0, <1>1, <1>2, <1>9 DEF ReadPublish, Counted, writerVars
<1>10. ASSUME ReadReset PROVE Counted'
  BY <1>0, <1>1, <1>2, <1>10 DEF ReadReset, Counted, indices, writerVars
<1>11. ASSUME ReaderRestart PROVE Counted'
  BY <1>0, <1>1, <1>2, <1>11 DEF ReaderRestart, Counted, indices, writerVars
<1>12. ASSUME UNCHANGED vars PROVE Counted'
  BY <1>2, <1>12 DEF vars, Counted, indices, writerVars, readerVars
<1> QED
  BY <1>3, <1>4, <1>5, <1>6, <1>7, <1>8, <1>9, <1>10, <1>11, <1>12 DEF Next, Write, Read

LEMMA StepGuarded ==
  ASSUME IInv, [Next]_vars
  PROVE  Guarded'
<1> USE DEF Typed
<1>0. Typed
  BY InvariantTyped
<1> DEFINE D(a, b) == Distance(a, b)
<1>1. Guarded
  BY DEF IInv
<1>d. \A a, b \in Slot : D(a, b) \in Nat /\ D(a, b) < RB_SIZE /\ (D(a, b) = 0 <=> a = b)
  BY DistanceType
<1>2. ASSUME PacketArrives \/ WriteRoom \/ WriteStale PROVE Guarded'
  BY <1>1, <1>2 DEF PacketArrives, WriteRoom, WriteStale, Guarded, indices, readerVars
<1>3. ASSUME WriteRefresh PROVE Guarded'
  BY <1>1, <1>3 DEF WriteRefresh, Guarded, indices, readerVars
<1>4. ASSUME WriteCopy PROVE Guarded'
  BY <1>1, <1>4 DEF WriteCopy, Guarded, indices, readerVars
\* The writer publishes more than it had: the reader still has a tuple.
<1>5. ASSUME WritePublish PROVE Guarded'
  <2>1. ASSUME rpc = "refresh" PROVE nextReadIndex # nextWriteIndex
    <3>1. nextReadIndex # writeIndex
      BY <1>1, <2>1 DEF Guarded
    <3>2. D(readIndex, nextReadIndex) <= D(readIndex, writeIndex)
      BY <1>0, Ordered, <1>d
    <3>3. D(nextReadIndex, writeIndex) = D(readIndex, writeIndex) - D(readIndex, nextReadIndex)
      BY <1>0, <3>2, DistanceAdds
    <3>4. D(nextReadIndex, writeIndex) > 0
      BY <1>0, <3>1, <1>d
    <3>5. D(nextReadIndex, nextWriteIndex) > 0
      BY <1>0, <3>3, <3>4, Ordered, <1>d
    <3> QED
      BY <1>0, <3>5, <1>d
  <2> QED
    BY <1>1, <1>5, <2>1 DEF WritePublish, Guarded, readerVars
<1>6. ASSUME ReadAvailable \/ ReadStale \/ ReadRefresh PROVE Guarded'
  BY <1>1, <1>6 DEF ReadAvailable, ReadStale, ReadRefresh, Guarded, indices, writerVars
\* The slot that is read still holds the tuple that is next.
<1>7. ASSUME ReadCopy PROVE Guarded'
  <2>1. data[nextReadIndex] = Len(received) + 1
    <3>1. D(nextReadIndex, nextReadIndex) = 0 /\ D(nextReadIndex, nextWriteIndex) > 0
      BY <1>0, <1>7, ReadHasTuple, <1>d DEF ReadCopy
    <3>2. data[nextReadIndex] = Len(received) + D(nextReadIndex, nextReadIndex) + 1
      BY <1>0, <3>1 DEF IInv, Contents
    <3>3. Len(received) \in Nat
      BY DEF IInv, TypeOK
    <3> QED
      BY <3>1, <3>2, <3>3
  <2> QED
    BY <1>1, <1>7, <2>1 DEF ReadCopy, Guarded, indices, writerVars
<1>8. ASSUME ReadAdvance \/ ReadCount \/ ReadReset \/ ReaderStops \/ ReaderRestart PROVE Guarded'
  BY <1>1, <1>8 DEF ReadAdvance, ReadCount, ReadReset, ReaderStops, ReaderRestart, Guarded, indices, writerVars
\* The reader publishes more than it had: the writer still has room.
<1>9. ASSUME ReadPublish PROVE Guarded'
  <2>1. ASSUME wpc = "refresh" PROVE nextVal(nextWriteIndex) # nextReadIndex
    <3>3. nextVal(nextWriteIndex) # readIndex
      BY <1>1, <2>1 DEF Guarded
    <3>1. D(readIndex, nextWriteIndex) < RB_SIZE - 1
      BY <1>0, <3>3, DistanceToNext, <1>d
    <3>2. D(nextReadIndex, nextWriteIndex) < RB_SIZE - 1
      BY <1>0, <3>1, Ordered, <1>d
    <3> QED
      BY <1>0, <3>2, DistanceToNext
  <2> QED
    BY <1>1, <1>9, <2>1 DEF ReadPublish, Guarded, writerVars
<1>10. ASSUME UNCHANGED vars PROVE Guarded'
  BY <1>1, <1>10 DEF vars, Guarded, indices, writerVars, readerVars
<1> QED
  BY <1>2, <1>3, <1>4, <1>5, <1>6, <1>7, <1>8, <1>9, <1>10 DEF Next, Write, Read

LEMMA StepContents ==
  ASSUME IInv, [Next]_vars
  PROVE  Contents'
<1> USE DEF Typed
<1>0. Typed
  BY InvariantTyped
<1> DEFINE D(a, b) == Distance(a, b)
           R == Len(received)
<1>d. \A a, b \in Slot : D(a, b) \in Nat /\ D(a, b) < RB_SIZE /\ (D(a, b) = 0 <=> a = b)
  BY DistanceType
<1>1. R \in Nat /\ written - R = D(nextReadIndex, nextWriteIndex)
  BY DEF IInv, Contents, TypeOK
<1>6. \A s \in Slot : D(nextReadIndex, s) < written - R => data[s] = R + D(nextReadIndex, s) + 1
  BY DEF IInv, Contents
<1>7. data \in [Slot -> 0 .. MaxTuples] /\ received = [n \in 1 .. R |-> n]
  BY DEF IInv, Contents, TypeOK
<1>2. SUFFICES ASSUME NEW r, r = Len(received') PROVE
        /\ received' = [n \in 1 .. r |-> n]
        /\ written' - r = D(nextReadIndex', nextWriteIndex')
        /\ \A s \in Slot : D(nextReadIndex', s) < written' - r => data'[s] = r + D(nextReadIndex', s) + 1
  BY DEF Contents
<1> HIDE DEF R
\* The tuple goes to the slot behind those that are taken.
<1>3. CASE WriteCopy
  <2>1. /\ UNCHANGED <<received, nextReadIndex>>
        /\ written' = written + 1
        /\ nextWriteIndex' = nextVal(nextWriteIndex)
        /\ data' = [data EXCEPT ![nextWriteIndex] = written + 1]
        /\ r = R
    BY <1>2, <1>3 DEF WriteCopy, readerVars, R
  <2>2. D(nextReadIndex, nextWriteIndex') = D(nextReadIndex, nextWriteIndex) + 1
    BY <1>0, <1>3, <2>1, CopyHasRoom, DistanceToNext DEF WriteCopy
  <2>3. ASSUME NEW s \in Slot, D(nextReadIndex, s) < written + 1 - R
        PROVE  data'[s] = R + D(nextReadIndex, s) + 1
    <3>1. CASE s = nextWriteIndex
      BY <1>0, <1>1, <1>7, <2>1, <3>1
    <3>2. CASE s # nextWriteIndex
      <4>1. D(nextReadIndex, s) # D(nextReadIndex, nextWriteIndex)
        BY <1>0, <3>2, DistanceTells
      <4>2. D(nextReadIndex, s) < written - R
        BY <1>0, <1>d, <1>1, <2>3, <4>1
      <4>3. data'[s] = data[s]
        BY <1>7, <2>1, <3>2
      <4> QED
        BY <1>6, <4>2, <4>3
    <3> QED
      BY <3>1, <3>2
  <2>4. written' - r = D(nextReadIndex', nextWriteIndex')
    BY <1>0, <1>1, <1>d, <2>1, <2>2
  <2>5. received' = [n \in 1 .. r |-> n]
    BY <1>7, <2>1
  <2>6. nextReadIndex' = nextReadIndex /\ written' = written + 1 /\ r = R
    BY <2>1
  <2>7. \A s \in Slot : D(nextReadIndex', s) < written' - r => data'[s] = r + D(nextReadIndex', s) + 1
    BY <1>0, <1>1, <1>d, <2>3, <2>6
  <2> QED
    BY <2>4, <2>5, <2>7
\* The first of the tuples leaves, all others come one nearer.
<1>4. CASE ReadAdvance
  <2>1. /\ received' = Append(received, tuple)
        /\ nextReadIndex' = nextVal(nextReadIndex)
        /\ UNCHANGED <<written, nextWriteIndex, data>>
        /\ tuple = R + 1
        /\ rpc = "advance"
    BY <1>4 DEF ReadAdvance, writerVars, IInv, Guarded, R
  <2>2. received' = [n \in 1 .. R + 1 |-> n] /\ r = R + 1
    <3>1. received' = Append([n \in 1 .. R |-> n], R + 1)
      BY <1>7, <2>1
    <3>2. received' = [n \in 1 .. R + 1 |-> n]
      BY <1>1, <3>1, FirstTuples
    <3> QED
      BY <1>1, <1>2, <3>2, FirstTuples
  <2>3. nextReadIndex # nextWriteIndex
    BY <1>0, <1>d, <2>1, ReadHasTuple
  <2>4. D(nextReadIndex', nextWriteIndex) = D(nextReadIndex, nextWriteIndex) - 1
    BY <1>0, <2>1, <2>3, DistanceFromNext
  <2>5. ASSUME NEW s \in Slot, D(nextReadIndex', s) < written - (R + 1)
        PROVE  data[s] = R + 1 + D(nextReadIndex', s) + 1
    <3>1. s # nextReadIndex
      BY <1>0, <1>1, <1>d, <2>1, <2>5, DistanceTells
    <3>2. D(nextReadIndex', s) = D(nextReadIndex, s) - 1
      BY <1>0, <2>1, <3>1, DistanceFromNext
    <3>3. D(nextReadIndex, s) < written - R
      BY <1>0, <1>1, <1>d, <2>5, <3>2
    <3>4. data[s] = R + D(nextReadIndex, s) + 1
      BY <1>6, <3>3
    <3> QED
      BY <1>0, <1>1, <1>d, <3>2, <3>4
  <2>6. written - (R + 1) = D(nextReadIndex', nextWriteIndex)
    BY <1>0, <1>1, <1>d, <2>4
  <2> QED
    BY <2>1, <2>2, <2>5, <2>6
<1>5. CASE UNCHANGED <<received, nextReadIndex, written, nextWriteIndex, data>>
  BY <1>1, <1>2, <1>5, <1>6, <1>7 DEF R
<1> QED
  BY <1>3, <1>4, <1>5
  DEF Next, Write, Read, PacketArrives, WriteRoom, WriteStale, WriteRefresh, WritePublish,
      ReadAvailable, ReadStale, ReadRefresh, ReadCopy, ReadCount, ReadPublish, ReadReset,
      ReaderStops, ReaderRestart, vars, indices, writerVars, readerVars
-----------------------------------------------------------------------------
LEMMA InitRing == Init => IInv
<1> SUFFICES ASSUME Init PROVE IInv
  OBVIOUS
<1>1. 0 \in Slot /\ RB_SIZE \in Nat /\ RB_BATCH \in Nat /\ RB_BATCH > 0
  BY RingAssumption DEF Slot
<1>2. Distance(0, 0) = 0
  BY <1>1, DistanceType
<1>3. TypeOK
  <2>1. received \in Seq(0 .. MaxTuples)
    BY DEF Init
  <2> QED
    BY <1>1, <2>1, RingAssumption DEF Init, TypeOK
<1>4. IndexOrder /\ Counted
  BY <1>1, <1>2 DEF Init, IndexOrder, Counted
<1>5. Guarded
  BY DEF Init, Guarded
<1>6. Contents
  <2>1. received = [n \in 1 .. 0 |-> n] /\ Len(received) = 0
    BY DEF Init
  <2> QED
    BY <1>1, <1>2, <2>1, DistanceType DEF Init, Contents
<1> QED
  BY <1>3, <1>4, <1>5, <1>6 DEF IInv

LEMMA StepRing == IInv /\ [Next]_vars => IInv'
  BY StepType, StepOrder, StepCounted, StepGuarded, StepContents DEF IInv

LEMMA RingHolds == Spec => []IInv
  BY InitRing, StepRing, PTL DEF Spec

(***************************************************************************)
(* In every reachable state the indices are in the order of the picture in *)
(* ringbuffer.h, the two copies are in different slots, and the unread     *)
(* tuples lie in the ring, whatever the sizes and wherever the reader was  *)
(* restarted.                                                              *)
(***************************************************************************)
THEOREM RingInvariantHolds == Spec => []RingInvariant
<1>1. IInv => RingInvariant
  BY CopiesApart DEF IInv, RingInvariant
<1> QED
  BY <1>1, RingHolds, PTL
-----------------------------------------------------------------------------
\* A counting sequence is a prefix of every longer one.
LEMMA TuplesPrefix ==
  ASSUME NEW m \in Nat, NEW n \in Nat, m <= n
  PROVE  /\ RingChannel!IsPrefix([i \in 1 .. m |-> i], [i \in 1 .. n |-> i])
         /\ m < n => RingChannel!IsStrictPrefix([i \in 1 .. m |-> i], [i \in 1 .. n |-> i])
<1> DEFINE s == [i \in 1 .. m |-> i]  t == [i \in 1 .. n |-> i]
<1>1. Len(s) = m /\ Len(t) = n /\ s \in Seq(Nat) /\ t \in Seq(Nat)
  BY FirstTuples
<1>2. \A i \in 1 .. m : s[i] = i /\ t[i] = i
  OBVIOUS
<1> HIDE DEF s, t
<1>3. SubSeq(s, 1, m) = [i \in 1 .. m |-> i] /\ SubSeq(t, 1, m) = [i \in 1 .. m |-> i]
  BY <1>1, <1>2
<1>4. RingChannel!IsPrefix(s, t)
  BY <1>1, <1>3 DEF RingChannel!IsPrefix
<1>5. m < n => s # t
  BY <1>1
<1> QED
  BY <1>4, <1>5 DEF RingChannel!IsStrictPrefix, s, t

(***************************************************************************)
(* The ring implements the channel: a copy into the ring is a Send, an     *)
(* advance of the reader a Receive, every other step leaves the channel    *)
(* alone.                                                                  *)
(***************************************************************************)
THEOREM RingIsChannel == Spec => ImplementsChannel
<1>1. Init => RingChannel!Init
  <2> SUFFICES ASSUME Init PROVE RingChannel!Init
    OBVIOUS
  <2>1. [n \in 1 .. written |-> n] = <<>> /\ received = <<>>
    BY DEF Init
  <2> QED
    BY <2>1 DEF RingChannel!Init
<1>2. IInv /\ [Next]_vars => [RingChannel!Next]_<<[n \in 1 .. written |-> n], received>>
  <2> SUFFICES ASSUME IInv, [Next]_vars
               PROVE  [RingChannel!Next]_<<[n \in 1 .. written |-> n], received>>
    OBVIOUS
  <2> DEFINE R == Len(received)
             sent == [n \in 1 .. written |-> n]
  <2>1. written \in Nat /\ R \in Nat /\ received = [n \in 1 .. R |-> n]
    BY DEF IInv, TypeOK, Contents
  <2>2. 0 <= written - R /\ written - R < RB_SIZE /\ RB_SIZE \in Nat
    <3>1. Distance(nextReadIndex, nextWriteIndex) \in Nat /\ Distance(nextReadIndex, nextWriteIndex) < RB_SIZE
      BY InvariantTyped, DistanceType DEF Typed
    <3>2. written - R = Distance(nextReadIndex, nextWriteIndex)
      BY DEF IInv, Contents
    <3> QED
      BY <3>1, <3>2, RingAssumption
  <2>3. CASE WriteCopy
    <3>1. written' = written + 1 /\ received' = received
      BY <2>3 DEF WriteCopy, readerVars
    <3>2. RingChannel!IsStrictPrefix(sent, sent')
      BY <2>1, <3>1, TuplesPrefix
    <3>3. Len(sent') = written + 1
      BY <2>1, <3>1, FirstTuples
    <3>4. written - R < RB_SIZE - 1
      <4>1. /\ nextVal(nextWriteIndex) # nextReadIndex
            /\ nextReadIndex \in Slot /\ nextWriteIndex \in Slot
        BY <2>3, CopyHasRoom, InvariantTyped DEF WriteCopy, Typed
      <4>2. Distance(nextReadIndex, nextWriteIndex) # RB_SIZE - 1
        BY <4>1, DistanceToNext
      <4>3. written - R = Distance(nextReadIndex, nextWriteIndex)
        BY DEF IInv, Contents
      <4> HIDE DEF R
      <4> QED
        BY <2>1, <2>2, <4>2, <4>3
    <3>5. RingChannel!Send
      BY <2>1, <2>2, <3>1, <3>2, <3>3, <3>4 DEF RingChannel!Send
    <3> QED
      BY <3>5 DEF RingChannel!Next
  <2>4. CASE ReadAdvance
    <3>1. /\ received' = Append(received, tuple) /\ tuple = R + 1 /\ written' = written
          /\ rpc = "advance"
      BY <2>4 DEF ReadAdvance, writerVars, IInv, Guarded
    <3>2. received' = [n \in 1 .. R + 1 |-> n]
      <4>1. received' = Append([n \in 1 .. R |-> n], R + 1)
        BY <2>1, <3>1
      <4> QED
        BY <2>1, <4>1, FirstTuples
    <3>3. R + 1 <= written
      <4>1. Distance(nextReadIndex, nextWriteIndex) > 0
        BY <3>1, ReadHasTuple
      <4>2. written - R = Distance(nextReadIndex, nextWriteIndex)
        BY DEF IInv, Contents
      <4> QED
        BY <2>1, <4>1, <4>2
    <3>4. RingChannel!IsStrictPrefix(received, received') /\ RingChannel!IsPrefix(received', sent)
      <4> HIDE DEF R
      <4>1. R + 1 \in Nat /\ R <= R + 1 /\ R < R + 1
        BY <2>1
      <4> QED
        BY <2>1, <3>2, <3>3, <4>1, TuplesPrefix
    <3>5. RingChannel!Receive
      BY <3>1, <3>4 DEF RingChannel!Receive
    <3> QED
      BY <3>5 DEF RingChannel!Next
  <2>5. CASE UNCHANGED <<written, received>>
    BY <2>5
  <2> QED
    BY <2>3, <2>4, <2>5
    DEF Next, Write, Read, PacketArrives, WriteRoom, WriteStale, WriteRefresh, WritePublish,
        ReadAvailable, ReadStale, ReadRefresh, ReadCopy, ReadCount, ReadPublish, ReadReset,
        ReaderStops, ReaderRestart, vars, indices, writerVars, readerVars
<1> QED
  BY <1>1, <1>2, RingHolds, PTL DEF Spec, ImplementsChannel, RingChannel!Spec
-----------------------------------------------------------------------------
(***************************************************************************)
(* The reader of N rings, whose switch comes and goes: it takes the tuples *)
(* of each segment from the first on and each once (FromTheFirstOnce), for *)
(* any number of rings, segments, and restarts of the switch's threads and *)
(* of the reader.                                                          *)
(*                                                                         *)
(* The reader does not wait for a segment's initialisation.  What saves it *)
(* is in ThreadsOK: until its thread initialises a segment nothing has     *)
(* been published in it, so there was nothing to read and clearing the     *)
(* indices changes nothing.                                                *)
(***************************************************************************)

Segment == [nextWrite : Nat, write : Nat, nextRead : Nat, read : Nat]

\* Of a segment with indices s the reader has got r: the tuples from the first
\* on, and none that was not published.
Sound(s, r) ==
  /\ s \in Segment /\ r \in Seq(Nat)
  /\ r = [n \in 1 .. s.nextRead |-> n]
  /\ s.nextRead <= s.write /\ s.write <= s.nextWrite

SegmentsOK ==
  /\ segments \in [Rings -> Seq(Segment)] /\ taken \in [Rings -> Seq(Seq(Nat))]
  /\ \A i \in Rings : Len(taken[i]) = Len(segments[i])
  /\ \A i \in Rings : \A g \in 1 .. Len(segments[i]) : Sound(segments[i][g], taken[i][g])

ThreadsOK ==
  /\ named \in [Rings -> Nat] /\ \A i \in Rings : named[i] <= Len(segments[i])
  /\ spc \in [Rings -> {"off", "open", "initialise", "running"}]
  /\ \A i \in Rings : spc[i] \in {"initialise", "running"} => Len(segments[i]) >= 1
  /\ \A i \in Rings : spc[i] = "initialise" => segments[i][Newest(i)] = Zeroed

ReaderOK ==
  /\ rbs \in [Rings -> Nat] /\ \A i \in Rings : rbs[i] <= Len(segments[i])
  /\ connected \in 0 .. N /\ \A i \in Rings : i < connected => rbs[i] >= 1
  /\ idx \in Rings

(***************************************************************************)
(* The inductive invariant: the segments are sound, a thread at work has   *)
(* made its segment and nothing is in it before it is initialised, and     *)
(* what the names and the reader's mappings lead to exists.                *)
(***************************************************************************)
ReaderInvariant == SegmentsOK /\ ThreadsOK /\ ReaderOK
-----------------------------------------------------------------------------
\* The numbers that the constants are.
Sized ==
  /\ N \in Nat /\ N >= 1 /\ RB_BATCH \in Nat /\ RB_BATCH >= 1
  /\ Rings = 0 .. N - 1 /\ Rings \subseteq Nat

LEMMA Numbers ==
  Sized
  BY ReaderAssumption DEF Sized, Rings

\* Appending the next number to the first k.
LEMMA OneNumberMore ==
  ASSUME NEW k \in Nat, NEW r, r = [n \in 1 .. k |-> n]
  PROVE  /\ r \in Seq(Nat)
         /\ Append(r, k + 1) = [n \in 1 .. k + 1 |-> n]
         /\ Append(r, k + 1) \in Seq(Nat)
  OBVIOUS

\* A well-typed sequence with one element set.
LEMMA SetElement ==
  ASSUME NEW T, NEW s, s \in Seq(T), NEW g, g \in 1 .. Len(s), NEW e, e \in T,
         NEW t, t = [s EXCEPT ![g] = e]
  PROVE  /\ t \in Seq(T) /\ Len(t) = Len(s)
         /\ \A h \in 1 .. Len(s) : t[h] = IF h = g THEN e ELSE s[h]
  BY ExceptSeq

\* Setting one element to what it is changes nothing.
LEMMA SetSame ==
  ASSUME NEW T, NEW s, s \in Seq(T), NEW g, g \in 1 .. Len(s)
  PROVE  s = [s EXCEPT ![g] = s[g]]
  OBVIOUS

\* The indices of one segment change, and what was taken from it, soundly.
LEMMA OneSegment ==
  ASSUME SegmentsOK, NEW i \in Rings, NEW g \in 1 .. Len(segments[i]),
         NEW s, NEW r, Sound(s, r),
         segments' = [segments EXCEPT ![i][g] = s],
         taken' = [taken EXCEPT ![i][g] = r]
  PROVE  /\ SegmentsOK'
         /\ \A j \in Rings : Len(segments'[j]) = Len(segments[j])
         /\ \A j \in Rings : \A h \in 1 .. Len(segments[j]) :
              ~(j = i /\ h = g) => segments'[j][h] = segments[j][h]
<1>1. /\ segments \in [Rings -> Seq(Segment)] /\ taken \in [Rings -> Seq(Seq(Nat))]
      /\ \A j \in Rings : Len(taken[j]) = Len(segments[j])
      /\ s \in Segment /\ r \in Seq(Nat)
  BY DEF SegmentsOK, Sound
<1>2. PICK S : S = [segments[i] EXCEPT ![g] = s]
  OBVIOUS
<1>3. PICK R : R = [taken[i] EXCEPT ![g] = r]
  OBVIOUS
<1>4. /\ S \in Seq(Segment) /\ Len(S) = Len(segments[i])
      /\ \A h \in 1 .. Len(segments[i]) : S[h] = IF h = g THEN s ELSE segments[i][h]
  BY <1>1, <1>2, SetElement
<1>5. /\ R \in Seq(Seq(Nat)) /\ Len(R) = Len(segments[i])
      /\ \A h \in 1 .. Len(segments[i]) : R[h] = IF h = g THEN r ELSE taken[i][h]
  <2>1. taken[i] \in Seq(Seq(Nat)) /\ g \in 1 .. Len(taken[i])
    BY <1>1
  <2> QED
    BY <1>1, <1>3, <2>1, SetElement
<1>6. segments' = [segments EXCEPT ![i] = S] /\ taken' = [taken EXCEPT ![i] = R]
  BY <1>2, <1>3
<1>7. /\ segments' \in [Rings -> Seq(Segment)] /\ taken' \in [Rings -> Seq(Seq(Nat))]
      /\ \A j \in Rings : segments'[j] = IF j = i THEN S ELSE segments[j]
      /\ \A j \in Rings : taken'[j] = IF j = i THEN R ELSE taken[j]
  BY <1>1, <1>4, <1>5, <1>6
<1>8. \A j \in Rings : /\ Len(segments'[j]) = Len(segments[j])
                       /\ Len(taken'[j]) = Len(segments'[j])
  BY <1>1, <1>4, <1>5, <1>7
<1>9. ASSUME NEW j \in Rings, NEW h \in 1 .. Len(segments[j])
      PROVE  Sound(segments'[j][h], taken'[j][h])
  <2>1. CASE j = i /\ h = g
    BY <1>4, <1>5, <1>7, <2>1
  <2>2. CASE ~(j = i /\ h = g)
    <3>1. segments'[j][h] = segments[j][h] /\ taken'[j][h] = taken[j][h]
      BY <1>4, <1>5, <1>7, <2>2
    <3> QED
      BY <3>1 DEF SegmentsOK
  <2> QED
    BY <2>1, <2>2
<1>10. SegmentsOK'
  BY <1>7, <1>8, <1>9 DEF SegmentsOK
<1> QED
  BY <1>4, <1>7, <1>8, <1>10
-----------------------------------------------------------------------------
LEMMA InitReader ==
  ASSUME Sized, ReaderInit PROVE ReaderInvariant
<1> USE DEF Sized
<1>1. SegmentsOK
  BY DEF ReaderInit, SegmentsOK
<1>2. ThreadsOK
  BY DEF ReaderInit, ThreadsOK
<1>3. ReaderOK
  BY DEF ReaderInit, ReaderOK
<1> QED
  BY <1>1, <1>2, <1>3 DEF ReaderInvariant

\* A name goes: nothing was lost, since the reader maps segments and not names.
LEMMA UnlinkReader ==
  ASSUME ReaderInvariant, NEW i \in Rings, Unlink(i) PROVE ReaderInvariant'
<1>1. SegmentsOK' /\ ReaderOK'
  BY DEF ReaderInvariant, Unlink, mappingVars, SegmentsOK, ReaderOK
<1>2. ThreadsOK'
  BY DEF ReaderInvariant, Unlink, SegmentsOK, ThreadsOK, Newest
<1> QED
  BY <1>1, <1>2 DEF ReaderInvariant

\* A new segment is empty, and nothing has been taken from it.
LEMMA OpenReader ==
  ASSUME ReaderInvariant, NEW i \in Rings, Open(i) PROVE ReaderInvariant'
<1>1. /\ segments \in [Rings -> Seq(Segment)] /\ taken \in [Rings -> Seq(Seq(Nat))]
      /\ \A j \in Rings : Len(taken[j]) = Len(segments[j])
      /\ segments' = [segments EXCEPT ![i] = Append(@, Zeroed)]
      /\ taken' = [taken EXCEPT ![i] = Append(@, <<>>)]
      /\ UNCHANGED mappingVars
  BY DEF ReaderInvariant, SegmentsOK, Open
<1>2. Sound(Zeroed, <<>>) /\ Zeroed \in Segment /\ <<>> \in Seq(Nat)
  BY DEF Sound, Zeroed, Segment
<1>3. PICK S : S = Append(segments[i], Zeroed)
  OBVIOUS
<1>4. PICK R : R = Append(taken[i], <<>>)
  OBVIOUS
<1>5. /\ S \in Seq(Segment) /\ Len(S) = Len(segments[i]) + 1
      /\ \A h \in 1 .. Len(segments[i]) : S[h] = segments[i][h]
      /\ S[Len(segments[i]) + 1] = Zeroed
  <2>1. segments[i] \in Seq(Segment)
    BY <1>1
  <2> QED
    BY <1>2, <1>3, <2>1, AppendProperties
<1>6. /\ R \in Seq(Seq(Nat)) /\ Len(R) = Len(segments[i]) + 1
      /\ \A h \in 1 .. Len(segments[i]) : R[h] = taken[i][h]
      /\ R[Len(segments[i]) + 1] = <<>>
  <2>1. taken[i] \in Seq(Seq(Nat)) /\ Len(taken[i]) = Len(segments[i])
    BY <1>1
  <2> QED
    BY <1>2, <1>4, <2>1, AppendProperties
<1>7. /\ segments' \in [Rings -> Seq(Segment)] /\ taken' \in [Rings -> Seq(Seq(Nat))]
      /\ \A j \in Rings : segments'[j] = IF j = i THEN S ELSE segments[j]
      /\ \A j \in Rings : taken'[j] = IF j = i THEN R ELSE taken[j]
  BY <1>1, <1>3, <1>4, <1>5, <1>6
<1>8. \A j \in Rings : Len(segments[j]) \in Nat
  BY <1>1
<1>9. \A j \in Rings : Len(segments'[j]) = IF j = i THEN Len(segments[j]) + 1
                                                    ELSE Len(segments[j])
  BY <1>5, <1>7
<1>10. SegmentsOK'
  <2>1. \A j \in Rings : Len(taken'[j]) = Len(segments'[j])
    BY <1>1, <1>6, <1>7, <1>9
  <2>2. ASSUME NEW j \in Rings, NEW h \in 1 .. Len(segments'[j])
        PROVE  Sound(segments'[j][h], taken'[j][h])
    <3>1. CASE j = i /\ h = Len(segments[j]) + 1
      BY <1>2, <1>5, <1>6, <1>7, <3>1
    <3>2. CASE ~(j = i /\ h = Len(segments[j]) + 1)
      <4>1. h \in 1 .. Len(segments[j])
        BY <1>8, <1>9, <2>2, <3>2
      <4>2. segments'[j][h] = segments[j][h] /\ taken'[j][h] = taken[j][h]
        BY <1>5, <1>6, <1>7, <4>1
      <4> QED
        BY <4>1, <4>2 DEF ReaderInvariant, SegmentsOK
    <3> QED
      BY <3>1, <3>2
  <2> QED
    BY <1>7, <2>1, <2>2 DEF SegmentsOK
<1>11. ThreadsOK'
  <2>1. /\ named \in [Rings -> Nat] /\ \A j \in Rings : named[j] <= Len(segments[j])
        /\ named' = [named EXCEPT ![i] = Len(segments[i]) + 1]
        /\ spc \in [Rings -> {"off", "open", "initialise", "running"}]
        /\ \A j \in Rings : spc[j] \in {"initialise", "running"} => Len(segments[j]) >= 1
        /\ \A j \in Rings : spc[j] = "initialise" => segments[j][Len(segments[j])] = Zeroed
        /\ spc' = [spc EXCEPT ![i] = "initialise"]
    BY DEF ReaderInvariant, ThreadsOK, Open, Newest
  <2>2. /\ named' \in [Rings -> Nat]
        /\ spc' \in [Rings -> {"off", "open", "initialise", "running"}]
    BY <1>8, <2>1
  <2>3. \A j \in Rings : named'[j] <= Len(segments'[j])
    BY <1>8, <1>9, <2>1
  <2>4. \A j \in Rings : spc'[j] \in {"initialise", "running"} => Len(segments'[j]) >= 1
    BY <1>8, <1>9, <2>1
  <2>5. \A j \in Rings : spc'[j] = "initialise" => segments'[j][Len(segments'[j])] = Zeroed
    BY <1>5, <1>7, <1>9, <2>1
  <2> QED
    BY <2>2, <2>3, <2>4, <2>5 DEF ThreadsOK, Newest
<1>12. ReaderOK'
  <2>1. UNCHANGED <<rbs, connected, idx>>
    BY <1>1 DEF mappingVars
  <2>2. /\ rbs \in [Rings -> Nat] /\ \A j \in Rings : rbs[j] <= Len(segments[j])
    BY DEF ReaderInvariant, ReaderOK
  <2>3. \A j \in Rings : rbs[j] <= Len(segments'[j])
    BY <1>8, <1>9, <2>2
  <2> QED
    BY <2>1, <2>3 DEF ReaderInvariant, ReaderOK
<1> QED
  BY <1>10, <1>11, <1>12 DEF ReaderInvariant

\* The indices of a segment in which nothing was published are what they are
\* initialised to, whether or not the reader has connected to it.
LEMMA InitialiseReader ==
  ASSUME ReaderInvariant, NEW i \in Rings, Initialise(i) PROVE ReaderInvariant'
<1>1. /\ segments \in [Rings -> Seq(Segment)]
      /\ Len(segments[i]) >= 1 /\ segments[i][Len(segments[i])] = Zeroed
      /\ segments' = [segments EXCEPT ![i][Len(segments[i])] = Zeroed]
      /\ spc' = [spc EXCEPT ![i] = "running"]
      /\ UNCHANGED <<named, mappingVars, taken>>
  BY DEF ReaderInvariant, SegmentsOK, ThreadsOK, Initialise, Newest
<1>2. segments[i] = [segments[i] EXCEPT ![Len(segments[i])] = segments[i][Len(segments[i])]]
  <2>1. segments[i] \in Seq(Segment) /\ Len(segments[i]) \in 1 .. Len(segments[i])
    BY <1>1
  <2> QED
    BY <2>1, SetSame
<1>3. segments' = segments
  <2>1. segments' = [segments EXCEPT ![i] = segments[i]]
    BY <1>1, <1>2
  <2> QED
    BY <1>1, <2>1
<1>4. SegmentsOK' /\ ReaderOK'
  BY <1>1, <1>3 DEF ReaderInvariant, mappingVars, SegmentsOK, ReaderOK
<1>5. ThreadsOK'
  BY <1>1, <1>3 DEF ReaderInvariant, ThreadsOK, Newest
<1> QED
  BY <1>4, <1>5 DEF ReaderInvariant

\* A write publishes a whole batch or leaves what is published as it is.
LEMMA WriteReader ==
  ASSUME ReaderInvariant, NEW i \in Rings, WriteRingbuffer(i) PROVE ReaderInvariant'
<1> DEFINE g == Len(segments[i])
           s == segments[i][g]
           n == s.nextWrite + 1
           t == [s EXCEPT !.nextWrite = n, !.write = IF n - s.write >= RB_BATCH THEN n ELSE s.write]
<1>1. /\ SegmentsOK /\ g \in 1 .. Len(segments[i]) /\ Sound(s, taken[i][g])
      /\ taken \in [Rings -> Seq(Seq(Nat))] /\ Len(taken[i]) = Len(segments[i])
      /\ segments' = [segments EXCEPT ![i][g] = t]
      /\ spc[i] = "running" /\ UNCHANGED <<switchVars, mappingVars, taken>>
  <2>1. /\ segments' = [segments EXCEPT ![i][g] = t]
        /\ spc[i] = "running" /\ UNCHANGED <<switchVars, mappingVars, taken>>
    BY DEF WriteRingbuffer, Newest
  <2>2. /\ SegmentsOK /\ segments[i] \in Seq(Segment) /\ Len(segments[i]) >= 1
        /\ taken \in [Rings -> Seq(Seq(Nat))] /\ Len(taken[i]) = Len(segments[i])
    BY <2>1 DEF ReaderInvariant, SegmentsOK, ThreadsOK
  <2>3. g \in 1 .. Len(segments[i])
    BY <2>2
  <2>4. Sound(s, taken[i][g])
    BY <2>2, <2>3 DEF SegmentsOK
  <2> QED
    BY <2>1, <2>2, <2>3, <2>4
<1>2. Sound(t, taken[i][g])
  <2>1. /\ s \in Segment /\ s.nextRead <= s.write /\ s.write <= s.nextWrite
        /\ taken[i][g] \in Seq(Nat) /\ taken[i][g] = [m \in 1 .. s.nextRead |-> m]
        /\ n \in Nat /\ s.write \in Nat /\ s.nextRead \in Nat /\ s.nextWrite \in Nat
    BY <1>1 DEF Sound, Segment
  <2>2. PICK w : w = IF n - s.write >= RB_BATCH THEN n ELSE s.write
    OBVIOUS
  <2>3. w \in Nat /\ s.write <= w /\ w <= n
    BY <2>1, <2>2
  <2>4. t = [s EXCEPT !.nextWrite = n, !.write = w]
    BY <2>2
  <2>5. t \in Segment /\ t.nextRead = s.nextRead /\ t.write = w /\ t.nextWrite = n
    BY <2>1, <2>3, <2>4 DEF Segment
  <2>6. s.nextRead <= w
    BY <2>1, <2>3
  <2> HIDE DEF t, n
  <2> QED
    BY <2>1, <2>3, <2>5, <2>6 DEF Sound
<1>3. taken' = [taken EXCEPT ![i][g] = taken[i][g]]
  <2>1. taken[i] = [taken[i] EXCEPT ![g] = taken[i][g]]
    <3>1. taken[i] \in Seq(Seq(Nat)) /\ g \in 1 .. Len(taken[i])
      BY <1>1
    <3> QED
      BY <3>1, SetSame
  <2>2. taken = [taken EXCEPT ![i] = [taken[i] EXCEPT ![g] = taken[i][g]]]
    BY <1>1, <2>1
  <2> QED
    BY <1>1, <2>2
<1> HIDE DEF g, t
<1>4. /\ SegmentsOK'
      /\ \A j \in Rings : Len(segments'[j]) = Len(segments[j])
      /\ \A j \in Rings : \A h \in 1 .. Len(segments[j]) :
           ~(j = i /\ h = g) => segments'[j][h] = segments[j][h]
  BY <1>1, <1>2, <1>3, OneSegment
<1>5. ThreadsOK'
  <2>1. /\ ThreadsOK /\ UNCHANGED <<named, spc>>
        /\ \A j \in Rings : Len(segments[j]) \in Nat
    BY <1>1 DEF ReaderInvariant, SegmentsOK, switchVars
  <2>2. \A j \in Rings : spc[j] = "initialise" => segments'[j][Len(segments'[j])] = Zeroed
    <3> SUFFICES ASSUME NEW j \in Rings, spc[j] = "initialise"
                 PROVE  segments'[j][Len(segments[j])] = Zeroed
      BY <1>4
    <3>1. j # i /\ Len(segments[j]) \in 1 .. Len(segments[j])
      BY <1>1, <2>1 DEF ThreadsOK
    <3>2. segments'[j][Len(segments[j])] = segments[j][Len(segments[j])]
      BY <1>4, <3>1
    <3> QED
      BY <2>1, <3>2 DEF ThreadsOK, Newest
  <2> QED
    BY <1>4, <2>1, <2>2 DEF ThreadsOK, Newest
<1>6. ReaderOK'
  BY <1>1, <1>4 DEF ReaderInvariant, ReaderOK, mappingVars
<1> QED
  BY <1>4, <1>5, <1>6 DEF ReaderInvariant

LEMMA DownReader ==
  ASSUME ReaderInvariant, NEW i \in Rings, Down(i) PROVE ReaderInvariant'
<1>1. SegmentsOK' /\ ReaderOK'
  BY DEF ReaderInvariant, Down, mappingVars, SegmentsOK, ReaderOK
<1>2. ThreadsOK'
  BY DEF ReaderInvariant, Down, SegmentsOK, ThreadsOK, Newest
<1> QED
  BY <1>1, <1>2 DEF ReaderInvariant
-----------------------------------------------------------------------------
\* A name that is there leads to a segment.
LEMMA ConnectReader ==
  ASSUME Sized, ReaderInvariant, Connect PROVE ReaderInvariant'
<1>1. SegmentsOK' /\ ThreadsOK'
  BY DEF ReaderInvariant, Connect, switchVars, SegmentsOK, ThreadsOK, Newest
<1>2. ReaderOK'
  <2>1. /\ connected \in Rings /\ connected + 1 \in 0 .. N /\ connected \in Nat
        /\ UNCHANGED <<segments, idx>>
        /\ rbs' = [rbs EXCEPT ![connected] = named[connected]] /\ connected' = connected + 1
        /\ named \in [Rings -> Nat] /\ named[connected] >= 1
        /\ \A i \in Rings : named[i] <= Len(segments[i])
        /\ rbs \in [Rings -> Nat] /\ \A i \in Rings : rbs[i] <= Len(segments[i])
        /\ \A i \in Rings : i < connected => rbs[i] >= 1
        /\ idx \in Rings
    BY DEF Sized, ReaderInvariant, ThreadsOK, ReaderOK, Connect
  <2>2. \A i \in Rings : i < connected + 1 => i < connected \/ i = connected
    BY <2>1 DEF Sized
  <2>3. \A i \in Rings : rbs'[i] = IF i = connected THEN named[connected] ELSE rbs[i]
    BY <2>1
  <2>4. rbs' \in [Rings -> Nat]
    BY <2>1
  <2>5. \A i \in Rings : rbs'[i] <= Len(segments'[i])
    BY <2>1, <2>3
  <2>6. \A i \in Rings : i < connected' => rbs'[i] >= 1
    BY <2>1, <2>2, <2>3
  <2> QED
    BY <2>1, <2>4, <2>5, <2>6 DEF ReaderOK
<1> QED
  BY <1>1, <1>2 DEF ReaderInvariant

\* The reader takes the next tuple of a segment that has one published.  The
\* indices are not those of an initialised segment, so no thread is about to
\* clear them.
LEMMA ReadReader ==
  ASSUME Sized, ReaderInvariant, ReadRingbuffer PROVE ReaderInvariant'
<1> DEFINE g == rbs[idx]
           s == segments[idx][g]
           n == s.nextRead + 1
           t == [s EXCEPT !.nextRead = n, !.read = IF n - s.read >= RB_BATCH THEN n ELSE s.read]
           r == Append(taken[idx][g], n)
<1>1. /\ SegmentsOK /\ idx \in Rings /\ g \in 1 .. Len(segments[idx]) /\ connected = N
      /\ Sound(s, taken[idx][g]) /\ s.nextRead # s.write
      /\ segments' = [segments EXCEPT ![idx][g] = t]
      /\ taken' = [taken EXCEPT ![idx][g] = r]
      /\ UNCHANGED <<switchVars, mappingVars>>
  <2>1. /\ segments' = [segments EXCEPT ![idx][g] = t]
        /\ taken' = [taken EXCEPT ![idx][g] = r]
        /\ connected = N /\ s.nextRead # s.write /\ UNCHANGED <<switchVars, mappingVars>>
    BY DEF ReadRingbuffer, Here
  <2>2. /\ SegmentsOK /\ idx \in Rings /\ segments[idx] \in Seq(Segment)
        /\ rbs[idx] \in Nat /\ rbs[idx] <= Len(segments[idx]) /\ rbs[idx] >= 1
    BY <2>1 DEF Sized, ReaderInvariant, SegmentsOK, ReaderOK
  <2>3. g \in 1 .. Len(segments[idx])
    BY <2>2
  <2>4. Sound(s, taken[idx][g])
    BY <2>2, <2>3 DEF SegmentsOK
  <2> QED
    BY <2>1, <2>2, <2>3, <2>4
<1>2. Sound(t, r) /\ s # Zeroed
  <2>1. /\ s.nextRead \in Nat /\ s.write \in Nat /\ s.nextWrite \in Nat /\ s.read \in Nat
        /\ taken[idx][g] = [m \in 1 .. s.nextRead |-> m]
        /\ s.nextRead <= s.write /\ s.write <= s.nextWrite /\ s.nextRead # s.write
        /\ s \in Segment
    BY <1>1 DEF Sound, Segment
  <2>2. r \in Seq(Nat) /\ r = [m \in 1 .. n |-> m]
    BY <2>1, OneNumberMore
  <2>3. t \in Segment /\ t.nextRead = n /\ t.write = s.write /\ t.nextWrite = s.nextWrite
    <3>1. PICK e : e = IF n - s.read >= RB_BATCH THEN n ELSE s.read
      OBVIOUS
    <3>2. n \in Nat /\ e \in Nat
      BY <2>1, <3>1
    <3>3. t = [s EXCEPT !.nextRead = n, !.read = e]
      BY <3>1
    <3> HIDE DEF n, t
    <3> QED
      BY <2>1, <3>2, <3>3 DEF Segment
  <2>4. n <= s.write
    BY <2>1
  <2>5. s # Zeroed
    BY <2>1 DEF Zeroed
  <2> HIDE DEF t, r, n
  <2> QED
    BY <2>1, <2>2, <2>3, <2>4, <2>5 DEF Sound
<1> HIDE DEF t, r
<1>3. PICK h : h = g
  OBVIOUS
<1>4. /\ SegmentsOK'
      /\ \A j \in Rings : Len(segments'[j]) = Len(segments[j])
      /\ \A j \in Rings : \A k \in 1 .. Len(segments[j]) :
           ~(j = idx /\ k = h) => segments'[j][k] = segments[j][k]
  BY <1>1, <1>2, <1>3, OneSegment
<1>5. ThreadsOK'
  <2>1. /\ ThreadsOK /\ UNCHANGED <<named, spc>>
        /\ \A j \in Rings : Len(segments[j]) \in Nat
    BY <1>1 DEF ReaderInvariant, SegmentsOK, switchVars
  <2>2. \A j \in Rings : spc[j] = "initialise" => segments'[j][Len(segments'[j])] = Zeroed
    <3> SUFFICES ASSUME NEW j \in Rings, spc[j] = "initialise"
                 PROVE  segments'[j][Len(segments[j])] = Zeroed
      BY <1>4
    <3>1. /\ segments[j][Len(segments[j])] = Zeroed
          /\ Len(segments[j]) \in 1 .. Len(segments[j])
      BY <2>1 DEF ThreadsOK, Newest
    <3>2. ~(j = idx /\ Len(segments[j]) = h)
      BY <1>2, <1>3, <3>1
    <3> QED
      BY <1>4, <3>1, <3>2
  <2> QED
    BY <1>4, <2>1, <2>2 DEF ThreadsOK, Newest
<1>6. ReaderOK'
  BY <1>1, <1>4 DEF ReaderInvariant, ReaderOK, mappingVars
<1> QED
  BY <1>4, <1>5, <1>6 DEF ReaderInvariant

LEMMA NextRingReader ==
  ASSUME Sized, ReaderInvariant, NextRing PROVE ReaderInvariant'
<1>1. (idx + 1) % N \in Rings
  BY DEF Sized, ReaderInvariant, ReaderOK
<1>2. SegmentsOK' /\ ThreadsOK'
  BY DEF ReaderInvariant, NextRing, switchVars, SegmentsOK, ThreadsOK, Newest
<1>3. ReaderOK'
  BY <1>1 DEF ReaderInvariant, NextRing, ReaderOK
<1> QED
  BY <1>2, <1>3 DEF ReaderInvariant

LEMMA RestartReader ==
  ASSUME Sized, ReaderInvariant, Restart PROVE ReaderInvariant'
<1>1. SegmentsOK' /\ ThreadsOK'
  BY DEF ReaderInvariant, Restart, switchVars, SegmentsOK, ThreadsOK, Newest
<1>2. ReaderOK'
  <2>1. \A i \in Rings : Len(segments[i]) \in Nat
    BY DEF ReaderInvariant, SegmentsOK
  <2> QED
    BY <2>1 DEF Sized, Restart, ReaderOK
<1> QED
  BY <1>1, <1>2 DEF ReaderInvariant

LEMMA StutterReader ==
  ASSUME ReaderInvariant, UNCHANGED segmentVars PROVE ReaderInvariant'
<1>1. SegmentsOK' /\ ThreadsOK' /\ ReaderOK'
  BY DEF ReaderInvariant, SegmentsOK, ThreadsOK, ReaderOK,
         segmentVars, switchVars, mappingVars, Newest
<1> QED
  BY <1>1 DEF ReaderInvariant

LEMMA StepReader ==
  ASSUME Sized, ReaderInvariant, [ReaderNext]_(segmentVars) PROVE ReaderInvariant'
<1>1. ASSUME NEW i \in Rings,
             \/ Unlink(i) \/ Open(i) \/ Initialise(i)
             \/ WriteRingbuffer(i) \/ Down(i)
      PROVE  ReaderInvariant'
  BY <1>1, UnlinkReader, OpenReader, InitialiseReader, WriteReader, DownReader
<1>2. CASE Connect
  BY <1>2, ConnectReader
<1>3. CASE ReadRingbuffer
  BY <1>3, ReadReader
<1>4. CASE NextRing
  BY <1>4, NextRingReader
<1>5. CASE Restart
  BY <1>5, RestartReader
<1>6. CASE UNCHANGED segmentVars
  BY <1>6, StutterReader
<1> QED
  BY <1>1, <1>2, <1>3, <1>4, <1>5, <1>6 DEF ReaderNext, Reader

LEMMA ReaderInvariantHolds ==
  ASSUME Sized PROVE ReaderSpec => []ReaderInvariant
<1>1. ReaderInit => ReaderInvariant
  BY InitReader
<1>2. ReaderInvariant /\ [ReaderNext]_(segmentVars) => ReaderInvariant'
  BY StepReader
<1> QED
  BY <1>1, <1>2, PTL DEF ReaderSpec

(***************************************************************************)
(* However many rings there are, and however often the threads of the      *)
(* switch and the reader go and come back, the reader gets of each segment *)
(* the tuples from the first on, each once and only published ones,        *)
(* although connect_ringbuffer_shm returns before the segment is           *)
(* initialised.                                                            *)
(***************************************************************************)
THEOREM TuplesFromTheFirstOnce == ReaderSpec => []FromTheFirstOnce
<1>1. ReaderInvariant => FromTheFirstOnce
  <2> SUFFICES ASSUME ReaderInvariant, NEW i \in Rings, NEW g \in DOMAIN segments[i]
               PROVE  /\ taken[i][g] = [n \in 1 .. segments[i][g].nextRead |-> n]
                      /\ segments[i][g].nextRead <= segments[i][g].write
    BY DEF FromTheFirstOnce
  <2>1. g \in 1 .. Len(segments[i])
    BY DEF ReaderInvariant, SegmentsOK
  <2> QED
    BY <2>1 DEF ReaderInvariant, SegmentsOK, Sound
<1>2. ReaderSpec => []ReaderInvariant
  BY Numbers, ReaderInvariantHolds
<1> QED
  BY <1>1, <1>2, PTL
=============================================================================
