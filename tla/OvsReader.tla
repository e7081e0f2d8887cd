----------------------------- MODULE OvsReader -----------------------------
(***************************************************************************)
(* The user reader and all the rings it serves.  Each thread of the switch *)
(* creates a ring in a shared-memory segment under the name of the ring;   *)
(* the reader connects to the names in turn and then goes round, leaving a *)
(* ring only when it finds it empty.                                       *)
(*                                                                         *)
(* A call of write_ringbuffer or read_ringbuffer is one step here: OvsRing *)
(* shows that calls that overlap do the same.  The indices are counted     *)
(* from the start of the segment instead of modulo RB_SIZE.                *)
(*                                                                         *)
(* Nobody ever unlinks the name of a ring that is in use, so a segment     *)
(* survives the switch, and a switch that is started again, or that makes  *)
(* its threads anew, puts a new segment under the name while the reader    *)
(* may still be mapping the old one.                                       *)
(***************************************************************************)
EXTENDS RingParam, Integers, Sequences, Functions

CONSTANTS
  N,            (* MAX_RINGBUFFER_NUM, one for each thread of the switch    *)
  MaxSegments   (* bound: segments made, under all names                    *)

ASSUME ReaderAssumption ==
  /\ {N, RB_SIZE, MaxTuples, MaxSegments} \subseteq Nat \ {0}
  /\ RB_BATCH \in Nat \ {0} /\ 2 * RB_BATCH <= RB_SIZE
  /\ MaxRestarts \in Nat

Rings == 0 .. N - 1

VARIABLES
  segments,    \* [Rings -> the segments made under the name, oldest first]
  named,       \* the one the name leads to, 0 when there is none
  spc,         \* where the thread of the switch is
  rbs,         \* the segments the reader has mapped, 0 before
  connected,   \* rings the reader has connected to
  idx,
  taken,       \* history: the tuples taken from each segment
  readerRestarts

switchVars == <<named, spc>>
mappingVars == <<rbs, connected, idx, readerRestarts>>
segmentVars == <<segments, switchVars, mappingVars, taken>>

\* nextWriteIndex, writeIndex, nextReadIndex and readIndex of a zeroed segment
Zeroed == [nextWrite |-> 0, write |-> 0, nextRead |-> 0, read |-> 0]
Newest(i) == Len(segments[i])
-----------------------------------------------------------------------------
ReaderInit ==
  /\ segments = [i \in Rings |-> <<>>]
  /\ named = [i \in Rings |-> 0]
  /\ spc = [i \in Rings |-> "off"]
  /\ rbs = [i \in Rings |-> 0]
  /\ connected = 0
  /\ idx = 0
  /\ taken = [i \in Rings |-> <<>>]
  /\ readerRestarts = 0
-----------------------------------------------------------------------------
(* create_ringbuffer_shm: the old name goes, a new segment comes (its      *)
(* memory zeroed by the system), the indices are cleared.                  *)
Unlink(i) ==
  /\ spc[i] = "off"
  /\ named' = [named EXCEPT ![i] = 0]
  /\ spc' = [spc EXCEPT ![i] = "open"]
  /\ UNCHANGED <<segments, mappingVars, taken>>

Open(i) ==
  /\ spc[i] = "open"
  /\ SumFunction([j \in Rings |-> Len(segments[j])]) < MaxSegments
  /\ segments' = [segments EXCEPT ![i] = Append(@, Zeroed)]
  /\ taken' = [taken EXCEPT ![i] = Append(@, <<>>)]
  /\ named' = [named EXCEPT ![i] = Newest(i) + 1]
  /\ spc' = [spc EXCEPT ![i] = "initialise"]
  /\ UNCHANGED mappingVars

Initialise(i) ==
  /\ spc[i] = "initialise"
  /\ segments' = [segments EXCEPT ![i][Newest(i)] = Zeroed]
  /\ spc' = [spc EXCEPT ![i] = "running"]
  /\ UNCHANGED <<named, mappingVars, taken>>

HasRoom(s) == s.nextWrite + 1 - s.read < RB_SIZE

\* write_ringbuffer returns 0; it is called again until it does
WriteRingbuffer(i) ==
  LET s == segments[i][Newest(i)]
      n == s.nextWrite + 1
  IN  /\ spc[i] = "running"
      /\ HasRoom(s)
      /\ n <= MaxTuples
      /\ segments' = [segments EXCEPT ![i][Newest(i)] =
                        [s EXCEPT !.nextWrite = n,
                                  !.write = IF n - s.write >= RB_BATCH THEN n ELSE s.write]]
      /\ UNCHANGED <<switchVars, mappingVars, taken>>

\* The thread is taken down, at any moment, and leaves its segment behind.
Down(i) ==
  /\ spc[i] # "off"
  /\ spc' = [spc EXCEPT ![i] = "off"]
  /\ UNCHANGED <<segments, named, mappingVars, taken>>
-----------------------------------------------------------------------------
\* Slip: the reader initialises what it connects to.
ConnectInitialising ==
  /\ connected < N
  /\ named[connected] # 0
  /\ rbs' = [rbs EXCEPT ![connected] = named[connected]]
  /\ segments' = [segments EXCEPT ![connected][named[connected]].nextRead = 0,
                                  ![connected][named[connected]].read = 0]
  /\ connected' = connected + 1
  /\ UNCHANGED <<switchVars, idx, readerRestarts, taken>>

\* connect_ringbuffer_shm: spins until the name is there, and returns without
\* waiting for the semaphore that says the segment is initialised
Connect ==
  /\ connected < N
  /\ named[connected] # 0
  /\ rbs' = [rbs EXCEPT ![connected] = named[connected]]
  /\ connected' = connected + 1
  /\ UNCHANGED <<segments, switchVars, idx, readerRestarts, taken>>

Here == segments[idx][rbs[idx]]

\* read_ringbuffer returns 0
ReadRingbuffer ==
  LET s == Here
      n == s.nextRead + 1
  IN  /\ connected = N
      /\ s.nextRead # s.write
      /\ segments' = [segments EXCEPT ![idx][rbs[idx]] =
                        [s EXCEPT !.nextRead = n,
                                  !.read = IF n - s.read >= RB_BATCH THEN n ELSE s.read]]
      /\ taken' = [taken EXCEPT ![idx][rbs[idx]] = Append(@, n)]
      /\ UNCHANGED <<switchVars, mappingVars>>

\* Slip: the last ring is not followed by the first.
NextRingNoWrap ==
  /\ connected = N
  /\ Here.nextRead = Here.write
  /\ idx < N - 1
  /\ idx' = idx + 1
  /\ UNCHANGED <<segments, switchVars, rbs, connected, readerRestarts, taken>>

\* read_ringbuffer fails: the next ring
NextRing ==
  /\ connected = N
  /\ Here.nextRead = Here.write
  /\ idx' = (idx + 1) % N
  /\ UNCHANGED <<segments, switchVars, rbs, connected, readerRestarts, taken>>

\* The reader dies between two calls and is started again.
Restart ==
  /\ readerRestarts < MaxRestarts
  /\ readerRestarts' = readerRestarts + 1
  /\ rbs' = [i \in Rings |-> 0]
  /\ connected' = 0
  /\ idx' = 0
  /\ UNCHANGED <<segments, switchVars, taken>>
-----------------------------------------------------------------------------
Reader == Connect \/ ReadRingbuffer \/ NextRing

ReaderNext ==
  \/ \E i \in Rings : Unlink(i) \/ Open(i) \/ Initialise(i) \/ WriteRingbuffer(i) \/ Down(i)
  \/ Reader \/ Restart

\* The reader never blocks: it spins on the name or on the rings.
ReaderSpec == ReaderInit /\ [][ReaderNext]_segmentVars /\ WF_segmentVars(Reader)
-----------------------------------------------------------------------------
(***************************************************************************)
(* Whatever is restarted in whatever order, and although the reader does   *)
(* not wait for the initialisation: of each segment the reader gets the    *)
(* tuples from the first on, each once and none that was not published.    *)
(***************************************************************************)
FromTheFirstOnce ==
  \A i \in Rings : \A g \in DOMAIN segments[i] :
    /\ taken[i][g] = [n \in 1 .. segments[i][g].nextRead |-> n]
    /\ segments[i][g].nextRead <= segments[i][g].write

(***************************************************************************)
(* A ring the reader is connected to is served, however busy the others    *)
(* were: what is published is read, and a full ring gets room again,       *)
(* unless the reader is restarted.  (With writers that go on for ever it   *)
(* is not: the reader never leaves a ring that is not empty.  A segment's  *)
(* number leaves one to each of the other names.)                          *)
(***************************************************************************)
ConnectedIsServed ==
  \A i \in Rings, g \in 1 .. MaxSegments - N + 1 :
    LET Mapped == connected = N /\ rbs[i] = g IN
    /\ \A n \in {m \in 1 .. MaxTuples : m % RB_BATCH = 0} :
         Mapped /\ segments[i][g].write >= n ~> ~Mapped \/ segments[i][g].nextRead >= n
    /\ Mapped /\ ~HasRoom(segments[i][g]) ~> ~Mapped \/ HasRoom(segments[i][g])
=============================================================================
