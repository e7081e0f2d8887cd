----------------------------- MODULE MultiCore -----------------------------
(***************************************************************************)
(* The multi-core program (multi_thread.cpp): the main thread reads a      *)
(* trace, deals the packets out to the threads by key, collects each       *)
(* thread's packets in main_buffer until there are a thousand, and copies  *)
(* them to the thread's packet_buffer, a ring with the counters            *)
(* cur_packet_num_push (written by main) and cur_packet_num_pull (written  *)
(* by the thread).  A thread inserts what it finds into a sketch of its    *)
(* own and ends when its ring is empty and insert_finish is set.           *)
(*                                                                         *)
(* An action is one access to the variables the threads share.  Packets    *)
(* are their positions 1 .. PacketCnt in the trace; 0 is zeroed memory.    *)
(***************************************************************************)
EXTENDS Integers, Sequences, SequencesExt, FiniteSets

CONSTANTS
  THREAD_NUM,
  BUFFER_MAX_PACKET_NUM,
  MAIN_THREAD_BUFFER_SIZE,
  PacketCnt,    (* packet_cnt: the length of the trace                      *)
  ThreadOf,     (* the key of a packet modulo THREAD_NUM                    *)
  TestCycles,   (* test_cycles: passes over the trace                       *)
  ReadySpin     (* what the compiler may make of the spin on begin_insert,  *)
                (* which is not volatile: "fresh" reads it in every round,  *)
                (* "once" before the loop only, "removed" drops the loop    *)

Threads == 0 .. THREAD_NUM - 1

ASSUME MultiCoreAssumption ==
  /\ THREAD_NUM \in Nat \ {0}
  /\ MAIN_THREAD_BUFFER_SIZE \in Nat \ {0, 1}
  /\ BUFFER_MAX_PACKET_NUM \in Nat
  /\ BUFFER_MAX_PACKET_NUM >= MAIN_THREAD_BUFFER_SIZE
  /\ PacketCnt \in Nat
  /\ ThreadOf \in [1 .. PacketCnt -> Threads]
  /\ TestCycles \in Nat \ {0}
  /\ ReadySpin \subseteq {"fresh", "once", "removed"}

VARIABLES
  packet_buffer, cur_packet_num_pull, cur_packet_num_push,
  insert_finish, begin_insert,
  main_buffer,          \* main's: the packets collected for each thread
  mainpc, next, cycle,  \* main's: where it is, next packet, pass
  pc,                   \* where each thread is
  val_pull, val_push,   \* a thread's copies of the counters
  insertion_cnt,        \* a thread's count, printed when it ends
  inserted              \* history: the packets in each thread's sketch

shared == <<packet_buffer, cur_packet_num_pull, cur_packet_num_push,
            insert_finish, begin_insert>>
mainVars == <<main_buffer, mainpc, next, cycle>>
threadVars == <<pc, val_pull, val_push, insertion_cnt, inserted>>
vars == <<shared, mainVars, threadVars>>
-----------------------------------------------------------------------------
Slots == 0 .. BUFFER_MAX_PACKET_NUM - 1
Index(n) == n % BUFFER_MAX_PACKET_NUM

\* main's initialisation of a pass, and the threads it creates
Fresh ==
  [packet_buffer |-> [t \in Threads |-> [s \in Slots |-> 0]],
   zero          |-> [t \in Threads |-> 0],
   empty         |-> [t \in Threads |-> <<>>],
   start         |-> [t \in Threads |-> "start"]]

Init ==
  /\ packet_buffer = Fresh.packet_buffer
  /\ cur_packet_num_pull = Fresh.zero
  /\ cur_packet_num_push = Fresh.zero
  /\ insert_finish = Fresh.zero
  /\ begin_insert = Fresh.zero
  /\ main_buffer = Fresh.empty
  /\ mainpc = "wait" /\ next = 1 /\ cycle = 1
  /\ pc = Fresh.start
  /\ val_pull = Fresh.zero /\ val_push = Fresh.zero
  /\ insertion_cnt = Fresh.zero
  /\ inserted = Fresh.empty
-----------------------------------------------------------------------------
(***************************************************************************)
(* The main thread                                                         *)
(***************************************************************************)

\* Every thread has its sketch, or main does not look.
AllReady ==
  /\ mainpc = "wait"
  /\ "removed" \in ReadySpin \/ \A t \in Threads : begin_insert[t] = 1
  /\ mainpc' = "dispatch"
  /\ UNCHANGED <<shared, main_buffer, next, cycle, threadVars>>

\* main has looked once, too early, and spins on what it saw.
NotReady ==
  /\ mainpc = "wait"
  /\ "once" \in ReadySpin /\ \E t \in Threads : begin_insert[t] = 0
  /\ mainpc' = "hang"
  /\ UNCHANGED <<shared, main_buffer, next, cycle, threadVars>>

Dispatch ==
  LET t == ThreadOf[next]
  IN  /\ mainpc = "dispatch"
      /\ next <= PacketCnt
      /\ main_buffer' = [main_buffer EXCEPT ![t] = Append(@, next)]
      /\ next' = next + 1
      /\ mainpc' = IF Len(main_buffer'[t]) = MAIN_THREAD_BUFFER_SIZE
                     THEN "space" ELSE "dispatch"
      /\ UNCHANGED <<shared, cycle, threadVars>>

\* The thread whose collected packets are full.
Full == CHOOSE t \in Threads : Len(main_buffer[t]) = MAIN_THREAD_BUFFER_SIZE

\* Slip: room for one packet is taken for room for a thousand.
HasSpaceForOne ==
  /\ mainpc = "space"
  /\ cur_packet_num_push[Full] - cur_packet_num_pull[Full] + 1
       <= BUFFER_MAX_PACKET_NUM
  /\ mainpc' = "copy"
  /\ UNCHANGED <<shared, main_buffer, next, cycle, threadVars>>

\* main spins until the ring has room for all of them.
HasSpace ==
  /\ mainpc = "space"
  /\ cur_packet_num_push[Full] - cur_packet_num_pull[Full] + MAIN_THREAD_BUFFER_SIZE
       <= BUFFER_MAX_PACKET_NUM
  /\ mainpc' = "copy"
  /\ UNCHANGED <<shared, main_buffer, next, cycle, threadVars>>

\* The slots the next thousand go to, and whether they wrap around the end.
Target(t) ==
  {Index(cur_packet_num_push[t] + i) : i \in 0 .. MAIN_THREAD_BUFFER_SIZE - 1}

Wraps(t) ==
  ~ (Index(cur_packet_num_push[t] + MAIN_THREAD_BUFFER_SIZE - 1)
       > Index(cur_packet_num_push[t]))

\* memcpy of main_buffer from position first on to the slots from "from" on
Copied(t, from, first, n) ==
  [packet_buffer EXCEPT ![t] =
     [s \in Slots |-> IF s \in from .. from + n - 1
                        THEN main_buffer[t][first + s - from] ELSE @[s]]]

LatterLen(t) == BUFFER_MAX_PACKET_NUM - Index(cur_packet_num_push[t])

CopyStraight ==
  LET from == Index(cur_packet_num_push[Full])
  IN  /\ mainpc = "copy"
      /\ ~Wraps(Full)
      /\ packet_buffer' = Copied(Full, from, 1, MAIN_THREAD_BUFFER_SIZE)
      /\ mainpc' = "push"
      /\ UNCHANGED <<cur_packet_num_pull, cur_packet_num_push, insert_finish,
                     begin_insert, main_buffer, next, cycle, threadVars>>

CopyLatter ==
  LET from == Index(cur_packet_num_push[Full])
  IN  /\ mainpc = "copy"
      /\ Wraps(Full)
      /\ packet_buffer' = Copied(Full, from, 1, LatterLen(Full))
      /\ mainpc' = "wrap"
      /\ UNCHANGED <<cur_packet_num_pull, cur_packet_num_push, insert_finish,
                     begin_insert, main_buffer, next, cycle, threadVars>>

\* Slip: the second half is taken from the start of main_buffer.
CopyFormerFromStart ==
  LET t == Full
  IN  /\ mainpc = "wrap"
      /\ packet_buffer' = Copied(t, 0, 1, MAIN_THREAD_BUFFER_SIZE - LatterLen(t))
      /\ mainpc' = "push"
      /\ UNCHANGED <<cur_packet_num_pull, cur_packet_num_push, insert_finish,
                     begin_insert, main_buffer, next, cycle, threadVars>>

CopyFormer ==
  LET t == Full
  IN  /\ mainpc = "wrap"
      /\ packet_buffer' = Copied(t, 0, 1 + LatterLen(t),
                                 MAIN_THREAD_BUFFER_SIZE - LatterLen(t))
      /\ mainpc' = "push"
      /\ UNCHANGED <<cur_packet_num_pull, cur_packet_num_push, insert_finish,
                     begin_insert, main_buffer, next, cycle, threadVars>>

Push ==
  LET t == Full
  IN  /\ mainpc = "push"
      /\ cur_packet_num_push' =
           [cur_packet_num_push EXCEPT ![t] = @ + MAIN_THREAD_BUFFER_SIZE]
      /\ main_buffer' = [main_buffer EXCEPT ![t] = <<>>]
      /\ mainpc' = "dispatch"
      /\ UNCHANGED <<packet_buffer, cur_packet_num_pull, insert_finish,
                     begin_insert, next, cycle, threadVars>>

\* Slip: the loop that sets insert_finish misses the last thread.
FinishAllButLast(t) ==
  /\ mainpc = "dispatch"
  /\ next > PacketCnt
  /\ t < THREAD_NUM - 1
  /\ insert_finish[t] = 0
  /\ \A u \in Threads : u < t => insert_finish[u] = 1
  /\ insert_finish' = [insert_finish EXCEPT ![t] = 1]
  /\ UNCHANGED <<packet_buffer, cur_packet_num_pull, cur_packet_num_push,
                 begin_insert, mainVars, threadVars>>

\* The trace is at its end: insert_finish is set thread by thread.
Finish(t) ==
  /\ mainpc = "dispatch"
  /\ next > PacketCnt
  /\ insert_finish[t] = 0
  /\ \A u \in Threads : u < t => insert_finish[u] = 1
  /\ insert_finish' = [insert_finish EXCEPT ![t] = 1]
  /\ UNCHANGED <<packet_buffer, cur_packet_num_pull, cur_packet_num_push,
                 begin_insert, mainVars, threadVars>>

\* pthread_join of every thread, then "insertion finished!"
Join ==
  /\ mainpc = "dispatch"
  /\ \A t \in Threads : insert_finish[t] = 1 /\ pc[t] = "ended"
  /\ mainpc' = "finished"
  /\ UNCHANGED <<shared, main_buffer, next, cycle, threadVars>>

\* The next pass starts from scratch.
NextCycle ==
  /\ mainpc = "finished"
  /\ cycle < TestCycles
  /\ cycle' = cycle + 1
  /\ packet_buffer' = Fresh.packet_buffer
  /\ cur_packet_num_pull' = Fresh.zero
  /\ cur_packet_num_push' = Fresh.zero
  /\ insert_finish' = Fresh.zero
  /\ begin_insert' = Fresh.zero
  /\ main_buffer' = Fresh.empty
  /\ mainpc' = "wait" /\ next' = 1
  /\ pc' = Fresh.start
  /\ val_pull' = Fresh.zero /\ val_push' = Fresh.zero
  /\ insertion_cnt' = Fresh.zero
  /\ inserted' = Fresh.empty

Main ==
  \/ AllReady \/ NotReady \/ Dispatch \/ HasSpace
  \/ CopyStraight \/ CopyLatter \/ CopyFormer \/ Push
  \/ (\E t \in Threads : Finish(t)) \/ Join \/ NextCycle
-----------------------------------------------------------------------------
(***************************************************************************)
(* A child thread: ElasticRecord                                           *)
(***************************************************************************)
Goto(t, from, to) == pc[t] = from /\ pc' = [pc EXCEPT ![t] = to]

Ready(t) ==
  /\ Goto(t, "start", "pull")
  /\ begin_insert' = [begin_insert EXCEPT ![t] = 1]
  /\ UNCHANGED <<packet_buffer, cur_packet_num_pull, cur_packet_num_push,
                 insert_finish, mainVars, val_pull, val_push, insertion_cnt,
                 inserted>>

LoadPull(t) ==
  /\ Goto(t, "pull", "load")
  /\ val_pull' = [val_pull EXCEPT ![t] = cur_packet_num_pull[t]]
  /\ UNCHANGED <<shared, mainVars, val_push, insertion_cnt, inserted>>

LoadPush(t) ==
  /\ Goto(t, "load", IF cur_packet_num_push[t] = val_pull[t] THEN "empty" ELSE "insert")
  /\ val_push' = [val_push EXCEPT ![t] = cur_packet_num_push[t]]
  /\ UNCHANGED <<shared, mainVars, val_pull, insertion_cnt, inserted>>

InsertOne(t) ==
  /\ val_push[t] # val_pull[t]
  /\ Goto(t, "insert", "insert")
  /\ inserted' = [inserted EXCEPT ![t] =
                    Append(@, packet_buffer[t][Index(val_pull[t])])]
  /\ val_pull' = [val_pull EXCEPT ![t] = @ + 1]
  /\ UNCHANGED <<shared, mainVars, val_push, insertion_cnt>>

\* Slip: the count is taken against where main is now.
PullCountsPush(t) ==
  /\ val_push[t] = val_pull[t]
  /\ Goto(t, "insert", "pull")
  /\ insertion_cnt' = [insertion_cnt EXCEPT ![t] =
                         @ + cur_packet_num_push[t] - cur_packet_num_pull[t]]
  /\ cur_packet_num_pull' = [cur_packet_num_pull EXCEPT ![t] = val_pull[t]]
  /\ UNCHANGED <<packet_buffer, cur_packet_num_push, insert_finish, begin_insert,
                 mainVars, val_pull, val_push, inserted>>

Pull(t) ==
  /\ val_push[t] = val_pull[t]
  /\ Goto(t, "insert", "pull")
  /\ insertion_cnt' = [insertion_cnt EXCEPT ![t] =
                         @ + val_push[t] - cur_packet_num_pull[t]]
  /\ cur_packet_num_pull' = [cur_packet_num_pull EXCEPT ![t] = val_pull[t]]
  /\ UNCHANGED <<packet_buffer, cur_packet_num_push, insert_finish, begin_insert,
                 mainVars, val_pull, val_push, inserted>>

\* Nothing was there when the counters were read; is it the end?
CheckFinish(t) ==
  /\ Goto(t, "empty", IF insert_finish[t] = 1 THEN "ended" ELSE "pull")
  /\ UNCHANGED <<shared, mainVars, val_pull, val_push, insertion_cnt, inserted>>

Child(t) ==
  \/ Ready(t) \/ LoadPull(t) \/ LoadPush(t) \/ InsertOne(t)
  \/ Pull(t) \/ CheckFinish(t)

Next == Main \/ \E t \in Threads : Child(t)

Spec == Init /\ [][Next]_vars

\* The operating system runs every thread.
FairSpec == Spec /\ WF_vars(Main) /\ \A t \in Threads : WF_vars(Child(t))
-----------------------------------------------------------------------------
TypeOK ==
  /\ packet_buffer \in [Threads -> [Slots -> 0 .. PacketCnt]]
  /\ cur_packet_num_pull \in [Threads -> 0 .. PacketCnt]
  /\ cur_packet_num_push \in [Threads -> 0 .. PacketCnt]
  /\ insert_finish \in [Threads -> {0, 1}]
  /\ begin_insert \in [Threads -> {0, 1}]
  /\ main_buffer \in [Threads -> Seq(1 .. PacketCnt)]
  /\ mainpc \in {"wait", "hang", "dispatch", "space", "copy", "wrap", "push",
                "finished"}
  /\ next \in 1 .. PacketCnt + 1
  /\ cycle \in 1 .. TestCycles
  /\ pc \in [Threads -> {"start", "pull", "load", "insert", "empty", "ended"}]
  /\ val_pull \in [Threads -> 0 .. PacketCnt]
  /\ val_push \in [Threads -> 0 .. PacketCnt]
  /\ insertion_cnt \in [Threads -> 0 .. PacketCnt]
  /\ inserted \in [Threads -> Seq(1 .. PacketCnt)]

\* The packets dealt to each thread of the first n of the trace.
Dealt[n \in 0 .. PacketCnt] ==
  IF n = 0 THEN [t \in Threads |-> <<>>]
           ELSE [Dealt[n - 1] EXCEPT ![ThreadOf[n]] = Append(@, n)]

\* Those main has pushed, of those it has taken from the trace.
Pushed(t) == SubSeq(Dealt[next - 1][t], 1, cur_packet_num_push[t])

(***************************************************************************)
(* The rings are channels within a pass: each thread inserts the packets   *)
(* that main dealt to it, each once, in trace order, and main never        *)
(* overwrites one that has not been inserted.  The next pass begins with   *)
(* empty channels again.                                                   *)
(***************************************************************************)
Rings == INSTANCE Channels WITH
  Consumers <- Threads,
  Capacity  <- BUFFER_MAX_PACKET_NUM,
  sent      <- [t \in Threads |-> Pushed(t)],
  received  <- inserted

ImplementsChannels ==
  /\ Rings!Init
  /\ [][IF cycle' = cycle
          THEN [Rings!Next]_<<[t \in Threads |-> Pushed(t)], inserted>>
          ELSE Rings!Init']_vars

(***************************************************************************)
(* main's memcpy never writes a slot that the thread is about to read.     *)
(***************************************************************************)
NoSlotRace ==
  mainpc \in {"copy", "wrap"} /\ pc[Full] = "insert" =>
    \A n \in val_pull[Full] .. val_push[Full] - 1 : Index(n) \notin Target(Full)

\* main stops dealing when a thread's packets are full, and only then.
Collecting ==
  LET Busy == mainpc \in {"space", "copy", "wrap", "push"}
  IN  /\ Busy => Full \in Threads
      /\ \A t \in Threads :
           LET n == Len(main_buffer[t])
           IN  /\ n <= MAIN_THREAD_BUFFER_SIZE
               /\ n = MAIN_THREAD_BUFFER_SIZE <=> Busy /\ t = Full

\* The counters keep their order: what was pulled, inserted, seen and pushed.
Counting ==
  \A t \in Threads :
    LET push == cur_packet_num_push[t]  pull == cur_packet_num_pull[t]
    IN  /\ pull <= val_pull[t] /\ val_pull[t] <= push
        /\ IF pc[t] = "insert" THEN val_pull[t] <= val_push[t] /\ val_push[t] <= push
                               ELSE val_pull[t] = pull
        /\ insertion_cnt[t] = pull
        /\ Len(inserted[t]) = val_pull[t]
        /\ push <= pull + BUFFER_MAX_PACKET_NUM
        /\ mainpc \in {"copy", "wrap", "push"} /\ t = Full =>
             push + MAIN_THREAD_BUFFER_SIZE <= pull + BUFFER_MAX_PACKET_NUM

\* The packets dealt to a thread are in its sketch, its ring and main's
\* buffer, in this order, and those being copied in both of the last.
Carrying ==
  \A t \in Threads :
    LET dealt == Dealt[next - 1][t]  push == cur_packet_num_push[t]
        InRing(n) == \A i \in 0 .. n - 1 :
                        packet_buffer[t][Index(push + i)] = main_buffer[t][i + 1]
    IN  /\ Len(dealt) = push + Len(main_buffer[t])
        /\ \A i \in 1 .. Len(main_buffer[t]) : main_buffer[t][i] = dealt[push + i]
        /\ \A n \in val_pull[t] .. push - 1 : packet_buffer[t][Index(n)] = dealt[n + 1]
        /\ \A i \in 1 .. val_pull[t] : inserted[t][i] = dealt[i]
        /\ mainpc = "push" /\ t = Full => InRing(MAIN_THREAD_BUFFER_SIZE)
        /\ mainpc = "wrap" /\ t = Full => Wraps(t) /\ InRing(LatterLen(t))

(***************************************************************************)
(* What holds at every access to a shared variable: its type, that nobody  *)
(* else is about to use the slots that are written, and why: main waits    *)
(* when a buffer is full, the counters keep their order, and every packet  *)
(* is where they say it is.                                                *)
(***************************************************************************)
MainInvariant == TypeOK /\ NoSlotRace /\ Collecting /\ Counting /\ Carrying

(***************************************************************************)
(* A thread that ends reports as many insertions as it made, although it   *)
(* adds them up from two counters that main and it keep moving.            *)
(***************************************************************************)
CountIsInsertions ==
  \A t \in Threads : pc[t] = "ended" => insertion_cnt[t] = Len(inserted[t])

(***************************************************************************)
(* A pass that begins ends: no thread waits forever for room, packets or   *)
(* the end.                                                                *)
(***************************************************************************)
Termination == mainpc = "dispatch" ~> mainpc = "finished"

(***************************************************************************)
(* "wait child thread finishing" ... "insertion finished!"                 *)
(* (multi_thread.cpp:193-197): when main says so, everything it pushed is  *)
(* in a sketch.                                                            *)
(***************************************************************************)
FinishedMeansPushedInserted ==
  mainpc = "finished" =>
    \A t \in Threads : Len(inserted[t]) = cur_packet_num_push[t]
=============================================================================
