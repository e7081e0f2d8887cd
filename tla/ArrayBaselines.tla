--------------------------- MODULE ArrayBaselines ---------------------------
(***************************************************************************)
(* Those programs of CPU/demo whose algorithm is a few arrays, gone        *)
(* through once for each packet: the sketches of rows, HashPipe, Sieving,  *)
(* and the P4 program's heavy part, which has no program of its own.       *)
(***************************************************************************)
EXTENDS Trace

CONSTANTS
  Programs,     (* the programs, and for each of them                      *)
  TraceLength,  (* bound: packets inserted                                 *)
  SK_D, SK_W, Hash, Sign,                      (* RowSketches              *)
  PipeStages, PipeSlots, PipeHash,             (* HashPipe                 *)
  Slots, SlotOf, rand_pos,                     (* Sieving                  *)
  CEIL_PER_BUCKET, bucket_num, PosOf, FACTOR   (* ElephantPart4            *)

VARIABLES
  program,       \* which one runs
  cm, cu, cs,
  pipe,
  items, ams_table, now_item_cnt,
  buckets, sentry, handed, rejected

RowVars == <<cm, cu, cs>>
AmsVars == <<items, ams_table, now_item_cnt>>
P4Vars == <<buckets, sentry, handed, rejected>>
arrayVars == <<program, packets, RowVars, pipe, AmsVars, P4Vars>>

Rows == INSTANCE RowSketches WITH d <- SK_D, w <- SK_W
Pipe == INSTANCE HashPipe WITH d <- PipeStages, M <- PipeSlots
Ams == INSTANCE Sieving WITH hash_table <- ams_table
P4 == INSTANCE ElephantPart4

\* query takes the least of the counters and of 1 << 30.
ASSUME ArrayAssumption ==
  /\ Rows!RowsAssumption /\ Pipe!PipeAssumption
  /\ Ams!SievingAssumption /\ P4!P4Assumption
  /\ \A p \in Programs : TraceLength[p] \in 0 .. 2^30
-----------------------------------------------------------------------------
ArrayInit ==
  /\ program \in Programs
  /\ packets = [k \in Keys |-> 0]
  /\ Rows!Init /\ Pipe!Init /\ Ams!Init /\ P4!Init

\* One pass of the loop over the trace.
ArrayInsert(k) ==
  /\ Total < TraceLength[program]
  /\ packets' = [packets EXCEPT ![k] = @ + 1]
  /\ UNCHANGED program
  /\ IF program = "heaps" THEN Rows!Insert(k) ELSE UNCHANGED RowVars
  /\ IF program = "hashpipe" THEN Pipe!Insert(k) ELSE UNCHANGED pipe
  /\ IF program = "sieving" THEN Ams!Insert(k) ELSE UNCHANGED AmsVars
  /\ IF program = "p4" THEN P4!Insert(k) ELSE UNCHANGED P4Vars

ArrayNext == \E k \in Keys : ArrayInsert(k)

ArraySpec == ArrayInit /\ [][ArrayNext]_arrayVars
-----------------------------------------------------------------------------
(* The properties are stated, with what they are about, in the modules of  *)
(* the algorithms; here each of them is asked of the program that runs it. *)
EstimatesOrdered == program = "heaps" => Rows!EstimatesOrdered
PipeReports == program = "hashpipe" => Pipe!PipeReports
CountsFromSample == program = "sieving" => Ams!CountsFromSample
LeavesAreHanded == program = "p4" => P4!LeavesAreHanded
=============================================================================
