----------------------------- MODULE Baselines -----------------------------
(***************************************************************************)
(* The programs of CPU/demo that feed a trace to one of the algorithms the *)
(* Elastic sketch is compared with: for each packet an insert, and         *)
(* Real_Freq counts the flow.  Flows are numbers, in the order in which    *)
(* the code compares keys.                                                 *)
(***************************************************************************)
EXTENDS ArrayBaselines, Sequences

CONSTANTS
  capacity,                                    (* SketchHeaps              *)
  level, Polar,                                (* UnivMon                  *)
  BfPos, w_iblt, IbltPos,                      (* FlowRadar                *)
  Bytes, keylen, KeyBytes, Mangle, Digits, SmallHash, H, r, w_kary, KaryHash,
                                               (* ReversibleSketch         *)
  K, Home, IndexByte, Unreadable,              (* Css                      *)
  w_mrac, MracHash, flow_num_limit,            (* Mrac                     *)
  w_ht, d_ht, remained, capacity_ht, HashPairs (* CuckooTable              *)

(***************************************************************************)
(* Flows are numbers, and mangling can be undone.                          *)
(***************************************************************************)
ASSUME BaselinesAssumption ==
  /\ Keys \subseteq Nat \ {0}
  /\ capacity \in Nat \ {0}
  /\ Mangle \in [[1 .. keylen -> Bytes] -> [1 .. keylen -> Bytes]]
  /\ IsInjective(Mangle)

VARIABLES
  cm_heap, cu_heap, cs_heap, sketches,
  bf, iblt, num_flow, entered,
  counters, normal_sk, sum,
  css,
  mrac,
  hashs, table, full, index

HeapVars == <<cm_heap, cu_heap, cs_heap>>
RadarVars == <<bf, iblt, num_flow, entered>>
RevVars == <<counters, normal_sk, sum>>
TableVars == <<hashs, table, full, index>>

vars == <<arrayVars, HeapVars, sketches, RadarVars, RevVars, css, mrac, TableVars>>

Heaps == INSTANCE SketchHeaps WITH d <- SK_D, w <- SK_W
Univ == INSTANCE UnivMon WITH d <- SK_D, w <- SK_W
Radar == INSTANCE FlowRadar
Rev == INSTANCE ReversibleSketch
Summary == INSTANCE Css
Dist == INSTANCE Mrac WITH counters <- mrac
Cuckoo == INSTANCE CuckooTable
-----------------------------------------------------------------------------
Init ==
  /\ ArrayInit
  /\ Heaps!HeapsInit /\ Univ!Init /\ Radar!Init
  /\ Rev!Init /\ Summary!Init /\ Dist!Init /\ Cuckoo!Init
  /\ program # "cuckoo" => hashs = CHOOSE pair \in HashPairs : TRUE

\* One pass of the loop over the trace.
Insert(k) ==
  /\ ArrayInsert(k)
  /\ IF program = "heaps" THEN Heaps!HeapsInsert(k) ELSE UNCHANGED HeapVars
  /\ IF program = "univmon" THEN Univ!Insert(k) ELSE UNCHANGED sketches
  /\ IF program = "flowradar" THEN Radar!Insert(k) ELSE UNCHANGED RadarVars
  /\ IF program = "reversible" THEN Rev!Insert(k) ELSE UNCHANGED RevVars
  /\ IF program = "css" THEN Summary!Insert(k) ELSE UNCHANGED css
  /\ IF program = "mrac" THEN Dist!Insert(k) ELSE UNCHANGED mrac
  /\ IF program = "cuckoo" THEN Cuckoo!Insert(k) ELSE UNCHANGED TableVars

Next == \E k \in Keys : Insert(k)

Spec == Init /\ [][Next]_vars
-----------------------------------------------------------------------------
(* Those of the other algorithms.                                          *)
HeapReports == program = "heaps" => Heaps!HeapsWellFormed /\ Heaps!ReportsBounded
LevelsTelescope == program = "univmon" => Univ!LevelsTelescope
DumpDecodes == program = "flowradar" => Radar!DumpDecodes
HeavyFlowsReversed == program = "reversible" => Rev!HeavyFlowsReversed
CountersSorted == program = "css" => Summary!CountersSorted
WalksFindTheirCounter == program = "css" => Summary!WalksFindTheirCounter
EpochIsComplete == program = "mrac" => Dist!EpochIsComplete
IsTheMap == program = "cuckoo" => Cuckoo!IsTheMap
=============================================================================
