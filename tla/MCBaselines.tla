---------------------------- MODULE MCBaselines ----------------------------
(***************************************************************************)
(* Hash functions for TLC: five flows, most of which meet somewhere.       *)
(***************************************************************************)
EXTENDS Baselines, Sequences

MCTraceLength == [heaps |-> 8, univmon |-> 7, hashpipe |-> 8, flowradar |-> 6,
                 sieving |-> 6, reversible |-> 7, css |-> 8, p4 |-> 8, mrac |-> 8, cuckoo |-> 6]
MCPrograms == DOMAIN MCTraceLength

MCHash == << <<0, 0, 1, 1, 2>>, <<0, 1, 1, 2, 0>>, <<0, 1, 2, 0, 2>> >>
MCSign == << <<1, 0, 1, 0, 1>>, <<0, 1, 1, 1, 0>>, <<1, 1, 0, 0, 1>> >>
MCPolar == << <<1, 1, 0, 1, 1>>, <<1, 0, 1, 1, 0>> >>
MCPipeHash == [i \in 0 .. 2 |-> << <<0, 0, 0, 1, 0>>, <<0, 0, 1, 1, 1>>, <<0, 1, 0, 0, 0>> >>[i + 1]]
\* Flow 5 is a false positive when flows 1 and 2 have come; flow 3 has twice
\* the same cell.
MCBfPos == << <<0, 1>>, <<2, 3>>, <<4, 4>>, <<5, 0>>, <<1, 2>> >>
MCIbltPos == << <<0, 1, 2>>, <<1, 2, 3>>, <<0, 0, 3>>, <<1, 2, 3>>, <<2, 3, 0>> >>
MCSlotOf == <<0, 0, 1, 0, 1>>
MCrand_pos == <<1, 3, 4, 6, 9>>
MCKeyBytes == << <<0, 0, 0>>, <<0, 1, 0>>, <<1, 2, 0>>, <<2, 2, 1>>, <<2, 0, 1>> >>
MCAllKeys == [1 .. 3 -> 0 .. 2]
MCMangle == [a \in MCAllKeys |-> <<(a[2] + 1) % 3, (2 * a[1] + a[2]) % 3, (a[1] + a[3]) % 3>>]
\* SmallHash[i][j] takes byte b to 1 when it is in the set for row i, place j.
MCOnes == << <<{1}, {2}, {0}>>, <<{1, 2}, {0}, {2}>>, <<{2}, {0, 1}, {1}>>, <<{0}, {1}, {1, 2}>> >>
MCSmallHash == [i \in 1 .. 4 |-> [j \in 1 .. 3 |->
                  [b \in 0 .. 2 |-> IF b \in MCOnes[i][j] THEN 1 ELSE 0]]]
MCKaryHash == [i \in 1 .. 4 |-> [a \in MCAllKeys |-> (a[1] + i * a[2] + (i % 2) * a[3]) % 4]]
MCHome == <<0, 0, 1, 2, 1>>
MCMracHash == <<0, 0, 1, 1, 2>>
MCflow_num_limit == <<7, 7, 7, 7, 7, 5, 4, 3>>
MCHashPairs ==
  {[k \in {0, 1} |-> IF k = 0 THEN <<0, 1, 2, 0, 1>> ELSE f] :
     f \in {g \in [Keys -> 0 .. 2] : g[5] = 0}}
MCPosOf == <<0, 3, 0, 3, 1>>
=============================================================================
