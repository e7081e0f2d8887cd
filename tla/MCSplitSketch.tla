--------------------------- MODULE MCSplitSketch ---------------------------
(***************************************************************************)
(* An instance for TLC: all keys compete for one bucket, the others stay   *)
(* empty; a light counter for each key.                                    *)
(***************************************************************************)
EXTENDS SplitSketch

MCBucketOf == [k \in Keys \cup {0} |-> 0]
MCPosOf == [k \in Keys \cup {0} |-> k]
=============================================================================
