-------------------------- MODULE MCElasticSketch --------------------------
(***************************************************************************)
(* An instance of ElasticSketch for TLC: all keys in one bucket, and keys  *)
(* 1 and 2 at the same light counter.                                      *)
(***************************************************************************)
EXTENDS ElasticSketch

MCOneBucket == [k \in Keys \cup {0} |-> 0]

MCShared == [k \in Keys \cup {0} |-> IF k <= 2 THEN 0 ELSE CounterNum - 1]
=============================================================================
