---------------------------- MODULE MCElasticGpu ----------------------------
(***************************************************************************)
(* Hash tables for TLC: all flows meet in the first table; flows 1 and 2   *)
(* meet again in the second, where flow 3 has a bucket of its own.         *)
(***************************************************************************)
EXTENDS ElasticGpu, TLC

MCPosOf == (0 :> (1 :> 0 @@ 2 :> 0 @@ 3 :> 0)) @@ (1 :> (1 :> 0 @@ 2 :> 0 @@ 3 :> 1))
\* Thread 1, which may stop, has a packet of flow 1; the others are
\* interchangeable.
MCLaunches ==
  {p \in [Threads -> Keys] :
     p[1] = 1 /\ \A t \in 2 .. Cardinality(Threads) - 1 : p[t] <= p[t + 1]}

MCLightPosOf == 1 :> 0 @@ 2 :> 1 @@ 3 :> 1
=============================================================================
