---------------------------- MODULE MCMultiCore ----------------------------
(***************************************************************************)
(* Instances of MultiCore for TLC: traces with a fixed dealing.            *)
(***************************************************************************)
EXTENDS MultiCore

MCAlternate == [n \in 1 .. PacketCnt |-> n % THREAD_NUM]
MCOneThread == [n \in 1 .. PacketCnt |-> 0]
=============================================================================
