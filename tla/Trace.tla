------------------------------- MODULE Trace -------------------------------
(***************************************************************************)
(* What the programs of CPU/demo have in common: a trace of packets, fed   *)
(* one by one to an algorithm, and Real_Freq, which counts its flows.      *)
(***************************************************************************)
EXTENDS Integers, Functions

CONSTANT Keys      (* flows of the trace                                   *)

VARIABLE packets   \* Real_Freq: packets[k] is the packets of flow k so far

Total == SumFunction(packets)
=============================================================================
