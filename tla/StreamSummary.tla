--------------------------- MODULE StreamSummary ---------------------------
(***************************************************************************)
(* The Space-Saving algorithm as an abstract specification: a fixed number *)
(* of counters, each monitoring a flow once its value is positive.  A      *)
(* packet of a monitored flow counts one more; a packet of another flow    *)
(* takes over a counter with the least value, and counts one more on it.   *)
(* SpaceSaving, with its linked lists and its hash table, implements it.   *)
(***************************************************************************)
EXTENDS Integers

CONSTANTS
  Keys,      (* flows                                      *)
  Blank,     (* what a counter holds before its first flow *)
  Counters   (* the counters                               *)

VARIABLES
  counter,   \* counter[c]: a flow and a value
  packets    \* packets[k]: packets of k so far (history)

vars == <<counter, packets>>

Monitors(c, k) == counter[c].val > 0 /\ counter[c].key = k

Monitored(k) == \E c \in Counters : Monitors(c, k)

Least(c) == \A d \in Counters : counter[c].val <= counter[d].val

Init ==
  /\ counter = [c \in Counters |-> [key |-> Blank, val |-> 0]]
  /\ packets = [k \in Keys |-> 0]

Hit(k) ==
  \E c \in Counters :
    /\ Monitors(c, k)
    /\ counter' = [counter EXCEPT ![c] = [key |-> k, val |-> counter[c].val + 1]]
    /\ packets' = [packets EXCEPT ![k] = packets[k] + 1]

TakeOver(k) ==
  /\ ~Monitored(k)
  /\ \E c \in Counters :
       /\ Least(c)
       /\ counter' = [counter EXCEPT ![c] = [key |-> k, val |-> counter[c].val + 1]]
       /\ packets' = [packets EXCEPT ![k] = packets[k] + 1]

Next == \E k \in Keys : Hit(k) \/ TakeOver(k)

Spec == Init /\ [][Next]_vars
-----------------------------------------------------------------------------
TypeOK ==
  /\ counter \in [Counters -> [key : Keys \cup {Blank}, val : Nat]]
  /\ packets \in [Keys -> Nat]

\* No flow has two counters.
MonitoredOnce ==
  \A c, d \in Counters :
    counter[c].val > 0 /\ Monitors(d, counter[c].key) => c = d

\* A counter never falls behind its flow, and a flow without a counter never
\* had more packets than any counter shows.
CountsCover ==
  /\ \A c \in Counters, k \in Keys :
       Monitors(c, k) => packets[k] <= counter[c].val
  /\ \A k \in Keys, c \in Counters :
       ~Monitored(k) => packets[k] <= counter[c].val
=============================================================================
