-------------------------------- MODULE Mrac --------------------------------
(***************************************************************************)
(* CPU/MRAC/MRAC.h, a row of counters, with CPU/common/EMFSD.h, which      *)
(* estimates the flow sizes from them (also for the Elastic sketch's light *)
(* part).  For each value a counter has, EMFSD goes through the ways in    *)
(* which a few flows may have made it up: BetaGenerator enumerates them.   *)
(* Left out: the weights the ways are given, in floating point.            *)
(***************************************************************************)
EXTENDS Integers, FiniteSets, Functions, SequencesExt

CONSTANTS
  Keys,
  w_mrac, MracHash,
  flow_num_limit    (* flow_num_limit[n]: of a counter of value n           *)

VARIABLES counters, packets

Init == counters = [p \in 0 .. w_mrac - 1 |-> 0]

Insert(k) == counters' = [counters EXCEPT ![MracHash[k]] = @ + 1]
-----------------------------------------------------------------------------
\* counter_dist of collect_counters: how many counters have each value
counter_dist ==
  [v \in 0 .. Max(Range(counters)) |->
     Cardinality({p \in DOMAIN counters : counters[p] = v})]

Ones(n, last) == [i \in 1 .. n |-> IF i < last THEN 1 ELSE 0]

\* get_new_comb from its j-th number on, down to the first: raise it, set
\* those after it to the same, give the rest to the last number.
RECURSIVE NewComb(_, _, _)
NewComb(sum, result, j) ==
  LET n == Len(result)
      raised == [k \in 1 .. n |-> IF k \in j .. n - 1 THEN result[j] + 1 ELSE result[k]]
      remain == sum - FoldLeft(+, 0, Front(raised))
  IN  IF j = 0 THEN [found |-> FALSE, result |-> result]
      ELSE IF remain >= raised[n - 1]
      THEN [found |-> TRUE, result |-> [raised EXCEPT ![n] = remain]]
      ELSE NewComb(sum, raised, j - 1)

\* Slip: the numbers of a longer combination start at two.
StartTwos(n) == [Ones(n, n - 1) EXCEPT ![1] = IF n > 2 THEN 2 ELSE 0]

\* What get_next starts from when it goes on to n numbers.
Start(n) == Ones(n, n - 1)

\* All that get_next returns, in order, from result on; result has no next
\* combination of its length before n numbers are tried.
RECURSIVE CombsFrom(_, _)
CombsFrom(sum, result) ==
  LET n == Len(result)
      next == NewComb(sum, result, n - 1)
  IN  IF n >= flow_num_limit[sum] THEN <<>>
      ELSE IF next.found THEN <<next.result>> \o CombsFrom(sum, next.result)
      ELSE CombsFrom(sum, Start(n + 1))

Combs(sum) == <<<<sum>>>> \o CombsFrom(sum, Start(2))

\* The values next_epoch goes through, and with which combinations.
Epoch == [v \in {u \in DOMAIN counter_dist \ {0} : counter_dist[u] # 0} |-> Combs(v)]
-----------------------------------------------------------------------------
\* The ways to write sum as n numbers of at least least, in order of size.
RECURSIVE Ways(_, _, _)
Ways(sum, n, least) ==
  IF n = 1 THEN IF sum >= least THEN {<<sum>>} ELSE {}
  ELSE UNION {{<<a>> \o r : r \in Ways(sum - a, n - 1, a)} : a \in least .. sum}

(***************************************************************************)
(* An epoch accounts for every packet and for every way it may have come   *)
(* into its counter, once: for each counter's value get_next returns all   *)
(* sets of fewer than flow_num_limit flows with that many packets, none of *)
(* them twice, and the counters' values sum up to the packets.             *)
(***************************************************************************)
EpochIsComplete ==
  /\ \A v \in DOMAIN Epoch :
       /\ ToSet(Epoch[v]) = UNION {Ways(v, n, 1) : n \in 1 .. flow_num_limit[v] - 1}
       /\ IsInjective(Epoch[v])
  /\ FoldLeft(+, 0, [v \in 1 .. Max(DOMAIN counter_dist) |-> v * counter_dist[v]])
       = SumFunction(packets)
=============================================================================
