---------------------------- MODULE MCFpgaTable ----------------------------
(***************************************************************************)
(* Instances for TLC: addresses 1 and 2 share a bucket, which is not that  *)
(* of 0.                                                                   *)
(***************************************************************************)
EXTENDS FpgaTable, TLC

MCAddrOf == [ip \in Ips \cup {0} |-> IF ip = 2 THEN 1 ELSE ip]

Apart(s, n) ==
  \A i, j \in DOMAIN s : i < j /\ j < i + n => MCAddrOf[s[i]] # MCAddrOf[s[j]]

\* Two addresses of a bucket with gaps between them; bursts whose buckets come
\* again after three or more; a burst that visits one bucket three times and
\* fills the FIFOs.
MCArrivals ==
  [1 .. 5 -> {0, 1, 2}]
    \cup {s \in [1 .. 6 -> Ips] : s[1] = 1 /\ s[2] = 3 /\ s[3] = 4 /\ Apart(s, 3)}
    \cup {<<1, 3, 4, 5, i, 3, 4, 5, j, 3, 4, 5>> : i, j \in {1, 2}}
=============================================================================
