-------------------------- MODULE ReversibleSketch --------------------------
(***************************************************************************)
(* CPU/ReversibleSketch/ReversibleSketch.h and CPU/common/k-ary.h: a k-ary *)
(* sketch whose buckets are found from the bytes of the mangled key, one   *)
(* digit for each byte, so that the heavy flows can be computed from the   *)
(* heavy buckets; a second k-ary sketch, hashed as usual, confirms them.   *)
(*                                                                         *)
(* A key is a sequence of bytes.  Estimates are fractions with denominator *)
(* width - 1; the model compares their numerators, exactly.                *)
(***************************************************************************)
EXTENDS Integers, FiniteSetsExt, SequencesExt, TLC

CONSTANTS
  Keys,
  Bytes,        (* values of a byte                                        *)
  keylen,
  KeyBytes,     (* KeyBytes[k]: the bytes of flow k                        *)
  Mangle,       (* mangling, a bijection of the byte sequences             *)
  Digits,       (* 2^mapped_sl, values of a digit                          *)
  SmallHash,    (* SmallHash[i][j][b]: the digit of byte b, row i, place j *)
  H, r,         (* rows; rows in which a heavy flow may be missed          *)
  w_kary,       (* buckets of a row of the second sketch                   *)
  KaryHash      (* KaryHash[i][key]: bucket of a key there                 *)

AllKeys == [1 .. keylen -> Bytes]

VARIABLES
  counters,     \* the reversible sketch
  normal_sk,    \* the rows of the second sketch
  sum,          \* packets
  packets       \* packets[k]: packets of flow k so far

Kary == INSTANCE CounterRows WITH d <- H, w <- w_kary, Hash <- KaryHash, Sign <- <<>>

Rows == 1 .. H
Width == Digits ^ keylen
Demangle(n) == CHOOSE a \in AllKeys : Mangle[a] = n
-----------------------------------------------------------------------------
Init ==
  /\ counters = [i \in Rows |-> [t \in 0 .. Width - 1 |-> 0]]
  /\ normal_sk = Kary!Zeros
  /\ sum = 0

\* The bucket of a mangled key: the digits of its bytes, the first on top.
Pos(i, n) == FoldLeftDomain(LAMBDA pos, j : pos * Digits + SmallHash[i][j][n[j]], 0, n)

\* Slip: the digit of the other end of the bucket's number.
DigitFromBelow(t, j) == (t \div Digits ^ (j - 1)) % Digits

\* The digit that byte j left in bucket t.
Digit(t, j) == (t \div Digits ^ (keylen - j)) % Digits

Insert(k) ==
  LET new_key == Mangle[KeyBytes[k]] IN
  /\ counters' = [i \in Rows |-> [counters[i] EXCEPT ![Pos(i, new_key)] = @ + 1]]
  /\ normal_sk' = Kary!CmInsert(normal_sk, KeyBytes[k], 1)
  /\ sum' = sum + 1

AbsOf(x) == IF x < 0 THEN -x ELSE x

HeavyBuckets(i, threshold) ==
  {t \in 0 .. Width - 1 : AbsOf(counters[i][t] * Width - sum) >= threshold * (Width - 1)}

\* Twice the median of the second sketch's estimates.
Verified(a) ==
  LET vs == SortSeq([i \in Rows |-> normal_sk[i][KaryHash[i][a]] * w_kary - sum],
                    LAMBDA x, y : x < y)
      mid == H \div 2
  IN  IF H % 2 = 0 THEN vs[mid + 1] + vs[mid] ELSE 2 * vs[mid + 1]

Confirmed(a, threshold) == AbsOf(Verified(a)) >= 2 * threshold * (w_kary - 1)

\* Enough rows have a bucket left.
Enough(res) == Cardinality({i \in Rows : res[i] # {}}) >= H - r

\* modular_potentials: the heavy buckets of every row that byte b at place j
\* may have led to.
Buckets(heavy, j, b) == [i \in Rows |-> {t \in heavy[i] : Digit(t, j) = SmallHash[i][j][b]}]

\* The array that an intersection is written to has room for max_t buckets,
\* and what is left of it, zeros, goes into the set as well.
Intersection(S, T, max_t) ==
  IF S \cap T # {} /\ Cardinality(S \cap T) < max_t THEN (S \cap T) \cup {0} ELSE S \cap T

\* The mangled keys whose first j bytes lead to heavy buckets, with the
\* buckets that are left in every row.
RECURSIVE Candidates(_, _, _)
Candidates(heavy, max_t, j) ==
  LET I == {b \in Bytes : Enough(Buckets(heavy, j, b))} IN
  IF j = 1 THEN {[key |-> <<b>>, res |-> Buckets(heavy, 1, b)] : b \in I}
  ELSE {c \in {[key |-> Append(a.key, b),
                res |-> [i \in Rows |-> Intersection(a.res[i], Buckets(heavy, j, b)[i], max_t)]] :
                  a \in Candidates(heavy, max_t, j - 1), b \in I} : Enough(c.res)}

get_heavy_hitters(threshold) ==
  LET heavy == [i \in Rows |-> HeavyBuckets(i, threshold)]
      max_t == Max({Cardinality(heavy[i]) : i \in Rows})
  IN  {a \in {Demangle(c.key) : c \in Candidates(heavy, max_t, keylen)} :
         Confirmed(a, threshold)}
-----------------------------------------------------------------------------
(***************************************************************************)
(* The keys computed from the buckets are those that the buckets were      *)
(* computed from: a confirmed flow that is heavy in all rows but r is      *)
(* reported, and a flow that has threshold times as many packets as an     *)
(* even spread leaves it is always one.                                    *)
(***************************************************************************)
HeavyFlowsReversed ==
  \A threshold \in 1 .. sum :
    LET reported == get_heavy_hitters(threshold)
        heavy == [i \in Rows |-> HeavyBuckets(i, threshold)]
    IN  \A k \in Keys :
          LET a == KeyBytes[k]  n == Mangle[a] IN
          \/ a \in reported
          \/ /\ ~Confirmed(a, threshold) \/ Cardinality({i \in Rows : Pos(i, n) \in heavy[i]}) < H - r
             /\ packets[k] * Width - sum < threshold * (Width - 1)
                \/ packets[k] * w_kary - sum < threshold * (w_kary - 1)
=============================================================================
