-------------------------------- MODULE Css --------------------------------
(***************************************************************************)
(* CPU/CSS/CSS.h: K counters, sorted from the moment all are in use, with  *)
(* Value_index giving the last counter of every value.  The flows are in a *)
(* table of chains in an array, ID_index with next_idx, whose last entry   *)
(* points at itself; Reverse_CA_2_IDidx is the position where the chain of *)
(* a counter's flow begins.                                                *)
(*                                                                         *)
(* find compares C strings: that of an entry begins with the key and goes  *)
(* on in the bytes of CounterArrayIndex that follow it, so only an entry   *)
(* whose index has a low byte of 0 can be found, and none whose key has a  *)
(* zero byte.                                                              *)
(*                                                                         *)
(* The removal of an entry vacates it (next_idx is -1), and an entry of    *)
(* another chain may still lead to it.  A walk that goes on from there     *)
(* reads next_idx[-1], before the array.  There the model stops, and says  *)
(* in lost which walk it was: "search" for one that looks for a counter,   *)
(* also when it exits or goes round for ever at the end of a chain that    *)
(* does not hold it, and "end" for one that looks for the end of a chain.  *)
(***************************************************************************)
EXTENDS Integers, FiniteSetsExt, SequencesExt

CONSTANTS
  Keys,
  K,            (* counters, and entries of the table                      *)
  Home,         (* Home[k]: the hash of flow k                             *)
  IndexByte,    (* 256: values of the low byte of an index                 *)
  Unreadable    (* the keys that have a zero byte                          *)

VARIABLES css, packets

CssNone == -1
CssIndex == 0 .. K - 1
-----------------------------------------------------------------------------
Init ==
  css = [CounterArr |-> [i \in CssIndex |-> 0],
         Reverse |-> [i \in CssIndex |-> CssNone],
         ID |-> [i \in CssIndex |-> [key |-> 0, ca |-> CssNone]],
         next |-> [i \in CssIndex |-> CssNone],
         Value_index |-> <<>>,
         total_cnt |-> 0,
         lost |-> "no"]

SameString(entry, k) ==
  entry.key = k /\ k \notin Unreadable /\ entry.ca % IndexByte = 0

\* The positions from pos on, to the end of the chain or to the last one before
\* a vacated entry.
RECURSIVE Chain(_, _)
Chain(s, pos) ==
  IF pos = CssNone \/ s.ID[pos].ca = CssNone THEN <<>>
  ELSE IF s.next[pos] = pos THEN <<pos>>
  ELSE <<pos>> \o Chain(s, s.next[pos])

\* The chain has an end: its last entry points at itself, not at a vacated one.
Ends(s, pos) ==
  LET chain == Chain(s, pos) IN chain # <<>> /\ s.next[Last(chain)] = Last(chain)

Lost(s, walk) == [s EXCEPT !.lost = walk]

\* find: the counter of k, or -1.  Its walk ends at a vacated entry too.
Find(s, k) ==
  LET chain == Chain(s, Home[k])
      i == SelectInSeq(chain, LAMBDA pos : SameString(s.ID[pos], k))
  IN  IF i = 0 THEN CssNone ELSE s.ID[chain[i]].ca

\* Where the walk from the beginning of its chain finds counter c, or -1.
PositionOf(s, c) ==
  LET chain == Chain(s, s.Reverse[c])
      i == SelectInSeq(chain, LAMBDA pos : s.ID[pos].ca = c)
  IN  IF i = 0 THEN CssNone ELSE chain[i]

\* SwapCSS: the second walk is made when the first flow already has the
\* index it looks for.
SwapCss(s, cur, largest) ==
  LET pos1 == PositionOf(s, cur)
      t == [s EXCEPT !.ID[pos1].ca = largest]
      pos2 == PositionOf(t, largest)
  IN  IF pos1 = CssNone \/ pos2 = CssNone THEN Lost(s, "search")
      ELSE [t EXCEPT !.ID[pos2].ca = cur,
                     !.Reverse[cur] = s.Reverse[largest],
                     !.Reverse[largest] = s.Reverse[cur]]

\* FindVacantIDidx
Vacant(s) == {i \in CssIndex : s.next[i] = CssNone /\ s.ID[i].ca = CssNone}

\* Flow k gets counter c, at its hash or at the end of the chain there.
Place(s, k, c) ==
  LET pos == Home[k]
      chain == Chain(s, pos)
      v == IF s.next[pos] = CssNone THEN pos ELSE Min(Vacant(s))
      linked == IF s.next[pos] = CssNone THEN s.next
                ELSE [s.next EXCEPT ![Last(chain)] = v]
  IN  IF s.next[pos] # CssNone /\ ~Ends(s, pos) THEN Lost(s, "end")
      ELSE [s EXCEPT !.Reverse[c] = pos,
                     !.next = [linked EXCEPT ![v] = v],
                     !.ID[v] = [key |-> k, ca |-> c]]

\* The entry of counter c leaves: the last one of its chain takes its place.
RemoveEntry(s, c) ==
  LET chain == Chain(s, s.Reverse[c])
      hole == PositionOf(s, c)
      last == Last(chain)
      t == [s EXCEPT !.ID[hole] = s.ID[last]]
      u == [t EXCEPT !.ID[last] = [key |-> 0, ca |-> CssNone], !.next[last] = CssNone]
  IN  IF hole = CssNone THEN Lost(s, "search")
      ELSE IF ~Ends(s, s.Reverse[c]) THEN Lost(s, "end")
      ELSE IF Len(chain) = 1 THEN u
      ELSE [u EXCEPT !.next[chain[Len(chain) - 1]] = chain[Len(chain) - 1]]

\* Value_index after the last counter of value v, which is number c, went up.
\* Slip: it is erased with its last counter only when that is counter 0.
RaisedNeverErased(s, v, c) ==
  [x \in DOMAIN s.Value_index \cup {v + 1} |->
     IF x = v THEN c - 1 ELSE IF x \in DOMAIN s.Value_index THEN s.Value_index[x] ELSE c]

Raised(s, v, c) ==
  LET more == c > 0 /\ s.CounterArr[c - 1] = v
      kept == IF more THEN DOMAIN s.Value_index ELSE DOMAIN s.Value_index \ {v}
  IN  [x \in kept \cup {v + 1} |->
         IF x = v THEN c - 1 ELSE IF x \in kept THEN s.Value_index[x] ELSE c]

\* The flow of counter c has another packet and all counters are in use.
HitFull(s, c) ==
  LET v == s.CounterArr[c]
      largest == s.Value_index[v]
      t == IF largest = c THEN s ELSE SwapCss(s, c, largest)
  IN  IF t.lost # "no" THEN t
      ELSE [t EXCEPT !.Value_index = Raised(s, v, largest), !.CounterArr[largest] = v + 1]

\* A flow that was not found takes the last of the least counters.
MissFull(s, k) ==
  LET v == s.CounterArr[0]
      largest == s.Value_index[v]
      t == RemoveEntry(s, largest)
      u == IF t.lost # "no" THEN t ELSE Place(t, k, largest)
  IN  IF u.lost # "no" THEN u
      ELSE [u EXCEPT
              !.Value_index = Raised(s, v, largest), !.CounterArr[largest] = v + 1]

\* The sort, an exchange of counters i < j, once the last counter is taken.
Exchange(s, i, j) ==
  IF s.lost # "no" \/ s.CounterArr[i] <= s.CounterArr[j] THEN s
  ELSE [SwapCss(s, i, j) EXCEPT !.CounterArr[i] = s.CounterArr[j], !.CounterArr[j] = s.CounterArr[i]]

Sorted(s) ==
  LET t == FoldLeft(LAMBDA a, i : FoldLeft(LAMBDA b, j : Exchange(b, i, j), a,
                                           [j \in 1 .. K - 1 - i |-> i + j]),
                    s, [i \in 1 .. K - 1 |-> i - 1])
  IN  [t EXCEPT !.Value_index =
         [v \in {t.CounterArr[i] : i \in CssIndex} |-> Max({i \in CssIndex : t.CounterArr[i] = v})]]

MissNotFull(s, k) ==
  LET t == [Place(s, k, s.total_cnt) EXCEPT !.CounterArr[s.total_cnt] = 1, !.total_cnt = @ + 1]
  IN  IF t.total_cnt = K THEN Sorted(t) ELSE t

Insert(k) ==
  LET c == Find(css, k) IN
  \/ css.lost # "no" /\ UNCHANGED css
  \/ css.lost = "no" /\ c # CssNone /\ css.total_cnt = K /\ css' = HitFull(css, c)
  \/ css.lost = "no" /\ c # CssNone /\ css.total_cnt < K /\ css' = [css EXCEPT !.CounterArr[c] = @ + 1]
  \/ css.lost = "no" /\ c = CssNone /\ css.total_cnt = K /\ css' = MissFull(css, k)
  \/ css.lost = "no" /\ c = CssNone /\ css.total_cnt < K /\ css' = MissNotFull(css, k)
-----------------------------------------------------------------------------
(***************************************************************************)
(* As long as no walk has gone astray, no packet is lost from the counters *)
(* and once all are in use they stay sorted and Value_index gives the last *)
(* counter of every value that occurs, whichever of two flows' entries the *)
(* walks take.                                                             *)
(***************************************************************************)
CountersSorted ==
  css.lost = "no" =>
    /\ SumFunction(css.CounterArr) = SumFunction(packets)
    /\ css.total_cnt = K =>
         /\ \A i \in 0 .. K - 2 : css.CounterArr[i] <= css.CounterArr[i + 1]
         /\ DOMAIN css.Value_index = {css.CounterArr[i] : i \in CssIndex}
         /\ \A v \in DOMAIN css.Value_index :
              css.Value_index[v] = Max({i \in CssIndex : css.CounterArr[i] = v})

(***************************************************************************)
(* What the exits of SwapCSS and get_top_k assert: the chain that begins   *)
(* where a counter's flow hashes to holds the counter.                     *)
(***************************************************************************)
WalksFindTheirCounter == css.lost # "search"
=============================================================================
