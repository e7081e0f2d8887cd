------------------------------- MODULE Param -------------------------------
(***************************************************************************)
(* What the parts of the Elastic sketch share (param.h): the flow keys,    *)
(* the 32-bit counter words and the test that decides a displacement.      *)
(*                                                                         *)
(* The highest bit of a word is the flag that says that some packets of    *)
(* the resident flow may be in the light part; the bits below it count     *)
(* packets.  HalfRange is the weight of the flag bit.                      *)
(***************************************************************************)
EXTENDS Integers, FiniteSets, FiniteSetsExt

CONSTANTS
  Keys,      (* the flow keys (fingerprints) that occur in the trace        *)
  Lambda,    (* the factor of JUDGE_IF_SWAP (a shift by 3 in the code)      *)
  HalfRange  (* 2^31 in the code                                            *)

ASSUME ParamAssumption ==
  /\ Keys \subseteq Nat /\ IsFiniteSet(Keys)
  /\ Lambda \in Nat \ {0}
  /\ HalfRange \in Nat \ {0, 1}
-----------------------------------------------------------------------------
Word == 2 * HalfRange          \* the number of values of a uint32_t

Flagged(v) == v >= HalfRange   \* HIGHEST_BIT_IS_1

\* GetCounterVal: v without its highest bit
Count(v) == IF Flagged(v) THEN v - HalfRange ELSE v

\* val += f on uint32_t
Add(v, f) == (v + f) % Word

UpdateGuardVal(guard) == Add(guard, 1)

\* JUDGE_IF_SWAP: the shift loses the bits that leave the word
JudgeIfSwap(min, guard) == guard > (min * Lambda) % Word
=============================================================================
