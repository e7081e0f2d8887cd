----------------------------- MODULE RingParam -----------------------------
(***************************************************************************)
(* What the ring and the reader of many rings share: the macros of         *)
(* ringbuffer.h, and the bounds of their histories.                        *)
(***************************************************************************)
CONSTANTS
  RB_SIZE,      (* slots of a ring                                          *)
  RB_BATCH,     (* tuples between two publications of an index              *)
  MaxTuples,    (* bound: tuples written to a ring                          *)
  MaxRestarts   (* bound: restarts of the reader                            *)
=============================================================================
