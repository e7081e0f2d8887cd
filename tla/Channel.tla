------------------------------ MODULE Channel ------------------------------
(***************************************************************************)
(* What a buffer between one producer and one consumer promises: messages  *)
(* come out in the order they went in, none lost, none twice, none made    *)
(* up, and never more than Capacity of them are inside.  Producer and      *)
(* consumer may each move several messages at once (a batch).              *)
(*                                                                         *)
(* The shared-memory ring of the OVS integration and the packet buffers of *)
(* the multi-core program implement this specification.                    *)
(***************************************************************************)
EXTENDS Integers, Sequences, SequencesExt

CONSTANT Capacity   \* the largest number of messages inside

VARIABLES sent, received   \* the messages put in, and those taken out

Init == sent = <<>> /\ received = <<>>

Send ==
  /\ IsStrictPrefix(sent, sent')
  /\ Len(sent') - Len(received) <= Capacity
  /\ UNCHANGED received

Receive ==
  /\ IsStrictPrefix(received, received')
  /\ IsPrefix(received', sent)
  /\ UNCHANGED sent

Next == Send \/ Receive

Spec == Init /\ [][Next]_<<sent, received>>
=============================================================================
