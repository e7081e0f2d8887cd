------------------------------ MODULE Channels ------------------------------
(***************************************************************************)
(* A bundle of channels between one producer and several consumers, one    *)
(* for each of them: each is a Channel, and the producer sends on one at a *)
(* time.                                                                   *)
(*                                                                         *)
(* The packet buffers of the multi-core program implement it.              *)
(***************************************************************************)
EXTENDS Integers, Sequences, SequencesExt

CONSTANTS
  Consumers,  \* one channel leads to each
  Capacity    \* the largest number of messages inside a channel

VARIABLES sent, received   \* of each channel, as in Channel

Init ==
  /\ sent = [c \in Consumers |-> <<>>]
  /\ received = [c \in Consumers |-> <<>>]

Send(c) ==
  /\ IsStrictPrefix(sent[c], sent'[c])
  /\ Len(sent'[c]) - Len(received[c]) <= Capacity
  /\ \A d \in Consumers \ {c} : sent'[d] = sent[d]
  /\ UNCHANGED received

Receive(c) ==
  /\ IsStrictPrefix(received[c], received'[c])
  /\ IsPrefix(received'[c], sent[c])
  /\ \A d \in Consumers \ {c} : received'[d] = received[d]
  /\ UNCHANGED sent

Next == \E c \in Consumers : Send(c) \/ Receive(c)

Spec == Init /\ [][Next]_<<sent, received>>
=============================================================================
