------------------------------- MODULE RingFifo --------------------------------
(***************************************************************************)
(* What a transmit ring promises the driver: a bounded queue.  A packet    *)
(* that is posted is finished once, packets are finished in the order they *)
(* were posted, and a packet that is inside comes out.  PcieRing is shown  *)
(* to implement it.                                                        *)
(***************************************************************************)
EXTENDS Naturals, Sequences, SequencesExt

CONSTANTS Packet, Capacity

VARIABLES
  inside,    \* the packets posted and not finished, oldest first
  finished   \* the packets finished, in order

Init == inside = <<>> /\ finished = <<>>

\* A packet is posted at most once.
Post(p) ==
  /\ Len(inside) < Capacity
  /\ p \notin ToSet(inside) \union ToSet(finished)
  /\ inside' = Append(inside, p)
  /\ UNCHANGED finished

Finish ==
  /\ inside # <<>>
  /\ inside' = Tail(inside)
  /\ finished' = Append(finished, Head(inside))

Next == (\E p \in Packet : Post(p)) \/ Finish

Spec == Init /\ [][Next]_<<inside, finished>> /\ WF_<<inside, finished>>(Finish)
================================================================================
