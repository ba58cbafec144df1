------------------------------ MODULE MCRxReorder ------------------------------
(* Instances of RxReorder for TLC, in a number space of 16. *)
EXTENDS RxReorder

\* Frames through a window of 3, away from the wrap, without host sleep and amid it.
Order == [wins |-> {3}, first |-> 2, last |-> 5, jump |-> 0, ba |-> 1,
          nodrop |-> 0, sync |-> 0]
Doze == [Order EXCEPT !.last = 3, !.nodrop = 1]
\* Two ADDBA requests with windows of 1 and 4, and an RXBA_SYNC packet.
Start == [wins |-> {1, 4}, first |-> 0, last |-> 1, jump |-> 0, ba |-> 2,
          nodrop |-> 0, sync |-> 1]
\* Frames across the end of the number space, without host sleep and amid it.
Wrap == [wins |-> {3}, first |-> 14, last |-> 16, jump |-> 1, ba |-> 1,
         nodrop |-> 0, sync |-> 0]
Sleep == [Wrap EXCEPT !.first = 15, !.nodrop = 1]
WrapMore == [Wrap EXCEPT !.last = 17]

AllLoads == {Order, Doze, Wrap, Sleep}
StartLoads == {Start}
WrapLoads == {WrapMore}
================================================================================
