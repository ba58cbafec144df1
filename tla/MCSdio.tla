--------------------------------- MODULE MCSdio ---------------------------------
(* Small instances of Sdio: busy writing, busy reading, or a bit of both.      *)
EXTENDS Sdio

Quiet == [tx |-> <<>>, del |-> 0, pause |-> 0, drop |-> 0, sg |-> FALSE, wfail |-> 0,
          rx |-> <<>>, rfail |-> 0, norxbuf |-> 0, cmd |-> 0, at |-> 4]
Pkt(p, s, n) == [prio |-> p, sta |-> s, len |-> n]

CONSTANTS a, b
\* One list, packets of different lengths, and a write that fails.
Stream == [Quiet EXCEPT !.wfail = 1, !.cmd = 1,
  !.tx = <<Pkt(1, a, 1), Pkt(1, a, 1), Pkt(1, a, 2), Pkt(1, a, 1), Pkt(1, a, 1)>>]
\* Several lists, which are deleted, paused and shortened.
Mixed == [Quiet EXCEPT !.del = 1, !.pause = 2, !.drop = 1,
  !.tx = <<Pkt(1, a, 1), Pkt(0, b, 1), Pkt(1, a, 1), Pkt(2, b, 1)>>]
\* Packets of the card that meet failing allocations and transfers.
Upload == [Quiet EXCEPT !.rx = <<1, 1, 2, 1, 2, 1>>, !.rfail = 1, !.norxbuf = 1]
\* A packet that was put back and is sent again while its list is deleted.
Resent == [Quiet EXCEPT !.wfail = 1, !.del = 1,
  !.tx = <<Pkt(1, a, 1), Pkt(1, a, 1), Pkt(1, b, 1)>>]
Both == [Quiet EXCEPT !.tx = <<Pkt(1, a, 1), Pkt(1, a, 1)>>, !.rx = <<1, 2>>, !.cmd = 1]
Gather(l) == [l EXCEPT !.sg = TRUE]

MCLoads == {Stream, Gather(Stream), Mixed, Upload, Both, Resent}
EmptyLoads == {Resent}
================================================================================
