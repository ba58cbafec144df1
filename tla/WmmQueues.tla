------------------------------- MODULE WmmQueues -------------------------------
(***************************************************************************)
(* The WMM transmit queues of one access point interface (mlan_wmm.c): a   *)
(* route-address list per priority and station, the counters kept beside   *)
(* the lists, and the loop that sends the packets (wlan_wmm_process_tx) up *)
(* to the call of host_to_card and again from its return.                  *)
(*                                                                         *)
(* The network stack adds packets in its own context, the receive path     *)
(* drops queued packets when too many are waiting, and an ioctl thread     *)
(* deletes the lists of a station it deauthenticates, all under            *)
(* ra_list_spinlock, which the main process holds while it takes a packet  *)
(* but not while it sends one.  Pause events are the main process's own.   *)
(***************************************************************************)
EXTENDS Integers, Sequences, FiniteSets, FiniteSetsExt, SequencesExt

CONSTANTS
  Sta,               \* the stations: addresses of routes
  HIGH_PRIO_TID,     \* 7 in the code; LOW_PRIO_TID is 0
  RX_LOW_THRESHOLD,  \* 128: longer lists lose packets when too many wait
  None,              \* no station, no list
  Loads              \* bound: what happens in one behaviour, see Load

Prio == 0 .. HIGH_PRIO_TID
NO_PKT_PRIO_TID == -1
Packet == [prio : Prio, sta : Sta, len : Nat]
Load == [tx : Seq(Packet),   \* the packets the stack sends, in order
         del : Nat, pause : Nat, drop : Nat,  \* how often at most
         sg : BOOLEAN,       \* scatter-gather: mpa_tx.buf is MNULL
         wfail : Nat,        \* failing writes
         rx : Seq(Nat),      \* the lengths of the packets the card sends
         rfail : Nat, norxbuf : Nat,  \* failing reads and allocations
         cmd : Nat,          \* command responses and events of the card
         at : Nat]           \* the port that earlier traffic came to

ASSUME WmmAssumption ==
  /\ HIGH_PRIO_TID \in Nat /\ HIGH_PRIO_TID % 2 = 1
  /\ RX_LOW_THRESHOLD \in Nat \ {0}
  /\ IsFiniteSet(Sta) /\ None \notin Sta
  /\ Loads # {} /\ \A l \in Loads : l \in Load

VARIABLES
  load,     \* the load of this behaviour
  wmm,      \* the lists and the counters
  snd,      \* the locals of the sending functions
  pc,       \* where the main process is
  sent,     \* pmadapter->data_sent
  done,     \* what each packet was completed with
  left      \* what is left of the load

wmmvars == <<load, wmm, snd, pc, sent, done, left>>

PktId == 1 .. Len(load.tx)
P(k) == load.tx[k]
Lists == Prio \X Sta

Idle == [pkt |-> 0, prio |-> 0, sta |-> None, next |-> 0, proc |-> FALSE,
         gone |-> FALSE, ret |-> "none", port |-> 0, todo |-> {}, put |-> FALSE]

WmmInit ==
  /\ load \in Loads
  /\ wmm = [buf |-> [l \in Lists |-> <<>>],     \* ra_list->buf_head
            total |-> [l \in Lists |-> 0],      \* ra_list->total_pkts
            live |-> [s \in Sta |-> FALSE],     \* the lists exist
            paused |-> [s \in Sta |-> FALSE],   \* tx_pause
            requeued |-> {},                    \* MLAN_BUF_FLAG_REQUEUED_PKT
            queued |-> [p \in Prio |-> 0],      \* pkts_queued
            held |-> [p \in Prio |-> 0],        \* pkts_paused
            tx_pkts_queued |-> 0,
            highest |-> NO_PKT_PRIO_TID,        \* highest_queued_prio
            short |-> [p \in Prio |-> 0]]       \* history: counted off twice, see Settle
  /\ snd = Idle
  /\ pc = "loop"
  /\ sent = TRUE
  /\ done = [k \in PktId |-> <<>>]
  /\ left = [tx |-> Len(load.tx), del |-> load.del, pause |-> load.pause,
             drop |-> load.drop, wfail |-> load.wfail, rfail |-> load.rfail,
             norxbuf |-> load.norxbuf, cmd |-> load.cmd]

--------------------------------------------------------------------------------
(* Helpers.                                                                 *)
SizeOf(k) == P(k).len
ListOf(k) == <<P(k).prio, P(k).sta>>
ListsOf(s) == Prio \X {s}
CountOf(w, s) == MapThenSumSet(LAMBDA p : w.total[<<p, s>>], Prio)
Completed(ks, status) == [k \in PktId |-> IF k \in ks THEN Append(done[k], status)
                                                      ELSE done[k]]
Sendable(p) == {s \in Sta : ~wmm.paused[s] /\ wmm.buf[<<p, s>>] # <<>>}
SameAc(p) == IF p % 2 = 1 THEN p - 1 ELSE p + 1
Min2(a, b) == IF a < b THEN a ELSE b
Spend(what) == left[what] > 0 /\ left' = [left EXCEPT ![what] = @ - 1]

\* wlan_wmm_lists_empty.
ListsEmpty == wmm.tx_pkts_queued = 0

--------------------------------------------------------------------------------
CountQueued_NotHighest(w, p, s) ==
  IF w.paused[s]
    THEN [w EXCEPT !.total[<<p, s>>] = @ + 1, !.queued[p] = @ + 1,
                   !.held[p] = @ + 1]
    ELSE [w EXCEPT !.total[<<p, s>>] = @ + 1, !.queued[p] = @ + 1,
                   !.tx_pkts_queued = @ + 1,
                   !.highest = IF @ = NO_PKT_PRIO_TID THEN p ELSE @]

(* wlan_wmm_add_buf_txqueue, in the context of the network stack; a missing *)
(* list is created for every TID (wlan_ralist_add).                         *)
CountQueued(w, p, s) ==
  IF w.paused[s]
    THEN [w EXCEPT !.total[<<p, s>>] = @ + 1, !.queued[p] = @ + 1,
                   !.held[p] = @ + 1]
    ELSE [w EXCEPT !.total[<<p, s>>] = @ + 1, !.queued[p] = @ + 1,
                   !.tx_pkts_queued = @ + 1,
                   !.highest = IF @ < p THEN p ELSE @]
AddBuf ==
  /\ Spend("tx")
  /\ LET k == Len(load.tx) - left.tx + 1
         s == P(k).sta
     IN  wmm' = CountQueued([wmm EXCEPT !.live[s] = TRUE,
                                        !.buf[ListOf(k)] = Append(@, k)],
                            P(k).prio, s)
  /\ UNCHANGED <<load, snd, pc, sent, done>>

(* wlan_drop_tx_pkts, in the receive path: one packet of a list that is     *)
(* paused or long; the list that is looked at first rotates.                *)
DropTxPkt ==
  /\ Spend("drop")
  /\ \E l \in Lists :
       LET s == l[2]
           k == Head(wmm.buf[l])
       IN  /\ wmm.buf[l] # <<>>
           /\ wmm.paused[s] \/ wmm.total[l] > RX_LOW_THRESHOLD
           /\ wmm' = [wmm EXCEPT
                !.buf[l] = Tail(@), !.total[l] = @ - 1, !.queued[l[1]] = @ - 1,
                !.held[l[1]] = IF wmm.paused[s] THEN @ - 1 ELSE @,
                !.tx_pkts_queued = IF wmm.paused[s] THEN @ ELSE @ - 1]
           /\ done' = Completed({k}, "failure")
  /\ UNCHANGED <<load, snd, pc, sent>>

(* wlan_wmm_delete_peer_ralist, in an ioctl thread before a deauthentication *)
(* (or in the main process when the station left).                           *)
DeletePeer ==
  /\ Spend("del")
  /\ \E s \in Sta :
       LET n == IF wmm.paused[s] THEN 0 ELSE CountOf(wmm, s)
       IN  /\ wmm.live[s]
           /\ wmm' = [wmm EXCEPT
                !.live[s] = FALSE,
                !.buf = [l \in Lists |-> IF l[2] = s THEN <<>> ELSE @[l]],
                !.total = [l \in Lists |-> IF l[2] = s THEN 0 ELSE @[l]],
                !.queued = [p \in Prio |-> @[p] - wmm.total[<<p, s>>]],
                !.held = [p \in Prio |->
                            IF wmm.paused[s] THEN @[p] - wmm.total[<<p, s>>] ELSE @[p]],
                !.tx_pkts_queued = @ - n,
                !.highest = IF n > 0 THEN HIGH_PRIO_TID ELSE @]
           /\ done' = Completed(UNION {ToSet(wmm.buf[l]) : l \in ListsOf(s)}, "failure")
           /\ snd' = [snd EXCEPT !.gone = @ \/ snd.sta = s]
  /\ UNCHANGED <<load, pc, sent>>

(* wlan_update_ralist_tx_pause, on a pause event, in the main process.      *)
Repaused(w, s) ==
  LET n == CountOf(w, s)
      d == IF w.paused[s] THEN -1 ELSE 1
  IN  [w EXCEPT
         !.paused[s] = ~@,
         !.held = [p \in Prio |-> @[p] + d * w.total[<<p, s>>]],
         !.tx_pkts_queued = @ - d * n,
         !.highest = IF n > 0 THEN HIGH_PRIO_TID ELSE @]
UpdateTxPause ==
  /\ pc = "loop"
  /\ Spend("pause")
  /\ \E s \in Sta : wmm' = Repaused(wmm, s)
  /\ UNCHANGED <<load, snd, pc, sent, done>>

--------------------------------------------------------------------------------
(* wlan_dequeue_tx_packet: the highest list with a packet, and the packet.  *)
PickNone ==
  /\ pc = "pick"
  /\ \A p \in 0 .. wmm.highest : Sendable(p) = {}
  /\ wmm' = [wmm EXCEPT !.highest = IF ListsEmpty THEN NO_PKT_PRIO_TID
                                                   ELSE HIGH_PRIO_TID]
  /\ pc' = "loop"
  /\ UNCHANGED <<load, snd, sent, done, left>>

NextHighest(p) ==
  LET q == SameAc(p)
  IN  IF wmm.queued[q] # 0 /\ wmm.queued[q] > wmm.held[q]
        THEN q ELSE Min2(wmm.highest, p)

\* A packet that came back is dequeued without touching the counters
\* (wlan_send_processed_packet), a new one with them (wlan_send_single_packet).
Pick ==
  /\ pc = "pick"
  /\ \E p \in 0 .. wmm.highest :
       /\ Sendable(p) # {} /\ \A q \in p + 1 .. wmm.highest : Sendable(q) = {}
       /\ \E s \in Sendable(p) :
            LET l == <<p, s>>
                k == Head(wmm.buf[l])
                more == Tail(wmm.buf[l])
                proc == k \in wmm.requeued
                n == IF proc THEN 0 ELSE 1
            IN  /\ wmm' = [wmm EXCEPT
                     !.buf[l] = more, !.total[l] = @ - n, !.queued[p] = @ - n,
                     !.tx_pkts_queued = @ - n, !.highest = NextHighest(p)]
                /\ snd' = [Idle EXCEPT
                     !.pkt = k, !.prio = p, !.sta = s, !.proc = proc,
                     !.next = IF more = <<>> THEN 0 ELSE SizeOf(Head(more))]
  /\ pc' = "getport"
  /\ UNCHANGED <<load, sent, done, left>>

(* The return of host_to_card with MLAN_STATUS_RESOURCE: the packet goes    *)
(* back to the head of its list, if the list still exists.                  *)
Requeue ==
  LET l == <<snd.prio, snd.sta>>
      n == IF snd.proc THEN 0 ELSE 1
  IN  [wmm EXCEPT !.buf[l] = <<snd.pkt>> \o @, !.total[l] = @ + n,
                  !.queued[snd.prio] = @ + n, !.tx_pkts_queued = @ + n,
                  !.requeued = @ \cup {snd.pkt}]
SettleBack ==
  /\ pc = "settle" /\ snd.ret = "resource"
  /\ IF snd.gone
       THEN done' = Completed({snd.pkt}, "failure") /\ UNCHANGED wmm
       ELSE wmm' = Requeue /\ UNCHANGED done
  /\ pc' = "again" /\ snd' = Idle
  /\ UNCHANGED <<load, sent, left>>

(* Any other return: the counters of a packet that had come back are        *)
(* settled, those of its list only if the list still exists; the others are *)
(* settled in any case, after the deletion of the list has done the same.   *)
Settle ==
  /\ pc = "settle" /\ snd.ret # "resource"
  /\ wmm' = IF snd.proc
              THEN [wmm EXCEPT
                     !.total[<<snd.prio, snd.sta>>] = IF snd.gone THEN @ ELSE @ - 1,
                     !.queued[snd.prio] = @ - 1, !.tx_pkts_queued = @ - 1,
                     !.short[snd.prio] = IF snd.gone THEN @ + 1 ELSE @]
              ELSE wmm
  /\ pc' = "again" /\ snd' = Idle
  /\ UNCHANGED <<load, sent, done, left>>

--------------------------------------------------------------------------------
\* The packet in flight that is still counted as queued.
InFlight(l) == IF snd.pkt # 0 /\ snd.proc /\ ~snd.gone /\ l = <<snd.prio, snd.sta>>
                 THEN 1 ELSE 0

\* The counters agree with the lists whatever was added, dropped, deleted,
\* paused, sent and put back meanwhile: a pause or a deletion subtracts what was
\* added.  They are too low by what Settle took off a second time, and by no more.
CountersAgree ==
  /\ \A l \in Lists : wmm.total[l] = Len(wmm.buf[l]) + InFlight(l)
  /\ \A p \in Prio :
       /\ wmm.queued[p] = MapThenSumSet(LAMBDA s : wmm.total[<<p, s>>], Sta) - wmm.short[p]
       /\ wmm.held[p] = MapThenSumSet(LAMBDA s : wmm.total[<<p, s>>],
                                      {s \in Sta : wmm.paused[s]})
  /\ wmm.tx_pkts_queued =
       MapThenSumSet(LAMBDA s : CountOf(wmm, s), {s \in Sta : ~wmm.paused[s]})
         - MapThenSumSet(LAMBDA p : wmm.short[p], Prio)

\* The search from highest_queued_prio downwards misses no packet for good: a
\* list above it is of the same access category, and the search comes to it
\* when the list it starts from is served.  (When tx_pkts_queued is too low it
\* may: PickNone then takes the queues for empty.)
NothingShort == \A p \in Prio : wmm.short[p] = 0
SearchMissesNone ==
  NothingShort => \A p \in Prio : Sendable(p) # {} =>
    p <= wmm.highest \/ (SameAc(p) = wmm.highest /\ Sendable(wmm.highest) # {})

\* "Check if wmm TX queue is empty ... @return MFALSE if not empty; MTRUE if
\* empty" (mlan_wmm.c:1938): when nothing is being sent, wlan_wmm_lists_empty is
\* true exactly if no list has a packet to send.
EmptyIsTruthful == pc = "loop" => (ListsEmpty <=> \A p \in Prio : Sendable(p) = {})

\* The queues as a whole: what is counted, and what is found.
QueuesConsistent == CountersAgree /\ SearchMissesNone
================================================================================
