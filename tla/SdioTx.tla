--------------------------------- MODULE SdioTx ---------------------------------
(***************************************************************************)
(* The multi-port write path of an SDIO card in the new mode               *)
(* (mlan_sdio.c): the ports the card granted, the aggregation buffer, and  *)
(* wlan_sdio_host_to_card, which the sending functions of WmmQueues call.  *)
(* Only the main process uses this state; the card is the environment.     *)
(***************************************************************************)
EXTENDS WmmQueues

CONSTANTS
  MpEndPort,       \* mp_end_port: the write ports are 0 .. MpEndPort - 1
  TxBufSize,       \* mpa_tx.buf_size, in blocks
  TxPktLimit       \* mpa_tx.pkt_aggr_limit

ASSUME SdioTxAssumption ==
  /\ MpEndPort \in Nat \ {0} /\ TxBufSize \in Nat /\ TxPktLimit \in Nat \ {0}
  /\ \A l \in Loads : l.at < MpEndPort

\* A packet fits the aggregation buffer (SDIO_MP_TX_AGGR_DEF_BUF_SIZE, unless an ioctl
\* sets less): wlan_host_to_card_mp_aggr copies one that waited without testing again.
ASSUME TxFitsAssumption ==
  \A l \in Loads : \A i \in DOMAIN l.tx : l.tx[i].len <= TxBufSize

WrPort == 0 .. MpEndPort - 1
WrNext_NoWrap(p, n) == p + n
WrNext(p, n) == (p + n) % MpEndPort

VARIABLES
  wr,       \* [map: mp_wr_bitmap, curr: curr_wr_port]
  mpa_tx,   \* the packets in the buffer and their start_port
  card      \* write ports with a buffer, the next one to grant, what it got

txvars == <<wr, mpa_tx, card>>
NoAggr == [pkts |-> <<>>, start |-> 0]

SdioTxInit ==
  /\ WmmInit
  /\ wr = [map |-> {}, curr |-> load.at]
  /\ mpa_tx = NoAggr
  /\ card = [free |-> {}, next |-> load.at, got |-> <<>>, missed |-> FALSE]

--------------------------------------------------------------------------------
TxInProgress == mpa_tx.pkts # <<>>
TxBlocks == MapThenSumSet(LAMBDA i : SizeOf(mpa_tx.pkts[i]), DOMAIN mpa_tx.pkts)
TxRoom(n) == TxBlocks + n <= TxBufSize
TxPut_StartAlways(k, port) == [pkts |-> Append(mpa_tx.pkts, k), start |-> port]

TxPut(k, port) == [pkts |-> Append(mpa_tx.pkts, k),
                   start |-> IF TxInProgress THEN mpa_tx.start ELSE port]

\* What wlan_host_to_card_mp_aggr decides, with `free' if the next port is.
TxPlan(len, next, free) ==
  LET pre  == IF next # 0 THEN TxRoom(len) /\ (TxInProgress \/ free)
                          ELSE TxRoom(len) /\ TxInProgress
      aggr == \/ TxInProgress /\ next # 0 /\ TxRoom(len)
                 /\ (~free \/ ~TxRoom(len + next))
              \/ TxInProgress /\ (next = 0 \/ ~TxRoom(len))
              \/ pre /\ Len(mpa_tx.pkts) + 1 = TxPktLimit
      post == next # 0 /\ TxInProgress /\ ~TxRoom(len) /\ free
  IN  {f \in {"pre", "aggr", "cur", "post"} :
         \/ f = "pre" /\ pre
         \/ f = "aggr" /\ aggr
         \/ f = "post" /\ post
         \/ f = "cur" /\ ~pre /\ ~post}

(* wlan_get_wr_port_data.                                                   *)
GetPortFails ==
  /\ pc = "getport" /\ wr.curr \notin wr.map
  /\ sent' = TRUE
  /\ snd' = [snd EXCEPT !.ret = "resource"]
  /\ pc' = "settle"
  /\ UNCHANGED <<load, wmm, done, left, txvars>>

\* With the decision and, when it says so, the copy of the packet before.
GetPort ==
  /\ pc = "getport" /\ wr.curr \in wr.map
  /\ wr' = [map |-> wr.map \ {wr.curr}, curr |-> WrNext(wr.curr, 1)]
  /\ LET plan == TxPlan(SizeOf(snd.pkt), snd.next, wr'.curr \in wr'.map)
     IN  /\ snd' = [snd EXCEPT !.ret = "success", !.port = wr.curr,
                               !.todo = plan \ {"pre"}, !.put = "pre" \in plan]
         /\ mpa_tx' = IF "pre" \in plan THEN TxPut(snd.pkt, wr.curr) ELSE mpa_tx
  /\ pc' = "transfer"
  /\ UNCHANGED <<load, wmm, sent, done, left, card>>

\* A transfer of packets to the ports from `port' on; a terminated one is lost
\* and the card skips its ports.
CardWrite(pkts, port, ok) ==
  LET ports == {WrNext(port, i - 1) : i \in DOMAIN pkts}
  IN  card' = [card EXCEPT !.free = @ \ ports,
                           !.got = IF ok THEN @ \o pkts ELSE @,
                           !.missed = @ \/ ~(ports \subseteq card.free)]
WriteOutcome(ok) == IF ok THEN UNCHANGED left ELSE Spend("wfail")

SendAggr_Twice(ok) ==
  /\ WriteOutcome(ok)
  /\ CardWrite(mpa_tx.pkts, mpa_tx.start, ok)
  /\ done' = IF load.sg THEN Completed(ToSet(mpa_tx.pkts), "success") ELSE done
  /\ mpa_tx' = IF ok THEN NoAggr ELSE mpa_tx

(* wlan_send_mp_aggr_buf: with scatter-gather it completes the packets, as  *)
(* sent, whatever became of the transfer.                                   *)
SendAggr(ok) ==
  /\ WriteOutcome(ok)
  /\ CardWrite(mpa_tx.pkts, mpa_tx.start, ok)
  /\ done' = IF load.sg THEN Completed(ToSet(mpa_tx.pkts), "success") ELSE done
  /\ mpa_tx' = NoAggr

Result(ok) == IF ok THEN "success" ELSE "failure"

TransferAggr ==
  /\ pc = "transfer" /\ "aggr" \in snd.todo
  /\ \E ok \in BOOLEAN :
       /\ SendAggr(ok)
       /\ snd' = [snd EXCEPT !.todo = @ \ {"aggr"}, !.ret = Result(ok)]
  /\ UNCHANGED <<load, wmm, sent, pc, wr>>

TransferCur ==
  /\ pc = "transfer" /\ "cur" \in snd.todo /\ "aggr" \notin snd.todo
  /\ \E ok \in BOOLEAN :
       /\ WriteOutcome(ok)
       /\ CardWrite(<<snd.pkt>>, snd.port, ok)
       /\ snd' = [snd EXCEPT !.todo = @ \ {"cur"}, !.ret = Result(ok)]
  /\ UNCHANGED <<load, wmm, sent, done, pc, wr, mpa_tx>>

(* The rest of wlan_host_to_card_mp_aggr and wlan_sdio_host_to_card, and    *)
(* the completion by its caller (wlan_process_tx or                         *)
(* wlan_send_processed_packet).                                             *)
Transferred ==
  /\ pc = "transfer" /\ snd.todo \subseteq {"post"}
  /\ LET post == "post" \in snd.todo
         ret == IF load.sg /\ (snd.put \/ post) THEN "pending" ELSE snd.ret
     IN  /\ mpa_tx' = IF post THEN TxPut(snd.pkt, snd.port) ELSE mpa_tx
         /\ sent' = (ret # "failure" /\ wr.curr \notin wr.map)
         /\ done' = IF ret = "pending" THEN done ELSE Completed({snd.pkt}, ret)
         /\ snd' = [snd EXCEPT !.ret = ret, !.todo = {}]
  /\ pc' = "settle"
  /\ UNCHANGED <<load, wmm, left, wr, card>>

--------------------------------------------------------------------------------
\* The card gives buffers to the next ports once all it gave were written.
Granted(n) == {WrNext(card.next, i) : i \in 0 .. n - 1}

HeldPorts == {WrNext(mpa_tx.start, i - 1) : i \in DOMAIN mpa_tx.pkts}

\* The ports the driver believes in have a buffer of the card behind them: what
\* is left of the bitmap, and the run of ports the aggregation buffer has taken,
\* which ends before curr_wr_port.  No write meets a port without a buffer.
WritePortsAgree ==
  /\ ~card.missed
  /\ wr.map \cap HeldPorts = {} /\ (wr.map \cup HeldPorts) \subseteq card.free
  /\ pc # "transfer" /\ TxInProgress =>
       wr.curr = WrNext(mpa_tx.start, Len(mpa_tx.pkts))

Queued(k) == \E l \in Lists : k \in ToSet(wmm.buf[l])
Held(k) == k \in ToSet(mpa_tx.pkts)

\* No packet is lost or told twice: one that was added is in a list, in the
\* aggregation buffer or in the hands of the main process, or it was completed,
\* once.  The packets of a list get to the card in the order they were queued,
\* none twice, whether they were aggregated, sent alone, or put back after the
\* card had no port.
TxExactlyOnce ==
  /\ \A k \in PktId : Len(done[k]) <= 1
  /\ \A k \in 1 .. Len(load.tx) - left.tx :
       /\ done[k] = <<>> => Queued(k) \/ Held(k) \/ snd.pkt = k
       /\ Queued(k) \/ (load.sg /\ Held(k)) => done[k] = <<>>
  /\ \A i, j \in DOMAIN card.got : i < j /\ ListOf(card.got[i]) = ListOf(card.got[j])
       => card.got[i] < card.got[j]
================================================================================
