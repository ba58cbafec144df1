--------------------------------- MODULE SdioRx ---------------------------------
(***************************************************************************)
(* The multi-port read path of an SDIO card in the new mode (mlan_sdio.c): *)
(* the upload loop of wlan_process_sdio_int_status with the aggregation    *)
(* buffer, the recovery when no buffer can be allocated, and the cleanup   *)
(* when a transfer fails.  A terminated transfer loses its packets.        *)
(***************************************************************************)
EXTENDS SdioTx

CONSTANTS
  MaxPorts,        \* max_ports: the read ports are 0 .. MaxPorts - 1
  RxBufSize,       \* mpa_rx.buf_size, in blocks
  RxPktLimit       \* mpa_rx.pkt_aggr_limit

ASSUME SdioRxAssumption ==
  /\ MaxPorts \in Nat /\ MaxPorts >= MpEndPort /\ RxPktLimit \in Nat \ {0}
  /\ RxBufSize \in Nat
  /\ \A l \in Loads : \A i \in DOMAIN l.rx : l.rx[i] \in 1 .. RxBufSize

RdPort == 0 .. MaxPorts - 1
RdNext(p, n) == (p + n) % MaxPorts

VARIABLES
  rd,       \* [map: mp_rd_bitmap, curr: curr_rd_port]
  mpa_rx,   \* the buffers in the aggregation, their lengths and start_port
  rcv,      \* the locals of wlan_sdio_card_to_host_mp_aggr
  rxbuf,    \* what became of each buffer allocated
  up,       \* the packets decoded, in order
  post,     \* the card: the packet on each read port, the next port
  broken    \* a read failed

rxvars == <<rd, mpa_rx, rcv, rxbuf, up, post, broken>>

NoRxAggr == [bufs |-> <<>>, lens |-> <<>>, start |-> 0]
NoRcv == [buf |-> 0, port |-> 0, len |-> 0, todo |-> {}]
Lost == 0                        \* nothing was read

SdioRxInit ==
  /\ SdioTxInit
  /\ rd = [map |-> {}, curr |-> load.at]
  /\ mpa_rx = NoRxAggr
  /\ rcv = NoRcv
  /\ rxbuf = <<>> /\ up = <<>> /\ broken = FALSE
  /\ post = [at |-> [p \in RdPort |-> 0], next |-> load.at, count |-> 0]

RxOnly == UNCHANGED <<load, wmm, snd, sent, done, txvars>>

--------------------------------------------------------------------------------
RxInProgress == mpa_rx.bufs # <<>>
RxRoom(n) == MapThenSumSet(LAMBDA i : mpa_rx.lens[i], DOMAIN mpa_rx.lens) + n <= RxBufSize
RxSetup(buf, port, len) ==
  [bufs |-> Append(mpa_rx.bufs, buf), lens |-> Append(mpa_rx.lens, len),
   start |-> IF RxInProgress THEN mpa_rx.start ELSE port]

\* MP_RX_AGGR_PORT_LIMIT_REACHED.
PortLimit(start, curr) ==
  \/ curr < start /\ MaxPorts - start + curr >= MpEndPort \div 2
  \/ curr - start >= MpEndPort \div 2

RxPlan_LastWaits(len, port, curr, last) ==
  LET room == RxRoom(len)
      put  == ~RxInProgress \/ room
      full == put /\ (\/ Len(mpa_rx.bufs) + 1 = RxPktLimit
                      \/ PortLimit(RxSetup(0, port, len).start, curr))
      aggr == (last /\ RxInProgress) \/ (RxInProgress /\ ~room) \/ full
  IN  {f \in {"put", "aggr", "cur", "post"} :
         \/ f = "put" /\ put
         \/ f = "aggr" /\ aggr
         \/ f = "cur" /\ last /\ ~put
         \/ f = "post" /\ ~last /\ ~put}

\* What wlan_sdio_card_to_host_mp_aggr decides, `last' if no bit is left.
RxPlan(len, port, curr, last) ==
  LET room == RxRoom(len)
      put  == IF last THEN RxInProgress /\ room ELSE ~RxInProgress \/ room
      full == put /\ (\/ Len(mpa_rx.bufs) + 1 = RxPktLimit
                      \/ PortLimit(RxSetup(0, port, len).start, curr))
      aggr == (last /\ RxInProgress) \/ (RxInProgress /\ ~room) \/ full
  IN  {f \in {"put", "aggr", "cur", "post"} :
         \/ f = "put" /\ put
         \/ f = "aggr" /\ aggr
         \/ f = "cur" /\ last /\ ~put
         \/ f = "post" /\ ~last /\ ~put}

TakePort == rd' = [map |-> rd.map \ {rd.curr}, curr |-> RdNext(rd.curr, 1)]

(* wlan_get_rd_port, the allocation and the decision.                       *)
RxGet(lens) ==
  /\ pc = "upload" /\ rd.curr \in rd.map
  /\ TakePort
  /\ LET buf == Len(rxbuf) + 1
         len == lens[rd.curr]
         plan == RxPlan(len, rd.curr, rd'.curr, rd'.map = {})
     IN  /\ rxbuf' = Append(rxbuf, "held")
         /\ rcv' = [buf |-> buf, port |-> rd.curr, len |-> len, todo |-> plan \ {"put"}]
         /\ mpa_rx' = IF "put" \in plan THEN RxSetup(buf, rd.curr, len) ELSE mpa_rx
  /\ pc' = "read"
  /\ RxOnly /\ UNCHANGED <<left, up, post, broken>>

\* No buffer: wlan_sdio_card_to_host_recovery.
RxGetNoBuf(lens) ==
  /\ pc = "upload" /\ rd.curr \in rd.map
  /\ Spend("norxbuf")
  /\ TakePort
  /\ rcv' = [NoRcv EXCEPT !.port = rd.curr, !.len = lens[rd.curr],
                          !.todo = IF RxInProgress THEN {"aggr", "drop"} ELSE {"drop"}]
  /\ pc' = "read"
  /\ RxOnly /\ UNCHANGED <<mpa_rx, rxbuf, up, post, broken>>

\* No more port: the loop ends.
RxGetNone ==
  /\ pc = "upload" /\ rd.curr \notin rd.map
  /\ pc' = "send"
  /\ RxOnly /\ UNCHANGED <<left, rxvars>>

--------------------------------------------------------------------------------
\* What a read of n ports from `port' on finds there.
Found(port, n) == [i \in 1 .. n |-> post.at[RdNext(port, i - 1)]]
CardRead(port, n) ==
  post' = [post EXCEPT !.at = [p \in RdPort |->
             IF p \in {RdNext(port, i) : i \in 0 .. n - 1} THEN Lost ELSE @[p]]]
ReadFails == Spend("rfail") /\ broken' = TRUE

\* What becomes of buffers; one that is given away twice is remembered.
Fate(bufs, what) ==
  [b \in DOMAIN rxbuf |-> IF b \notin bufs THEN rxbuf[b]
                          ELSE IF rxbuf[b] = "held" THEN what ELSE "twice"]

(* wlan_receive_mp_aggr_buf and, for one packet, wlan_receive_single_packet. *)
ReadAggr ==
  /\ pc = "read" /\ "aggr" \in rcv.todo
  /\ up' = up \o Found(mpa_rx.start, Len(mpa_rx.bufs))
  /\ CardRead(mpa_rx.start, Len(mpa_rx.bufs))
  /\ rxbuf' = Fate(ToSet(mpa_rx.bufs), "up")
  /\ mpa_rx' = NoRxAggr
  /\ rcv' = [rcv EXCEPT !.todo = @ \ {"aggr"}]
  /\ RxOnly /\ UNCHANGED <<left, pc, rd, broken>>

\* It fails: the buffers of the aggregation are freed, and that of the current
\* packet if it was to be read alone; one that waited for its turn is forgotten.
ReadAggrFails ==
  /\ pc = "read" /\ "aggr" \in rcv.todo /\ "drop" \notin rcv.todo
  /\ ReadFails
  /\ CardRead(mpa_rx.start, Len(mpa_rx.bufs))
  /\ rxbuf' = Fate(ToSet(mpa_rx.bufs)
                     \cup (IF "cur" \in rcv.todo THEN {rcv.buf} ELSE {}), "freed")
  /\ mpa_rx' = NoRxAggr
  /\ rcv' = NoRcv /\ pc' = "send"
  /\ RxOnly /\ UNCHANGED <<rd, up>>
\* In the recovery the failure is ignored: one buffer is freed, more stay.
ReadAggrFailsIgnored ==
  /\ pc = "read" /\ {"aggr", "drop"} \subseteq rcv.todo
  /\ ReadFails
  /\ CardRead(mpa_rx.start, Len(mpa_rx.bufs))
  /\ IF Len(mpa_rx.bufs) = 1
       THEN rxbuf' = Fate(ToSet(mpa_rx.bufs), "freed") /\ mpa_rx' = NoRxAggr
       ELSE UNCHANGED <<rxbuf, mpa_rx>>
  /\ rcv' = [rcv EXCEPT !.todo = @ \ {"aggr"}]
  /\ RxOnly /\ UNCHANGED <<pc, rd, up>>

(* The current packet alone.                                                *)
ReadCur ==
  /\ pc = "read" /\ "cur" \in rcv.todo /\ "aggr" \notin rcv.todo
  /\ up' = up \o Found(rcv.port, 1)
  /\ CardRead(rcv.port, 1)
  /\ rxbuf' = Fate({rcv.buf}, "up")
  /\ rcv' = [rcv EXCEPT !.todo = @ \ {"cur"}]
  /\ RxOnly /\ UNCHANGED <<left, pc, rd, mpa_rx, broken>>
ReadCurFails ==
  /\ pc = "read" /\ "cur" \in rcv.todo /\ "aggr" \notin rcv.todo
  /\ ReadFails
  /\ CardRead(rcv.port, 1)
  /\ rxbuf' = Fate({rcv.buf}, "freed")
  /\ rcv' = NoRcv /\ pc' = "send"
  /\ RxOnly /\ UNCHANGED <<rd, mpa_rx, up>>

\* The packet without a buffer is read into rx_buf and dropped.
ReadAndDrop ==
  /\ pc = "read" /\ rcv.todo = {"drop"}
  /\ CardRead(rcv.port, 1)
  /\ \/ UNCHANGED <<left, broken>>
     \/ ReadFails
  /\ rcv' = NoRcv /\ pc' = "upload"
  /\ RxOnly /\ UNCHANGED <<rd, mpa_rx, rxbuf, up>>

RxEnd ==
  /\ pc = "read" /\ rcv.todo \subseteq {"post"}
  /\ mpa_rx' = IF "post" \in rcv.todo THEN RxSetup(rcv.buf, rcv.port, rcv.len) ELSE mpa_rx
  /\ rcv' = NoRcv /\ pc' = "upload"
  /\ RxOnly /\ UNCHANGED <<left, rd, rxbuf, up, post, broken>>

RxNext(lens) ==
  \/ RxGet(lens) \/ RxGetNoBuf(lens) \/ RxGetNone
  \/ ReadAggr \/ ReadAggrFails \/ ReadAggrFailsIgnored
  \/ ReadCur \/ ReadCurFails \/ ReadAndDrop \/ RxEnd

--------------------------------------------------------------------------------
Unread == {p \in RdPort : post.at[p] # Lost}
Dropped == load.norxbuf - left.norxbuf

\* Unless a transfer failed, the packets are decoded in the order the card sent
\* them, and when the upload loop ends nothing it took is left behind: every
\* packet was decoded or dropped for want of a buffer, the aggregation buffer is
\* empty and the next port is the one the card will use next.
RxComplete ==
  ~broken =>
    /\ \A i \in DOMAIN up : up[i] # Lost /\ (i > 1 => up[i] > up[i - 1])
    /\ pc \notin {"upload", "read"} =>
         /\ ~RxInProgress
         /\ Len(up) + Dropped = post.count - Cardinality(Unread)
         /\ Unread = {} => rd.curr = post.next

\* A buffer has one owner: it is handed up once or freed once, and the driver
\* forgets none.  (After a failed transfer it does: see ReadAggrFails.)
RxBuffersOwned ==
  /\ \A b \in DOMAIN rxbuf : rxbuf[b] # "twice"
  /\ \A b \in ToSet(mpa_rx.bufs) : rxbuf[b] = "held"
  /\ ~broken => \A b \in DOMAIN rxbuf : rxbuf[b] = "held" =>
                   b \in ToSet(mpa_rx.bufs) \/ (pc = "read" /\ b = rcv.buf)

RxHandedUp == RxComplete /\ RxBuffersOwned
================================================================================
