------------------------------ MODULE SdioRx_proof ------------------------------
(***************************************************************************)
(* Proofs about the read path of Sdio and about both aggregation buffers,  *)
(* on top of Sdio_proof, for any number of read ports, any sizes of the    *)
(* buffers and any load: what the card posts is handed up in order, each   *)
(* buffer once (UploadedInOrder), and neither aggregation buffer is filled *)
(* beyond its size (SdioTyped).                                            *)
(*                                                                         *)
(* The argument for the read path: a buffer the loop has in hand or in the *)
(* aggregation is held and in one place (RxSide); the packets posted,      *)
(* taken and read are three numbers that follow one another round the ring *)
(* of the ports, the aggregation holds those between the last two, and a   *)
(* bitmap is told only when none of them is under way (RxFlow).            *)
(*                                                                         *)
(* The argument for the sizes: what is in a buffer leaves room for another *)
(* packet, but where the next thing to do is to empty it (TxFull, RxFull). *)
(***************************************************************************)
EXTENDS Sdio_proof

--------------------------------------------------------------------------------
(* The read path: types, and who owns a buffer.                              *)

RxF == {"bufs", "lens", "start"}
RcvF == {"buf", "port", "len", "todo"}
PostF == {"at", "next", "count"}
Stages == {"aggr", "cur", "post", "drop"}
Fates == {"held", "up", "freed"}
RxLens == Seq(0 .. RxBufSize)

\* The packet taken last waits to be read alone, to be put into the buffer, or to be
\* dropped; in the first two cases it has a buffer.
RxWaits == rcv.todo \cap {"cur", "post", "drop"} # {}
HasBuf == rcv.todo \cap {"cur", "post"} # {}

RxTypes ==
  /\ DOMAIN rd = WrF /\ rd.map \subseteq RdPort /\ rd.curr \in RdPort
  /\ DOMAIN mpa_rx = RxF /\ mpa_rx.bufs \in Seq(Nat) /\ mpa_rx.lens \in RxLens
  /\ Len(mpa_rx.lens) = Len(mpa_rx.bufs) /\ mpa_rx.start \in RdPort
  /\ DOMAIN rcv = RcvF /\ rcv.todo \subseteq Stages
  /\ rcv.port \in RdPort /\ rcv.len \in 0 .. RxBufSize /\ rcv.buf \in Nat
  /\ rxbuf \in Seq(Fates) /\ up \in Seq(Nat) /\ broken \in BOOLEAN
  /\ DOMAIN post = PostF /\ post.next \in RdPort
  /\ post.count \in 0 .. Len(load.rx) /\ post.at \in [RdPort -> 0 .. Len(load.rx)]
  /\ regs.rd \in [RdPort -> 0 .. RxBufSize]
RxStages ==
  /\ pc # "read" => rcv.todo = {}
  /\ "drop" \in rcv.todo => ~HasBuf
  /\ ~("cur" \in rcv.todo /\ "post" \in rcv.todo)
  /\ "aggr" \in rcv.todo => RxInProgress
  /\ "post" \in rcv.todo /\ RxInProgress => "aggr" \in rcv.todo

\* A fate of buffers that are held.
Owned ==
  /\ \A i \in DOMAIN mpa_rx.bufs : mpa_rx.bufs[i] \in DOMAIN rxbuf /\ rxbuf[mpa_rx.bufs[i]] = "held"
  /\ \A i, j \in DOMAIN mpa_rx.bufs : i # j => mpa_rx.bufs[i] # mpa_rx.bufs[j]
  /\ HasBuf => /\ rcv.buf \in DOMAIN rxbuf /\ rxbuf[rcv.buf] = "held"
               /\ \A i \in DOMAIN mpa_rx.bufs : mpa_rx.bufs[i] # rcv.buf
  /\ ~broken => \A b \in DOMAIN rxbuf : rxbuf[b] = "held" =>
                   (\E i \in DOMAIN mpa_rx.bufs : mpa_rx.bufs[i] = b) \/ (HasBuf /\ b = rcv.buf)
RxSide == RxTypes /\ RxStages /\ Owned

\* The ports further on are ports.
LEMMA RdClosed ==
  ASSUME NEW p \in Nat, NEW n \in Nat
  PROVE  RdNext(p, n) \in RdPort
<1>1. MaxPorts \in Nat \ {0}
  BY SdioRxAssumption, SdioTxAssumption
<1> QED BY <1>1 DEF RdNext, RdPort

\* What is known of the load of the read path.
LEMMA RxLoadIs ==
  ASSUME load \in Loads
  PROVE  /\ load.rx \in Seq(Nat) /\ Len(load.rx) \in Nat
         /\ \A i \in DOMAIN load.rx : load.rx[i] \in 1 .. RxBufSize
         /\ load.at \in RdPort /\ load.norxbuf \in Nat /\ 0 \in RdPort
<1>1. load \in Load
  BY WmmAssumption
<1>2. load.rx \in Seq(Nat) /\ load.norxbuf \in Nat /\ load.at \in Nat
  BY <1>1 DEF Load
<1>3. \A i \in DOMAIN load.rx : load.rx[i] \in 1 .. RxBufSize
  BY SdioRxAssumption
<1>4. load.at < MpEndPort /\ MaxPorts >= MpEndPort /\ MaxPorts \in Nat /\ MpEndPort \in Nat \ {0}
  BY SdioRxAssumption, SdioTxAssumption
<1>5. load.at \in RdPort /\ 0 \in RdPort
  BY <1>2, <1>4 DEF RdPort
<1> QED BY <1>2, <1>3, <1>5

\* What the allocation and the decision do: the packet is put into the aggregation buffer,
\* which is read if this is the last packet or there is no room for more, ...
GetPuts ==
  /\ mpa_rx' = RxSetup(Len(rxbuf) + 1, rd.curr, regs.rd[rd.curr])
  /\ rcv'.todo = {} \/ rcv'.todo = {"aggr"}
  /\ rd'.map = {} => "aggr" \in rcv'.todo
  /\ RxInProgress => RxRoom(regs.rd[rd.curr])
  /\ Len(mpa_rx.bufs) + 1 = RxPktLimit => "aggr" \in rcv'.todo
\* ... or it is the last one, or finds no room in it.
GetWaits ==
  /\ mpa_rx' = mpa_rx
  /\ \/ rd'.map = {} /\ rcv'.todo = (IF RxInProgress THEN {"aggr", "cur"} ELSE {"cur"})
     \/ rd'.map # {} /\ RxInProgress /\ rcv'.todo = {"aggr", "post"}

\* What RxGet does.
LEMMA RxGetIs ==
  ASSUME RxGet(regs.rd)
  PROVE  /\ pc = "upload" /\ pc' = "read" /\ rd.curr \in rd.map
         /\ rd' = [map |-> rd.map \ {rd.curr}, curr |-> RdNext(rd.curr, 1)]
         /\ rxbuf' = Append(rxbuf, "held")
         /\ DOMAIN rcv' = RcvF /\ rcv'.buf = Len(rxbuf) + 1 /\ rcv'.port = rd.curr
         /\ rcv'.len = regs.rd[rd.curr]
         /\ UNCHANGED <<load, left, up, post, broken>>
         /\ GetPuts \/ GetWaits
<1> DEFINE buf == Len(rxbuf) + 1
           len == regs.rd[rd.curr]
           last == rd'.map = {}
           room == RxRoom(len)
           prog == RxInProgress
           put == IF last THEN prog /\ room ELSE ~prog \/ room
           full == put /\ (\/ Len(mpa_rx.bufs) + 1 = RxPktLimit
                           \/ PortLimit(RxSetup(0, rd.curr, len).start, rd'.curr))
           aggr == (last /\ prog) \/ (prog /\ ~room) \/ full
           plan == RxPlan(len, rd.curr, rd'.curr, last)
<1>1. /\ pc = "upload" /\ pc' = "read" /\ rd.curr \in rd.map
      /\ rd' = [map |-> rd.map \ {rd.curr}, curr |-> RdNext(rd.curr, 1)]
      /\ rxbuf' = Append(rxbuf, "held")
      /\ rcv' = [buf |-> buf, port |-> rd.curr, len |-> len, todo |-> plan \ {"put"}]
      /\ mpa_rx' = IF "put" \in plan THEN RxSetup(buf, rd.curr, len) ELSE mpa_rx
      /\ UNCHANGED <<load, left, up, post, broken>>
  BY DEF RxGet, TakePort, RxOnly
<1>2. plan = {f \in {"put", "aggr", "cur", "post"} :
                 \/ f = "put" /\ put
                 \/ f = "aggr" /\ aggr
                 \/ f = "cur" /\ last /\ ~put
                 \/ f = "post" /\ ~last /\ ~put}
  BY DEF RxPlan
<1>3. rcv'.todo = plan \ {"put"} /\ DOMAIN rcv' = RcvF
  BY <1>1 DEF RcvF
<1>4. full => put
  OBVIOUS
<1>5. Len(mpa_rx.bufs) + 1 = RxPktLimit /\ put => full
  OBVIOUS
<1> HIDE DEF plan, full
<1>6. CASE put
  <2>1. rcv'.todo = {} \/ rcv'.todo = {"aggr"}
    BY <1>2, <1>3, <1>6
  <2>2. "put" \in plan
    BY <1>2, <1>6
  <2>3. ("aggr" \in rcv'.todo) <=> aggr
    BY <1>2, <1>3
  <2> HIDE DEF room
  <2>4. last => "aggr" \in rcv'.todo
    BY <1>6, <2>3
  <2>5. prog => room
    BY <1>6
  <2>6. Len(mpa_rx.bufs) + 1 = RxPktLimit => "aggr" \in rcv'.todo
    BY <1>5, <1>6, <2>3
  <2>7. GetPuts
    BY <1>1, <2>1, <2>2, <2>4, <2>5, <2>6 DEF GetPuts, room
  <2> QED BY <1>1, <1>3, <2>7
<1>7. CASE ~put
  <2>1. "put" \notin plan /\ mpa_rx' = mpa_rx
    BY <1>1, <1>2, <1>7
  <2>2. ~full
    BY <1>4, <1>7
  <2> HIDE DEF room
  <2>3. CASE last
    <3>1. aggr <=> prog
      BY <1>7, <2>2, <2>3
    <3>2. rcv'.todo = (IF prog THEN {"aggr", "cur"} ELSE {"cur"})
      BY <1>2, <1>3, <1>7, <2>3, <3>1
    <3> QED BY <2>1, <2>3, <3>2, <1>1, <1>3 DEF GetWaits
  <2>4. CASE ~last
    <3>1. aggr /\ prog
      BY <1>7, <2>2, <2>4
    <3>2. rcv'.todo = {"aggr", "post"}
      BY <1>2, <1>3, <1>7, <2>4, <3>1
    <3> QED BY <2>1, <2>4, <3>1, <3>2, <1>1, <1>3 DEF GetWaits
  <2> QED BY <2>3, <2>4
<1> QED BY <1>6, <1>7

--------------------------------------------------------------------------------
(* What the steps of the read path do.                                       *)

\* The step is not of the read path, and the control neither comes to it nor leaves it.
Apart == pc' = pc \/ (pc \notin {"upload", "read"} /\ pc' \notin {"upload", "read"})

\* A step that leaves the read path and the interrupts alone.
RxIdle ==
  /\ UNCHANGED <<load, rxvars, regs, irq, ireg, ints>> /\ left'.norxbuf = left.norxbuf /\ Apart
  /\ "UP_LD" \in raised' <=> "UP_LD" \in raised

\* The steps by what they do to the read path.
LEMMA RxKinds ==
  ASSUME TxSide, [SdioNext]_allvars
  PROVE  /\ load' = load
         /\ \/ RxIdle
            \/ RxNext(regs.rd) /\ UNCHANGED intvars
            \/ CardSends /\ UNCHANGED <<pc, left>>
            \/ IrqRead /\ UNCHANGED <<pc, left, rxvars>>
            \/ IrqNote /\ UNCHANGED <<pc, left, rxvars>>
            \/ TakeInts /\ UNCHANGED <<left, rxvars>>
            \/ Status /\ UNCHANGED left
<1>0. /\ WmmTypes /\ LeftTypes /\ SndTypes /\ PcTypes /\ TxTypes /\ load \in Loads /\ load' = load
      /\ SndTypes' /\ PcTypes'
  BY StepKinds, SndStep DEF TxSide
<1>1. CASE WmmStep /\ UNCHANGED <<txvars, rxvars, intvars>>
  <2>1. left' = left \/ Spend("tx") \/ Spend("drop") \/ Spend("del") \/ Spend("pause")
    BY <1>1 DEF WmmStep, AddBuf, DropTxPkt, DeletePeer, UpdateTxPause, PickNone, Pick, SettleBack, Settle
  <2>2. left'.norxbuf = left.norxbuf
    BY <2>1, <1>0, SpendIs DEF LeftF
  <2>3. Apart
    BY <1>1 DEF WmmStep, AddBuf, DropTxPkt, DeletePeer, UpdateTxPause, PickNone, Pick, SettleBack,
                Settle, Apart
  <2> QED BY <1>0, <1>1, <2>2, <2>3 DEF RxIdle, intvars
<1>2. CASE PortStep /\ UNCHANGED <<rxvars, intvars>>
  <2>1. left' = left \/ Spend("wfail")
    BY <1>2 DEF PortStep, GetPortFails, GetPort, TransferAggr, TransferCur, Transferred, SendAggr,
                WriteOutcome
  <2>2. left'.norxbuf = left.norxbuf
    BY <2>1, <1>0, SpendIs DEF LeftF
  <2>3. Apart
    BY <1>2 DEF PortStep, GetPortFails, GetPort, TransferAggr, TransferCur, Transferred, Apart
  <2> QED BY <1>0, <1>2, <2>2, <2>3 DEF RxIdle, intvars
<1>3. CASE StartTx \/ NoTx \/ Again
  <2>1. UNCHANGED <<rxvars, intvars, left>> /\ Apart
    BY <1>3 DEF StartTx, NoTx, Again, Apart
  <2> QED BY <1>0, <2>1 DEF RxIdle, intvars
<1>4. CASE TakeInts \/ Status
  BY <1>0, <1>4 DEF TakeInts, Status
<1>5. CASE YieldToCmd
  <2>1. UNCHANGED <<rxvars, intvars>> /\ Apart
    BY <1>5 DEF YieldToCmd, Apart
  <2> QED BY <1>0, <1>5, <2>1, YieldIs DEF RxIdle, intvars
<1>6. CASE RxNext(regs.rd) /\ UNCHANGED intvars
  BY <1>0, <1>6
<1>7. CASE CardStep
  <2>1. CASE CardGrants
    BY <1>0, <2>1 DEF CardGrants, RxIdle, Apart, wmmvars
  <2>2. CASE CardAnswers
    <3>1. left'.norxbuf = left.norxbuf
      BY <1>0, <2>2, SpendIs DEF CardAnswers, LeftF
    <3> QED BY <1>0, <2>2, <3>1 DEF CardAnswers, RxIdle, Apart
  <2>3. CASE IrqRead \/ IrqNote \/ CardSends
    BY <1>0, <2>3 DEF IrqRead, IrqNote, CardSends, wmmvars
  <2> QED BY <1>7, <2>1, <2>2, <2>3 DEF CardStep
<1>8. CASE UNCHANGED allvars
  BY <1>0, <1>8 DEF allvars, RxIdle, Apart, wmmvars, intvars
<1> QED BY <1>0, <1>1, <1>2, <1>3, <1>4, <1>5, <1>6, <1>7, <1>8, StepKinds DEF LoopStep

\* No buffer: the packet is dropped after what was aggregated is read.
LEMMA RxGetNoBufIs ==
  ASSUME LeftTypes, load' = load, RxGetNoBuf(regs.rd)
  PROVE  /\ pc = "upload" /\ pc' = "read" /\ rd.curr \in rd.map
         /\ rd' = [map |-> rd.map \ {rd.curr}, curr |-> RdNext(rd.curr, 1)]
         /\ left'.norxbuf = left.norxbuf - 1
         /\ DOMAIN rcv' = RcvF /\ rcv'.buf = 0 /\ rcv'.port = rd.curr
         /\ rcv'.len = regs.rd[rd.curr]
         /\ rcv'.todo = IF RxInProgress THEN {"aggr", "drop"} ELSE {"drop"}
         /\ UNCHANGED <<mpa_rx, rxbuf, up, post, broken>>
<1>1. left'.norxbuf = left.norxbuf - 1
  BY SpendIs DEF RxGetNoBuf, LeftF
<1> QED BY <1>1 DEF RxGetNoBuf, TakePort, NoRcv, RcvF

\* The reads: what was aggregated, ...
LEMMA ReadAggrIs ==
  ASSUME RxTypes, ReadAggr
  PROVE  /\ pc = "read" /\ "aggr" \in rcv.todo
         /\ up' = up \o Found(mpa_rx.start, Len(mpa_rx.bufs))
         /\ CardRead(mpa_rx.start, Len(mpa_rx.bufs))
         /\ rxbuf' = Fate(ToSet(mpa_rx.bufs), "up")
         /\ mpa_rx' = NoRxAggr
         /\ DOMAIN rcv' = RcvF /\ rcv'.todo = rcv.todo \ {"aggr"}
         /\ rcv'.buf = rcv.buf /\ rcv'.port = rcv.port /\ rcv'.len = rcv.len
         /\ UNCHANGED <<load, left, pc, rd, broken>>
  BY DEF ReadAggr, RxTypes, RcvF, RxOnly

\* ... or one packet.
LEMMA ReadCurIs ==
  ASSUME RxTypes, RxStages, ReadCur
  PROVE  /\ pc = "read" /\ rcv.todo = {"cur"}
         /\ up' = up \o Found(rcv.port, 1)
         /\ CardRead(rcv.port, 1)
         /\ rxbuf' = Fate({rcv.buf}, "up")
         /\ DOMAIN rcv' = RcvF /\ rcv'.todo = {}
         /\ rcv'.buf = rcv.buf /\ rcv'.port = rcv.port /\ rcv'.len = rcv.len
         /\ UNCHANGED <<load, left, pc, rd, mpa_rx, broken>>
<1>1. rcv.todo = {"cur"}
  BY DEF ReadCur, RxTypes, RxStages, Stages, HasBuf
<1> QED BY <1>1 DEF ReadCur, RxTypes, RcvF, RxOnly

\* A read empties ports.
LEMMA CardReadIs ==
  ASSUME RxTypes, load \in Loads, NEW port \in Nat, NEW n \in Nat, CardRead(port, n)
  PROVE  /\ DOMAIN post' = PostF /\ post'.next = post.next /\ post'.count = post.count
         /\ post'.at = [p \in RdPort |->
                          IF p \in {RdNext(port, i) : i \in 0 .. n - 1} THEN Lost ELSE post.at[p]]
         /\ post'.at \in [RdPort -> 0 .. Len(load.rx)]
<1>1. /\ DOMAIN post' = PostF /\ post'.next = post.next /\ post'.count = post.count
      /\ post'.at = [p \in RdPort |->
                       IF p \in {RdNext(port, i) : i \in 0 .. n - 1} THEN Lost ELSE post.at[p]]
  BY DEF CardRead, RxTypes, PostF
<1>2. post.at \in [RdPort -> 0 .. Len(load.rx)] /\ 0 \in 0 .. Len(load.rx)
  BY RxLoadIs DEF RxTypes
<1>3. post'.at \in [RdPort -> 0 .. Len(load.rx)]
  BY <1>1, <1>2 DEF Lost
<1> QED BY <1>1, <1>3

\* What is found on the ports read.
LEMMA FoundIs ==
  ASSUME RxTypes, load \in Loads, NEW port \in Nat, NEW n \in Nat
  PROVE  /\ Found(port, n) \in Seq(Nat) /\ Len(Found(port, n)) = n
         /\ \A i \in 1 .. n : Found(port, n)[i] = post.at[RdNext(port, i - 1)]
<1>1. \A i \in 1 .. n : post.at[RdNext(port, i - 1)] \in Nat
  <2> SUFFICES ASSUME NEW i \in 1 .. n PROVE post.at[RdNext(port, i - 1)] \in Nat
    OBVIOUS
  <2>1. RdNext(port, i - 1) \in RdPort
    BY RdClosed
  <2>2. post.at \in [RdPort -> 0 .. Len(load.rx)] /\ Len(load.rx) \in Nat
    BY RxLoadIs DEF RxTypes
  <2> QED BY <2>1, <2>2
<1> QED BY <1>1 DEF Found

--------------------------------------------------------------------------------
(* Buffers put into the aggregation.                                         *)

\* The fate of buffers that are held.
LEMMA FateIs ==
  ASSUME RxTypes, NEW bufs, NEW what \in {"up", "freed"},
         \A b \in bufs : b \in DOMAIN rxbuf /\ rxbuf[b] = "held"
  PROVE  /\ Fate(bufs, what) \in Seq(Fates) /\ DOMAIN Fate(bufs, what) = DOMAIN rxbuf
         /\ \A b \in DOMAIN rxbuf : Fate(bufs, what)[b] = IF b \in bufs THEN what ELSE rxbuf[b]
<1>1. Len(rxbuf) \in Nat /\ DOMAIN rxbuf = 1 .. Len(rxbuf) /\ \A b \in DOMAIN rxbuf : rxbuf[b] \in Fates
  BY DEF RxTypes
<1>2. Fate(bufs, what) = [b \in 1 .. Len(rxbuf) |-> IF b \in bufs THEN what ELSE rxbuf[b]]
  BY <1>1 DEF Fate
<1>3. \A b \in 1 .. Len(rxbuf) : (IF b \in bufs THEN what ELSE rxbuf[b]) \in Fates
  BY <1>1 DEF Fates
<1> QED BY <1>1, <1>2, <1>3

\* What is appended comes last.
LEMMA AppendIs ==
  ASSUME NEW S, NEW q \in Seq(S), NEW e \in S, NEW t, t = Append(q, e)
  PROVE  /\ t \in Seq(S) /\ Len(t) = Len(q) + 1 /\ Len(q) \in Nat /\ t[Len(q) + 1] = e
         /\ DOMAIN q = 1 .. Len(q) /\ DOMAIN t = 1 .. Len(q) + 1
         /\ \A i \in DOMAIN q : t[i] = q[i]
  OBVIOUS

\* What the aggregation buffer holds when a buffer is put into it.
LEMMA RxSetupIs ==
  ASSUME RxTypes, NEW buf \in Nat, NEW port \in RdPort, NEW len \in 0 .. RxBufSize,
         NEW m, m = RxSetup(buf, port, len)
  PROVE  /\ DOMAIN m = RxF /\ m.bufs \in Seq(Nat) /\ m.lens \in RxLens
         /\ Len(m.bufs) = Len(mpa_rx.bufs) + 1 /\ Len(m.lens) = Len(m.bufs)
         /\ m.start \in RdPort /\ m.start = (IF RxInProgress THEN mpa_rx.start ELSE port)
         /\ \A i \in DOMAIN mpa_rx.bufs : m.bufs[i] = mpa_rx.bufs[i]
         /\ \A i \in DOMAIN mpa_rx.lens : m.lens[i] = mpa_rx.lens[i]
         /\ m.bufs[Len(mpa_rx.bufs) + 1] = buf /\ m.lens[Len(mpa_rx.bufs) + 1] = len
         /\ m.bufs # <<>>
<1> DEFINE n == Len(mpa_rx.bufs)
<1>1. /\ DOMAIN m = RxF /\ m.bufs = Append(mpa_rx.bufs, buf) /\ m.lens = Append(mpa_rx.lens, len)
      /\ m.start = (IF RxInProgress THEN mpa_rx.start ELSE port)
  BY DEF RxSetup, RxF
<1>2. mpa_rx.bufs \in Seq(Nat) /\ mpa_rx.lens \in RxLens /\ Len(mpa_rx.lens) = n /\ n \in Nat
  BY DEF RxTypes, RxLens
<1>3. /\ m.bufs \in Seq(Nat) /\ Len(m.bufs) = n + 1 /\ m.bufs[n + 1] = buf
      /\ \A i \in DOMAIN mpa_rx.bufs : m.bufs[i] = mpa_rx.bufs[i]
  <2>1. mpa_rx.bufs \in Seq(Nat) /\ buf \in Nat /\ m.bufs = Append(mpa_rx.bufs, buf)
    BY <1>1, <1>2
  <2> QED BY <2>1, AppendIs
<1>4. /\ m.lens \in RxLens /\ Len(m.lens) = n + 1 /\ m.lens[n + 1] = len
      /\ \A i \in DOMAIN mpa_rx.lens : m.lens[i] = mpa_rx.lens[i]
  <2> DEFINE B == 0 .. RxBufSize
  <2>1. mpa_rx.lens \in Seq(B) /\ len \in B /\ m.lens = Append(mpa_rx.lens, len)
    BY <1>1, <1>2 DEF RxLens
  <2> HIDE DEF B
  <2>2. /\ m.lens \in Seq(B) /\ Len(m.lens) = Len(mpa_rx.lens) + 1 /\ m.lens[Len(mpa_rx.lens) + 1] = len
        /\ \A i \in DOMAIN mpa_rx.lens : m.lens[i] = mpa_rx.lens[i]
    BY <2>1, AppendIs
  <2> QED BY <2>2, <1>2 DEF RxLens, B
<1>5. m.start \in RdPort
  BY <1>1 DEF RxTypes
<1>6. m.bufs # <<>>
  BY <1>2, <1>3
<1> QED BY <1>1, <1>3, <1>4, <1>5, <1>6

\* The empty aggregation buffer.
LEMMA NoRxAggrIs ==
  /\ DOMAIN NoRxAggr = RxF /\ NoRxAggr.bufs = <<>> /\ NoRxAggr.lens = <<>> /\ NoRxAggr.start = 0
  /\ <<>> \in Seq(Nat) /\ <<>> \in RxLens /\ Len(<<>>) = 0 /\ DOMAIN NoRxAggr.bufs = {}
<1>1. DOMAIN <<>> = 1 .. 0 /\ 1 .. 0 = {}
  OBVIOUS
<1> QED BY <1>1 DEF NoRxAggr, RxF, RxLens

\* No packet in hand.
LEMMA NoRcvIs ==
  /\ DOMAIN NoRcv = RcvF /\ NoRcv.buf = 0 /\ NoRcv.port = 0 /\ NoRcv.len = 0 /\ NoRcv.todo = {}
  BY DEF NoRcv, RcvF

\* The parts of RxTypes, and what they depend on.
RdTypes == DOMAIN rd = WrF /\ rd.map \subseteq RdPort /\ rd.curr \in RdPort
AggrTypes ==
  /\ DOMAIN mpa_rx = RxF /\ mpa_rx.bufs \in Seq(Nat) /\ mpa_rx.lens \in RxLens
  /\ Len(mpa_rx.lens) = Len(mpa_rx.bufs) /\ mpa_rx.start \in RdPort
RcvTypes ==
  /\ DOMAIN rcv = RcvF /\ rcv.todo \subseteq Stages
  /\ rcv.port \in RdPort /\ rcv.len \in 0 .. RxBufSize /\ rcv.buf \in Nat
UpTypes == rxbuf \in Seq(Fates) /\ up \in Seq(Nat) /\ broken \in BOOLEAN
PostTypes ==
  /\ DOMAIN post = PostF /\ post.next \in RdPort
  /\ post.count \in 0 .. Len(load.rx) /\ post.at \in [RdPort -> 0 .. Len(load.rx)]
LensTypes == regs.rd \in [RdPort -> 0 .. RxBufSize]

\* RxTypes, part by part.
LEMMA RxTypesAre ==
  RxTypes <=> RdTypes /\ AggrTypes /\ RcvTypes /\ UpTypes /\ PostTypes /\ LensTypes
  BY DEF RxTypes, RdTypes, AggrTypes, RcvTypes, UpTypes, PostTypes, LensTypes

\* A buffer put into the aggregation buffer keeps its type.
LEMMA AggrPut ==
  ASSUME RxTypes, NEW buf \in Nat, NEW port \in RdPort, NEW len \in 0 .. RxBufSize,
         mpa_rx' = RxSetup(buf, port, len)
  PROVE  AggrTypes'
<1> DEFINE m == mpa_rx'
<1>1. m = RxSetup(buf, port, len)
  OBVIOUS
<1> HIDE DEF m
<1>2. /\ DOMAIN m = RxF /\ m.bufs \in Seq(Nat) /\ m.lens \in RxLens
      /\ Len(m.lens) = Len(m.bufs) /\ m.start \in RdPort
  BY <1>1, RxSetupIs
<1> QED BY <1>2 DEF AggrTypes, m

\* The bitmap and the packet in hand keep their types.
LEMMA RdRcvStep ==
  ASSUME TxSide, RxTypes, RxStages, RxNext(regs.rd), load' = load
  PROVE  RdTypes' /\ RcvTypes'
<1>0. /\ RdTypes /\ RcvTypes /\ LensTypes /\ LeftTypes /\ load \in Loads /\ 0 \in RdPort
      /\ regs.rd[rd.curr] \in 0 .. RxBufSize /\ Len(rxbuf) + 1 \in Nat /\ 0 \in 0 .. RxBufSize
  <2>1. regs.rd \in [RdPort -> 0 .. RxBufSize] /\ rd.curr \in RdPort /\ Len(rxbuf) \in Nat
    BY DEF RxTypes
  <2>2. RxBufSize \in Nat
    BY SdioRxAssumption
  <2> QED BY <2>1, <2>2, RxTypesAre, RxLoadIs DEF TxSide
<1>1. CASE rd' = rd /\ rcv' = NoRcv
  BY <1>0, <1>1, NoRcvIs DEF RdTypes, RcvTypes
<1>2. CASE rd' = rd /\ \E f \in Stages : rcv' = [rcv EXCEPT !.todo = @ \ {f}]
  BY <1>0, <1>2 DEF RdTypes, RcvTypes, RcvF
<1>3. CASE rd' = rd /\ rcv' = rcv
  BY <1>0, <1>3 DEF RdTypes, RcvTypes
<1>4. ASSUME rd' = [map |-> rd.map \ {rd.curr}, curr |-> RdNext(rd.curr, 1)] PROVE RdTypes'
  <2>1. RdNext(rd.curr, 1) \in RdPort
    <3>1. rd.curr \in Nat
      BY <1>0 DEF RdTypes, RdPort
    <3> QED BY <3>1, RdClosed
  <2> QED BY <1>0, <1>4, <2>1 DEF RdTypes, WrF
<1>5. CASE RxGet(regs.rd)
  <2>1. rcv'.todo \subseteq Stages
    BY <1>5, RxGetIs DEF GetPuts, GetWaits, Stages
  <2>2. RcvTypes'
    BY <1>0, <1>5, <2>1, RxGetIs DEF RcvTypes, RdTypes
  <2> QED BY <1>4, <1>5, <2>2, RxGetIs
<1>6. CASE RxGetNoBuf(regs.rd)
  <2>1. rcv'.todo \subseteq Stages
    BY <1>0, <1>6, RxGetNoBufIs DEF Stages
  <2>2. RcvTypes'
    BY <1>0, <1>6, <2>1, RxGetNoBufIs DEF RcvTypes, RdTypes
  <2> QED BY <1>0, <1>4, <1>6, <2>2, RxGetNoBufIs
<1>7. CASE RxGetNone
  BY <1>3, <1>7 DEF RxGetNone, rxvars
<1>8. CASE ReadAggr \/ ReadAggrFailsIgnored \/ ReadCur
  BY <1>2, <1>8 DEF ReadAggr, ReadAggrFailsIgnored, ReadCur, Stages
<1>9. CASE ReadAggrFails \/ ReadCurFails \/ ReadAndDrop \/ RxEnd
  BY <1>1, <1>9 DEF ReadAggrFails, ReadCurFails, ReadAndDrop, RxEnd
<1> QED BY <1>5, <1>6, <1>7, <1>8, <1>9 DEF RxNext

\* So does the aggregation buffer,
LEMMA AggrStep ==
  ASSUME TxSide, RxTypes, RxStages, RxNext(regs.rd), load' = load
  PROVE  AggrTypes'
<1>0. AggrTypes /\ RcvTypes /\ load \in Loads /\ 0 \in RdPort /\ rd.curr \in RdPort
      /\ regs.rd[rd.curr] \in 0 .. RxBufSize /\ Len(rxbuf) + 1 \in Nat
  <2>1. regs.rd \in [RdPort -> 0 .. RxBufSize] /\ rd.curr \in RdPort /\ Len(rxbuf) \in Nat
    BY DEF RxTypes
  <2> QED BY <2>1, RxTypesAre, RxLoadIs DEF TxSide
<1>1. CASE mpa_rx' = mpa_rx
  BY <1>0, <1>1 DEF AggrTypes
<1>2. CASE mpa_rx' = NoRxAggr
  BY <1>0, <1>2, NoRxAggrIs DEF AggrTypes
<1>3. CASE mpa_rx' = RxSetup(rcv.buf, rcv.port, rcv.len)
  <2>1. rcv.buf \in Nat /\ rcv.port \in RdPort /\ rcv.len \in 0 .. RxBufSize
    BY <1>0 DEF RcvTypes
  <2> QED BY <2>1, <1>3, AggrPut
<1>4. CASE mpa_rx' = RxSetup(Len(rxbuf) + 1, rd.curr, regs.rd[rd.curr])
  BY <1>0, <1>4, AggrPut
<1>5. RxGet(regs.rd) => mpa_rx' = mpa_rx \/ mpa_rx' = RxSetup(Len(rxbuf) + 1, rd.curr, regs.rd[rd.curr])
  BY RxGetIs DEF GetPuts, GetWaits
<1>6. ~RxGet(regs.rd) => mpa_rx' = mpa_rx \/ mpa_rx' = NoRxAggr \/ mpa_rx' = RxSetup(rcv.buf, rcv.port, rcv.len)
  BY DEF RxNext, RxGetNoBuf, RxGetNone, ReadAggr, ReadAggrFails, ReadAggrFailsIgnored,
         ReadCur, ReadCurFails, ReadAndDrop, RxEnd, rxvars
<1> QED BY <1>1, <1>2, <1>3, <1>4, <1>5, <1>6

--------------------------------------------------------------------------------
(* What becomes of the buffers.                                              *)

\* The buffers of the aggregation, and that of the packet in hand, are held.
LEMMA HeldAre ==
  ASSUME RxTypes, Owned
  PROVE  /\ \A b \in ToSet(mpa_rx.bufs) : b \in DOMAIN rxbuf /\ rxbuf[b] = "held"
         /\ HasBuf => \A b \in ToSet(mpa_rx.bufs) \cup {rcv.buf} : b \in DOMAIN rxbuf /\ rxbuf[b] = "held"
         /\ \A b : b \in ToSet(mpa_rx.bufs) <=> \E i \in DOMAIN mpa_rx.bufs : mpa_rx.bufs[i] = b
<1>1. ToSet(mpa_rx.bufs) = {mpa_rx.bufs[i] : i \in DOMAIN mpa_rx.bufs}
  BY DEF ToSet
<1> QED BY <1>1 DEF Owned

\* What becomes of the buffers.
LEMMA RxbufIs ==
  ASSUME RxTypes, RxStages, Owned, RxNext(regs.rd)
  PROVE  \/ /\ rxbuf' = rxbuf
            /\ \/ RxGetNoBuf(regs.rd) \/ RxGetNone \/ ReadAndDrop \/ RxEnd
               \/ ReadAggrFailsIgnored /\ mpa_rx' = mpa_rx
         \/ rxbuf' = Append(rxbuf, "held") /\ RxGet(regs.rd)
         \/ \E what \in {"up", "freed"} :
              \/ rxbuf' = Fate(ToSet(mpa_rx.bufs), what) /\ mpa_rx' = NoRxAggr
                   /\ (broken' \/ (broken' = broken /\ rcv'.todo = rcv.todo \ {"aggr"} /\ rcv'.buf = rcv.buf
                                    /\ DOMAIN rcv' = RcvF))
                   /\ rcv'.todo \subseteq rcv.todo /\ (rcv'.todo # {} => rcv'.buf = rcv.buf)
              \/ HasBuf /\ rxbuf' = Fate(ToSet(mpa_rx.bufs) \cup {rcv.buf}, what)
                   /\ mpa_rx' = NoRxAggr /\ rcv' = NoRcv /\ broken'
              \/ HasBuf /\ rxbuf' = Fate({rcv.buf}, what) /\ mpa_rx' = mpa_rx /\ rcv'.todo = {}
                   /\ (broken' \/ broken' = broken)
<1>1. CASE RxGet(regs.rd)
  BY <1>1, RxGetIs
<1>2. CASE ReadAggr
  <2>1. rcv'.todo \subseteq rcv.todo
    BY <1>2, ReadAggrIs
  <2> QED BY <1>2, <2>1, ReadAggrIs
<1>3. CASE ReadAggrFails
  <2>1. rcv'.todo = {}
    BY <1>3, NoRcvIs DEF ReadAggrFails
  <2>2. CASE "cur" \in rcv.todo
    BY <1>3, <2>2 DEF ReadAggrFails, ReadFails, HasBuf
  <2>3. CASE "cur" \notin rcv.todo
    <3>1. rxbuf' = Fate(ToSet(mpa_rx.bufs) \cup {}, "freed") /\ ToSet(mpa_rx.bufs) \cup {} = ToSet(mpa_rx.bufs)
      BY <1>3, <2>3 DEF ReadAggrFails
    <3>2. rxbuf' = Fate(ToSet(mpa_rx.bufs), "freed")
      BY <3>1
    <3>3. mpa_rx' = NoRxAggr /\ broken'
      BY <1>3 DEF ReadAggrFails, ReadFails
    <3> QED BY <2>1, <3>2, <3>3
  <2> QED BY <2>2, <2>3
<1>4. CASE ReadAggrFailsIgnored
  <2>1. broken' /\ rcv' = [rcv EXCEPT !.todo = @ \ {"aggr"}]
    BY <1>4 DEF ReadAggrFailsIgnored, ReadFails
  <2>2. rcv'.todo \subseteq rcv.todo /\ rcv'.buf = rcv.buf
    BY <2>1 DEF RxTypes, RcvF
  <2> QED BY <1>4, <2>1, <2>2 DEF ReadAggrFailsIgnored
<1>5. CASE ReadCur
  BY <1>5, ReadCurIs DEF HasBuf
<1>6. CASE ReadCurFails
  <2>1. rcv'.todo = {}
    BY <1>6, NoRcvIs DEF ReadCurFails
  <2> QED BY <1>6, <2>1 DEF ReadCurFails, ReadFails, HasBuf
<1>7. CASE RxGetNoBuf(regs.rd) \/ RxGetNone \/ ReadAndDrop \/ RxEnd
  BY <1>7 DEF RxGetNoBuf, RxGetNone, ReadAndDrop, RxEnd, rxvars
<1> QED BY <1>1, <1>2, <1>3, <1>4, <1>5, <1>6, <1>7 DEF RxNext

\* What becomes of the packets decoded, and of the card.
LEMMA UpIs ==
  ASSUME RxTypes, RxStages, RxNext(regs.rd)
  PROVE  \/ up' = up /\ post' = post
         \/ \E port \in RdPort, n \in Nat :
              CardRead(port, n) /\ (up' = up \/ up' = up \o Found(port, n))
<1>0. mpa_rx.start \in RdPort /\ Len(mpa_rx.bufs) \in Nat /\ rcv.port \in RdPort /\ 1 \in Nat
  BY DEF RxTypes
<1>1. CASE RxGet(regs.rd) \/ RxGetNoBuf(regs.rd) \/ RxGetNone \/ RxEnd
  BY <1>1 DEF RxGet, RxGetNoBuf, RxGetNone, RxEnd, rxvars
<1>2. CASE ReadAggr \/ ReadAggrFails \/ ReadAggrFailsIgnored
  BY <1>0, <1>2 DEF ReadAggr, ReadAggrFails, ReadAggrFailsIgnored
<1>3. CASE ReadCur \/ ReadCurFails \/ ReadAndDrop
  BY <1>0, <1>3 DEF ReadCur, ReadCurFails, ReadAndDrop
<1> QED BY <1>1, <1>2, <1>3 DEF RxNext

\* They keep their types.
LEMMA UpStep ==
  ASSUME TxSide, RxTypes, RxStages, Owned, RxNext(regs.rd), load' = load
  PROVE  UpTypes' /\ PostTypes'
<1>0. UpTypes /\ PostTypes /\ load \in Loads /\ RdPort \subseteq Nat
  BY RxTypesAre DEF TxSide, RdPort
<1>1. rxbuf' \in Seq(Fates)
  <2>0. "held" \in Fates
    BY DEF Fates
  <2>1. \A what \in {"up", "freed"} :
           /\ Fate(ToSet(mpa_rx.bufs), what) \in Seq(Fates)
           /\ HasBuf => Fate(ToSet(mpa_rx.bufs) \cup {rcv.buf}, what) \in Seq(Fates)
           /\ HasBuf => Fate({rcv.buf}, what) \in Seq(Fates)
    <3> SUFFICES ASSUME NEW what \in {"up", "freed"}
                 PROVE  /\ Fate(ToSet(mpa_rx.bufs), what) \in Seq(Fates)
                        /\ HasBuf => Fate(ToSet(mpa_rx.bufs) \cup {rcv.buf}, what) \in Seq(Fates)
                        /\ HasBuf => Fate({rcv.buf}, what) \in Seq(Fates)
      OBVIOUS
    <3>1. Fate(ToSet(mpa_rx.bufs), what) \in Seq(Fates)
      BY HeldAre, FateIs
    <3>2. ASSUME HasBuf PROVE Fate(ToSet(mpa_rx.bufs) \cup {rcv.buf}, what) \in Seq(Fates)
      BY <3>2, HeldAre, FateIs
    <3>3. ASSUME HasBuf PROVE Fate({rcv.buf}, what) \in Seq(Fates)
      BY <3>3, HeldAre, FateIs
    <3> QED BY <3>1, <3>2, <3>3
  <2>2. rxbuf \in Seq(Fates) /\ Append(rxbuf, "held") \in Seq(Fates)
    BY <1>0, <2>0 DEF UpTypes
  <2>3. \/ rxbuf' = rxbuf \/ rxbuf' = Append(rxbuf, "held")
        \/ \E what \in {"up", "freed"} :
             \/ rxbuf' = Fate(ToSet(mpa_rx.bufs), what)
             \/ HasBuf /\ rxbuf' = Fate(ToSet(mpa_rx.bufs) \cup {rcv.buf}, what)
             \/ HasBuf /\ rxbuf' = Fate({rcv.buf}, what)
    BY RxbufIs
  <2> QED BY <2>1, <2>2, <2>3, Zenon
<1>2. up' \in Seq(Nat) /\ PostTypes'
  <2>1. CASE up' = up /\ post' = post
    BY <1>0, <2>1 DEF UpTypes, PostTypes
  <2>2. CASE \E port \in RdPort, n \in Nat :
              CardRead(port, n) /\ (up' = up \/ up' = up \o Found(port, n))
    <3> PICK port \in RdPort, n \in Nat :
              CardRead(port, n) /\ (up' = up \/ up' = up \o Found(port, n))
      BY <2>2
    <3>1. port \in Nat
      BY <1>0
    <3>2. PostTypes'
      BY <1>0, <3>1, CardReadIs DEF PostTypes
    <3>3. Found(port, n) \in Seq(Nat) /\ up \in Seq(Nat)
      BY <1>0, <3>1, FoundIs DEF UpTypes
    <3>4. up \o Found(port, n) \in Seq(Nat)
      BY <3>3
    <3>5. up' \in Seq(Nat)
      BY <3>3, <3>4
    <3> QED BY <3>2, <3>5
  <2> QED BY <2>1, <2>2, UpIs
<1>3. broken' \in BOOLEAN
  <2>1. broken' = broken \/ broken' = TRUE
    BY DEF RxNext, RxGet, RxGetNoBuf, RxGetNone, ReadAggr, ReadAggrFails, ReadAggrFailsIgnored,
         ReadCur, ReadCurFails, ReadAndDrop, RxEnd, rxvars, ReadFails
  <2> QED BY <1>0, <2>1 DEF UpTypes
<1> QED BY <1>1, <1>2, <1>3 DEF UpTypes

--------------------------------------------------------------------------------
(* The order of what the read loop has to do.                                *)

\* A step of the read path keeps the order of what it has to do.
LEMMA StagesStep ==
  ASSUME TxSide, RxTypes, RxStages, RxNext(regs.rd), load' = load
  PROVE  RxStages'
<1>0. /\ mpa_rx.bufs \in Seq(Nat) /\ rcv.todo \subseteq Stages /\ DOMAIN rcv = RcvF /\ LeftTypes
      /\ rcv.buf \in Nat /\ rcv.port \in RdPort /\ rcv.len \in 0 .. RxBufSize
  BY DEF RxTypes, TxSide
<1>1. CASE RxGet(regs.rd)
  <2>1. regs.rd[rd.curr] \in 0 .. RxBufSize /\ rd.curr \in RdPort /\ Len(rxbuf) + 1 \in Nat
    BY DEF RxTypes
  <2>2. CASE GetPuts
    <3>1. mpa_rx'.bufs # <<>>
      BY <2>1, <2>2, RxSetupIs DEF GetPuts
    <3> QED BY <1>1, <2>2, <3>1, RxGetIs DEF RxStages, GetPuts, HasBuf, RxInProgress
  <2>3. CASE GetWaits
    BY <1>1, <2>3, RxGetIs DEF RxStages, GetWaits, HasBuf, RxInProgress
  <2> QED BY <1>1, <2>2, <2>3, RxGetIs
<1>2. CASE RxGetNoBuf(regs.rd)
  BY <1>0, <1>2, RxGetNoBufIs DEF RxStages, HasBuf, RxInProgress
<1>3. CASE RxGetNone
  BY <1>3 DEF RxGetNone, RxStages, HasBuf, RxInProgress, rxvars
<1>4. CASE ReadAggr
  <2>1. mpa_rx'.bufs = <<>> /\ rcv'.todo = rcv.todo \ {"aggr"} /\ pc' = pc
    BY <1>4, ReadAggrIs, NoRxAggrIs
  <2> QED BY <1>4, <2>1 DEF RxStages, HasBuf, RxInProgress
<1>5. CASE ReadAggrFails \/ ReadCurFails \/ ReadAndDrop \/ RxEnd
  <2>1. rcv'.todo = {}
    BY <1>5, NoRcvIs DEF ReadAggrFails, ReadCurFails, ReadAndDrop, RxEnd
  <2> QED BY <2>1 DEF RxStages, HasBuf
<1>6. CASE ReadAggrFailsIgnored
  <2>1. /\ pc' = pc /\ rcv'.todo = rcv.todo \ {"aggr"} /\ "drop" \in rcv.todo
    BY <1>0, <1>6 DEF ReadAggrFailsIgnored, RcvF
  <2>2. pc = "read" /\ "post" \notin rcv.todo /\ "cur" \notin rcv.todo
    BY <1>6, <2>1 DEF ReadAggrFailsIgnored, RxStages, HasBuf
  <2> QED BY <2>1, <2>2 DEF RxStages, HasBuf
<1>7. CASE ReadCur
  <2>1. rcv'.todo = {}
    BY <1>7, ReadCurIs
  <2> QED BY <2>1 DEF RxStages, HasBuf
<1> QED BY <1>1, <1>2, <1>3, <1>4, <1>5, <1>6, <1>7 DEF RxNext

\* Buffers are handed up or freed: none of them was before.
LEMMA OwnedFate ==
  ASSUME RxTypes, RxStages, Owned, NEW what \in {"up", "freed"},
         \/ rxbuf' = Fate(ToSet(mpa_rx.bufs), what) /\ mpa_rx' = NoRxAggr
              /\ (broken' \/ (broken' = broken /\ rcv'.todo = rcv.todo \ {"aggr"} /\ rcv'.buf = rcv.buf
                               /\ DOMAIN rcv' = RcvF))
              /\ rcv'.todo \subseteq rcv.todo /\ (rcv'.todo # {} => rcv'.buf = rcv.buf)
         \/ HasBuf /\ rxbuf' = Fate(ToSet(mpa_rx.bufs) \cup {rcv.buf}, what)
              /\ mpa_rx' = NoRxAggr /\ rcv' = NoRcv /\ broken'
         \/ HasBuf /\ rxbuf' = Fate({rcv.buf}, what) /\ mpa_rx' = mpa_rx /\ rcv'.todo = {}
              /\ (broken' \/ broken' = broken)
  PROVE  Owned'
<1>0. what # "held"
  OBVIOUS
<1>1. CASE rxbuf' = Fate(ToSet(mpa_rx.bufs), what) /\ mpa_rx' = NoRxAggr
              /\ (broken' \/ (broken' = broken /\ rcv'.todo = rcv.todo \ {"aggr"} /\ rcv'.buf = rcv.buf
                               /\ DOMAIN rcv' = RcvF))
              /\ rcv'.todo \subseteq rcv.todo /\ (rcv'.todo # {} => rcv'.buf = rcv.buf)
  <2>1. /\ DOMAIN rxbuf' = DOMAIN rxbuf
        /\ \A b \in DOMAIN rxbuf : rxbuf'[b] = IF b \in ToSet(mpa_rx.bufs) THEN what ELSE rxbuf[b]
    BY <1>1, HeldAre, FateIs
  <2>2. DOMAIN mpa_rx'.bufs = {}
    BY <1>1, NoRxAggrIs
  <2>3. HasBuf' => HasBuf /\ rcv'.buf = rcv.buf
    BY <1>1 DEF HasBuf
  <2>4. HasBuf' => rcv'.buf \in DOMAIN rxbuf' /\ rxbuf'[rcv'.buf] = "held"
    BY <2>1, <2>3, HeldAre DEF Owned
  <2>5. ASSUME ~broken', NEW b \in DOMAIN rxbuf', rxbuf'[b] = "held" PROVE HasBuf' /\ b = rcv'.buf
    <3>1. ~broken /\ rcv'.todo = rcv.todo \ {"aggr"} /\ rcv'.buf = rcv.buf
      BY <1>1, <2>5
    <3>2. rxbuf[b] = "held" /\ b \notin ToSet(mpa_rx.bufs) /\ b \in DOMAIN rxbuf
      BY <1>0, <2>1, <2>5
    <3>3. HasBuf /\ b = rcv.buf
      BY <3>1, <3>2, HeldAre DEF Owned
    <3> QED BY <3>1, <3>3 DEF HasBuf
  <2> QED BY <2>2, <2>4, <2>5 DEF Owned
<1>2. CASE HasBuf /\ rxbuf' = Fate(ToSet(mpa_rx.bufs) \cup {rcv.buf}, what)
              /\ mpa_rx' = NoRxAggr /\ rcv' = NoRcv /\ broken'
  <2>1. ~HasBuf' /\ DOMAIN mpa_rx'.bufs = {}
    BY <1>2, NoRcvIs, NoRxAggrIs DEF HasBuf
  <2> QED BY <1>2, <2>1 DEF Owned
<1>3. CASE HasBuf /\ rxbuf' = Fate({rcv.buf}, what) /\ mpa_rx' = mpa_rx /\ rcv'.todo = {}
              /\ (broken' \/ broken' = broken)
  <2>1. \A b \in {rcv.buf} : b \in DOMAIN rxbuf /\ rxbuf[b] = "held"
    BY <1>3, HeldAre
  <2>2. /\ DOMAIN rxbuf' = DOMAIN rxbuf
        /\ \A b \in DOMAIN rxbuf : rxbuf'[b] = IF b \in {rcv.buf} THEN what ELSE rxbuf[b]
    BY <1>3, <2>1, FateIs
  <2>3. ~HasBuf' /\ (~broken' => ~broken) /\ \A i \in DOMAIN mpa_rx.bufs : mpa_rx.bufs[i] # rcv.buf
    BY <1>3 DEF HasBuf, Owned
  <2> QED BY <1>0, <1>3, <2>2, <2>3 DEF Owned
<1> QED BY <1>1, <1>2, <1>3

--------------------------------------------------------------------------------
(* The buffers keep their owners.                                            *)

\* A buffer that is held is put into the aggregation buffer.
LEMMA OwnedPut ==
  ASSUME RxTypes, Owned, NEW buf \in Nat, NEW port \in RdPort, NEW len \in 0 .. RxBufSize,
         mpa_rx' = RxSetup(buf, port, len), ~HasBuf',
         \A i \in DOMAIN mpa_rx.bufs : /\ mpa_rx.bufs[i] \in DOMAIN rxbuf'
                                       /\ rxbuf'[mpa_rx.bufs[i]] = "held" /\ mpa_rx.bufs[i] # buf,
         buf \in DOMAIN rxbuf', rxbuf'[buf] = "held",
         ~broken' => \A b \in DOMAIN rxbuf' : rxbuf'[b] = "held" =>
                        (\E i \in DOMAIN mpa_rx.bufs : mpa_rx.bufs[i] = b) \/ b = buf
  PROVE  Owned'
<1> DEFINE n == Len(mpa_rx.bufs)
<1>2. mpa_rx'.bufs = Append(mpa_rx.bufs, buf) /\ mpa_rx.bufs \in Seq(Nat)
  BY DEF RxSetup, RxTypes
<1>1. DOMAIN mpa_rx.bufs = 1 .. n /\ n \in Nat
  BY <1>2
<1>3. /\ mpa_rx'.bufs \in Seq(Nat) /\ Len(mpa_rx'.bufs) = n + 1 /\ mpa_rx'.bufs[n + 1] = buf
      /\ \A i \in DOMAIN mpa_rx.bufs : mpa_rx'.bufs[i] = mpa_rx.bufs[i]
  BY <1>2, AppendIs
<1>4. DOMAIN mpa_rx'.bufs = 1 .. n + 1
  BY <1>3
<1> HIDE DEF n
<1>5. \A i \in DOMAIN mpa_rx'.bufs : i \in DOMAIN mpa_rx.bufs \/ i = n + 1
  BY <1>1, <1>4
<1>6. \A i \in DOMAIN mpa_rx'.bufs : mpa_rx'.bufs[i] \in DOMAIN rxbuf' /\ rxbuf'[mpa_rx'.bufs[i]] = "held"
  BY <1>3, <1>5
<1>7. \A i, j \in DOMAIN mpa_rx'.bufs : i # j => mpa_rx'.bufs[i] # mpa_rx'.bufs[j]
  BY <1>3, <1>5 DEF Owned
<1>8. DOMAIN mpa_rx.bufs \subseteq DOMAIN mpa_rx'.bufs /\ n + 1 \in DOMAIN mpa_rx'.bufs
  BY <1>1, <1>4
<1>9. ASSUME ~broken', NEW b \in DOMAIN rxbuf', rxbuf'[b] = "held"
      PROVE  \E i \in DOMAIN mpa_rx'.bufs : mpa_rx'.bufs[i] = b
  BY <1>3, <1>8, <1>9
<1> QED BY <1>6, <1>7, <1>9 DEF Owned

\* The buffers keep their owners.
LEMMA OwnedStep ==
  ASSUME TxSide, RxTypes, RxStages, Owned, RxNext(regs.rd), load' = load
  PROVE  Owned'
<1>0. /\ mpa_rx.bufs \in Seq(Nat) /\ rcv.todo \subseteq Stages /\ DOMAIN rcv = RcvF /\ LeftTypes
      /\ rcv.buf \in Nat /\ rcv.port \in RdPort /\ rcv.len \in 0 .. RxBufSize
      /\ regs.rd[rd.curr] \in 0 .. RxBufSize /\ rd.curr \in RdPort
      /\ Len(rxbuf) \in Nat /\ DOMAIN rxbuf = 1 .. Len(rxbuf) /\ rxbuf \in Seq(Fates)
  BY SMTT(30) DEF RxTypes, TxSide
<1>1. CASE RxGet(regs.rd)
  <2> DEFINE n == Len(rxbuf)
  <2>1. ~HasBuf
    BY <1>1, RxGetIs DEF RxStages, HasBuf
  <2>2. rxbuf' = Append(rxbuf, "held")
    BY <1>1, RxGetIs
  <2>3. /\ DOMAIN rxbuf' = 1 .. n + 1 /\ rxbuf'[n + 1] = "held"
        /\ \A b \in 1 .. n : rxbuf'[b] = rxbuf[b]
    BY <1>0, <2>2
  <2>4. DOMAIN rxbuf = 1 .. n /\ n \in Nat
    BY <1>0
  <2> HIDE DEF n
  <2>5. \A i \in DOMAIN mpa_rx.bufs : /\ mpa_rx.bufs[i] \in DOMAIN rxbuf'
                                      /\ rxbuf'[mpa_rx.bufs[i]] = "held" /\ mpa_rx.bufs[i] # n + 1
    <3> SUFFICES ASSUME NEW i \in DOMAIN mpa_rx.bufs
                 PROVE  /\ mpa_rx.bufs[i] \in DOMAIN rxbuf'
                        /\ rxbuf'[mpa_rx.bufs[i]] = "held" /\ mpa_rx.bufs[i] # n + 1
      OBVIOUS
    <3>1. mpa_rx.bufs[i] \in 1 .. n /\ rxbuf[mpa_rx.bufs[i]] = "held"
      BY <2>4 DEF Owned
    <3> QED BY <2>3, <2>4, <3>1
  <2>6. ~broken' => \A b \in DOMAIN rxbuf' : rxbuf'[b] = "held" =>
                       (\E i \in DOMAIN mpa_rx.bufs : mpa_rx.bufs[i] = b) \/ b = n + 1
    <3> SUFFICES ASSUME ~broken', NEW b \in DOMAIN rxbuf', rxbuf'[b] = "held", b # n + 1
                 PROVE  \E i \in DOMAIN mpa_rx.bufs : mpa_rx.bufs[i] = b
      OBVIOUS
    <3>1. b \in 1 .. n /\ rxbuf[b] = "held" /\ ~broken
      BY <1>1, <2>3, <2>4, RxGetIs
    <3> QED BY <2>1, <2>4, <3>1 DEF Owned
  <2>7. n + 1 \in DOMAIN rxbuf'
    BY <2>3, <2>4
  <2>8. CASE GetPuts
    <3>1. mpa_rx' = RxSetup(n + 1, rd.curr, regs.rd[rd.curr])
      BY <2>8 DEF GetPuts, n
    <3>2. ~HasBuf'
      BY <2>8 DEF GetPuts, HasBuf
    <3>3. n + 1 \in Nat
      BY <2>4
    <3> QED BY <1>0, <2>3, <2>5, <2>6, <2>7, <3>1, <3>2, <3>3, OwnedPut
  <2>9. CASE GetWaits
    <3>1. mpa_rx' = mpa_rx /\ HasBuf'
      BY <2>9 DEF GetWaits, HasBuf
    <3>2. rcv'.buf = n + 1
      BY <1>1, RxGetIs DEF n
    <3>3. \A i, j \in DOMAIN mpa_rx.bufs : i # j => mpa_rx.bufs[i] # mpa_rx.bufs[j]
      BY DEF Owned
    <3> QED BY <2>3, <2>5, <2>6, <2>7, <3>1, <3>2, <3>3 DEF Owned
  <2> QED BY <1>1, <2>8, <2>9, RxGetIs
<1>2. CASE rxbuf' = rxbuf /\ mpa_rx' = mpa_rx /\ (~broken' => ~broken) /\ ~HasBuf' /\ ~HasBuf
  BY <1>2 DEF Owned
<1>3. CASE RxGetNoBuf(regs.rd)
  <2>1. ~HasBuf /\ ~HasBuf'
    BY <1>0, <1>3, RxGetNoBufIs DEF RxStages, HasBuf
  <2> QED BY <1>0, <1>2, <1>3, <2>1, RxGetNoBufIs
<1>4. CASE RxGetNone
  BY <1>4 DEF RxGetNone, rxvars, Owned, HasBuf
<1>5. CASE ReadAggrFailsIgnored /\ rxbuf' = rxbuf /\ mpa_rx' = mpa_rx
  <2>1. ~HasBuf /\ broken' /\ rcv'.todo = rcv.todo \ {"aggr"}
    BY <1>0, <1>5 DEF ReadAggrFailsIgnored, ReadFails, RxStages, RcvF
  <2>2. ~HasBuf'
    BY <2>1 DEF HasBuf
  <2> QED BY <1>2, <1>5, <2>1, <2>2
<1>6. CASE ReadAndDrop
  <2>1. ~HasBuf /\ ~HasBuf' /\ (~broken' => ~broken)
    BY <1>6, NoRcvIs DEF ReadAndDrop, ReadFails, HasBuf
  <2> QED BY <1>2, <1>6, <2>1 DEF ReadAndDrop
<1>7. CASE RxEnd
  <2>1. ~HasBuf' /\ rxbuf' = rxbuf /\ broken' = broken
    BY <1>7, NoRcvIs DEF RxEnd, HasBuf
  <2>2. CASE "post" \in rcv.todo
    <3>1. HasBuf /\ mpa_rx' = RxSetup(rcv.buf, rcv.port, rcv.len)
      BY <1>7, <2>2 DEF RxEnd, HasBuf
    <3>2. /\ rcv.buf \in DOMAIN rxbuf' /\ rxbuf'[rcv.buf] = "held"
          /\ \A i \in DOMAIN mpa_rx.bufs : /\ mpa_rx.bufs[i] \in DOMAIN rxbuf'
                                           /\ rxbuf'[mpa_rx.bufs[i]] = "held" /\ mpa_rx.bufs[i] # rcv.buf
      BY <2>1, <3>1 DEF Owned
    <3>3. ~broken' => \A b \in DOMAIN rxbuf' : rxbuf'[b] = "held" =>
                        (\E i \in DOMAIN mpa_rx.bufs : mpa_rx.bufs[i] = b) \/ b = rcv.buf
      BY <2>1 DEF Owned
    <3> QED BY <1>0, <2>1, <3>1, <3>2, <3>3, OwnedPut
  <2>3. CASE "post" \notin rcv.todo
    <3>1. mpa_rx' = mpa_rx /\ rcv.todo = {}
      BY <1>7, <2>3 DEF RxEnd
    <3> QED BY <1>2, <2>1, <3>1 DEF HasBuf
  <2> QED BY <2>2, <2>3
<1>8. \/ rxbuf' = rxbuf /\ (\/ RxGetNoBuf(regs.rd) \/ RxGetNone \/ ReadAndDrop \/ RxEnd
                            \/ ReadAggrFailsIgnored /\ mpa_rx' = mpa_rx)
      \/ RxGet(regs.rd)
      \/ \E what \in {"up", "freed"} :
              \/ rxbuf' = Fate(ToSet(mpa_rx.bufs), what) /\ mpa_rx' = NoRxAggr
                   /\ (broken' \/ (broken' = broken /\ rcv'.todo = rcv.todo \ {"aggr"} /\ rcv'.buf = rcv.buf
                                    /\ DOMAIN rcv' = RcvF))
                   /\ rcv'.todo \subseteq rcv.todo /\ (rcv'.todo # {} => rcv'.buf = rcv.buf)
              \/ HasBuf /\ rxbuf' = Fate(ToSet(mpa_rx.bufs) \cup {rcv.buf}, what)
                   /\ mpa_rx' = NoRxAggr /\ rcv' = NoRcv /\ broken'
              \/ HasBuf /\ rxbuf' = Fate({rcv.buf}, what) /\ mpa_rx' = mpa_rx /\ rcv'.todo = {}
                   /\ (broken' \/ broken' = broken)
  BY RxbufIs, Zenon
<1> QED BY <1>1, <1>3, <1>4, <1>5, <1>6, <1>7, <1>8, OwnedFate, Zenon

\* What the card and the handler of its interrupts do to the types.
LEMMA CardTypes ==
  ASSUME TxSide, RxTypes, load' = load, CardSends \/ IrqRead
  PROVE  PostTypes' /\ LensTypes'
<1>0. PostTypes /\ LensTypes /\ load \in Loads
  BY RxTypesAre DEF TxSide
<1>1. CASE CardSends
  <2>1. PICK n \in Batches :
          /\ n <= Len(load.rx) - post.count
          /\ post' = [at |-> [p \in RdPort |->
                         LET i == (p + MaxPorts - post.next) % MaxPorts
                         IN  IF i < n THEN post.count + i + 1 ELSE post.at[p]],
                      next |-> RdNext(post.next, n), count |-> post.count + n]
    BY <1>1 DEF CardSends
  <2>2. n \in Nat /\ post.count \in Nat /\ Len(load.rx) \in Nat /\ post.next \in RdPort
    BY <1>0, RxLoadIs, BatchesAssumption, SdioTxAssumption DEF PostTypes
  <2>3. DOMAIN post' = PostF /\ post'.count = post.count + n /\ post'.next = RdNext(post.next, n)
    BY <2>1 DEF PostF
  <2>4. post'.at = [p \in RdPort |->
                         LET i == (p + MaxPorts - post.next) % MaxPorts
                         IN  IF i < n THEN post.count + i + 1 ELSE post.at[p]]
    BY <2>1
  <2>5. MaxPorts \in Nat \ {0} /\ RdPort = 0 .. MaxPorts - 1
    BY SdioRxAssumption, SdioTxAssumption DEF RdPort
  <2>6. post'.at \in [RdPort -> 0 .. Len(load.rx)]
    <3> SUFFICES ASSUME NEW p \in RdPort
                 PROVE  (IF (p + MaxPorts - post.next) % MaxPorts < n
                           THEN post.count + ((p + MaxPorts - post.next) % MaxPorts) + 1
                           ELSE post.at[p]) \in 0 .. Len(load.rx)
      BY <2>4
    <3> DEFINE i == (p + MaxPorts - post.next) % MaxPorts
    <3>1. i \in Nat
      BY <2>2, <2>5
    <3>2. post.at[p] \in 0 .. Len(load.rx)
      BY <1>0 DEF PostTypes
    <3> HIDE DEF i
    <3>3. i < n => post.count + i + 1 \in 0 .. Len(load.rx)
      BY <2>1, <2>2, <3>1
    <3> QED BY <3>2, <3>3 DEF i
  <2>7. post.next \in Nat
    BY <2>2, <2>5
  <2>8. post'.next \in RdPort
    BY <2>2, <2>3, <2>7, RdClosed
  <2>9. post'.count \in 0 .. Len(load.rx)
    BY <2>1, <2>2, <2>3
  <2>10. regs' = regs
    BY <1>1 DEF CardSends
  <2> QED BY <1>0, <2>3, <2>6, <2>8, <2>9, <2>10 DEF PostTypes, LensTypes
<1>2. CASE IrqRead
  <2>1. post' = post /\ regs' = [wr |-> card.free,
              rd |-> [p \in RdPort |-> IF p \in Unread THEN load.rx[post.at[p]] ELSE 0]]
    BY <1>2 DEF IrqRead, rxvars
  <2>2. \A p \in RdPort : (IF p \in Unread THEN load.rx[post.at[p]] ELSE 0) \in 0 .. RxBufSize
    <3> SUFFICES ASSUME NEW p \in RdPort PROVE p \in Unread => load.rx[post.at[p]] \in 0 .. RxBufSize
      BY SdioRxAssumption
    <3>1. p \in Unread => post.at[p] \in DOMAIN load.rx
      BY <1>0, RxLoadIs DEF PostTypes, Unread, Lost
    <3> QED BY <1>0, <3>1, RxLoadIs, SdioRxAssumption
  <2>3. regs'.rd \in [RdPort -> 0 .. RxBufSize]
    BY <2>1, <2>2
  <2> QED BY <1>0, <2>1, <2>3 DEF PostTypes, LensTypes
<1> QED BY <1>1, <1>2

--------------------------------------------------------------------------------
(* Types and owners are preserved.                                           *)

\* The steps that are not of the read path leave it alone, but for the card and Status.
LEMMA OtherRx ==
  ASSUME RxIdle \/ (CardSends /\ UNCHANGED <<pc, left>>)
         \/ (IrqRead /\ UNCHANGED <<pc, left, rxvars>>)
         \/ (IrqNote /\ UNCHANGED <<pc, left, rxvars>>)
         \/ (TakeInts /\ UNCHANGED <<left, rxvars>>)
         \/ (Status /\ UNCHANGED left)
  PROVE  /\ UNCHANGED <<mpa_rx, rcv, rxbuf, up, broken>> /\ left'.norxbuf = left.norxbuf
         /\ CardSends \/ post' = post
         /\ IrqRead \/ regs' = regs
         /\ Status \/ rd' = rd
         /\ Apart \/ (pc = "status" /\ pc' = "upload")
<1>1. CASE RxIdle
  BY <1>1 DEF RxIdle, rxvars
<1>2. CASE CardSends /\ UNCHANGED <<pc, left>>
  BY <1>2 DEF CardSends, Apart
<1>3. CASE IrqRead /\ UNCHANGED <<pc, left, rxvars>>
  BY <1>3 DEF IrqRead, rxvars, Apart
<1>4. CASE IrqNote /\ UNCHANGED <<pc, left, rxvars>>
  BY <1>4 DEF IrqNote, rxvars, Apart
<1>5. CASE TakeInts /\ UNCHANGED <<left, rxvars>>
  BY <1>5 DEF TakeInts, rxvars, Apart
<1>6. CASE Status /\ UNCHANGED left
  <2>1. /\ UNCHANGED <<mpa_rx, rcv, rxbuf, up, broken, post, regs, left>> /\ pc = "status"
        /\ pc' = "upload" \/ pc' = "send"
    BY <1>6 DEF Status
  <2> QED BY <1>6, <2>1 DEF Apart
<1> QED BY <1>1, <1>2, <1>3, <1>4, <1>5, <1>6

\* RxSide is preserved.
LEMMA RxSideStep ==
  ASSUME TxSide, RxSide, [SdioNext]_allvars
  PROVE  RxSide'
<1>0. /\ RxTypes /\ RxStages /\ Owned /\ load' = load /\ load \in Loads
      /\ RdTypes /\ AggrTypes /\ RcvTypes /\ UpTypes /\ PostTypes /\ LensTypes
  BY RxTypesAre, RxKinds DEF RxSide, TxSide
<1>1. CASE RxNext(regs.rd) /\ UNCHANGED intvars
  <2>1. LensTypes'
    BY <1>0, <1>1 DEF LensTypes, intvars
  <2>2. RdTypes' /\ RcvTypes' /\ AggrTypes' /\ UpTypes' /\ PostTypes'
    BY <1>0, <1>1, RdRcvStep, AggrStep, UpStep
  <2>3. RxStages' /\ Owned'
    BY <1>0, <1>1, StagesStep, OwnedStep
  <2>4. RxTypes'
    BY <2>1, <2>2, RxTypesAre DEF RxTypes, RdTypes, AggrTypes, RcvTypes, UpTypes, PostTypes, LensTypes
  <2> QED BY <2>3, <2>4 DEF RxSide
<1>2. CASE RxIdle \/ (CardSends /\ UNCHANGED <<pc, left>>)
         \/ (IrqRead /\ UNCHANGED <<pc, left, rxvars>>)
         \/ (IrqNote /\ UNCHANGED <<pc, left, rxvars>>)
         \/ (TakeInts /\ UNCHANGED <<left, rxvars>>)
         \/ (Status /\ UNCHANGED left)
  <2>0. /\ UNCHANGED <<mpa_rx, rcv, rxbuf, up, broken>> /\ left'.norxbuf = left.norxbuf
        /\ CardSends \/ post' = post
        /\ IrqRead \/ regs' = regs
        /\ Status \/ rd' = rd
        /\ Apart \/ (pc = "status" /\ pc' = "upload")
    BY <1>2, OtherRx
  <2>1. AggrTypes' /\ RcvTypes' /\ UpTypes'
    BY <1>0, <2>0 DEF AggrTypes, RcvTypes, UpTypes
  <2>2. PostTypes'
    <3>1. CASE CardSends
      BY <1>0, <3>1, CardTypes
    <3>2. CASE post' = post
      BY <1>0, <3>2 DEF PostTypes
    <3> QED BY <2>0, <3>1, <3>2
  <2>3. LensTypes'
    <3>1. CASE IrqRead
      BY <1>0, <3>1, CardTypes
    <3>2. CASE regs' = regs
      BY <1>0, <3>2 DEF LensTypes
    <3> QED BY <2>0, <3>1, <3>2
  <2>4. RdTypes'
    <3>1. CASE Status
      <4>1. rd' = rd \/ rd' = [rd EXCEPT !.map = {p \in RdPort : regs.rd[p] # 0}]
        BY <3>1 DEF Status
      <4>2. {p \in RdPort : regs.rd[p] # 0} \subseteq RdPort
        OBVIOUS
      <4> QED BY <1>0, <4>1, <4>2 DEF RdTypes, WrF
    <3>2. CASE rd' = rd
      BY <1>0, <3>2 DEF RdTypes
    <3> QED BY <2>0, <3>1, <3>2
  <2>5. RxStages'
    <3>1. pc' # "read" => pc # "read"
      BY <2>0 DEF Apart
    <3> QED BY <1>0, <2>0, <3>1 DEF RxStages, HasBuf, RxInProgress
  <2>6. Owned'
    <3>1. HasBuf' = HasBuf
      BY <2>0 DEF HasBuf
    <3> QED BY <1>0, <2>0, <3>1 DEF Owned
  <2>7. RxTypes'
    BY <2>1, <2>2, <2>3, <2>4 DEF RxTypes, RdTypes, AggrTypes, RcvTypes, UpTypes, PostTypes, LensTypes
  <2> QED BY <2>5, <2>6, <2>7 DEF RxSide
<1> QED BY <1>1, <1>2, RxKinds

\* RxSide holds initially.
LEMMA RxSideInit ==
  ASSUME SdioInit
  PROVE  RxSide
<1>1. /\ load \in Loads /\ pc = "loop" /\ rd = [map |-> {}, curr |-> load.at]
      /\ mpa_rx = NoRxAggr /\ rcv = NoRcv /\ rxbuf = <<>> /\ up = <<>> /\ broken = FALSE
      /\ post = [at |-> [p \in RdPort |-> 0], next |-> load.at, count |-> 0]
      /\ regs = [wr |-> {}, rd |-> [p \in RdPort |-> 0]]
  BY DEF SdioInit, SdioRxInit, SdioTxInit, WmmInit
<1>2. load.at \in RdPort /\ 0 \in RdPort /\ Len(load.rx) \in Nat /\ RxBufSize \in Nat
  BY <1>1, RxLoadIs, SdioRxAssumption
<1>3. RdTypes
  BY <1>1, <1>2 DEF RdTypes, WrF
<1>4. AggrTypes
  BY <1>1, <1>2, NoRxAggrIs DEF AggrTypes
<1>5. RcvTypes
  BY <1>1, <1>2, NoRcvIs DEF RcvTypes
<1>6. UpTypes
  <2>1. rxbuf \in Seq(Fates) /\ up \in Seq(Nat)
    BY <1>1
  <2>2. broken \in BOOLEAN
    BY <1>1
  <2> QED BY <2>1, <2>2 DEF UpTypes
<1>7. PostTypes
  BY <1>1, <1>2 DEF PostTypes, PostF
<1>8. LensTypes
  BY <1>1, <1>2 DEF LensTypes
<1>9. RxStages
  BY <1>1, NoRcvIs DEF RxStages, HasBuf
<1>10. Owned
  <2>1. DOMAIN mpa_rx.bufs = {} /\ DOMAIN rxbuf = {} /\ ~HasBuf
    BY <1>1, NoRcvIs, NoRxAggrIs DEF HasBuf
  <2> QED BY <2>1 DEF Owned
<1> QED BY <1>3, <1>4, <1>5, <1>6, <1>7, <1>8, <1>9, <1>10, RxTypesAre DEF RxSide

\* It implies that buffers have one owner.
LEMMA RxSideMeans ==
  ASSUME RxSide
  PROVE  RxBuffersOwned
<1>0. RxTypes /\ RxStages /\ Owned
  BY DEF RxSide
<1>1. \A b \in DOMAIN rxbuf : rxbuf[b] # "twice"
  <2>1. \A b \in DOMAIN rxbuf : rxbuf[b] \in Fates
    BY <1>0 DEF RxTypes
  <2> QED BY <2>1 DEF Fates
<1>2. \A b \in ToSet(mpa_rx.bufs) : rxbuf[b] = "held"
  BY <1>0, HeldAre
<1>3. HasBuf => pc = "read"
  BY <1>0 DEF RxStages, HasBuf
<1>4. ~broken => \A b \in DOMAIN rxbuf : rxbuf[b] = "held" =>
                   b \in ToSet(mpa_rx.bufs) \/ (pc = "read" /\ b = rcv.buf)
  BY <1>0, <1>3, HeldAre DEF Owned
<1> QED BY <1>1, <1>2, <1>4 DEF RxBuffersOwned

--------------------------------------------------------------------------------
(* Ports in turn.                                                            *)

\* Division with remainder, and that it is unique.
LEMMA Remainder ==
  ASSUME NEW n \in Nat \ {0}, NEW x \in Nat
  PROVE  x \div n \in Nat /\ x % n \in 0 .. n - 1 /\ x = n * (x \div n) + (x % n)
<1>1. x % n \in 0 .. n - 1
  OBVIOUS
<1>2. x \div n \in Nat
  OBVIOUS
<1>3. x = n * (x \div n) + (x % n)
  OBVIOUS
<1> QED BY <1>1, <1>2, <1>3

\* The other way round.
LEMMA RemainderUnique ==
  ASSUME NEW n \in Nat \ {0}, NEW q \in Nat, NEW r \in 0 .. n - 1
  PROVE  (n * q + r) % n = r
  OBVIOUS

\* Multiples of n, one after the other.
LEMMA NextMultiple == ASSUME NEW n \in Nat, NEW q \in Nat PROVE n * (q + 1) = n * q + n
  OBVIOUS

\* Less than n further on, the remainder grows by as much or passes n once.
LEMMA RemainderPlus ==
  ASSUME NEW n \in Nat \ {0}, NEW x \in Nat, NEW i \in 0 .. n - 1
  PROVE  (x + i) % n = IF (x % n) + i < n THEN (x % n) + i ELSE (x % n) + i - n
<1> DEFINE q == x \div n
           r == x % n
<1>1. x = n * q + r /\ r \in 0 .. n - 1 /\ q \in Nat
  BY Remainder
<1> HIDE DEF q, r
<1>2. n * (q + 1) = n * q + n /\ n * q \in Nat
  BY <1>1, NextMultiple
<1>3. CASE r + i < n
  <2>1. x + i = n * q + (r + i)
    BY <1>1, <1>2
  <2>2. (n * q + (r + i)) % n = r + i
    BY <1>3, <1>1, RemainderUnique
  <2> QED BY <2>1, <2>2, <1>3 DEF r
<1>4. CASE ~(r + i < n)
  <2>1. x + i = n * (q + 1) + (r + i - n)
    BY <1>1, <1>2
  <2>2. q + 1 \in Nat /\ r + i - n \in 0 .. n - 1
    BY <1>4, <1>1
  <2>3. (n * (q + 1) + (r + i - n)) % n = r + i - n
    BY <2>2, RemainderUnique
  <2> QED BY <2>1, <2>3, <1>4 DEF r
<1> QED BY <1>3, <1>4

\* n further on, it is the same.
LEMMA RemainderPeriod ==
  ASSUME NEW n \in Nat \ {0}, NEW x \in Nat PROVE (x + n) % n = x % n
<1> DEFINE q == x \div n
           r == x % n
<1>1. x = n * q + r /\ r \in 0 .. n - 1 /\ q \in Nat
  BY Remainder
<1> HIDE DEF q, r
<1>2. n * (q + 1) = n * q + n /\ n * q \in Nat
  BY <1>1, NextMultiple
<1>3. x + n = n * (q + 1) + r
  BY <1>1, <1>2
<1>4. (n * (q + 1) + r) % n = r
  BY <1>1, RemainderUnique
<1> QED BY <1>3, <1>4 DEF r

\* The read port of the j-th packet of the card.
PortOf(j) == RdNext(load.at, j - 1)

\* Ports are passed in turn.
LEMMA PortOfIs ==
  ASSUME load \in Loads, NEW j \in Nat \ {0}, NEW n \in Nat
  PROVE  /\ PortOf(j) \in RdPort /\ RdNext(PortOf(j), n) = PortOf(j + n)
         /\ MaxPorts \in Nat \ {0} /\ RdPort = 0 .. MaxPorts - 1
<1>1. MaxPorts \in Nat \ {0} /\ RdPort = 0 .. MaxPorts - 1
  BY SdioRxAssumption, SdioTxAssumption DEF RdPort
<1>2. load.at \in Nat /\ j - 1 \in Nat
  BY <1>1, RxLoadIs
<1>3. PortOf(j) \in RdPort
  BY <1>2, RdClosed DEF PortOf
<1> DEFINE m == MaxPorts
           x == load.at + (j - 1)
           q == x \div m
           r == x % m
           y == r + n
           u == y \div m
           v == y % m
<1>4. x \in Nat /\ x + n = load.at + (j + n - 1)
  BY <1>2
<1>5. x = m * q + r /\ q \in Nat /\ r \in Nat
  <2>1. x \in Nat
    BY <1>4
  <2> HIDE DEF x
  <2>2. q \in Nat /\ r \in 0 .. m - 1 /\ x = m * q + r
    BY <1>1, <2>1, Remainder
  <2> QED BY <1>1, <2>2
<1>6. y = m * u + v /\ u \in Nat /\ v \in 0 .. m - 1
  <2>1. y \in Nat
    BY <1>5
  <2> HIDE DEF y
  <2> QED BY <1>1, <2>1, Remainder
<1>7. RdNext(PortOf(j), n) = v
  BY DEF PortOf, RdNext
<1>8. PortOf(j + n) = (x + n) % m
  BY <1>4 DEF PortOf, RdNext
<1>9. y = r + n
  OBVIOUS
<1> HIDE DEF x, q, r, y, u, v
<1>10. x + n = m * (q + u) + v
  <2>1. m * (q + u) = m * q + m * u /\ m * q \in Nat /\ m * u \in Nat
    BY <1>1, <1>5, <1>6
  <2> QED BY <1>5, <1>6, <1>9, <2>1
<1>11. (m * (q + u) + v) % m = v
  <2>1. q + u \in Nat
    BY <1>5, <1>6
  <2> QED BY <1>1, <1>6, <2>1, RemainderUnique
<1>12. PortOf(j + n) = v
  BY <1>8, <1>10, <1>11
<1> QED BY <1>1, <1>3, <1>7, <1>12

\* Fewer packets than ports apart, they are different.
LEMMA PortsDiffer ==
  ASSUME load \in Loads, NEW j \in Nat \ {0}, NEW k \in Nat \ {0}, j < k, k - j < MaxPorts
  PROVE  PortOf(j) # PortOf(k)
<1> DEFINE m == MaxPorts
           x == load.at + (j - 1)
           i == k - j
<1>1. m \in Nat \ {0}
  BY SdioRxAssumption, SdioTxAssumption
<1>2. load.at \in Nat
  BY <1>1, RxLoadIs DEF RdPort
<1>3. x \in Nat /\ i \in 0 .. m - 1 /\ i # 0 /\ x + i = load.at + (k - 1)
  BY <1>1, <1>2
<1>4. PortOf(j) = x % m /\ PortOf(k) = (x + i) % m
  BY <1>3 DEF PortOf, RdNext
<1> HIDE DEF x, i
<1>5. x % m \in 0 .. m - 1
  BY <1>1, <1>3, Remainder
<1>6. (x + i) % m = IF (x % m) + i < m THEN (x % m) + i ELSE (x % m) + i - m
  BY <1>1, <1>3, RemainderPlus
<1> QED BY <1>1, <1>3, <1>4, <1>5, <1>6

\* How far a port is ahead of that of a packet.
LEMMA PortAhead ==
  ASSUME load \in Loads, NEW j \in Nat \ {0}, NEW p \in RdPort
  PROVE  LET i == (p + MaxPorts - PortOf(j)) % MaxPorts
         IN  i \in 0 .. MaxPorts - 1 /\ PortOf(j + i) = p
<1> DEFINE m == MaxPorts
           r == PortOf(j)
           i == (p + m - r) % m
<1>1. m \in Nat \ {0} /\ RdPort = 0 .. m - 1 /\ r \in RdPort
  BY PortOfIs, SdioRxAssumption
<1> HIDE DEF r
<1>2. \A x \in 0 .. m - 1 : x % m = x
  BY <1>1
<1>3. i = IF p < r THEN p + m - r ELSE p - r
  <2>1. CASE p < r
    <3>1. p + m - r \in 0 .. m - 1
      BY <1>1, <2>1
    <3> QED BY <1>2, <2>1, <3>1
  <2>2. CASE ~(p < r)
    <3>1. p - r \in 0 .. m - 1 /\ p - r \in Nat /\ p + m - r = (p - r) + m
      BY <1>1, <2>2
    <3>2. ((p - r) + m) % m = (p - r) % m
      BY <1>1, <3>1, RemainderPeriod
    <3> QED BY <1>2, <2>2, <3>1, <3>2
  <2> QED BY <2>1, <2>2
<1> HIDE DEF i
<1>4. i \in 0 .. m - 1
  BY <1>1, <1>3
<1>5. (r + i) % m = p
  <2>1. CASE p < r
    <3>1. r + i = p + m /\ p \in Nat
      BY <1>1, <1>3, <2>1
    <3>2. (p + m) % m = p % m
      BY <1>1, <3>1, RemainderPeriod
    <3> QED BY <1>1, <1>2, <3>1, <3>2
  <2>2. CASE ~(p < r)
    <3>1. r + i = p
      BY <1>1, <1>3, <2>2
    <3> QED BY <1>1, <1>2, <3>1
  <2> QED BY <2>1, <2>2
<1>6. PortOf(j + i) = p
  BY <1>4, <1>5, PortOfIs DEF RdNext, r
<1> QED BY <1>4, <1>6 DEF i, r

--------------------------------------------------------------------------------
(* Packets on their ports.                                                   *)

\* Packets r + 1 .. c are on their ports, and no other port holds one.
PortsTo(r, c) == {PortOf(j) : j \in r + 1 .. c}
HoldAt(at, r, c) ==
  /\ \A j \in r + 1 .. c : at[PortOf(j)] = j
  /\ \A p \in RdPort : at[p] # Lost => p \in PortsTo(r, c)

\* The packets decoded are among the first r, and in order.
DecodedTo(s, r) == \A i \in DOMAIN s : s[i] \in 1 .. r /\ (i > 1 => s[i] > s[i - 1])

\* Each packet has a port.
LEMMA PortIn ==
  ASSUME load \in Loads, NEW j \in Nat \ {0}
  PROVE  /\ PortOf(j) \in RdPort /\ PortOf(j) \in Nat
         /\ MaxPorts \in Nat \ {0} /\ RdPort = 0 .. MaxPorts - 1
<1>1. 0 \in Nat
  OBVIOUS
<1>2. PortOf(j) \in RdPort /\ MaxPorts \in Nat \ {0} /\ RdPort = 0 .. MaxPorts - 1
  BY <1>1, PortOfIs
<1> QED BY <1>2

\* A read takes the packets that are next.
LEMMA ReadHolds ==
  ASSUME RxTypes, load \in Loads, NEW r \in Nat, NEW n \in Nat, NEW c \in Nat,
         r + n <= c, c - r <= MaxPorts, HoldAt(post.at, r, c), CardRead(PortOf(r + 1), n)
  PROVE  HoldAt(post'.at, r + n, c) /\ post'.next = post.next /\ post'.count = post.count
<1> DEFINE gone == {RdNext(PortOf(r + 1), i) : i \in 0 .. n - 1}
<1>1. r + 1 \in Nat \ {0} /\ PortOf(r + 1) \in RdPort /\ PortOf(r + 1) \in Nat
  BY PortIn
<1>2. /\ post'.next = post.next /\ post'.count = post.count
      /\ post'.at = [p \in RdPort |-> IF p \in gone THEN Lost ELSE post.at[p]]
  BY <1>1, CardReadIs
<1>3. \A j \in r + 1 .. r + n : PortOf(j) \in gone
  <2> SUFFICES ASSUME NEW j \in r + 1 .. r + n PROVE PortOf(j) \in gone
    OBVIOUS
  <2>1. j - (r + 1) \in 0 .. n - 1 /\ j - (r + 1) \in Nat /\ r + 1 + (j - (r + 1)) = j
    OBVIOUS
  <2>2. PortOf(j) = RdNext(PortOf(r + 1), j - (r + 1))
    BY <1>1, <2>1, PortOfIs
  <2> QED BY <2>1, <2>2
<1>4. \A j \in r + n + 1 .. c : PortOf(j) \notin gone
  <2> SUFFICES ASSUME NEW j \in r + n + 1 .. c, NEW i \in 0 .. n - 1
               PROVE  PortOf(j) # RdNext(PortOf(r + 1), i)
    OBVIOUS
  <2>1. RdNext(PortOf(r + 1), i) = PortOf(r + 1 + i)
    BY <1>1, PortOfIs
  <2>2. /\ r + 1 + i \in Nat \ {0} /\ j \in Nat \ {0} /\ r + 1 + i < j
        /\ j - (r + 1 + i) < MaxPorts /\ MaxPorts \in Nat
    BY SMTT(30), <1>1, PortIn
  <2> QED BY <2>1, <2>2, PortsDiffer
<1>5. \A j \in r + n + 1 .. c : j \in r + 1 .. c /\ j \in Nat \ {0}
  OBVIOUS
<1>6. \A j \in r + 1 .. c : j \in r + 1 .. r + n \/ j \in r + n + 1 .. c
  OBVIOUS
<1> HIDE DEF gone
<1>7. ASSUME NEW j \in r + n + 1 .. c PROVE post'.at[PortOf(j)] = j
  <2>1. PortOf(j) \in RdPort /\ post.at[PortOf(j)] = j
    BY <1>5, PortOfIs DEF HoldAt
  <2> QED BY <1>2, <1>4, <2>1
<1>8. ASSUME NEW p \in RdPort, post'.at[p] # Lost PROVE p \in PortsTo(r + n, c)
  <2>1. p \notin gone /\ post.at[p] # Lost
    BY <1>2, <1>8
  <2>2. PICK j \in r + 1 .. c : p = PortOf(j)
    BY <2>1 DEF HoldAt, PortsTo
  <2>3. j \in r + n + 1 .. c
    BY <1>3, <1>6, <2>1, <2>2
  <2> QED BY <2>2, <2>3 DEF PortsTo
<1> QED BY <1>2, <1>7, <1>8 DEF HoldAt

\* What is unread, and how much that is.
LEMMA UnreadIs ==
  ASSUME RxTypes, load \in Loads, NEW r \in Nat, NEW c \in Nat,
         r <= c, c - r <= MaxPorts, HoldAt(post.at, r, c)
  PROVE  /\ Unread = PortsTo(r, c) /\ Cardinality(Unread) = c - r
         /\ Unread = {} <=> r = c
<1>1. \A j \in r + 1 .. c : j \in Nat \ {0} /\ j # Lost /\ PortOf(j) \in RdPort
  BY PortOfIs DEF Lost
<1>2. Unread = PortsTo(r, c)
  <2>1. \A p \in Unread : p \in PortsTo(r, c)
    BY DEF Unread, HoldAt
  <2>2. \A j \in r + 1 .. c : PortOf(j) \in Unread
    BY <1>1 DEF Unread, HoldAt
  <2> QED BY <2>1, <2>2 DEF PortsTo
<1>3. \A j, k \in r + 1 .. c : PortOf(j) = PortOf(k) => j = k
  <2> SUFFICES ASSUME NEW j \in r + 1 .. c, NEW k \in r + 1 .. c, PortOf(j) = PortOf(k)
               PROVE  j = k
    OBVIOUS
  <2>1. post.at[PortOf(j)] = j /\ post.at[PortOf(k)] = k
    BY DEF HoldAt
  <2> QED BY <2>1
<1> DEFINE f == [j \in r + 1 .. c |-> PortOf(j)]
<1>4. f \in Bijection(r + 1 .. c, PortsTo(r, c))
  <2>1. f \in [r + 1 .. c -> PortsTo(r, c)]
    BY DEF PortsTo
  <2>2. \A j, k \in r + 1 .. c : f[j] = f[k] => j = k
    BY <1>3
  <2>3. \A p \in PortsTo(r, c) : \E j \in r + 1 .. c : f[j] = p
    BY DEF PortsTo
  <2> QED BY <2>1, <2>2, <2>3 DEF Bijection, Injection, Surjection, IsInjective
<1>5. IsFiniteSet(r + 1 .. c) /\ Cardinality(r + 1 .. c) = c - r
  <2>1. r + 1 \in Int /\ c \in Int
    OBVIOUS
  <2>2. IsFiniteSet(r + 1 .. c) /\ Cardinality(r + 1 .. c) = IF r + 1 > c THEN 0 ELSE c - (r + 1) + 1
    BY <2>1, FS_Interval
  <2> QED BY <2>2
<1> HIDE DEF f
<1>6. Cardinality(PortsTo(r, c)) = c - r
  BY <1>4, <1>5, FS_Bijection DEF ExistsBijection
<1>7. Unread = {} <=> r = c
  <2>1. r < c => r + 1 \in r + 1 .. c
    OBVIOUS
  <2>2. r = c => r + 1 .. c = {}
    OBVIOUS
  <2> QED BY <1>2, <2>1, <2>2 DEF PortsTo
<1> QED BY <1>2, <1>6, <1>7

\* What a read finds follows what was decoded.
LEMMA FoundFollows ==
  ASSUME RxTypes, load \in Loads, NEW r \in Nat, NEW n \in Nat, NEW c \in Nat,
         r + n <= c, HoldAt(post.at, r, c), DecodedTo(up, r)
  PROVE  /\ DecodedTo(up \o Found(PortOf(r + 1), n), r + n)
         /\ Len(up \o Found(PortOf(r + 1), n)) = Len(up) + n
<1> DEFINE g == Found(PortOf(r + 1), n)
           s == up \o g
<1>1. r + 1 \in Nat \ {0} /\ PortOf(r + 1) \in RdPort /\ PortOf(r + 1) \in Nat
  BY PortIn
<1>2. g \in Seq(Nat) /\ Len(g) = n /\ \A i \in 1 .. n : g[i] = post.at[RdNext(PortOf(r + 1), i - 1)]
  BY <1>1, FoundIs
<1>3. \A i \in 1 .. n : g[i] = r + i
  <2> SUFFICES ASSUME NEW i \in 1 .. n PROVE g[i] = r + i
    OBVIOUS
  <2>1. i - 1 \in Nat /\ r + 1 + (i - 1) = r + i /\ r + i \in r + 1 .. c
    OBVIOUS
  <2>2. RdNext(PortOf(r + 1), i - 1) = PortOf(r + i)
    BY <1>1, <2>1, PortOfIs
  <2> QED BY <1>2, <2>1, <2>2 DEF HoldAt
<1>4. up \in Seq(Nat) /\ Len(up) \in Nat /\ DOMAIN up = 1 .. Len(up)
  BY DEF RxTypes
<1> HIDE DEF g
<1>5. /\ DOMAIN s = 1 .. Len(up) + n /\ Len(s) = Len(up) + n
      /\ \A i \in 1 .. Len(up) : s[i] = up[i]
      /\ \A i \in Len(up) + 1 .. Len(up) + n : s[i] = g[i - Len(up)]
  <2>1. Len(s) = Len(up) + n /\ s \in Seq(Nat)
    <3>1. up \in Seq(Nat) /\ g \in Seq(Nat) /\ Len(g) = n
      BY <1>2, <1>4
    <3> QED BY SMTT(30), <3>1
  <2>2. \A i \in 1 .. Len(up) + n : s[i] = IF i <= Len(up) THEN up[i] ELSE g[i - Len(up)]
    BY <1>2, <1>4
  <2>3. \A i \in 1 .. Len(up) : i \in 1 .. Len(up) + n /\ i <= Len(up)
    BY <1>4
  <2>4. \A i \in Len(up) + 1 .. Len(up) + n : i \in 1 .. Len(up) + n /\ ~(i <= Len(up))
    BY <1>4
  <2>5. DOMAIN s = 1 .. Len(s)
    BY <2>1
  <2> HIDE DEF s
  <2> QED BY <2>1, <2>2, <2>3, <2>4, <2>5
<1>6. \A i \in Len(up) + 1 .. Len(up) + n : s[i] = r + (i - Len(up))
  <2>1. \A i \in Len(up) + 1 .. Len(up) + n : i - Len(up) \in 1 .. n
    BY <1>4
  <2> QED BY <1>3, <1>5, <2>1
<1> HIDE DEF s
<1>7. ASSUME NEW i \in DOMAIN s PROVE s[i] \in 1 .. r + n /\ (i > 1 => s[i] > s[i - 1])
  <2>1. CASE i \in 1 .. Len(up)
    <3>1. s[i] \in 1 .. r
      BY <1>4, <1>5, <2>1 DEF DecodedTo
    <3>2. ASSUME i > 1 PROVE s[i] > s[i - 1]
      <4>1. i - 1 \in 1 .. Len(up) /\ i \in DOMAIN up
        BY <1>4, <2>1, <3>2
      <4> QED BY <1>5, <2>1, <3>2, <4>1 DEF DecodedTo
    <3> QED BY <3>1, <3>2
  <2>2. CASE i \in Len(up) + 1 .. Len(up) + n
    <3>1. s[i] = r + (i - Len(up)) /\ i - Len(up) \in 1 .. n
      BY <1>4, <1>6, <2>2
    <3>2. CASE i - 1 \in Len(up) + 1 .. Len(up) + n
      <4>1. s[i - 1] = r + (i - 1 - Len(up))
        BY <1>6, <3>2
      <4> QED BY <1>4, <2>2, <3>1, <4>1
    <3>3. CASE i - 1 = Len(up) /\ i > 1
      <4>0. i \in Nat /\ i - 1 = Len(up)
        BY <1>4, <2>2, <3>3
      <4>1. i - 1 \in 1 .. Len(up) /\ i - 1 \in DOMAIN up
        BY <1>4, <3>3, <4>0
      <4>2. s[i - 1] \in 1 .. r
        BY <1>5, <4>1 DEF DecodedTo
      <4> QED BY SMTT(30), <1>4, <2>2, <3>1, <3>3, <4>0, <4>2
    <3>4. CASE ~(i > 1)
      BY <1>4, <2>2, <3>1, <3>4
    <3>5. i - 1 \in Len(up) + 1 .. Len(up) + n \/ (i - 1 = Len(up) /\ i > 1) \/ ~(i > 1)
      BY <1>4, <2>2
    <3> QED BY <3>2, <3>3, <3>4, <3>5
  <2>3. i \in 1 .. Len(up) \/ i \in Len(up) + 1 .. Len(up) + n
    BY <1>4, <1>5
  <2> QED BY <2>1, <2>2, <2>3
<1>8. DecodedTo(s, r + n)
  BY <1>7 DEF DecodedTo
<1> QED BY <1>5, <1>8 DEF s, g

\* The card posts more packets when all were read.
LEMMA SentHolds ==
  ASSUME RxTypes, load \in Loads, NEW n \in Nat, n <= MaxPorts, Unread = {},
         post.next = PortOf(post.count + 1),
         post'.at = [p \in RdPort |->
                       LET i == (p + MaxPorts - post.next) % MaxPorts
                       IN  IF i < n THEN post.count + i + 1 ELSE post.at[p]]
  PROVE  HoldAt(post'.at, post.count, post.count + n)
<1> DEFINE c == post.count
           d(p) == (p + MaxPorts - post.next) % MaxPorts
<1>1. c \in Nat /\ c + 1 \in Nat \ {0} /\ MaxPorts \in Nat \ {0}
  <2>1. Len(load.rx) \in Nat /\ post.count \in 0 .. Len(load.rx)
    BY RxLoadIs DEF RxTypes
  <2>2. MaxPorts \in Nat \ {0}
    BY SdioRxAssumption, SdioTxAssumption
  <2> QED BY <2>1, <2>2
<1>2. \A p \in RdPort : d(p) \in 0 .. MaxPorts - 1 /\ PortOf(c + 1 + d(p)) = p
  BY <1>1, PortAhead
<1>3. \A p \in RdPort : post'.at[p] = IF d(p) < n THEN c + d(p) + 1 ELSE post.at[p]
  OBVIOUS
<1>4. \A p \in RdPort : post.at[p] = Lost
  BY DEF Unread
<1> HIDE DEF c, d
<1>5. ASSUME NEW j \in c + 1 .. c + n PROVE post'.at[PortOf(j)] = j
  <2> DEFINE p == PortOf(j)
             k == c + 1 + d(p)
  <2>1. j \in Nat \ {0} /\ p \in RdPort
    BY <1>1, PortIn
  <2>2. PortOf(k) = PortOf(j) /\ k \in c + 1 .. c + MaxPorts /\ k \in Nat \ {0}
    BY <1>1, <1>2, <2>1
  <2>3. j \in c + 1 .. c + MaxPorts
    BY <1>1
  <2>4. k = c + 1 + d(p)
    OBVIOUS
  <2> HIDE DEF k
  <2>5. ~(j < k) /\ ~(k < j)
    <3>1. j < k => k - j < MaxPorts
      BY <1>1, <2>2, <2>3
    <3>2. k < j => j - k < MaxPorts
      BY <1>1, <2>2, <2>3
    <3> QED BY <2>1, <2>2, <3>1, <3>2, PortsDiffer
  <2>6. j = k
    BY <2>1, <2>2, <2>5
  <2>7. d(p) \in Nat /\ c \in Nat
    BY <1>1, <1>2, <2>1
  <2> HIDE DEF p
  <2>8. d(p) < n /\ c + d(p) + 1 = j
    BY <2>4, <2>6, <2>7
  <2> QED BY <1>3, <2>1, <2>8 DEF p
<1>6. ASSUME NEW p \in RdPort, post'.at[p] # Lost PROVE p \in PortsTo(c, c + n)
  <2>1. d(p) < n /\ d(p) \in Nat
    BY <1>2, <1>3, <1>4, <1>6
  <2>2. c + 1 + d(p) \in c + 1 .. c + n
    BY <1>1, <2>1
  <2> QED BY <1>2, <2>2 DEF PortsTo
<1>7. HoldAt(post'.at, c, c + n)
  BY <1>5, <1>6 DEF HoldAt
<1> QED BY <1>7 DEF c

--------------------------------------------------------------------------------
(* The numbers of the read path.                                             *)

\* How many packets of the card were decoded or dropped, and how many ports were taken.
ReadOf == Len(up) + Dropped - (IF "drop" \in rcv.todo THEN 1 ELSE 0)
TakenOf == ReadOf + Len(mpa_rx.bufs) + (IF RxWaits THEN 1 ELSE 0)

\* The read ports are a ring: the packets taken follow those decoded, and those the card
\* has posted follow them.
RxRing ==
  /\ ReadOf \in Nat /\ TakenOf <= post.count /\ post.count - ReadOf <= MaxPorts
  /\ rd.curr = PortOf(TakenOf + 1) /\ post.next = PortOf(post.count + 1)
  /\ HoldAt(post.at, ReadOf, post.count)
  /\ DecodedTo(up, ReadOf)
\* What is aggregated is read before the packet that waits.
RxBuffered ==
  /\ RxInProgress => mpa_rx.start = PortOf(ReadOf + 1)
  /\ RxWaits => rcv.port = PortOf(TakenOf)
\* The bitmap has the packets that are left, ...
RxMap == rd.map = {} \/ rd.map = PortsTo(TakenOf, post.count)
\* ... and while it has one the aggregation goes on.
RxLoop ==
  /\ pc \notin {"upload", "read"} => rd.map = {} /\ ~RxInProgress
  /\ pc = "upload" /\ rd.map = {} => ~RxInProgress
  /\ pc = "read" /\ rd.map = {} /\ RxInProgress => "aggr" \in rcv.todo
  /\ "post" \in rcv.todo => rd.map # {}
  /\ RxInProgress /\ RxWaits => "aggr" \in rcv.todo
\* The card has told of packets: nothing is under way, and the lengths read are theirs.
ReadLens == [p \in RdPort |-> IF p \in Unread THEN load.rx[post.at[p]] ELSE 0]
RxTold ==
  /\ "UP_LD" \in raised \cup irq \cup ireg \cup ints =>
       rd.map = {} /\ ReadOf = TakenOf /\ ReadOf < post.count
  /\ "UP_LD" \in irq \cup ireg \cup ints => regs.rd = ReadLens
  /\ "UP_LD" \notin raised \cap irq /\ "UP_LD" \notin (raised \cup irq) \cap ireg
  /\ "UP_LD" \notin (raised \cup irq \cup ireg) \cap ints
RxFlow == ~broken => RxRing /\ RxBuffered /\ RxMap /\ RxLoop /\ RxTold

\* What is known of the numbers.
LEMMA FlowIs ==
  ASSUME TxSide, RxTypes, RxRing
  PROVE  /\ ReadOf \in Nat /\ TakenOf \in Nat /\ ReadOf <= TakenOf /\ TakenOf <= post.count
         /\ post.count \in Nat /\ Len(up) \in Nat /\ Len(mpa_rx.bufs) \in Nat
         /\ load.norxbuf \in Nat /\ left.norxbuf \in Nat /\ load \in Loads
         /\ TakenOf = ReadOf + Len(mpa_rx.bufs) + (IF RxWaits THEN 1 ELSE 0)
         /\ ReadOf = Len(up) + (load.norxbuf - left.norxbuf) - (IF "drop" \in rcv.todo THEN 1 ELSE 0)
         /\ RxInProgress <=> Len(mpa_rx.bufs) # 0
<1>1. load \in Loads /\ left.norxbuf \in Nat
  BY DEF TxSide, LeftTypes, LeftF
<1>2. load.norxbuf \in Nat /\ Len(load.rx) \in Nat
  BY <1>1, RxLoadIs
<1>3. post.count \in Nat /\ Len(up) \in Nat /\ Len(mpa_rx.bufs) \in Nat
  BY SMTT(30), <1>2 DEF RxTypes
<1>4. RxInProgress <=> Len(mpa_rx.bufs) # 0
  BY DEF RxInProgress, RxTypes
<1>5. ReadOf = Len(up) + (load.norxbuf - left.norxbuf) - (IF "drop" \in rcv.todo THEN 1 ELSE 0)
  BY DEF ReadOf, Dropped
<1>6. TakenOf = ReadOf + Len(mpa_rx.bufs) + (IF RxWaits THEN 1 ELSE 0)
  BY DEF TakenOf
<1>7. ReadOf \in Nat /\ TakenOf <= post.count
  BY DEF RxRing
<1>8. TakenOf \in Nat /\ ReadOf <= TakenOf
  <2>1. TakenOf = ReadOf + Len(mpa_rx.bufs) + 1 \/ TakenOf = ReadOf + Len(mpa_rx.bufs) + 0
    BY <1>6
  <2>2. Len(mpa_rx.bufs) \in Nat /\ ReadOf \in Nat
    BY <1>3, <1>7
  <2> QED BY <2>1, <2>2
<1> QED BY <1>1, <1>2, <1>3, <1>4, <1>5, <1>6, <1>7, <1>8

\* The next state, by its numbers.
LEMMA FlowMeans ==
  ASSUME load' = load, NEW r \in Nat, NEW t, ReadOf' = r, TakenOf' = t,
         t <= post'.count, post'.count - r <= MaxPorts,
         rd'.curr = PortOf(t + 1), post'.next = PortOf(post'.count + 1),
         HoldAt(post'.at, r, post'.count), DecodedTo(up', r),
         RxInProgress' => mpa_rx'.start = PortOf(r + 1),
         RxWaits' => rcv'.port = PortOf(t),
         rd'.map = {} \/ rd'.map = PortsTo(t, post'.count)
  PROVE  RxRing' /\ RxBuffered' /\ RxMap'
<1>1. RxRing'
  BY DEF RxRing, PortOf, HoldAt, PortsTo
<1>2. RxBuffered'
  BY DEF RxBuffered, PortOf
<1>3. RxMap'
  BY DEF RxMap, PortsTo, PortOf
<1> QED BY <1>1, <1>2, <1>3

\* A port is taken.
LEMMA TakeMap ==
  ASSUME TxSide, RxTypes, RxRing, RxMap, rd.curr \in rd.map,
         rd' = [map |-> rd.map \ {rd.curr}, curr |-> RdNext(rd.curr, 1)]
  PROVE  /\ TakenOf + 1 <= post.count /\ rd'.map = PortsTo(TakenOf + 1, post.count)
         /\ rd'.curr = PortOf(TakenOf + 2) /\ rd'.map = rd.map \ {rd.curr}
<1> DEFINE t == TakenOf
           c == post.count
<1>1. t \in Nat /\ c \in Nat /\ load \in Loads /\ c - t <= MaxPorts
  <2>1. ReadOf \in Nat /\ ReadOf <= t /\ c - ReadOf <= MaxPorts /\ MaxPorts \in Nat
    BY FlowIs, SdioRxAssumption DEF RxRing
  <2>2. t \in Nat /\ c \in Nat /\ load \in Loads
    BY FlowIs
  <2>3. c - t <= MaxPorts
    BY <2>1, <2>2
  <2> QED BY <2>2, <2>3
<1>2. rd.map = PortsTo(t, c) /\ rd.curr = PortOf(t + 1)
  BY DEF RxMap, RxRing
<1>3. rd'.curr = PortOf(t + 2) /\ rd'.map = rd.map \ {rd.curr}
  <2>1. t + 1 \in Nat \ {0} /\ 1 \in Nat /\ t + 1 + 1 = t + 2
    BY <1>1
  <2>2. RdNext(PortOf(t + 1), 1) = PortOf(t + 2)
    BY <1>1, <2>1, PortOfIs
  <2> QED BY <1>2, <2>2
<1> HIDE DEF t, c
<1>4. t + 1 <= c
  BY <1>1, <1>2 DEF PortsTo
<1>5. \A j \in t + 2 .. c : PortOf(j) # PortOf(t + 1)
  <2> SUFFICES ASSUME NEW j \in t + 2 .. c PROVE PortOf(j) # PortOf(t + 1)
    OBVIOUS
  <2>1. t + 1 \in Nat \ {0} /\ j \in Nat \ {0} /\ t + 1 < j /\ j - (t + 1) < MaxPorts
    BY <1>1, SdioRxAssumption
  <2> QED BY <1>1, <2>1, PortsDiffer
<1>6. \A j : j \in t + 1 .. c <=> j = t + 1 \/ j \in t + 2 .. c
  BY <1>1, <1>4
<1>7. PortsTo(t, c) \ {PortOf(t + 1)} = PortsTo(t + 1, c)
  <2>1. PortsTo(t, c) = {PortOf(j) : j \in t + 1 .. c} /\ PortsTo(t + 1, c) = {PortOf(j) : j \in t + 2 .. c}
    <3>1. t + 1 + 1 = t + 2
      BY <1>1
    <3> QED BY <3>1 DEF PortsTo
  <2> QED BY <1>5, <1>6, <2>1
<1> QED BY <1>2, <1>3, <1>4, <1>7 DEF t, c

\* A packet that is taken.
LEMMA FlowGet ==
  ASSUME TxSide, RxTypes, RxStages, RxRing, RxBuffered, RxMap, RxLoop, load' = load,
         RxGet(regs.rd) \/ RxGetNoBuf(regs.rd)
  PROVE  RxRing' /\ RxBuffered' /\ RxMap' /\ RxLoop'
<1> DEFINE n == Len(mpa_rx.bufs)
<1>0. /\ LeftTypes /\ mpa_rx.bufs \in Seq(Nat) /\ rd.curr \in RdPort /\ n \in Nat
      /\ regs.rd[rd.curr] \in 0 .. RxBufSize /\ Len(rxbuf) + 1 \in Nat
  <2>1. /\ mpa_rx.bufs \in Seq(Nat) /\ rd.curr \in RdPort /\ rxbuf \in Seq(Fates)
        /\ regs.rd \in [RdPort -> 0 .. RxBufSize]
    BY DEF RxTypes
  <2>2. n \in Nat /\ Len(rxbuf) + 1 \in Nat
    BY <2>1
  <2>3. regs.rd[rd.curr] \in 0 .. RxBufSize
    BY <2>1
  <2>4. LeftTypes
    BY DEF TxSide
  <2> QED BY <2>1, <2>2, <2>3, <2>4
<1>1. /\ pc = "upload" /\ pc' = "read" /\ rd.curr \in rd.map
      /\ rd' = [map |-> rd.map \ {rd.curr}, curr |-> RdNext(rd.curr, 1)]
      /\ rcv'.port = rd.curr /\ UNCHANGED <<up, post, broken>>
  BY <1>0, RxGetIs, RxGetNoBufIs
<1>2. rcv.todo = {}
  BY <1>1 DEF RxStages
<1>3. /\ TakenOf + 1 <= post.count /\ rd'.map = PortsTo(TakenOf + 1, post.count)
      /\ rd'.curr = PortOf(TakenOf + 2) /\ rd.curr = PortOf(TakenOf + 1)
  BY <1>1, TakeMap DEF RxRing
<1>4. /\ ReadOf \in Nat /\ TakenOf \in Nat /\ post.count \in Nat
      /\ TakenOf = ReadOf + n /\ ~RxWaits /\ "drop" \notin rcv.todo /\ Len(up) \in Nat
      /\ load.norxbuf \in Nat /\ left.norxbuf \in Nat /\ (RxInProgress <=> n # 0)
  BY <1>2, FlowIs DEF RxWaits
<1>5. ReadOf' = ReadOf /\ TakenOf' = TakenOf + 1 /\ RxLoop'
         /\ (RxInProgress' => mpa_rx'.start = PortOf(ReadOf + 1))
  <2>1. CASE RxGet(regs.rd) /\ GetPuts
    <3>1. left' = left /\ mpa_rx' = RxSetup(Len(rxbuf) + 1, rd.curr, regs.rd[rd.curr])
          /\ (rcv'.todo = {} \/ rcv'.todo = {"aggr"}) /\ (rd'.map = {} => "aggr" \in rcv'.todo)
      BY <2>1, RxGetIs DEF GetPuts
    <3>2. Len(mpa_rx'.bufs) = n + 1 /\ mpa_rx'.start = (IF RxInProgress THEN mpa_rx.start ELSE rd.curr)
      BY <1>0, <3>1, RxSetupIs
    <3>3. "drop" \notin rcv'.todo /\ ~RxWaits' /\ "post" \notin rcv'.todo
      BY <3>1 DEF RxWaits
    <3>4. ReadOf' = ReadOf
      BY <1>1, <1>4, <3>1, <3>3 DEF ReadOf, Dropped
    <3>5. TakenOf' = TakenOf + 1
      BY <1>4, <3>2, <3>3, <3>4 DEF TakenOf
    <3>6. RxLoop'
      BY <1>1, <3>1, <3>3 DEF RxLoop
    <3>7. mpa_rx'.start = PortOf(ReadOf + 1)
      <4>1. CASE RxInProgress
        BY <4>1, <3>2 DEF RxBuffered
      <4>2. CASE ~RxInProgress
        <5>1. n = 0 /\ ReadOf + 1 = TakenOf + 1
          BY <1>4, <4>2
        <5> QED BY <4>2, <5>1, <1>3, <3>2
      <4> QED BY <4>1, <4>2
    <3> QED BY <3>4, <3>5, <3>6, <3>7
  <2>2. CASE RxGet(regs.rd) /\ GetWaits
    <3>1. left' = left /\ mpa_rx' = mpa_rx /\ rcv'.todo \subseteq {"aggr", "cur", "post"}
          /\ ("cur" \in rcv'.todo \/ "post" \in rcv'.todo)
          /\ (RxInProgress => "aggr" \in rcv'.todo)
          /\ ("post" \in rcv'.todo => rd'.map # {})
      BY <2>2, RxGetIs DEF GetWaits
    <3>2. "drop" \notin rcv'.todo /\ RxWaits'
      BY <3>1 DEF RxWaits
    <3>3. ReadOf' = ReadOf
      BY <1>1, <1>4, <3>1, <3>2 DEF ReadOf, Dropped
    <3>4. TakenOf' = TakenOf + 1
      BY <1>4, <3>1, <3>2, <3>3 DEF TakenOf
    <3>5. RxLoop'
      BY <1>1, <3>1 DEF RxLoop, RxInProgress
    <3> QED BY <3>1, <3>3, <3>4, <3>5 DEF RxBuffered, RxInProgress
  <2>3. CASE RxGetNoBuf(regs.rd)
    <3>1. /\ left'.norxbuf = left.norxbuf - 1 /\ mpa_rx' = mpa_rx
          /\ rcv'.todo = (IF RxInProgress THEN {"aggr", "drop"} ELSE {"drop"})
      BY <1>0, <2>3, RxGetNoBufIs
    <3>2. "drop" \in rcv'.todo /\ RxWaits' /\ "post" \notin rcv'.todo /\ (RxInProgress => "aggr" \in rcv'.todo)
      BY <3>1 DEF RxWaits
    <3>3. ReadOf' = ReadOf
      BY <1>1, <1>4, <3>1, <3>2 DEF ReadOf, Dropped
    <3>4. TakenOf' = TakenOf + 1
      BY <1>4, <3>1, <3>2, <3>3 DEF TakenOf
    <3>5. RxLoop'
      BY <1>1, <3>1, <3>2 DEF RxLoop, RxInProgress
    <3> QED BY <3>1, <3>3, <3>4, <3>5 DEF RxBuffered, RxInProgress
  <2> QED BY <2>1, <2>2, <2>3, RxGetIs
<1>6. RxRing' /\ RxBuffered' /\ RxMap'
  <2>1. TakenOf + 1 + 1 = TakenOf + 2
    BY <1>4
  <2> QED BY <1>1, <1>3, <1>4, <1>5, <2>1, FlowMeans DEF RxRing
<1> QED BY <1>5, <1>6

--------------------------------------------------------------------------------
(* The numbers, and what the read loop does.                                 *)

\* What is aggregated is read.
LEMMA FlowReadAggr ==
  ASSUME TxSide, RxTypes, RxStages, RxRing, RxBuffered, RxMap, RxLoop, load' = load, ReadAggr
  PROVE  RxRing' /\ RxBuffered' /\ RxMap' /\ RxLoop' /\ ReadOf < TakenOf
<1> DEFINE n == Len(mpa_rx.bufs)
           r == ReadOf + n
<1>1. /\ pc = "read" /\ "aggr" \in rcv.todo
      /\ up' = up \o Found(mpa_rx.start, n) /\ CardRead(mpa_rx.start, n)
      /\ mpa_rx' = NoRxAggr /\ rcv'.todo = rcv.todo \ {"aggr"} /\ rcv'.port = rcv.port
      /\ UNCHANGED <<left, pc, rd>>
  BY ReadAggrIs
<1>2. /\ ReadOf \in Nat /\ TakenOf \in Nat /\ post.count \in Nat /\ n \in Nat
      /\ TakenOf = r + (IF RxWaits THEN 1 ELSE 0) /\ Len(up) \in Nat /\ load \in Loads
      /\ load.norxbuf \in Nat /\ left.norxbuf \in Nat /\ (RxInProgress <=> n # 0)
      /\ ReadOf = Len(up) + (load.norxbuf - left.norxbuf) - (IF "drop" \in rcv.todo THEN 1 ELSE 0)
  BY FlowIs
<1>3. RxInProgress /\ n # 0 /\ mpa_rx.start = PortOf(ReadOf + 1)
  BY <1>1, <1>2 DEF RxStages, RxBuffered
<1>4. r \in Nat /\ r <= TakenOf /\ r <= post.count /\ ReadOf < TakenOf
  <2>1. TakenOf = r + 1 \/ TakenOf = r + 0
    BY <1>2
  <2>2. TakenOf <= post.count
    BY DEF RxRing
  <2>3. /\ ReadOf \in Nat /\ n \in Nat /\ n # 0
        /\ TakenOf \in Nat /\ post.count \in Nat
    BY <1>2, <1>3
  <2> HIDE DEF n
  <2>4. r \in Nat /\ ReadOf < r
    BY <2>3
  <2> HIDE DEF r
  <2> QED BY <2>1, <2>2, <2>3, <2>4
<1>5. /\ HoldAt(post'.at, r, post.count) /\ post'.next = post.next /\ post'.count = post.count
      /\ DecodedTo(up', r) /\ Len(up') = Len(up) + n
  <2>1. post.count - ReadOf <= MaxPorts /\ HoldAt(post.at, ReadOf, post.count) /\ DecodedTo(up, ReadOf)
    BY DEF RxRing
  <2>2. CardRead(PortOf(ReadOf + 1), n) /\ up' = up \o Found(PortOf(ReadOf + 1), n)
    BY <1>1, <1>3
  <2> HIDE DEF n
  <2>3. HoldAt(post'.at, r, post.count) /\ post'.next = post.next /\ post'.count = post.count
    BY <1>2, <1>4, <2>1, <2>2, ReadHolds
  <2>4. DecodedTo(up', r) /\ Len(up') = Len(up) + n
    BY <1>2, <1>4, <2>1, <2>2, FoundFollows
  <2> QED BY <2>3, <2>4
<1>6. /\ RxWaits' <=> RxWaits
      /\ "drop" \in rcv'.todo <=> "drop" \in rcv.todo
  BY <1>1 DEF RxWaits
<1>7. Len(mpa_rx'.bufs) = 0 /\ ~RxInProgress'
  BY <1>1, NoRxAggrIs DEF RxInProgress
<1>8. ReadOf' = r
  <2>1. ReadOf' = Len(up') + (load.norxbuf - left.norxbuf) - (IF "drop" \in rcv'.todo THEN 1 ELSE 0)
    BY <1>1 DEF ReadOf, Dropped
  <2>2. (IF "drop" \in rcv'.todo THEN 1 ELSE 0) = (IF "drop" \in rcv.todo THEN 1 ELSE 0)
    BY <1>6
  <2> DEFINE z == IF "drop" \in rcv.todo THEN 1 ELSE 0
  <2>3. z \in Nat /\ ReadOf = Len(up) + (load.norxbuf - left.norxbuf) - z
    BY <1>2
  <2>4. ReadOf' = (Len(up) + n) + (load.norxbuf - left.norxbuf) - z
    BY <1>5, <2>1, <2>2
  <2> DEFINE l == Len(up)
             d == load.norxbuf - left.norxbuf
  <2>5. l \in Nat /\ d \in Int /\ n \in Nat
    BY <1>2
  <2> HIDE DEF z, n, l, d
  <2>6. ReadOf = l + d - z /\ ReadOf' = (l + n) + d - z
    BY <2>3, <2>4 DEF l, d
  <2> QED BY <2>3, <2>5, <2>6
<1>9. TakenOf' = TakenOf
  <2>1. TakenOf' = r + 0 + (IF RxWaits' THEN 1 ELSE 0)
    BY <1>7, <1>8 DEF TakenOf
  <2>2. (IF RxWaits' THEN 1 ELSE 0) = (IF RxWaits THEN 1 ELSE 0)
    BY <1>6
  <2> QED BY <1>2, <1>4, <2>1, <2>2
<1> HIDE DEF r, n
<1>10. post.count - r <= MaxPorts /\ TakenOf <= post.count
  BY SMTT(30), <1>2, <1>4, SdioRxAssumption DEF RxRing, r
<1>11. RxRing' /\ RxBuffered' /\ RxMap'
  BY <1>1, <1>4, <1>5, <1>6, <1>7, <1>8, <1>9, <1>10, FlowMeans DEF RxRing, RxBuffered, RxMap
<1>12. RxLoop'
  <2>1. "post" \in rcv'.todo => "post" \in rcv.todo
    BY <1>1
  <2> QED BY <1>1, <1>7, <2>1 DEF RxLoop
<1> QED BY <1>4, <1>11, <1>12

\* The packet that waits is read alone.
LEMMA FlowReadCur ==
  ASSUME TxSide, RxTypes, RxStages, RxRing, RxBuffered, RxMap, RxLoop, load' = load, ReadCur
  PROVE  RxRing' /\ RxBuffered' /\ RxMap' /\ RxLoop' /\ ReadOf < TakenOf
<1> DEFINE r == ReadOf + 1
<1>1. /\ pc = "read" /\ rcv.todo = {"cur"} /\ rcv'.todo = {}
      /\ up' = up \o Found(rcv.port, 1) /\ CardRead(rcv.port, 1)
      /\ UNCHANGED <<left, pc, rd, mpa_rx>>
  BY ReadCurIs
<1>2. RxWaits /\ ~RxWaits' /\ ~RxInProgress /\ ~RxInProgress'
  BY <1>1 DEF RxWaits, RxLoop, RxInProgress
<1>3. /\ ReadOf \in Nat /\ TakenOf \in Nat /\ post.count \in Nat /\ Len(mpa_rx.bufs) = 0
      /\ TakenOf = r /\ Len(up) \in Nat /\ load \in Loads
      /\ load.norxbuf \in Nat /\ left.norxbuf \in Nat
      /\ ReadOf = Len(up) + (load.norxbuf - left.norxbuf)
  BY <1>1, <1>2, FlowIs
<1>4. rcv.port = PortOf(ReadOf + 1) /\ r <= post.count /\ r \in Nat /\ 1 \in Nat /\ ReadOf < TakenOf
  BY <1>2, <1>3 DEF RxBuffered, RxRing
<1>5. /\ HoldAt(post'.at, r, post.count) /\ post'.next = post.next /\ post'.count = post.count
      /\ DecodedTo(up', r) /\ Len(up') = Len(up) + 1
  <2>1. post.count - ReadOf <= MaxPorts /\ HoldAt(post.at, ReadOf, post.count) /\ DecodedTo(up, ReadOf)
    BY DEF RxRing
  <2>2. CardRead(PortOf(ReadOf + 1), 1) /\ up' = up \o Found(PortOf(ReadOf + 1), 1)
    BY <1>1, <1>4
  <2>3. HoldAt(post'.at, r, post.count) /\ post'.next = post.next /\ post'.count = post.count
    BY <1>3, <1>4, <2>1, <2>2, ReadHolds
  <2>4. DecodedTo(up', r) /\ Len(up') = Len(up) + 1
    BY <1>3, <1>4, <2>1, <2>2, FoundFollows
  <2> QED BY <2>3, <2>4
<1>6. ReadOf' = r
  BY <1>1, <1>3, <1>5 DEF ReadOf, Dropped
<1>7. TakenOf' = TakenOf
  BY <1>1, <1>2, <1>3, <1>4, <1>6 DEF TakenOf
<1>8. post.count - r <= MaxPorts
  BY <1>3, SdioRxAssumption DEF RxRing
<1> HIDE DEF r
<1>9. RxRing' /\ RxBuffered' /\ RxMap'
  BY <1>1, <1>2, <1>3, <1>4, <1>5, <1>6, <1>7, <1>8, FlowMeans DEF RxRing, RxMap
<1>10. RxLoop'
  BY <1>1, <1>2 DEF RxLoop
<1> QED BY <1>4, <1>9, <1>10

\* The packet without a buffer is read and dropped.
LEMMA FlowDrop ==
  ASSUME TxSide, RxTypes, RxStages, RxRing, RxBuffered, RxMap, RxLoop, load' = load,
         ReadAndDrop, ~broken'
  PROVE  RxRing' /\ RxBuffered' /\ RxMap' /\ RxLoop' /\ ReadOf < TakenOf
<1> DEFINE r == ReadOf + 1
<1>1. /\ pc = "read" /\ rcv.todo = {"drop"} /\ rcv'.todo = {} /\ pc' = "upload"
      /\ CardRead(rcv.port, 1) /\ UNCHANGED <<left, rd, mpa_rx, up>>
  BY NoRcvIs DEF ReadAndDrop, ReadFails
<1>2. RxWaits /\ ~RxWaits' /\ ~RxInProgress /\ ~RxInProgress'
  BY <1>1 DEF RxWaits, RxLoop, RxInProgress
<1>3. /\ ReadOf \in Nat /\ TakenOf \in Nat /\ post.count \in Nat /\ Len(mpa_rx.bufs) = 0
      /\ TakenOf = r /\ Len(up) \in Nat /\ load \in Loads
      /\ load.norxbuf \in Nat /\ left.norxbuf \in Nat
      /\ ReadOf = Len(up) + (load.norxbuf - left.norxbuf) - 1
  BY <1>1, <1>2, FlowIs
<1>4. rcv.port = PortOf(ReadOf + 1) /\ r <= post.count /\ r \in Nat /\ 1 \in Nat /\ ReadOf < TakenOf
  BY <1>2, <1>3 DEF RxBuffered, RxRing
<1>5. HoldAt(post'.at, r, post.count) /\ post'.next = post.next /\ post'.count = post.count
  <2>1. post.count - ReadOf <= MaxPorts /\ HoldAt(post.at, ReadOf, post.count)
    BY DEF RxRing
  <2> QED BY <1>1, <1>3, <1>4, <2>1, ReadHolds
<1>6. DecodedTo(up', r)
  <2>1. DecodedTo(up, ReadOf) /\ up' = up
    BY <1>1 DEF RxRing
  <2>2. \A x \in 1 .. ReadOf : x \in 1 .. r
    BY <1>3
  <2> QED BY <2>1, <2>2 DEF DecodedTo
<1>7. ReadOf' = r
  BY <1>1, <1>3, <1>5 DEF ReadOf, Dropped
<1>8. TakenOf' = TakenOf
  BY <1>1, <1>2, <1>3, <1>4, <1>7 DEF TakenOf
<1>9. post.count - r <= MaxPorts
  BY <1>3, SdioRxAssumption DEF RxRing
<1> HIDE DEF r
<1>10. RxRing' /\ RxBuffered' /\ RxMap'
  BY <1>1, <1>2, <1>3, <1>4, <1>5, <1>6, <1>7, <1>8, <1>9, FlowMeans DEF RxRing, RxMap
<1>11. RxLoop'
  BY <1>1, <1>2 DEF RxLoop
<1> QED BY <1>4, <1>10, <1>11

\* The packet that waits is put into the buffer, or nothing is left to do.
LEMMA FlowEnd ==
  ASSUME TxSide, RxTypes, RxStages, RxRing, RxBuffered, RxMap, RxLoop, load' = load, RxEnd
  PROVE  /\ RxRing' /\ RxBuffered' /\ RxMap' /\ RxLoop'
         /\ ReadOf' = ReadOf /\ TakenOf' = TakenOf /\ UNCHANGED <<rd, post>>
<1>1. /\ pc = "read" /\ rcv.todo \subseteq {"post"} /\ rcv'.todo = {} /\ pc' = "upload"
      /\ mpa_rx' = (IF "post" \in rcv.todo THEN RxSetup(rcv.buf, rcv.port, rcv.len) ELSE mpa_rx)
      /\ UNCHANGED <<left, rd, up, post>>
  BY NoRcvIs DEF RxEnd
<1>2. /\ ReadOf \in Nat /\ TakenOf \in Nat /\ post.count \in Nat /\ Len(mpa_rx.bufs) \in Nat
      /\ TakenOf = ReadOf + Len(mpa_rx.bufs) + (IF RxWaits THEN 1 ELSE 0) /\ Len(up) \in Nat
      /\ load.norxbuf \in Nat /\ left.norxbuf \in Nat /\ (RxInProgress <=> Len(mpa_rx.bufs) # 0)
  BY FlowIs
<1>3. ReadOf' = ReadOf
  BY <1>1, <1>2 DEF ReadOf, Dropped
<1>4. ~RxWaits'
  BY <1>1 DEF RxWaits
<1>5. CASE "post" \in rcv.todo
  <2>1. RxWaits /\ ~RxInProgress /\ rd.map # {} /\ rcv.port = PortOf(TakenOf)
    BY <1>1, <1>5 DEF RxWaits, RxLoop, RxBuffered
  <2>2. rcv.buf \in Nat /\ rcv.port \in RdPort /\ rcv.len \in 0 .. RxBufSize
    BY DEF RxTypes
  <2>3. Len(mpa_rx'.bufs) = Len(mpa_rx.bufs) + 1 /\ mpa_rx'.start = rcv.port
    BY <1>1, <1>5, <2>1, <2>2, RxSetupIs
  <2>4. TakenOf = ReadOf + 1 /\ Len(mpa_rx.bufs) = 0
    BY <1>2, <2>1
  <2>5. TakenOf' = TakenOf
    BY <1>2, <1>3, <1>4, <2>3, <2>4 DEF TakenOf
  <2>6. RxRing' /\ RxBuffered' /\ RxMap'
    BY <1>1, <1>2, <1>3, <1>4, <2>1, <2>3, <2>4, <2>5, FlowMeans DEF RxRing, RxMap
  <2>7. RxLoop'
    BY <1>1, <1>4, <2>1 DEF RxLoop
  <2> QED BY <1>1, <1>3, <2>5, <2>6, <2>7
<1>6. CASE "post" \notin rcv.todo
  <2>1. rcv.todo = {} /\ mpa_rx' = mpa_rx
    BY <1>1, <1>6
  <2>2. TakenOf' = TakenOf /\ ~RxWaits
    BY <1>2, <1>3, <1>4, <2>1 DEF TakenOf, RxWaits
  <2>3. RxRing' /\ RxBuffered' /\ RxMap'
    BY <1>1, <1>2, <1>3, <1>4, <2>1, <2>2, FlowMeans DEF RxRing, RxMap, RxBuffered, RxInProgress
  <2>4. RxLoop'
    BY <1>1, <1>4, <2>1 DEF RxLoop, RxInProgress
  <2> QED BY <1>1, <1>3, <2>2, <2>3, <2>4
<1> QED BY <1>5, <1>6

\* The loop ends.
LEMMA FlowNone ==
  ASSUME TxSide, RxTypes, RxStages, RxRing, RxBuffered, RxMap, RxLoop, load' = load, RxGetNone
  PROVE  /\ RxRing' /\ RxBuffered' /\ RxMap' /\ RxLoop'
         /\ ReadOf' = ReadOf /\ TakenOf' = TakenOf /\ UNCHANGED <<rd, post>>
<1>1. /\ pc = "upload" /\ pc' = "send" /\ rd.curr \notin rd.map
      /\ UNCHANGED <<left, rd, mpa_rx, rcv, up, post, broken>>
  BY DEF RxGetNone, rxvars
<1>2. /\ ReadOf \in Nat /\ TakenOf \in Nat /\ TakenOf <= post.count /\ post.count \in Nat
  BY FlowIs
<1>3. ReadOf' = ReadOf /\ TakenOf' = TakenOf /\ RxWaits' = RxWaits /\ rcv.todo = {}
  BY <1>1 DEF ReadOf, TakenOf, Dropped, RxWaits, RxStages
<1>4. rd.map = {}
  <2>1. CASE TakenOf < post.count
    <3>1. TakenOf + 1 \in TakenOf + 1 .. post.count
      BY <1>2, <2>1
    <3>2. rd.curr \in PortsTo(TakenOf, post.count)
      BY <3>1 DEF RxRing, PortsTo
    <3> QED BY <1>1, <3>2 DEF RxMap
  <2>2. CASE ~(TakenOf < post.count)
    <3>1. TakenOf + 1 .. post.count = {}
      BY <1>2, <2>2
    <3> QED BY <3>1 DEF RxMap, PortsTo
  <2> QED BY <2>1, <2>2
<1>5. RxRing' /\ RxBuffered' /\ RxMap'
  BY <1>1, <1>2, <1>3, FlowMeans DEF RxRing, RxMap, RxBuffered, RxInProgress
<1>6. RxLoop'
  BY <1>1, <1>3, <1>4 DEF RxLoop, RxInProgress
<1> QED BY <1>1, <1>3, <1>5, <1>6

--------------------------------------------------------------------------------
(* The numbers, and what the card and the interrupts do.                     *)

\* Where nothing was told, or nothing changes of what was told, RxTold stays.
LEMMA ToldSame ==
  ASSUME RxTold, load' = load, UNCHANGED intvars,
         "UP_LD" \in raised \cup irq \cup ireg \cup ints =>
           ReadOf' = ReadOf /\ TakenOf' = TakenOf /\ UNCHANGED <<rd, post>>
  PROVE  RxTold'
<1>1. CASE "UP_LD" \in raised \cup irq \cup ireg \cup ints
  <2>1. ReadLens' = ReadLens
    BY <1>1 DEF ReadLens, Unread
  <2> QED BY <1>1, <2>1 DEF RxTold, intvars
<1>2. CASE "UP_LD" \notin raised \cup irq \cup ireg \cup ints
  BY <1>2 DEF RxTold, intvars
<1> QED BY <1>1, <1>2

\* A step of the read path preserves RxFlow.
LEMMA FlowRxNext ==
  ASSUME TxSide, RxSide, RxFlow, RxNext(regs.rd), UNCHANGED intvars, load' = load
  PROVE  RxFlow'
<1> SUFFICES ASSUME ~broken' PROVE RxRing' /\ RxBuffered' /\ RxMap' /\ RxLoop' /\ RxTold'
  BY DEF RxFlow
<1>0. RxTypes /\ RxStages
  BY DEF RxSide
<1>1. ~broken /\ ~ReadAggrFails /\ ~ReadAggrFailsIgnored /\ ~ReadCurFails
  <2>1. broken' = broken \/ broken' = TRUE
    BY DEF RxNext, RxGet, RxGetNoBuf, RxGetNone, ReadAggr, ReadAggrFails, ReadAggrFailsIgnored, ReadCur,
           ReadCurFails, ReadAndDrop, RxEnd, ReadFails, rxvars
  <2> QED BY <2>1 DEF ReadAggrFails, ReadAggrFailsIgnored, ReadCurFails, ReadFails
<1>2. RxRing /\ RxBuffered /\ RxMap /\ RxLoop /\ RxTold
  BY <1>1 DEF RxFlow
<1>3. CASE RxGet(regs.rd) \/ RxGetNoBuf(regs.rd)
  <2>1. rd.map # {}
    BY <1>3 DEF RxGet, RxGetNoBuf
  <2>2. RxTold'
    BY <1>2, <2>1, ToldSame DEF RxTold
  <2> QED BY <1>0, <1>2, <1>3, <2>2, FlowGet
<1>4. CASE ReadAggr \/ ReadCur \/ ReadAndDrop
  <2>1. RxRing' /\ RxBuffered' /\ RxMap' /\ RxLoop' /\ ReadOf < TakenOf
    BY <1>0, <1>2, <1>4, FlowReadAggr, FlowReadCur, FlowDrop
  <2>2. ReadOf # TakenOf
    BY <1>0, <1>2, <2>1, FlowIs
  <2>3. RxTold'
    BY <1>2, <2>2, ToldSame DEF RxTold
  <2> QED BY <2>1, <2>3
<1>5. CASE RxEnd \/ RxGetNone
  <2>1. /\ RxRing' /\ RxBuffered' /\ RxMap' /\ RxLoop'
        /\ ReadOf' = ReadOf /\ TakenOf' = TakenOf /\ UNCHANGED <<rd, post>>
    BY <1>0, <1>2, <1>5, FlowEnd, FlowNone
  <2> QED BY <1>2, <2>1, ToldSame
<1> QED BY <1>1, <1>3, <1>4, <1>5 DEF RxNext

\* A step that leaves the numbers alone.
LEMMA FlowKept ==
  ASSUME TxSide, RxTypes, RxRing, RxBuffered, RxMap, RxLoop,
         UNCHANGED <<load, mpa_rx, rcv, rxbuf, up, broken, rd, post>>, left'.norxbuf = left.norxbuf, Apart
  PROVE  /\ RxRing' /\ RxBuffered' /\ RxMap' /\ RxLoop'
         /\ ReadOf' = ReadOf /\ TakenOf' = TakenOf
<1>1. ReadOf' = ReadOf /\ TakenOf' = TakenOf /\ RxWaits' = RxWaits
  BY DEF ReadOf, TakenOf, Dropped, RxWaits
<1>2. ReadOf \in Nat /\ TakenOf \in Nat
  BY FlowIs
<1>3. RxRing' /\ RxBuffered' /\ RxMap'
  BY <1>1, <1>2, FlowMeans DEF RxRing, RxMap, RxBuffered, RxInProgress
<1>4. RxLoop'
  BY <1>1 DEF RxLoop, RxInProgress, Apart
<1> QED BY <1>1, <1>3, <1>4

\* The card posts packets.
LEMMA FlowSends ==
  ASSUME TxSide, RxTypes, RxRing, RxBuffered, RxMap, RxLoop, RxTold, load' = load,
         CardSends, UNCHANGED <<pc, left>>
  PROVE  RxRing' /\ RxBuffered' /\ RxMap' /\ RxLoop' /\ RxTold'
<1>1. PICK n \in Batches :
          /\ n <= Len(load.rx) - post.count
          /\ post' = [at |-> [p \in RdPort |->
                         LET i == (p + MaxPorts - post.next) % MaxPorts
                         IN  IF i < n THEN post.count + i + 1 ELSE post.at[p]],
                      next |-> RdNext(post.next, n), count |-> post.count + n]
  BY DEF CardSends
<1>2. /\ Unread = {} /\ UNCHANGED <<rd, mpa_rx, rcv, up, regs, irq, ireg, ints>>
      /\ raised' = raised \cup {"UP_LD"}
  BY DEF CardSends
<1>3. /\ ReadOf \in Nat /\ TakenOf \in Nat /\ ReadOf <= TakenOf /\ TakenOf <= post.count
      /\ post.count \in Nat /\ load \in Loads
  BY FlowIs
<1>4. ReadOf = post.count /\ TakenOf = post.count
  <2>1. ReadOf <= post.count
    BY <1>3
  <2>2. ReadOf = post.count
    BY <1>2, <1>3, <2>1, UnreadIs DEF RxRing
  <2> QED BY <1>3, <2>2
<1>5. n \in Nat /\ n <= MaxPorts /\ n # 0
  BY BatchesAssumption, SdioTxAssumption, SdioRxAssumption
<1>6. post.next = PortOf(post.count + 1)
  BY DEF RxRing
<1>7. /\ post'.at = [p \in RdPort |->
                       LET i == (p + MaxPorts - post.next) % MaxPorts
                       IN  IF i < n THEN post.count + i + 1 ELSE post.at[p]]
      /\ post'.next = RdNext(post.next, n) /\ post'.count = post.count + n
  BY <1>1
<1>8. HoldAt(post'.at, post.count, post.count + n)
  BY <1>2, <1>3, <1>5, <1>6, <1>7, SentHolds
<1>9. post'.next = PortOf(post.count + n + 1)
  <2>1. post.count + 1 \in Nat \ {0} /\ post.count + 1 + n = post.count + n + 1
    BY <1>3, <1>5
  <2>2. RdNext(PortOf(post.count + 1), n) = PortOf(post.count + 1 + n)
    BY <1>3, <1>5, <2>1, PortOfIs
  <2> QED BY <1>6, <1>7, <2>1, <2>2
<1>10. ReadOf' = ReadOf /\ TakenOf' = TakenOf /\ RxWaits' = RxWaits
  BY <1>2 DEF ReadOf, TakenOf, Dropped, RxWaits
<1>11. rd.map = {}
  <2>1. TakenOf + 1 .. post.count = {}
    BY <1>3, <1>4
  <2> QED BY <2>1 DEF RxMap, PortsTo
<1>12. TakenOf <= post.count + n /\ post.count + n - ReadOf <= MaxPorts
  BY <1>3, <1>4, <1>5, SdioRxAssumption
<1>13. RxRing' /\ RxBuffered' /\ RxMap'
  <2>1. HoldAt(post'.at, ReadOf, post'.count) /\ post'.next = PortOf(post'.count + 1)
    BY <1>4, <1>7, <1>8, <1>9
  <2>2. rd'.curr = PortOf(TakenOf + 1) /\ DecodedTo(up', ReadOf) /\ rd'.map = {}
    BY <1>2, <1>11 DEF RxRing
  <2>3. /\ RxInProgress' => mpa_rx'.start = PortOf(ReadOf + 1)
        /\ RxWaits' => rcv'.port = PortOf(TakenOf)
    BY <1>2, <1>10 DEF RxBuffered, RxInProgress
  <2>4. TakenOf <= post'.count /\ post'.count - ReadOf <= MaxPorts
    <3>1. post'.count = post.count + n
      BY <1>7
    <3> QED BY <1>3, <1>5, <1>12, <3>1, SdioRxAssumption
  <2> QED BY <1>3, <1>10, <2>1, <2>2, <2>3, <2>4, FlowMeans
<1>14. RxLoop'
  BY <1>2, <1>10 DEF RxLoop, RxInProgress
<1>15. "UP_LD" \notin raised \cup irq \cup ireg \cup ints
  BY <1>3, <1>4 DEF RxTold
<1>16. rd'.map = {} /\ ReadOf' = TakenOf' /\ ReadOf' < post'.count
  BY <1>2, <1>3, <1>4, <1>5, <1>7, <1>10, <1>11
<1>17. RxTold'
  BY <1>2, <1>15, <1>16 DEF RxTold
<1> QED BY <1>13, <1>14, <1>17

\* Status takes the bitmap over.
LEMMA FlowStatus ==
  ASSUME TxSide, RxTypes, RxStages, RxRing, RxBuffered, RxMap, RxLoop, RxTold, load' = load,
         Status, UNCHANGED left
  PROVE  RxRing' /\ RxBuffered' /\ RxMap' /\ RxLoop' /\ RxTold'
<1>1. /\ pc = "status" /\ ints' = {} /\ UNCHANGED <<mpa_rx, rcv, up, post, raised, regs, irq, ireg>>
      /\ IF "UP_LD" \in ints
           THEN rd' = [rd EXCEPT !.map = {p \in RdPort : regs.rd[p] # 0}] /\ pc' = "upload"
           ELSE pc' = "send" /\ rd' = rd
  BY DEF Status
<1>2. ReadOf' = ReadOf /\ TakenOf' = TakenOf /\ RxWaits' = RxWaits /\ rcv.todo = {} /\ ~RxInProgress
  BY <1>1 DEF ReadOf, TakenOf, Dropped, RxWaits, RxStages, RxLoop
<1>3. ReadOf \in Nat /\ TakenOf \in Nat /\ post.count \in Nat /\ load \in Loads
  BY FlowIs
<1>4. CASE "UP_LD" \in ints
  <2>1. ReadOf = TakenOf /\ ReadOf < post.count /\ regs.rd = ReadLens
    BY <1>4 DEF RxTold
  <2>2. rd'.curr = rd.curr /\ rd'.map = {p \in RdPort : regs.rd[p] # 0} /\ pc' = "upload"
    BY <1>1, <1>4 DEF RxTypes, WrF
  <2>3. \A p \in RdPort : ReadLens[p] # 0 <=> p \in Unread
    <3> SUFFICES ASSUME NEW p \in RdPort, p \in Unread PROVE load.rx[post.at[p]] # 0
      BY DEF ReadLens
    <3>1. post.at[p] \in 0 .. Len(load.rx) /\ post.at[p] # 0
      BY DEF RxTypes, Unread, Lost
    <3>2. load.rx \in Seq(Nat) /\ Len(load.rx) \in Nat
      BY <1>3, RxLoadIs
    <3>3. post.at[p] \in DOMAIN load.rx
      BY <3>1, <3>2
    <3>4. load.rx[post.at[p]] \in 1 .. RxBufSize
      BY <1>3, <3>3, RxLoadIs
    <3> QED BY <3>4, SdioRxAssumption
  <2>4. rd'.map = Unread
    BY <2>1, <2>2, <2>3 DEF Unread
  <2>5. Unread = PortsTo(TakenOf, post.count) /\ Unread # {}
    BY <1>3, <2>1, UnreadIs DEF RxRing
  <2>6. RxRing' /\ RxBuffered' /\ RxMap'
    BY <1>1, <1>2, <1>3, <2>2, <2>4, <2>5, FlowMeans DEF RxRing, RxBuffered, RxInProgress
  <2>7. RxLoop'
    BY <1>1, <1>2, <2>2 DEF RxLoop, RxInProgress
  <2>8. "UP_LD" \notin raised \cup irq \cup ireg
    BY <1>4 DEF RxTold
  <2>9. RxTold'
    BY <1>1, <2>8 DEF RxTold
  <2> QED BY <2>6, <2>7, <2>9
<1>5. CASE "UP_LD" \notin ints
  <2>1. rd' = rd /\ pc' = "send"
    BY <1>1, <1>5
  <2>2. RxRing' /\ RxBuffered' /\ RxMap'
    BY <1>1, <1>2, <1>3, <2>1, FlowMeans DEF RxRing, RxMap, RxBuffered, RxInProgress
  <2>3. RxLoop'
    BY <1>1, <1>2, <2>1 DEF RxLoop, RxInProgress
  <2>4. ReadLens' = ReadLens
    BY <1>1 DEF ReadLens, Unread
  <2>5. RxTold'
    BY <1>1, <1>2, <1>5, <2>1, <2>4 DEF RxTold
  <2> QED BY <2>2, <2>3, <2>5
<1> QED BY <1>4, <1>5

--------------------------------------------------------------------------------
(* Packets are handed up in order.                                           *)

\* RxFlow is preserved.
LEMMA RxFlowStep ==
  ASSUME TxSide, RxSide, RxFlow, [SdioNext]_allvars
  PROVE  RxFlow'
<1>0. RxTypes /\ RxStages /\ load' = load
  BY RxKinds DEF RxSide
<1>1. CASE RxNext(regs.rd) /\ UNCHANGED intvars
  BY <1>0, <1>1, FlowRxNext
<1> DEFINE idle  == RxIdle
           sends == CardSends /\ UNCHANGED <<pc, left>>
           reads == IrqRead /\ UNCHANGED <<pc, left, rxvars>>
           notes == IrqNote /\ UNCHANGED <<pc, left, rxvars>>
           takes == TakeInts /\ UNCHANGED <<left, rxvars>>
           stats == Status /\ UNCHANGED left
<1>2. CASE idle \/ sends \/ reads \/ notes \/ takes \/ stats
  <2>0. /\ UNCHANGED <<mpa_rx, rcv, rxbuf, up, broken>> /\ left'.norxbuf = left.norxbuf
        /\ CardSends \/ post' = post
        /\ Status \/ rd' = rd
        /\ Apart \/ (pc = "status" /\ pc' = "upload")
    BY <1>2, OtherRx
  <2> SUFFICES ASSUME ~broken' PROVE RxRing' /\ RxBuffered' /\ RxMap' /\ RxLoop' /\ RxTold'
    BY DEF RxFlow
  <2>1. RxRing /\ RxBuffered /\ RxMap /\ RxLoop /\ RxTold
    BY <2>0 DEF RxFlow
  <2>2. CASE sends
    BY <1>0, <2>1, <2>2, FlowSends
  <2>3. CASE stats
    BY <1>0, <2>1, <2>3, FlowStatus
  <2>4. CASE idle \/ reads \/ notes \/ takes
    <3>1. UNCHANGED <<rd, post>> /\ Apart
      BY <2>4 DEF RxIdle, IrqRead, IrqNote, TakeInts, rxvars, Apart
    <3>2. RxRing' /\ RxBuffered' /\ RxMap' /\ RxLoop' /\ ReadOf' = ReadOf /\ TakenOf' = TakenOf
      BY <1>0, <2>0, <2>1, <3>1, FlowKept
    <3>3. ReadLens' = ReadLens
      BY <1>0, <3>1 DEF ReadLens, Unread
    <3>4. RxTold'
      <4>1. CASE idle
        BY <2>1, <3>1, <3>2, <3>3, <4>1 DEF RxTold, RxIdle
      <4>2. CASE reads
        <5>1. regs'.rd = ReadLens /\ irq = {} /\ irq' = raised /\ raised' = {} /\ UNCHANGED <<ireg, ints>>
          BY <4>2 DEF IrqRead, ReadLens
        <5> QED BY <2>1, <3>1, <3>2, <3>3, <5>1 DEF RxTold
      <4>3. CASE notes
        <5>1. ireg' = ireg \cup irq /\ irq' = {} /\ UNCHANGED <<raised, regs, ints>>
          BY <4>3 DEF IrqNote
        <5> QED BY <2>1, <3>1, <3>2, <3>3, <5>1 DEF RxTold
      <4>4. CASE takes
        <5>1. ints' = ireg /\ ireg' = {} /\ UNCHANGED <<raised, regs, irq>>
          BY <4>4 DEF TakeInts
        <5> QED BY <2>1, <3>1, <3>2, <3>3, <5>1 DEF RxTold
      <4> QED BY <2>4, <4>1, <4>2, <4>3, <4>4
    <3> QED BY <3>2, <3>4
  <2> QED BY <1>2, <2>2, <2>3, <2>4
<1> QED BY <1>1, <1>2, RxKinds

\* RxFlow holds initially.
LEMMA RxFlowInit ==
  ASSUME SdioInit
  PROVE  RxFlow
<1>1. /\ load \in Loads /\ pc = "loop" /\ rd = [map |-> {}, curr |-> load.at]
      /\ mpa_rx = NoRxAggr /\ rcv = NoRcv /\ up = <<>>
      /\ post = [at |-> [p \in RdPort |-> 0], next |-> load.at, count |-> 0]
      /\ raised = {} /\ irq = {} /\ ireg = {} /\ ints = {}
  BY DEF SdioInit, SdioRxInit, SdioTxInit, WmmInit
<1>2. left.norxbuf = load.norxbuf /\ load.norxbuf \in Nat
  <2>1. TxSide
    BY TxSideInit
  <2> QED BY <1>1, RxLoadIs DEF SdioInit, SdioRxInit, SdioTxInit, WmmInit
<1>3. /\ rcv.todo = {} /\ ~RxWaits /\ Len(mpa_rx.bufs) = 0 /\ ~RxInProgress /\ Len(up) = 0
  BY <1>1, NoRcvIs, NoRxAggrIs DEF RxWaits, RxInProgress
<1>4. ReadOf = 0 /\ TakenOf = 0
  <2>1. ReadOf = 0
    BY <1>2, <1>3 DEF ReadOf, Dropped
  <2> QED BY <1>3, <2>1 DEF TakenOf
<1>5. PortOf(1) = load.at /\ MaxPorts \in Nat
  <2>1. load.at \in RdPort /\ MaxPorts \in Nat \ {0} /\ RdPort = 0 .. MaxPorts - 1
    BY <1>1, RxLoadIs, SdioRxAssumption, SdioTxAssumption DEF RdPort
  <2>2. load.at % MaxPorts = load.at
    BY <2>1
  <2>3. load.at + (1 - 1) = load.at
    BY <2>1
  <2> QED BY <2>1, <2>2, <2>3 DEF PortOf, RdNext
<1>6. HoldAt(post.at, 0, 0) /\ DecodedTo(up, 0)
  BY <1>1 DEF HoldAt, DecodedTo, Lost
<1>7. RxRing
  <2>1. rd.curr = load.at /\ post.next = load.at /\ post.count = 0
    BY <1>1
  <2> QED BY <1>4, <1>5, <1>6, <2>1 DEF RxRing
<1>8. RxBuffered /\ RxMap /\ RxLoop /\ RxTold
  BY <1>1, <1>3 DEF RxBuffered, RxMap, RxLoop, RxTold
<1> QED BY <1>7, <1>8 DEF RxFlow

\* It implies RxComplete.
LEMMA RxFlowMeans ==
  ASSUME TxSide, RxSide, RxFlow
  PROVE  RxComplete
<1> SUFFICES ASSUME ~broken
             PROVE  /\ \A i \in DOMAIN up : up[i] # Lost /\ (i > 1 => up[i] > up[i - 1])
                    /\ pc \notin {"upload", "read"} =>
                         /\ ~RxInProgress
                         /\ Len(up) + Dropped = post.count - Cardinality(Unread)
                         /\ Unread = {} => rd.curr = post.next
  BY DEF RxComplete
<1>1. RxTypes /\ RxStages /\ RxRing /\ RxLoop
  BY DEF RxSide, RxFlow
<1>2. \A i \in DOMAIN up : up[i] # Lost /\ (i > 1 => up[i] > up[i - 1])
  BY <1>1 DEF RxRing, DecodedTo, Lost
<1>3. ASSUME pc \notin {"upload", "read"}
      PROVE  /\ ~RxInProgress
             /\ Len(up) + Dropped = post.count - Cardinality(Unread)
             /\ Unread = {} => rd.curr = post.next
  <2>1. ~RxInProgress /\ rcv.todo = {}
    BY <1>1, <1>3 DEF RxLoop, RxStages
  <2>2. /\ ReadOf \in Nat /\ TakenOf \in Nat /\ ReadOf <= TakenOf /\ TakenOf <= post.count
        /\ post.count \in Nat /\ load \in Loads /\ Len(up) \in Nat
        /\ load.norxbuf \in Nat /\ left.norxbuf \in Nat
        /\ ReadOf = Len(up) + (load.norxbuf - left.norxbuf)
    BY <1>1, <2>1, FlowIs
  <2>3. Cardinality(Unread) = post.count - ReadOf /\ (Unread = {} <=> ReadOf = post.count)
    <3>1. ReadOf <= post.count
      BY <2>2
    <3> QED BY <1>1, <2>2, <3>1, UnreadIs DEF RxRing
  <2>4. Len(up) + Dropped = post.count - Cardinality(Unread)
    BY <2>2, <2>3 DEF Dropped
  <2>5. Unread = {} => rd.curr = post.next
    <3>1. ASSUME Unread = {} PROVE TakenOf = post.count
      BY <2>2, <2>3, <3>1
    <3> QED BY <1>1, <3>1 DEF RxRing
  <2> QED BY <2>1, <2>4, <2>5
<1> QED BY <1>2, <1>3

\* As long as no read fails, the packets the card posts on its ports are handed up by
\* wlan_decode_rx_packet in the order of the ports and none is forgotten, though
\* wlan_sdio_card_to_host_mp_aggr reads them one by one or in aggregations that end at
\* a gap, at the last port or when the buffer is full, and wlan_process_sdio_int_status
\* takes bitmaps over that wlan_sdio_interrupt read before; and a buffer is handed up
\* or freed once, also when reads fail (mlan_sdio.c).
THEOREM UploadedInOrder == SdioSpec => []RxHandedUp
<1>1. SdioInit => TxSide /\ RxSide /\ RxFlow
  BY TxSideInit, RxSideInit, RxFlowInit
<1>2. TxSide /\ RxSide /\ RxFlow /\ [SdioNext]_allvars => TxSide' /\ RxSide' /\ RxFlow'
  BY TxSideStep, RxSideStep, RxFlowStep
<1>3. TxSide /\ RxSide /\ RxFlow => RxHandedUp
  BY RxSideMeans, RxFlowMeans DEF RxHandedUp
<1> QED BY <1>1, <1>2, <1>3, PTL DEF SdioSpec

--------------------------------------------------------------------------------
(* Sums of lengths.                                                          *)

\* The sum of a sequence.
Total(s) == Sum(s, DOMAIN s)

\* It grows by what is appended.
LEMMA TotalIs ==
  ASSUME NEW s \in Seq(Nat)
  PROVE  /\ Total(s) \in Nat /\ (s = <<>> => Total(s) = 0)
         /\ \A x \in Nat : Total(Append(s, x)) = Total(s) + x
<1> DEFINE n == Len(s)
<1>1. n \in Nat /\ DOMAIN s = 1 .. n /\ \A i \in 1 .. n : s[i] \in Nat
  OBVIOUS
<1>2. IsFiniteSet(1 .. n)
  BY <1>1, FS_Interval
<1>3. Total(s) \in Nat
  BY <1>1, <1>2, SumNat DEF Total
<1>4. s = <<>> => Total(s) = 0
  <2>1. s = <<>> => DOMAIN s = {}
    OBVIOUS
  <2> QED BY <2>1, SumEmpty DEF Total
<1>5. ASSUME NEW x \in Nat PROVE Total(Append(s, x)) = Total(s) + x
  <2> DEFINE t == Append(s, x)
  <2>1. DOMAIN t = 1 .. n + 1 /\ t[n + 1] = x /\ \A i \in 1 .. n : t[i] = s[i]
    OBVIOUS
  <2> HIDE DEF t, n
  <2>2. n + 1 \notin 1 .. n /\ 1 .. n + 1 = (1 .. n) \cup {n + 1}
    BY <1>1
  <2>3. \A y \in (1 .. n) \cup {n + 1} : t[y] \in Int
    BY <1>1, <2>1
  <2>4. Sum(t, (1 .. n) \cup {n + 1}) = t[n + 1] + Sum(t, 1 .. n)
    BY <1>2, <2>2, <2>3, SumInsert
  <2>5. Sum(t, 1 .. n) = Sum(s, 1 .. n)
    BY <1>1, <1>2, <2>1, SumSame
  <2>6. Total(t) = x + Total(s)
    BY <1>1, <2>1, <2>2, <2>4, <2>5 DEF Total
  <2> QED BY <1>3, <2>6 DEF t
<1> QED BY <1>3, <1>4, <1>5

\* The room in the aggregation buffers.
LEMMA RxRoomIs ==
  ASSUME NEW n PROVE RxRoom(n) <=> Total(mpa_rx.lens) + n <= RxBufSize
  BY DEF RxRoom, Total, MapThenSumSet, MapThenFoldSet, Sum, IterOf, Some1

\* The lengths of packets.
SizesOf(q) == [i \in DOMAIN q |-> SizeOf(q[i])]

\* They are numbers, and grow by what is appended.
LEMMA SizesAre ==
  ASSUME load \in Loads, NEW q \in Seq(PktId)
  PROVE  /\ SizesOf(q) \in Seq(Nat) /\ (q = <<>> => SizesOf(q) = <<>>)
         /\ \A k \in PktId : /\ SizesOf(Append(q, k)) = Append(SizesOf(q), SizeOf(k))
                             /\ SizeOf(k) \in Nat /\ SizeOf(k) <= TxBufSize
<1>1. \A k \in PktId : SizeOf(k) \in Nat
  BY LoadIs
<1>2. \A k \in PktId : SizeOf(k) <= TxBufSize
  BY TxFitsAssumption DEF SizeOf, P, PktId
<1>3. Len(q) \in Nat /\ DOMAIN q = 1 .. Len(q) /\ \A i \in 1 .. Len(q) : q[i] \in PktId
  OBVIOUS
<1>4. SizesOf(q) \in Seq(Nat) /\ Len(SizesOf(q)) = Len(q)
  BY <1>1, <1>3 DEF SizesOf
<1>5. ASSUME NEW k \in PktId PROVE SizesOf(Append(q, k)) = Append(SizesOf(q), SizeOf(k))
  <2> DEFINE n == Len(q)
             u == Append(q, k)
             v == Append(SizesOf(q), SizeOf(k))
  <2>1. DOMAIN u = 1 .. n + 1 /\ u[n + 1] = k /\ \A i \in 1 .. n : u[i] = q[i]
    OBVIOUS
  <2>3. \A i \in 1 .. n : SizesOf(q)[i] = SizeOf(q[i])
    BY <1>3 DEF SizesOf
  <2>4. n \in Nat /\ \A i \in 1 .. n + 1 : i \in 1 .. n \/ i = n + 1
    BY <1>3
  <2>5. DOMAIN SizesOf(u) = 1 .. n + 1 /\ \A i \in 1 .. n + 1 : SizesOf(u)[i] = SizeOf(u[i])
    BY <2>1 DEF SizesOf
  <2>7. /\ v \in Seq(Nat) /\ Len(v) = n + 1 /\ v[n + 1] = SizeOf(k)
        /\ \A i \in 1 .. n : v[i] = SizesOf(q)[i]
    <3> DEFINE w == SizesOf(q)
               x == SizeOf(k)
    <3>1. w \in Seq(Nat) /\ Len(w) = n /\ x \in Nat
      BY <1>1, <1>4
    <3> HIDE DEF w, x, n
    <3>2. /\ Append(w, x) \in Seq(Nat) /\ Len(Append(w, x)) = n + 1 /\ Append(w, x)[n + 1] = x
          /\ \A i \in 1 .. n : Append(w, x)[i] = w[i]
      BY <3>1
    <3> QED BY <3>2 DEF w, x
  <2>8. SizesOf(u) \in Seq(Nat) /\ Len(SizesOf(u)) = n + 1
    <3>1. u \in Seq(PktId) /\ Len(u) = n + 1
      OBVIOUS
    <3>2. \A i \in 1 .. n + 1 : SizeOf(u[i]) \in Nat
      BY <1>1, <3>1
    <3> HIDE DEF u, n
    <3> QED BY <2>1, <2>4, <3>2 DEF SizesOf
  <2> HIDE DEF u, v, n
  <2>6. \A i \in 1 .. n + 1 : SizesOf(u)[i] = v[i]
    <3> SUFFICES ASSUME NEW i \in 1 .. n + 1
                 PROVE  SizeOf(u[i]) = v[i]
      BY <2>5
    <3>1. CASE i = n + 1
      BY <2>1, <2>7, <3>1
    <3>2. CASE i # n + 1
      <4>1. i \in 1 .. n
        BY <2>4, <3>2
      <4>2. u[i] = q[i] /\ SizesOf(q)[i] = SizeOf(q[i])
        BY <2>1, <2>3, <4>1
      <4> QED BY <2>7, <4>1, <4>2
    <3> QED BY <3>1, <3>2
  <2>9. SizesOf(u) = v
    BY <2>6, <2>7, <2>8, SeqEqual
  <2> QED BY <2>9 DEF u, v
<1>6. q = <<>> => SizesOf(q) = <<>>
  BY DEF SizesOf
<1> QED BY <1>1, <1>2, <1>4, <1>5, <1>6

\* The blocks in the aggregation buffer, before and after a step.
LEMMA BlocksAre ==
  ASSUME load' = load
  PROVE  TxBlocks = Total(SizesOf(mpa_tx.pkts)) /\ TxBlocks' = Total(SizesOf(mpa_tx'.pkts))
<1>1. TxBlocks = Total(SizesOf(mpa_tx.pkts))
  <2> DEFINE D == DOMAIN mpa_tx.pkts
             q == mpa_tx.pkts
             f == [i \in D |-> SizeOf(q[i])]
  <2>1. TxBlocks = MapThenSumSet(LAMBDA i : SizeOf(q[i]), D) /\ SizesOf(q) = f /\ DOMAIN f = D
    BY DEF TxBlocks, SizesOf
  <2> HIDE DEF D, q
  <2>2. MapThenSumSet(LAMBDA i : SizeOf(q[i]), D) = Sum(f, D)
    BY DEF MapThenSumSet, MapThenFoldSet, Sum, IterOf, Some1
  <2> HIDE DEF f
  <2> QED BY <2>1, <2>2 DEF Total, q
<1>2. TxBlocks' = Total(SizesOf(mpa_tx'.pkts))
  <2> DEFINE f == [i \in DOMAIN mpa_tx'.pkts |-> load'.tx[mpa_tx'.pkts[i]].len]
  <2>1. TxBlocks' = Sum(f, DOMAIN mpa_tx'.pkts)
    BY DEF TxBlocks, SizeOf, P, MapThenSumSet, MapThenFoldSet, Sum, IterOf, Some1
  <2>2. SizesOf(mpa_tx'.pkts) = f /\ DOMAIN f = DOMAIN mpa_tx'.pkts
    BY DEF SizesOf, SizeOf, P
  <2> HIDE DEF f
  <2> QED BY <2>1, <2>2 DEF Total
<1> QED BY <1>1, <1>2

\* A packet put into the buffer.
LEMMA PutBlocks ==
  ASSUME TxTypes, load \in Loads, load' = load, NEW k \in PktId, NEW port \in WrPort,
         mpa_tx' = TxPut(k, port)
  PROVE  /\ TxBlocks \in Nat /\ TxBlocks' = TxBlocks + SizeOf(k) /\ SizeOf(k) <= TxBufSize
         /\ Len(mpa_tx.pkts) \in Nat /\ Len(mpa_tx'.pkts) = Len(mpa_tx.pkts) + 1
         /\ ~TxInProgress => TxBlocks = 0 /\ Len(mpa_tx.pkts) = 0
<1> DEFINE q == mpa_tx.pkts
<1>1. q \in Seq(PktId) /\ Len(q) \in Nat
  BY DEF TxTypes, Ids
<1>2. mpa_tx'.pkts = Append(q, k)
  BY DEF TxPut
<1>3. TxBlocks = Total(SizesOf(q)) /\ TxBlocks' = Total(SizesOf(Append(q, k)))
  BY <1>2, BlocksAre
<1>4. ~TxInProgress => q = <<>>
  BY DEF TxInProgress
<1>5. Len(Append(q, k)) = Len(q) + 1 /\ (q = <<>> => Len(q) = 0)
  BY <1>1
<1> HIDE DEF q
<1>6. /\ SizesOf(q) \in Seq(Nat) /\ SizesOf(Append(q, k)) = Append(SizesOf(q), SizeOf(k))
      /\ SizeOf(k) \in Nat /\ SizeOf(k) <= TxBufSize /\ (q = <<>> => SizesOf(q) = <<>>)
  BY <1>1, SizesAre
<1>7. /\ Total(SizesOf(q)) \in Nat /\ (SizesOf(q) = <<>> => Total(SizesOf(q)) = 0)
      /\ Total(Append(SizesOf(q), SizeOf(k))) = Total(SizesOf(q)) + SizeOf(k)
  BY <1>6, TotalIs
<1>8. TxBlocks \in Nat /\ TxBlocks' = TxBlocks + SizeOf(k) /\ (~TxInProgress => TxBlocks = 0)
  BY <1>3, <1>4, <1>6, <1>7
<1> QED BY <1>1, <1>2, <1>4, <1>5, <1>6, <1>8 DEF q

--------------------------------------------------------------------------------
(* The aggregation buffer of the write path is not overrun.                  *)

\* The packets that wait in the buffer leave room for another one, but where they are to
\* be sent; one that waits behind them is not the only one the buffer takes.
TxFull ==
  /\ TxBlocks <= TxBufSize /\ Len(mpa_tx.pkts) <= TxPktLimit
  /\ ~(pc = "transfer" /\ "aggr" \in snd.todo) => Len(mpa_tx.pkts) < TxPktLimit
  /\ pc = "transfer" /\ "post" \in snd.todo => TxPktLimit >= 2

\* The empty buffer.
LEMMA TxEmptied ==
  ASSUME load \in Loads, load' = load, mpa_tx'.pkts = <<>>
  PROVE  TxBlocks' = 0 /\ Len(mpa_tx'.pkts) = 0 /\ TxBufSize \in Nat /\ TxPktLimit \in Nat \ {0}
<1>1. TxBlocks' = Total(SizesOf(mpa_tx'.pkts))
  BY BlocksAre
<1>2. <<>> \in Seq(PktId) /\ <<>> \in Seq(Nat)
  OBVIOUS
<1>3. SizesOf(<<>>) = <<>>
  BY <1>2, SizesAre
<1>4. Total(<<>>) = 0
  BY <1>2, TotalIs
<1> QED BY <1>1, <1>3, <1>4, SdioTxAssumption

\* The buffer is left alone.
LEMMA TxFullSame ==
  ASSUME TxFull, load' = load, mpa_tx' = mpa_tx,
         \/ pc # "transfer" /\ pc' # "transfer"
         \/ pc' = pc /\ (pc = "transfer" => snd'.todo = snd.todo)
  PROVE  TxFull'
<1>1. TxBlocks' = TxBlocks
  BY BlocksAre DEF SizesOf, SizeOf, P
<1> QED BY <1>1 DEF TxFull

\* A port is taken.
LEMMA TxFullGetPort ==
  ASSUME TxSide, TxFull, GetPort
  PROVE  TxFull'
<1>0. TxTypes /\ SndTypes /\ PcTypes /\ load \in Loads /\ load' = load
  BY DEF TxSide, GetPort, LeftTypes
<1> DEFINE p == wr.curr
           plan == Plan
           k == snd.pkt
<1>1. /\ pc = "getport" /\ pc' = "transfer" /\ p \in wr.map /\ snd'.todo = plan \ {"pre"}
      /\ mpa_tx' = IF "pre" \in plan THEN TxPut(k, p) ELSE mpa_tx
  BY <1>0, GetPortIs
<1>2. p \in WrPort /\ k \in PktId
  BY <1>0, <1>1 DEF TxTypes, PcTypes, Busy
<1>3. /\ "pre" \in plan => TxRoom(SizeOf(k)) /\ "cur" \notin plan /\ "post" \notin plan
      /\ "pre" \notin plan => "cur" \in plan \/ "post" \in plan
      /\ "pre" \in plan /\ "aggr" \notin plan => Len(mpa_tx.pkts) + 1 # TxPktLimit
      /\ "post" \in plan => TxInProgress
  BY PlanIs
<1> HIDE DEF p, plan, k
<1>4. Len(mpa_tx.pkts) < TxPktLimit /\ TxPktLimit \in Nat /\ TxBufSize \in Nat
  BY <1>1, SdioTxAssumption DEF TxFull
<1>5. CASE "pre" \in plan
  <2>1. /\ TxBlocks \in Nat /\ TxBlocks' = TxBlocks + SizeOf(k) /\ Len(mpa_tx.pkts) \in Nat
        /\ Len(mpa_tx'.pkts) = Len(mpa_tx.pkts) + 1
    BY <1>0, <1>1, <1>2, <1>5, PutBlocks
  <2>2. TxBlocks' <= TxBufSize
    BY <2>1, <1>3, <1>5 DEF TxRoom
  <2>3. Len(mpa_tx'.pkts) <= TxPktLimit
    BY <2>1, <1>4
  <2>4. "aggr" \notin snd'.todo => Len(mpa_tx'.pkts) < TxPktLimit
    BY <2>1, <1>1, <1>3, <1>4, <1>5
  <2>5. "post" \notin snd'.todo
    BY <1>1, <1>3, <1>5
  <2> QED BY <1>1, <2>2, <2>3, <2>4, <2>5 DEF TxFull
<1>6. CASE "pre" \notin plan
  <2>1. TxBlocks' = TxBlocks /\ mpa_tx' = mpa_tx
    BY <1>0, <1>1, <1>6, BlocksAre DEF SizesOf, SizeOf, P
  <2>2. "post" \in plan => TxPktLimit >= 2
    <3>1. mpa_tx.pkts \in Seq(PktId) /\ (TxInProgress => mpa_tx.pkts # <<>>)
      BY <1>0 DEF TxTypes, Ids, TxInProgress
    <3>2. TxInProgress => Len(mpa_tx.pkts) >= 1
      BY <3>1
    <3>3. Len(mpa_tx.pkts) \in Nat
      BY <3>1
    <3> QED BY <3>2, <3>3, <1>3, <1>4
  <2> QED BY <2>1, <2>2, <1>1, <1>4 DEF TxFull
<1> QED BY <1>5, <1>6

\* The end of wlan_host_to_card_mp_aggr.
LEMMA TxFullTransferred ==
  ASSUME TxSide, PortInv, TxFull, Transferred
  PROVE  TxFull'
<1>0. TxTypes /\ SndTypes /\ PcTypes /\ load \in Loads /\ load' = load
  BY DEF TxSide, Transferred, LeftTypes
<1>1. /\ pc = "transfer" /\ snd.todo \subseteq {"post"} /\ pc' = "settle"
      /\ mpa_tx' = (IF "post" \in snd.todo THEN TxPut(snd.pkt, snd.port) ELSE mpa_tx)
  BY <1>0, TransferredIs
<1>2. snd.pkt \in PktId /\ snd.port \in WrPort
  BY <1>0, <1>1 DEF PcTypes, Busy, SndTypes
<1>3. CASE "post" \in snd.todo
  <2>1. ~TxInProgress /\ TxPktLimit >= 2 /\ TxPktLimit \in Nat /\ TxBufSize \in Nat
    BY <1>1, <1>3, SdioTxAssumption DEF PortInv, Transferring, TxFull
  <2>2. /\ TxBlocks' = TxBlocks + SizeOf(snd.pkt) /\ SizeOf(snd.pkt) <= TxBufSize
        /\ Len(mpa_tx'.pkts) = Len(mpa_tx.pkts) + 1 /\ TxBlocks = 0 /\ Len(mpa_tx.pkts) = 0
    BY <1>0, <1>1, <1>2, <1>3, <2>1, PutBlocks
  <2>3. SizeOf(snd.pkt) \in Nat
    BY <1>0, <1>2, LoadIs
  <2>4. TxBlocks' <= TxBufSize /\ Len(mpa_tx'.pkts) < TxPktLimit /\ Len(mpa_tx'.pkts) <= TxPktLimit
    BY <2>1, <2>2, <2>3
  <2> QED BY <1>1, <2>4 DEF TxFull
<1>4. CASE "post" \notin snd.todo
  <2>1. TxBlocks' = TxBlocks /\ mpa_tx' = mpa_tx
    BY <1>0, <1>1, <1>4, BlocksAre DEF SizesOf, SizeOf, P
  <2>2. Len(mpa_tx.pkts) < TxPktLimit
    BY <1>1 DEF TxFull
  <2> QED BY <2>1, <2>2, <1>1 DEF TxFull
<1> QED BY <1>3, <1>4

\* The write path leaves room for another packet.
LEMMA TxFullStep ==
  ASSUME TxSide, PortInv, TxFull, [SdioNext]_allvars
  PROVE  TxFull'
<1>0. /\ TxTypes /\ SndTypes /\ LeftTypes /\ PcTypes /\ load \in Loads /\ load' = load
  BY StepKinds DEF TxSide, LeftTypes
<1>a. ASSUME NEW ok \in BOOLEAN, Flushed(ok),
             pc' = "transfer" => pc = "transfer" /\ snd'.todo \subseteq snd.todo
      PROVE  TxFull'
  <2>1. mpa_tx'.pkts = <<>>
    BY <1>a DEF Flushed
  <2>2. TxBlocks' = 0 /\ Len(mpa_tx'.pkts) = 0 /\ TxBufSize \in Nat /\ TxPktLimit \in Nat \ {0}
    BY <1>0, <2>1, TxEmptied
  <2> QED BY <1>a, <2>2 DEF TxFull
<1>1. CASE WmmStep /\ UNCHANGED <<txvars, intvars>>
  <2>0. mpa_tx' = mpa_tx
    BY <1>1 DEF txvars
  <2>1. CASE AddBuf \/ DropTxPkt \/ UpdateTxPause
    BY <2>0, <2>1, <1>0, TxFullSame DEF AddBuf, DropTxPkt, UpdateTxPause
  <2>2. CASE DeletePeer
    <3>1. pc' = pc /\ snd'.todo = snd.todo
      BY <2>2, <1>0 DEF DeletePeer, SndTypes, SndF
    <3> QED BY <3>1, <2>0, <1>0, TxFullSame
  <2>3. CASE PickNone \/ Pick \/ SettleBack \/ Settle
    <3>1. pc # "transfer" /\ pc' # "transfer"
      BY <2>3 DEF PickNone, Pick, SettleBack, Settle
    <3> QED BY <3>1, <2>0, <1>0, TxFullSame
  <2> QED BY <2>1, <2>2, <2>3, <1>1 DEF WmmStep
<1>2. CASE PortStep /\ UNCHANGED intvars
  <2>1. CASE GetPortFails
    <3>1. pc # "transfer" /\ pc' # "transfer" /\ mpa_tx' = mpa_tx
      BY <2>1 DEF GetPortFails, txvars
    <3> QED BY <3>1, <1>0, TxFullSame
  <2>2. CASE GetPort
    BY <2>2, TxFullGetPort
  <2>3. CASE TransferAggr
    <3>1. pc' = pc /\ snd'.todo = snd.todo \ {"aggr"}
      BY <2>3, <1>0, TransferAggrIs
    <3>2. PICK ok \in BOOLEAN : Flushed(ok)
      BY <2>3, <1>0, TransferAggrIs
    <3> QED BY <3>1, <3>2, <1>a
  <2>4. CASE TransferCur
    <3>1. pc = "transfer" /\ snd.pkt \in PktId
      BY <2>4, <1>0 DEF TransferCur, PcTypes, Busy
    <3>2. /\ "aggr" \notin snd.todo /\ pc' = pc /\ mpa_tx' = mpa_tx /\ snd'.todo = snd.todo \ {"cur"}
      BY <2>4, <3>1, <1>0, TransferCurIs
    <3>3. TxBlocks' = TxBlocks
      BY <1>0, <3>2, BlocksAre DEF SizesOf, SizeOf, P
    <3> QED BY <3>1, <3>2, <3>3 DEF TxFull
  <2>5. CASE Transferred
    BY <2>5, TxFullTransferred
  <2> QED BY <1>2, <2>1, <2>2, <2>3, <2>4, <2>5 DEF PortStep
<1>3. CASE LoopStep /\ UNCHANGED <<snd, mpa_tx, card>>
  <2>1. pc # "transfer" /\ pc' # "transfer"
    BY <1>3, LoopIs DEF Busy
  <2> QED BY <2>1, <1>0, <1>3, TxFullSame
<1>4. CASE YieldToCmd /\ UNCHANGED <<wr, snd, intvars>>
  <2>1. pc = "again" /\ pc' = "loop"
    BY <1>4 DEF YieldToCmd
  <2>2. CASE TxInProgress
    <3>1. PICK ok \in BOOLEAN : Flushed(ok)
      BY <2>2, <1>4, <1>0, YieldIs
    <3> QED BY <2>1, <3>1, <1>a
  <2>3. CASE ~TxInProgress
    <3>1. mpa_tx' = mpa_tx
      BY <2>3, <1>4, <1>0, YieldIs
    <3> QED BY <2>1, <3>1, <1>0, TxFullSame
  <2> QED BY <2>2, <2>3
<1>5. CASE RxNext(regs.rd) /\ UNCHANGED <<snd, txvars, intvars>>
  <2>1. pc # "transfer" /\ pc' # "transfer"
    BY <1>5, <1>0, RxPcIs DEF PcTypes, Busy
  <2> QED BY <2>1, <1>0, <1>5, TxFullSame DEF txvars
<1>6. CASE CardStep /\ UNCHANGED <<snd, pc, wr, mpa_tx>>
  BY <1>6, <1>0, TxFullSame
<1>7. CASE UNCHANGED allvars
  BY <1>7, <1>0, TxFullSame DEF allvars, wmmvars, txvars
<1> QED BY <1>1, <1>2, <1>3, <1>4, <1>5, <1>6, <1>7, StepKinds

\* It holds initially.
LEMMA TxFullInit == ASSUME SdioInit PROVE TxFull
<1>1. mpa_tx = NoAggr /\ pc = "loop" /\ load \in Loads
  BY DEF SdioInit, SdioRxInit, SdioTxInit, WmmInit
<1>2. mpa_tx.pkts = <<>> /\ TxPktLimit \in Nat \ {0} /\ TxBufSize \in Nat
  BY <1>1, SdioTxAssumption DEF NoAggr
<1>3. <<>> \in Seq(PktId) /\ <<>> \in Seq(Nat)
  OBVIOUS
<1>4. SizesOf(<<>>) = <<>>
  BY <1>1, <1>3, SizesAre
<1>5. Total(<<>>) = 0
  BY <1>3, TotalIs
<1>6. TxBlocks = 0
  <2> DEFINE f == [i \in DOMAIN mpa_tx.pkts |-> SizeOf(mpa_tx.pkts[i])]
  <2>1. TxBlocks = Sum(f, DOMAIN mpa_tx.pkts)
    BY DEF TxBlocks, SizeOf, P, MapThenSumSet, MapThenFoldSet, Sum, IterOf, Some1
  <2>2. SizesOf(mpa_tx.pkts) = f /\ DOMAIN f = DOMAIN mpa_tx.pkts
    BY DEF SizesOf
  <2> HIDE DEF f
  <2> QED BY <2>1, <2>2, <1>2, <1>4, <1>5 DEF Total
<1>7. Len(mpa_tx.pkts) = 0
  BY <1>2
<1> QED BY <1>1, <1>2, <1>6, <1>7 DEF TxFull

--------------------------------------------------------------------------------
(* The aggregation buffer of the read path is not overrun.                   *)

\* The buffers in the aggregation leave room for another one, but where nothing is left to
\* do but read them; one that waits behind them is not the only one the aggregation takes.
RxFull ==
  /\ Total(mpa_rx.lens) <= RxBufSize /\ Len(mpa_rx.bufs) <= RxPktLimit
  /\ rcv.todo # {"aggr"} => Len(mpa_rx.bufs) < RxPktLimit
  /\ "post" \in rcv.todo => RxPktLimit >= 2

\* The lengths are numbers.
LEMMA LensNat == ASSUME NEW l \in RxLens PROVE l \in Seq(Nat)
<1>1. l \in Seq(0 .. RxBufSize) /\ RxBufSize \in Nat
  BY SdioRxAssumption DEF RxLens
<1>2. l \in [1 .. Len(l) -> 0 .. RxBufSize] /\ Len(l) \in Nat
  BY <1>1
<1>3. l \in [1 .. Len(l) -> Nat]
  BY <1>1, <1>2
<1> QED BY <1>2, <1>3, SeqDef

\* A buffer put into the aggregation.
LEMMA RxPutIs ==
  ASSUME RxTypes, NEW buf \in Nat, NEW port \in RdPort, NEW len \in 0 .. RxBufSize,
         mpa_rx' = RxSetup(buf, port, len)
  PROVE  /\ Total(mpa_rx.lens) \in Nat /\ Len(mpa_rx.bufs) \in Nat
         /\ Total(mpa_rx'.lens) = Total(mpa_rx.lens) + len
         /\ Len(mpa_rx'.bufs) = Len(mpa_rx.bufs) + 1
         /\ ~RxInProgress => Total(mpa_rx.lens) = 0 /\ Len(mpa_rx.bufs) = 0
         /\ RxInProgress => Len(mpa_rx.bufs) >= 1
<1> DEFINE l == mpa_rx.lens
           b == mpa_rx.bufs
<1>1. b \in Seq(Nat) /\ Len(l) = Len(b) /\ len \in Nat /\ l \in RxLens
  BY SdioRxAssumption DEF RxTypes
<1>2. mpa_rx'.lens = Append(l, len) /\ mpa_rx'.bufs = Append(b, buf)
  BY DEF RxSetup
<1>3. RxInProgress <=> b # <<>>
  BY DEF RxInProgress
<1> HIDE DEF l, b
<1>4. l \in Seq(Nat)
  BY <1>1, LensNat
<1>5. Len(Append(b, buf)) = Len(b) + 1 /\ Len(b) \in Nat /\ (b = <<>> <=> Len(b) = 0)
  BY <1>1
<1>6. b = <<>> => l = <<>>
  BY <1>1, <1>4, <1>5
<1>7. /\ Total(l) \in Nat /\ (l = <<>> => Total(l) = 0)
      /\ Total(Append(l, len)) = Total(l) + len
  BY <1>1, <1>4, TotalIs
<1>8. Total(l) \in Nat /\ Len(b) \in Nat /\ Total(mpa_rx'.lens) = Total(l) + len
  BY <1>2, <1>5, <1>7
<1>9. Len(mpa_rx'.bufs) = Len(b) + 1
  BY <1>2, <1>5
<1>10. ~RxInProgress => Total(l) = 0 /\ Len(b) = 0
  BY <1>3, <1>5, <1>6, <1>7
<1>11. RxInProgress => Len(b) >= 1
  BY <1>3, <1>5
<1> QED BY <1>8, <1>9, <1>10, <1>11 DEF l, b

\* The empty aggregation.
LEMMA RxEmptied ==
  /\ Total(NoRxAggr.lens) = 0 /\ Len(NoRxAggr.bufs) = 0
  /\ RxBufSize \in Nat /\ RxPktLimit \in Nat \ {0}
<1>1. <<>> \in Seq(Nat)
  OBVIOUS
<1>2. Total(<<>>) = 0
  BY <1>1, TotalIs
<1> QED BY <1>2, SdioRxAssumption DEF NoRxAggr

\* A packet is taken off the ports.
LEMMA RxFullGet ==
  ASSUME TxSide, RxSide, RxFull, RxGet(regs.rd)
  PROVE  RxFull'
<1>0. RxTypes /\ RxStages /\ load \in Loads
  BY DEF RxSide, TxSide, LeftTypes
<1>1. /\ pc = "upload" /\ rd.curr \in rd.map
      /\ GetPuts \/ GetWaits
  BY RxGetIs
<1>2. rcv.todo = {}
  BY <1>0, <1>1 DEF RxStages
<1>3. Len(mpa_rx.bufs) < RxPktLimit /\ RxPktLimit \in Nat /\ RxBufSize \in Nat
  BY <1>2, SdioRxAssumption DEF RxFull
<1>4. CASE GetPuts
  <2> DEFINE len == regs.rd[rd.curr]
             buf == Len(rxbuf) + 1
  <2>1. rd.curr \in RdPort /\ len \in 0 .. RxBufSize /\ buf \in Nat /\ len \in Nat
    <3>1. rd.curr \in RdPort /\ regs.rd \in [RdPort -> 0 .. RxBufSize] /\ rxbuf \in Seq(Fates)
      BY <1>0, <1>1 DEF RxTypes
    <3>2. len \in 0 .. RxBufSize
      BY <3>1
    <3>3. len \in Nat
      BY <1>3, <3>2
    <3>4. buf \in Nat
      BY <3>1
    <3> QED BY <3>1, <3>2, <3>3, <3>4
  <2>2. mpa_rx' = RxSetup(buf, rd.curr, len) /\ (RxInProgress => RxRoom(len))
    BY <1>4 DEF GetPuts
  <2>3. /\ rcv'.todo = {} \/ rcv'.todo = {"aggr"}
        /\ Len(mpa_rx.bufs) + 1 = RxPktLimit => "aggr" \in rcv'.todo
    BY <1>4 DEF GetPuts
  <2> HIDE DEF len, buf
  <2>4. /\ Total(mpa_rx.lens) \in Nat /\ Len(mpa_rx.bufs) \in Nat
        /\ Total(mpa_rx'.lens) = Total(mpa_rx.lens) + len
        /\ Len(mpa_rx'.bufs) = Len(mpa_rx.bufs) + 1
        /\ ~RxInProgress => Total(mpa_rx.lens) = 0
    BY <1>0, <2>1, <2>2, RxPutIs
  <2>5. Total(mpa_rx'.lens) <= RxBufSize
    <3>1. RxInProgress => Total(mpa_rx.lens) + len <= RxBufSize
      BY <2>2, RxRoomIs
    <3> QED BY <1>3, <2>1, <2>4, <3>1
  <2>6. Len(mpa_rx'.bufs) <= RxPktLimit
    BY <1>3, <2>4
  <2>7. rcv'.todo # {"aggr"} => Len(mpa_rx'.bufs) < RxPktLimit
    BY <1>3, <2>3, <2>4
  <2> QED BY <2>3, <2>5, <2>6, <2>7 DEF RxFull
<1>5. CASE GetWaits
  <2>1. mpa_rx' = mpa_rx
    BY <1>5 DEF GetWaits
  <2>2. "post" \in rcv'.todo => RxInProgress
    BY <1>5 DEF GetWaits
  <2>3. RxInProgress => Len(mpa_rx.bufs) >= 1
    <3>1. mpa_rx.bufs \in Seq(Nat) /\ (RxInProgress => mpa_rx.bufs # <<>>)
      BY <1>0 DEF RxTypes, RxInProgress
    <3> QED BY <3>1
  <2>4. Len(mpa_rx.bufs) \in Nat
    BY <1>0 DEF RxTypes
  <2>5. "post" \in rcv'.todo => RxPktLimit >= 2
    BY <1>3, <2>2, <2>3, <2>4
  <2> QED BY <1>3, <2>1, <2>5 DEF RxFull
<1> QED BY <1>1, <1>4, <1>5

\* The aggregation is left alone, or emptied.
LEMMA RxFullKept ==
  ASSUME RxFull, mpa_rx' = mpa_rx \/ mpa_rx' = NoRxAggr,
         rcv'.todo # {"aggr"} /\ mpa_rx' = mpa_rx => Len(mpa_rx.bufs) < RxPktLimit,
         "post" \in rcv'.todo => "post" \in rcv.todo
  PROVE  RxFull'
<1>1. CASE mpa_rx' = mpa_rx
  BY <1>1 DEF RxFull
<1>2. CASE mpa_rx' = NoRxAggr
  <2>1. /\ Total(mpa_rx'.lens) = 0 /\ Len(mpa_rx'.bufs) = 0
        /\ RxBufSize \in Nat /\ RxPktLimit \in Nat \ {0}
    BY <1>2, RxEmptied
  <2> QED BY <2>1 DEF RxFull
<1> QED BY <1>1, <1>2

\* The loop ends, or the packet that waited is put into the buffer.
LEMMA RxFullEnd ==
  ASSUME TxSide, RxSide, RxFull, RxEnd
  PROVE  RxFull'
<1>0. RxTypes /\ RxStages
  BY DEF RxSide
<1>1. /\ rcv.todo \subseteq {"post"} /\ rcv' = NoRcv
      /\ mpa_rx' = IF "post" \in rcv.todo THEN RxSetup(rcv.buf, rcv.port, rcv.len) ELSE mpa_rx
  BY DEF RxEnd
<1>2. rcv'.todo = {}
  BY <1>1 DEF NoRcv
<1>3. CASE "post" \in rcv.todo
  <2>1. ~RxInProgress /\ RxPktLimit >= 2 /\ RxPktLimit \in Nat /\ RxBufSize \in Nat
    BY <1>0, <1>1, <1>3, SdioRxAssumption DEF RxStages, RxFull
  <2>2. rcv.buf \in Nat /\ rcv.port \in RdPort /\ rcv.len \in 0 .. RxBufSize
    BY <1>0 DEF RxTypes
  <2>3. /\ Total(mpa_rx'.lens) = Total(mpa_rx.lens) + rcv.len
        /\ Len(mpa_rx'.bufs) = Len(mpa_rx.bufs) + 1
        /\ Total(mpa_rx.lens) = 0 /\ Len(mpa_rx.bufs) = 0
    BY <1>0, <1>1, <1>3, <2>1, <2>2, RxPutIs
  <2>4. /\ Total(mpa_rx'.lens) <= RxBufSize /\ Len(mpa_rx'.bufs) < RxPktLimit
        /\ Len(mpa_rx'.bufs) <= RxPktLimit
    BY <2>1, <2>2, <2>3
  <2> QED BY <1>2, <2>4 DEF RxFull
<1>4. CASE "post" \notin rcv.todo
  <2>1. rcv.todo # {"aggr"} /\ mpa_rx' = mpa_rx
    BY <1>1, <1>4
  <2> QED BY <1>2, <2>1 DEF RxFull
<1> QED BY <1>3, <1>4

\* So does the read path.
LEMMA RxFullStep ==
  ASSUME TxSide, RxSide, RxFull, [SdioNext]_allvars
  PROVE  RxFull'
<1>0. /\ RxTypes /\ RxStages /\ load' = load /\ LeftTypes
  BY RxKinds DEF RxSide, TxSide
<1>1. CASE RxNext(regs.rd) /\ UNCHANGED intvars
  <2>1. CASE RxGet(regs.rd)
    BY <2>1, RxFullGet
  <2>2. CASE RxGetNoBuf(regs.rd)
    <3>1. mpa_rx' = mpa_rx /\ rcv.todo = {} /\ "post" \notin rcv'.todo
      BY <1>0, <2>2, RxGetNoBufIs DEF RxStages
    <3>2. Len(mpa_rx.bufs) < RxPktLimit
      BY <3>1 DEF RxFull
    <3> QED BY <3>1, <3>2, RxFullKept
  <2>3. CASE RxGetNone
    <3>1. UNCHANGED <<mpa_rx, rcv>>
      BY <2>3 DEF RxGetNone, rxvars
    <3> QED BY <3>1 DEF RxFull
  <2>4. CASE ReadAggr
    <3>1. mpa_rx' = NoRxAggr /\ rcv'.todo = rcv.todo \ {"aggr"}
      BY <1>0, <2>4, ReadAggrIs
    <3>2. RxInProgress /\ mpa_rx' # mpa_rx
      <4>1. RxInProgress
        BY <1>0, <2>4 DEF ReadAggr, RxStages
      <4> QED BY <3>1, <4>1 DEF RxInProgress, NoRxAggr
    <3> QED BY <3>1, <3>2, RxFullKept
  <2>5. CASE ReadAggrFails
    <3>1. mpa_rx' = NoRxAggr /\ rcv'.todo = {}
      BY <2>5 DEF ReadAggrFails, NoRcv
    <3>2. RxInProgress
      BY <1>0, <2>5 DEF ReadAggrFails, RxStages
    <3>3. mpa_rx' # mpa_rx
      BY <3>1, <3>2 DEF RxInProgress, NoRxAggr
    <3> QED BY <3>1, <3>3, RxFullKept
  <2>6. CASE ReadAggrFailsIgnored
    <3>1. /\ "drop" \in rcv.todo
          /\ mpa_rx' = mpa_rx \/ mpa_rx' = NoRxAggr
          /\ rcv'.todo = rcv.todo \ {"aggr"}
      <4>1. rcv' = [rcv EXCEPT !.todo = @ \ {"aggr"}]
        BY <2>6 DEF ReadAggrFailsIgnored
      <4>2. rcv'.todo = rcv.todo \ {"aggr"}
        BY <1>0, <4>1 DEF RxTypes, RcvF
      <4> QED BY <2>6, <4>2 DEF ReadAggrFailsIgnored
    <3>2. Len(mpa_rx.bufs) < RxPktLimit
      BY <3>1 DEF RxFull
    <3> QED BY <3>1, <3>2, RxFullKept
  <2>7. CASE ReadCur
    <3>1. mpa_rx' = mpa_rx /\ rcv.todo = {"cur"} /\ rcv'.todo = {}
      BY <1>0, <2>7, ReadCurIs
    <3>2. Len(mpa_rx.bufs) < RxPktLimit
      BY <3>1 DEF RxFull
    <3> QED BY <3>1, <3>2, RxFullKept
  <2>8. CASE ReadCurFails \/ ReadAndDrop
    <3>1. /\ mpa_rx' = mpa_rx /\ rcv'.todo = {}
          /\ "cur" \in rcv.todo \/ "drop" \in rcv.todo
      BY <2>8 DEF ReadCurFails, ReadAndDrop, NoRcv
    <3>2. Len(mpa_rx.bufs) < RxPktLimit
      BY <3>1 DEF RxFull
    <3> QED BY <3>1, <3>2, RxFullKept
  <2>9. CASE RxEnd
    BY <2>9, RxFullEnd
  <2> QED BY <1>1, <2>1, <2>2, <2>3, <2>4, <2>5, <2>6, <2>7, <2>8, <2>9 DEF RxNext
<1>2. CASE UNCHANGED <<mpa_rx, rcv>>
  BY <1>2 DEF RxFull
<1> QED BY <1>1, <1>2, RxKinds, OtherRx

\* It holds initially.
LEMMA RxFullInit == ASSUME SdioInit PROVE RxFull
<1>1. mpa_rx = NoRxAggr /\ rcv.todo = {}
  BY DEF SdioInit, SdioRxInit, NoRcv
<1> QED BY <1>1, RxEmptied DEF RxFull

\* The aggregation buffers of wlan_host_to_card_mp_aggr and
\* wlan_sdio_card_to_host_mp_aggr are never filled beyond buf_size or pkt_aggr_limit:
\* each decides to empty its buffer before the packet that would not fit is copied,
\* and a packet that waits for that fits (mlan_sdio.c); and every other variable has
\* its type.
THEOREM SdioTyped == SdioSpec => []SdioTypeOK
<1>1. SdioInit => TxSide /\ PortInv /\ RxSide /\ TxFull /\ RxFull
  BY TxSideInit, PortInvInit, RxSideInit, TxFullInit, RxFullInit
<1>2. TxSide /\ PortInv /\ RxSide /\ TxFull /\ RxFull /\ [SdioNext]_allvars
        => TxSide' /\ PortInv' /\ RxSide' /\ TxFull' /\ RxFull'
  BY TxSideStep, PortInvStep, RxSideStep, TxFullStep, RxFullStep
<1>3. TxSide /\ RxSide /\ TxFull /\ RxFull => SdioTypeOK
  <2> SUFFICES ASSUME TxSide, RxSide, TxFull, RxFull PROVE SdioTypeOK
    OBVIOUS
  <2>1. RxRoom(0)
    <3>1. Total(mpa_rx.lens) \in Nat /\ Total(mpa_rx.lens) <= RxBufSize
      <4>2. mpa_rx.lens \in Seq(Nat)
        BY LensNat DEF RxSide, RxTypes
      <4> QED BY <4>2, TotalIs DEF RxFull
    <3>2. Total(mpa_rx.lens) + 0 = Total(mpa_rx.lens)
      BY <3>1
    <3> QED BY <3>1, <3>2, RxRoomIs
  <2>2. /\ TxBlocks <= TxBufSize /\ Len(mpa_tx.pkts) <= TxPktLimit
        /\ Len(mpa_rx.bufs) <= RxPktLimit
    BY DEF TxFull, RxFull
  <2>3. /\ rd.map \subseteq RdPort /\ rd.curr \in RdPort /\ broken \in BOOLEAN
    BY DEF RxSide, RxTypes
  <2>4. wmm.highest \in Prio \cup {NO_PKT_PRIO_TID} /\ wmm.requeued \subseteq PktId
    BY DEF TxSide, WmmTypes, Highest
  <2>5. sent \in BOOLEAN /\ pc \in Labels
    BY DEF TxSide, PcTypes
  <2>6. wr.map \subseteq WrPort /\ wr.curr \in WrPort /\ card.free \subseteq WrPort
    BY DEF TxSide, TxTypes
  <2>7. ireg \subseteq Interrupts /\ irq \subseteq Interrupts /\ raised \subseteq Interrupts
    BY DEF TxSide, IntTypes
  <2> QED BY <2>1, <2>2, <2>3, <2>4, <2>5, <2>6, <2>7 DEF SdioTypeOK, Labels, Busy
<1> QED BY <1>1, <1>2, <1>3, PTL DEF SdioSpec
================================================================================
