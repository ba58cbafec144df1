---------------------------------- MODULE Sdio ----------------------------------
(***************************************************************************)
(* An SDIO card with its data path: the transmit queues and the write path *)
(* (WmmQueues, SdioTx), the read path (SdioRx), the interrupt handler that *)
(* takes a snapshot of the card's registers, and the loop of the main      *)
(* process (mlan_main_process) that serves what the handler noted and then *)
(* sends.                                                                  *)
(***************************************************************************)
EXTENDS SdioRx

CONSTANT Batches  \* bound: how many ports the card offers or uses at once

ASSUME BatchesAssumption == Batches \subseteq 1 .. MpEndPort

VARIABLES
  raised,   \* the interrupts the card raises
  regs,     \* mp_regs: the bitmaps and lengths the handler read last
  irq,      \* the interrupts the handler read and has not noted yet
  ireg,     \* pmadapter->ireg
  ints      \* sdio_ireg: what the main process took of it

intvars == <<raised, regs, irq, ireg, ints>>
allvars == <<wmmvars, txvars, rxvars, intvars>>

\* DN_LD, UP_LD and UP_LD_CMD_PORT of the host interrupt status.
Interrupts == {"DN_LD", "UP_LD", "CMD"}

SdioInit ==
  /\ SdioRxInit
  /\ raised = {} /\ irq = {} /\ ireg = {} /\ ints = {}
  /\ regs = [wr |-> {}, rd |-> [p \in RdPort |-> 0]]

--------------------------------------------------------------------------------
(* The card: it offers new write ports, or posts packets, when the driver    *)
(* has used the ones before, and raises an interrupt.                        *)
CardGrants ==
  /\ card.free = {}
  /\ \E n \in Batches :
       card' = [card EXCEPT !.free = @ \cup Granted(n), !.next = WrNext(@, n)]
  /\ raised' = raised \cup {"DN_LD"}
  /\ UNCHANGED <<wmmvars, wr, mpa_tx, rxvars, regs, irq, ireg, ints>>

CardSends ==
  /\ Unread = {}
  /\ \E n \in Batches :
       /\ n <= Len(load.rx) - post.count
       /\ post' = [at |-> [p \in RdPort |->
                       LET i == (p + MaxPorts - post.next) % MaxPorts
                       IN  IF i < n THEN post.count + i + 1 ELSE post.at[p]],
                   next |-> RdNext(post.next, n), count |-> post.count + n]
  /\ raised' = raised \cup {"UP_LD"}
  /\ UNCHANGED <<wmmvars, txvars, rd, mpa_rx, rcv, rxbuf, up, broken, regs, irq, ireg, ints>>

CardAnswers ==
  /\ Spend("cmd")
  /\ raised' = raised \cup {"CMD"}
  /\ UNCHANGED <<load, wmm, snd, pc, sent, done, txvars, rxvars, regs, irq, ireg, ints>>

(* wlan_sdio_interrupt: the read of the registers, which clears the status,  *)
(* and the note under pint_lock.                                             *)
IrqRead ==
  /\ raised # {} /\ irq = {}
  /\ regs' = [wr |-> card.free,
              rd |-> [p \in RdPort |-> IF p \in Unread THEN load.rx[post.at[p]] ELSE 0]]
  /\ irq' = raised /\ raised' = {}
  /\ UNCHANGED <<wmmvars, txvars, rxvars, ireg, ints>>
IrqNote ==
  /\ irq # {}
  /\ ireg' = ireg \cup irq /\ irq' = {}
  /\ UNCHANGED <<wmmvars, txvars, rxvars, raised, regs, ints>>

--------------------------------------------------------------------------------
(* wlan_process_sdio_int_status.                                            *)
TakeInts ==
  /\ pc = "loop" /\ ireg # {}
  /\ ints' = ireg /\ ireg' = {}
  /\ pc' = "status"
  /\ UNCHANGED <<load, wmm, snd, sent, done, left, txvars, rxvars, raised, regs, irq>>

Status_KeepSent ==
  /\ pc = "status"
  /\ IF "DN_LD" \in ints
       THEN /\ wr' = [wr EXCEPT !.map = regs.wr]
            /\ UNCHANGED sent
       ELSE UNCHANGED <<wr, sent>>
  /\ IF "UP_LD" \in ints
       THEN rd' = [rd EXCEPT !.map = {p \in RdPort : regs.rd[p] # 0}] /\ pc' = "upload"
       ELSE pc' = "send" /\ UNCHANGED rd
  /\ ints' = {}
  /\ UNCHANGED <<load, wmm, snd, done, left, mpa_tx, card,
                 mpa_rx, rcv, rxbuf, up, post, broken, raised, regs, irq, ireg>>

\* Download ready: the new bitmap, and an end to data_sent if the next port is in
\* it.  Upload ready: the bitmap for the loop of RxGet.
Status ==
  /\ pc = "status"
  /\ IF "DN_LD" \in ints
       THEN /\ wr' = [wr EXCEPT !.map = regs.wr]
            /\ sent' = (sent /\ wr.curr \notin regs.wr)
       ELSE UNCHANGED <<wr, sent>>
  /\ IF "UP_LD" \in ints
       THEN rd' = [rd EXCEPT !.map = {p \in RdPort : regs.rd[p] # 0}] /\ pc' = "upload"
       ELSE pc' = "send" /\ UNCHANGED rd
  /\ ints' = {}
  /\ UNCHANGED <<load, wmm, snd, done, left, mpa_tx, card,
                 mpa_rx, rcv, rxbuf, up, post, broken, raised, regs, irq, ireg>>

--------------------------------------------------------------------------------
(* mlan_main_process: after the interrupts it sends if it can.               *)
MaySend == ~sent /\ ~ListsEmpty
StartTx ==
  /\ pc = "send" \/ (pc = "loop" /\ ireg = {})
  /\ MaySend
  /\ pc' = "pick"
  /\ UNCHANGED <<load, wmm, snd, sent, done, left, txvars, rxvars, intvars>>
NoTx ==
  /\ pc = "send" /\ ~MaySend
  /\ pc' = "loop"
  /\ UNCHANGED <<load, wmm, snd, sent, done, left, txvars, rxvars, intvars>>

\* wlan_wmm_process_tx after a packet: a waiting command response or event ends
\* the loop, and the aggregation buffer is sent first.
Again ==
  /\ pc = "again" /\ "CMD" \notin ireg
  /\ pc' = IF MaySend THEN "pick" ELSE "loop"
  /\ UNCHANGED <<load, wmm, snd, sent, done, left, txvars, rxvars, intvars>>
YieldToCmd ==
  /\ pc = "again" /\ "CMD" \in ireg
  /\ IF TxInProgress
       THEN \E ok \in BOOLEAN : SendAggr(ok)
       ELSE UNCHANGED <<done, left, mpa_tx, card>>
  /\ pc' = "loop"
  /\ UNCHANGED <<load, wmm, snd, sent, wr, rxvars, intvars>>

TxMain == PickNone \/ Pick \/ SettleBack \/ Settle
PortMain == GetPortFails \/ GetPort \/ TransferAggr \/ TransferCur \/ Transferred
Queueing == AddBuf \/ DropTxPkt \/ DeletePeer \/ UpdateTxPause

MainStep ==
  \/ TakeInts \/ Status
  \/ StartTx \/ NoTx \/ Again \/ YieldToCmd
  \/ TxMain /\ UNCHANGED <<txvars, rxvars, intvars>>
  \/ PortMain /\ UNCHANGED <<rxvars, intvars>>
  \/ RxNext(regs.rd) /\ UNCHANGED intvars
QueueStep == Queueing /\ UNCHANGED <<txvars, rxvars, intvars>>
Card == CardGrants \/ CardSends \/ CardAnswers

SdioNext == MainStep \/ QueueStep \/ IrqRead \/ IrqNote \/ Card

\* Threads run when they can; the card gives new buffers when the old are used.
SdioFairness ==
  /\ WF_allvars(MainStep)
  /\ WF_allvars(IrqRead) /\ WF_allvars(IrqNote)
  /\ WF_allvars(CardGrants)

SdioSpec == SdioInit /\ [][SdioNext]_allvars
SdioFairSpec == SdioSpec /\ SdioFairness

--------------------------------------------------------------------------------
\* The types, and the sizes of the two aggregation buffers.
SdioTypeOK ==
  /\ wmm.highest \in Prio \cup {NO_PKT_PRIO_TID}
  /\ wmm.requeued \subseteq PktId
  /\ sent \in BOOLEAN /\ broken \in BOOLEAN
  /\ pc \in {"loop", "status", "upload", "read", "send", "pick", "getport",
             "transfer", "settle", "again"}
  /\ wr.map \subseteq WrPort /\ wr.curr \in WrPort /\ card.free \subseteq WrPort
  /\ rd.map \subseteq RdPort /\ rd.curr \in RdPort
  /\ TxBlocks <= TxBufSize /\ Len(mpa_tx.pkts) <= TxPktLimit
  /\ RxRoom(0) /\ Len(mpa_rx.bufs) <= RxPktLimit
  /\ ireg \subseteq Interrupts /\ irq \subseteq Interrupts /\ raised \subseteq Interrupts

\* The queues drain: again and again no packet waits in a list or in the
\* aggregation buffer, but those of paused stations.  (A packet that is held to
\* be aggregated with one that is then deleted or dropped waits for the next
\* packet: nothing else sends it.  And a count that is too low stops the sending.)
NextIsGone == left.del < load.del \/ left.drop < load.drop
TxDrains == []<>(NothingShort => \A k \in PktId :
                                     /\ Queued(k) => wmm.paused[P(k).sta]
                                     /\ Held(k) => NextIsGone)
================================================================================
