------------------------------- MODULE PcieRing --------------------------------
(***************************************************************************)
(* The data rings of a PCIe card (mlan_pcie.c).                            *)
(*                                                                         *)
(* The main process sends: wlan_pcie_send_data puts a packet in the slot   *)
(* at txbd_wrptr and tells the card.  The card reads the descriptors and   *)
(* moves its own read pointer.  wlan_pcie_process_tx_complete then takes   *)
(* the buffers back; the main process and two work items may run it, one   *)
(* at a time.  The receive work takes filled buffers from the receive ring *)
(* and attaches new ones.                                                  *)
(*                                                                         *)
(* A pointer is the index of a slot and, above it, the number of times the *)
(* ring was passed: modulo 2 * N on the older cards (one rollover bit),    *)
(* modulo a larger power of two with ADMA.  The two write pointers of the  *)
(* older cards share one register.                                         *)
(***************************************************************************)
EXTENDS Naturals, Sequences, FiniteSets, PcieThreads

CONSTANTS
  N,           \* txrx_bd_size, a power of two
  CompleteWork, DelayedWork,  \* pcie_tx_complete_work, pcie_delayed_tx_work
  Loads,       \* bound: how many packets are sent and received and how many
               \* events raised, [tx, rx, evt]
  MaxMapFails  \* bound: packets of the main process that cannot be mapped

ASSUME RingAssumption ==
  /\ N \in Nat \ {0}
  /\ Loads \subseteq [{"tx", "rx", "evt"} -> Nat] /\ Loads # {} /\ MaxMapFails \in Nat
  /\ Cardinality({Main, CompleteWork, DelayedWork, None}) = 4 /\ None \notin Nat

Workers == {CompleteWork, DelayedWork}
Packet == UNION {1 .. l.tx : l \in Loads}
Slots == 0 .. N - 1

VARIABLES
  load,           \* the member of Loads of this behaviour
  use_adma,       \* which family of cards this is
  \* ---- driver, transmit ----
  txbd_wrptr, txbd_rdptr, tx_buf_list, txbd_pending, data_sent,
  pcie_tx_processing, more_tx_task_flag,
  pass,           \* the run of wlan_pcie_send_data_complete in progress
  main,           \* where the main process is in wlan_pcie_send_data
  next,           \* the next packet of the transmit queue
  sched,          \* work items queued to run
  running,        \* work items inside mlan_process_pcie_interrupt_cb
  completed,      \* packets given back with success, in order
  refused,        \* packets given back with failure
  last,           \* how the last call of wlan_pcie_send_data ended
  \* ---- driver, receive ----
  rxbd_rdptr, rxbd_wrptr, rx_buf_list,
  rxwork,         \* where the receive work is
  rxsched,        \* the receive work is queued
  rx_data_queue,  \* what it has queued for the main process
  \* ---- card ----
  reg_tx, reg_rx, \* the write pointers as the card sees them
  fw_tx, fw_rx,   \* the read pointers, moved by the card
  received        \* packets it has written in the receive ring

txvars == <<txbd_wrptr, txbd_rdptr, tx_buf_list, txbd_pending, data_sent,
            pcie_tx_processing, more_tx_task_flag, pass, main, next, sched,
            running, completed, refused, last, fw_tx>>
rxvars == <<rxbd_rdptr, rxbd_wrptr, rx_buf_list, rxwork, rxsched,
            rx_data_queue, reg_rx, fw_rx, received>>
vars == <<load, use_adma, txvars, rxvars, reg_tx>>

--------------------------------------------------------------------------------
(* Pointers *)

Span == IF use_adma THEN 4 * N ELSE 2 * N
Step_NoWrap(ptr) == ptr + 1
Step(ptr) == (ptr + 1) % Span
Index(ptr) == ptr % N
Distance(from, to) == (to + Span - from) % Span

\* PCIE_TXBD_NOT_FULL, ADMA_TXBD_IS_FULL: same slot, other lap.
TxbdNotFull ==
  \/ Index(txbd_wrptr) # Index(txbd_rdptr)
  \/ (txbd_wrptr \div N) % 2 = (txbd_rdptr \div N) % 2

TxPending == txbd_pending > 0

NoPass == [pc |-> "none", by |-> None, rdptr |-> 0, unmap_count |-> 0]

Init ==
  /\ load \in Loads /\ use_adma \in BOOLEAN
  /\ txbd_wrptr = 0 /\ txbd_rdptr = 0 /\ fw_tx = 0 /\ reg_tx = 0
  /\ tx_buf_list = [i \in Slots |-> None]
  /\ txbd_pending = 0 /\ data_sent = FALSE
  /\ pcie_tx_processing = FALSE /\ more_tx_task_flag = FALSE
  /\ pass = NoPass /\ main = [pc |-> "idle", pmbuf |-> None] /\ next = 1
  /\ sched = {} /\ running = {} /\ completed = <<>> /\ refused = {} /\ last = "sent"
  /\ rxbd_rdptr = 0 /\ rxbd_wrptr = N /\ reg_rx = N /\ fw_rx = 0
  /\ rx_buf_list = [i \in Slots |-> 0]
  /\ rxwork = [pc |-> "idle", rdptr |-> 0] /\ rxsched = FALSE
  /\ rx_data_queue = <<>> /\ received = 0

--------------------------------------------------------------------------------
(* wlan_pcie_process_tx_complete *)

\* Under pmlan_tx_lock: one thread runs it, another one leaves it a note.
EnterTxComplete(t) ==
  IF pcie_tx_processing
    THEN /\ more_tx_task_flag' = TRUE
         /\ UNCHANGED <<pcie_tx_processing, pass>>
    ELSE /\ pcie_tx_processing' = TRUE
         /\ pass' = [NoPass EXCEPT !.pc = "start", !.by = t]
         /\ UNCHANGED more_tx_task_flag

\* wlan_pcie_send_data_complete reads the pointer of the card once.
ReadTxRdptr ==
  /\ pass.pc = "start"
  /\ pass' = IF TxPending
               THEN [pass EXCEPT !.pc = "free", !.rdptr = fw_tx, !.unmap_count = 0]
               ELSE [pass EXCEPT !.pc = "again"]
  /\ UNCHANGED <<load, use_adma, txbd_wrptr, txbd_rdptr, tx_buf_list, txbd_pending,
                 data_sent, pcie_tx_processing, more_tx_task_flag, main, next,
                 sched, running, completed, refused, last, fw_tx, rxvars, reg_tx>>

FreeTxBuf_Newest ==
  /\ pass.pc = "free" /\ txbd_rdptr # pass.rdptr
  /\ LET pmbuf == tx_buf_list[Index(pass.rdptr + Span - 1)]
     IN /\ completed' = Append(completed, pmbuf)
        /\ pass' = [pass EXCEPT !.unmap_count = @ + 1]
        /\ tx_buf_list' = [tx_buf_list EXCEPT ![Index(txbd_rdptr)] = None]
  /\ txbd_rdptr' = Step(txbd_rdptr)
  /\ UNCHANGED <<load, use_adma, txbd_wrptr, txbd_pending, data_sent,
                 pcie_tx_processing, more_tx_task_flag, main, next, sched,
                 running, refused, last, fw_tx, rxvars, reg_tx>>

\* One turn of its loop: the buffer goes back to its owner, the slot is free.
FreeTxBuf ==
  /\ pass.pc = "free" /\ txbd_rdptr # pass.rdptr
  /\ LET wrdoneidx == Index(txbd_rdptr)
         pmbuf == tx_buf_list[wrdoneidx]
     IN /\ IF pmbuf # None
             THEN /\ completed' = Append(completed, pmbuf)
                  /\ pass' = [pass EXCEPT !.unmap_count = @ + 1]
             ELSE UNCHANGED <<completed, pass>>
        /\ tx_buf_list' = [tx_buf_list EXCEPT ![wrdoneidx] = None]
  /\ txbd_rdptr' = Step(txbd_rdptr)
  /\ UNCHANGED <<load, use_adma, txbd_wrptr, txbd_pending, data_sent,
                 pcie_tx_processing, more_tx_task_flag, main, next, sched,
                 running, refused, last, fw_tx, rxvars, reg_tx>>

SettleTx_One ==
  /\ pass.pc = "free" /\ txbd_rdptr = pass.rdptr
  /\ txbd_pending' = IF pass.unmap_count > 0 THEN txbd_pending - 1 ELSE txbd_pending
  /\ data_sent' = (data_sent /\ pass.unmap_count = 0)
  /\ pass' = [pass EXCEPT !.pc = "again", !.unmap_count = 0]
  /\ UNCHANGED <<load, use_adma, txbd_wrptr, txbd_rdptr, tx_buf_list,
                 pcie_tx_processing, more_tx_task_flag, main, next, sched,
                 running, completed, refused, last, fw_tx, rxvars, reg_tx>>

\* Under pmlan_pcie_lock.
SettleTx ==
  /\ pass.pc = "free" /\ txbd_rdptr = pass.rdptr
  /\ txbd_pending' = txbd_pending - pass.unmap_count
  /\ data_sent' = (data_sent /\ pass.unmap_count = 0)
  /\ pass' = [pass EXCEPT !.pc = "again", !.unmap_count = 0]
  /\ UNCHANGED <<load, use_adma, txbd_wrptr, txbd_rdptr, tx_buf_list,
                 pcie_tx_processing, more_tx_task_flag, main, next, sched,
                 running, completed, refused, last, fw_tx, rxvars, reg_tx>>

AgainTx_Forgets ==
  /\ pass.pc = "again" /\ pass' = NoPass
  /\ pcie_tx_processing' = FALSE /\ more_tx_task_flag' = FALSE
  /\ UNCHANGED <<load, use_adma, txbd_wrptr, txbd_rdptr, tx_buf_list, txbd_pending,
                 data_sent, main, next, sched, running, completed, refused, last,
                 fw_tx, rxvars, reg_tx>>

\* Under pmlan_tx_lock.
AgainTx ==
  /\ pass.pc = "again"
  /\ IF more_tx_task_flag
       THEN /\ more_tx_task_flag' = FALSE
            /\ pass' = [pass EXCEPT !.pc = "start"]
            /\ UNCHANGED pcie_tx_processing
       ELSE /\ pcie_tx_processing' = FALSE
            /\ pass' = NoPass
            /\ UNCHANGED more_tx_task_flag
  /\ UNCHANGED <<load, use_adma, txbd_wrptr, txbd_rdptr, tx_buf_list, txbd_pending,
                 data_sent, main, next, sched, running, completed, refused, last,
                 fw_tx, rxvars, reg_tx>>

\* mlan_process_pcie_interrupt_cb(TX_COMPLETE), from either work item.
WorkStart(w) ==
  /\ w \in sched \ running
  /\ sched' = sched \ {w}
  /\ IF TxPending
       THEN EnterTxComplete(w) /\ running' = running \union {w}
       ELSE UNCHANGED <<pcie_tx_processing, more_tx_task_flag, pass, running>>
  /\ UNCHANGED <<load, use_adma, txbd_wrptr, txbd_rdptr, tx_buf_list, txbd_pending,
                 data_sent, main, next, completed, refused, last, fw_tx, rxvars, reg_tx>>

\* Its end: with ADMA not every descriptor raises an interrupt, so the delayed
\* work looks again as long as something is pending.
DelayTxComplete ==
  sched' = IF use_adma /\ TxPending THEN sched \union {DelayedWork} ELSE sched

WorkEnd(w) ==
  /\ w \in running /\ pass.by # w
  /\ running' = running \ {w}
  /\ DelayTxComplete
  /\ UNCHANGED <<load, use_adma, txbd_wrptr, txbd_rdptr, tx_buf_list, txbd_pending,
                 data_sent, pcie_tx_processing, more_tx_task_flag, pass, main,
                 next, completed, refused, last, fw_tx, rxvars, reg_tx>>

--------------------------------------------------------------------------------
(* wlan_pcie_send_data, called from the transmit loop of the main process   *)
(* (wlan_wmm_process_tx) as long as data_sent is clear.                     *)

SendStart ==
  /\ main.pc = "idle" /\ ~data_sent /\ next <= load.tx
  /\ main' = [pc |-> "room", pmbuf |-> next]
  /\ next' = next + 1
  /\ IF use_adma /\ TxPending
       THEN EnterTxComplete(Main)
       ELSE UNCHANGED <<pcie_tx_processing, more_tx_task_flag, pass>>
  /\ UNCHANGED <<load, use_adma, txbd_wrptr, txbd_rdptr, tx_buf_list, txbd_pending,
                 data_sent, sched, running, completed, refused, last, fw_tx, rxvars, reg_tx>>

SendRoom ==
  /\ main.pc = "room" /\ pass.by # Main
  /\ main' = [main EXCEPT !.pc = IF TxbdNotFull THEN "map" ELSE "full"]
  /\ data_sent' = (TxbdNotFull \/ data_sent)
  /\ UNCHANGED <<load, use_adma, txbd_wrptr, txbd_rdptr, tx_buf_list, txbd_pending,
                 pcie_tx_processing, more_tx_task_flag, pass, next, sched,
                 running, completed, refused, last, fw_tx, rxvars, reg_tx>>

\* The ring was full: the packet is given back (wlan_process_tx).
SendFull ==
  /\ main.pc = "full"
  /\ data_sent' = TRUE
  /\ refused' = refused \union {main.pmbuf} /\ last' = "full"
  /\ main' = [pc |-> "end", pmbuf |-> None]
  /\ UNCHANGED <<load, use_adma, txbd_wrptr, txbd_rdptr, tx_buf_list, txbd_pending,
                 pcie_tx_processing, more_tx_task_flag, pass, next, sched,
                 running, completed, fw_tx, rxvars, reg_tx>>

\* moal_map_memory fails: the packet is given back, data_sent stays set.
SendMapFails ==
  /\ main.pc = "map" /\ Cardinality(refused) < MaxMapFails
  /\ refused' = refused \union {main.pmbuf} /\ last' = "unmapped"
  /\ main' = [pc |-> "end", pmbuf |-> None]
  /\ UNCHANGED <<load, use_adma, txbd_wrptr, txbd_rdptr, tx_buf_list, txbd_pending,
                 data_sent, pcie_tx_processing, more_tx_task_flag, pass, next,
                 sched, running, completed, fw_tx, rxvars, reg_tx>>

\* What the older cards write beside the pointer that changes.
RxbdVal == IF use_adma THEN reg_rx ELSE rxbd_wrptr
TxbdVal == IF use_adma THEN reg_tx ELSE txbd_wrptr

\* Under pmlan_pcie_lock.
SendAttach ==
  /\ main.pc = "map"
  /\ tx_buf_list' = [tx_buf_list EXCEPT ![Index(txbd_wrptr)] = main.pmbuf]
  /\ txbd_wrptr' = Step(txbd_wrptr)
  /\ txbd_pending' = txbd_pending + 1
  /\ reg_tx' = Step(txbd_wrptr) /\ reg_rx' = RxbdVal
  /\ main' = [pc |-> "sent", pmbuf |-> None] /\ last' = "sent"
  /\ UNCHANGED <<load, use_adma, txbd_rdptr, data_sent, pcie_tx_processing,
                 more_tx_task_flag, pass, next, sched, running, completed,
                 refused, fw_tx, rxbd_rdptr, rxbd_wrptr, rx_buf_list, rxwork,
                 rxsched, rx_data_queue, fw_rx, received>>

\* Room for one more, or else look whether the card has finished some.
SendSent ==
  /\ main.pc = "sent"
  /\ main' = [main EXCEPT !.pc = "end"]
  /\ IF TxbdNotFull
       THEN /\ data_sent' = FALSE
            /\ UNCHANGED <<pcie_tx_processing, more_tx_task_flag, pass>>
       ELSE EnterTxComplete(Main) /\ UNCHANGED data_sent
  /\ UNCHANGED <<load, use_adma, txbd_wrptr, txbd_rdptr, tx_buf_list, txbd_pending,
                 next, sched, running, completed, refused, last, fw_tx, rxvars, reg_tx>>

\* The transmit loop goes round, or the main loop comes to its end.
MainEnd ==
  /\ main.pc = "end" /\ pass.by # Main
  /\ main' = [main EXCEPT !.pc = "idle"]
  /\ IF ~data_sent /\ next <= load.tx THEN UNCHANGED sched ELSE DelayTxComplete
  /\ UNCHANGED <<load, use_adma, txbd_wrptr, txbd_rdptr, tx_buf_list, txbd_pending,
                 data_sent, pcie_tx_processing, more_tx_task_flag, pass, next,
                 running, completed, refused, last, fw_tx, rxvars, reg_tx>>

--------------------------------------------------------------------------------
(* wlan_pcie_process_recv_data, in the receive work                         *)

RxStart ==
  /\ rxwork.pc = "idle" /\ rxsched
  /\ rxsched' = FALSE
  /\ rxwork' = [pc |-> "loop", rdptr |-> fw_rx]
  /\ UNCHANGED <<load, use_adma, txvars, reg_tx, rxbd_rdptr, rxbd_wrptr, rx_buf_list,
                 rx_data_queue, reg_rx, fw_rx, received>>

HasPacket == rxwork.pc = "loop" /\ rxbd_rdptr # rxwork.rdptr

\* The buffer leaves its slot for rx_data_queue, unless its length is invalid:
\* then it is the one attached again.
RxDetach ==
  LET pmbuf == rx_buf_list[Index(rxbd_rdptr)]
  IN /\ HasPacket /\ pmbuf # None
     /\ rx_data_queue' \in {rx_data_queue, Append(rx_data_queue, pmbuf)}
     /\ rx_buf_list' = [rx_buf_list EXCEPT ![Index(rxbd_rdptr)] = None]
     /\ rxwork' = [rxwork EXCEPT !.pc = "attach"]
     /\ UNCHANGED <<load, use_adma, txvars, reg_tx, rxbd_rdptr, rxbd_wrptr,
                    rxsched, reg_rx, fw_rx, received>>

\* There is none: the null pointer is used, which ends the driver.
RxOops ==
  /\ HasPacket /\ rx_buf_list[Index(rxbd_rdptr)] = None
  /\ rxwork' = [rxwork EXCEPT !.pc = "oops"]
  /\ UNCHANGED <<load, use_adma, txvars, reg_tx, rxbd_rdptr, rxbd_wrptr,
                 rx_buf_list, rxsched, rx_data_queue, reg_rx, fw_rx, received>>

RxAttach_SameBuffer ==
  /\ rxwork.pc = "attach"
  /\ rxbd_rdptr' = Step(rxbd_rdptr)
  /\ rxbd_wrptr' = Step(rxbd_wrptr)
  /\ reg_rx' = Step(rxbd_wrptr) /\ reg_tx' = TxbdVal
  /\ rxwork' = [pc |-> "loop", rdptr |-> fw_rx]
  /\ UNCHANGED <<load, use_adma, txvars, rx_buf_list, rxsched, rx_data_queue, fw_rx, received>>

RxAttach_ForgetRdptr ==
  /\ rxwork.pc = "attach"
  /\ rx_buf_list' = [rx_buf_list EXCEPT ![Index(rxbd_rdptr)] = 0]
  /\ rxbd_wrptr' = Step(rxbd_wrptr)
  /\ reg_rx' = Step(rxbd_wrptr) /\ reg_tx' = TxbdVal
  /\ rxwork' = [pc |-> "loop", rdptr |-> fw_rx]
  /\ UNCHANGED <<load, use_adma, txvars, rxbd_rdptr, rxsched, rx_data_queue, fw_rx, received>>

\* A new buffer takes the slot; the card learns it and is asked again.  The
\* older cards do this under pmlan_pcie_lock.
RxAttach ==
  /\ rxwork.pc = "attach"
  /\ rx_buf_list' = [rx_buf_list EXCEPT ![Index(rxbd_rdptr)] = 0]
  /\ rxbd_rdptr' = Step(rxbd_rdptr)
  /\ rxbd_wrptr' = Step(rxbd_wrptr)
  /\ reg_rx' = Step(rxbd_wrptr) /\ reg_tx' = TxbdVal
  /\ rxwork' = [pc |-> "loop", rdptr |-> fw_rx]
  /\ UNCHANGED <<load, use_adma, txvars, rxsched, rx_data_queue, fw_rx, received>>

\* wlan_alloc_mlan_buffer or moal_map_memory fails: the work leaves.
RxAttachFails ==
  /\ rxwork.pc = "attach"
  /\ rxwork' = [rxwork EXCEPT !.pc = "idle"]
  /\ UNCHANGED <<load, use_adma, txvars, reg_tx, rxbd_rdptr, rxbd_wrptr, rx_buf_list,
                 rxsched, rx_data_queue, reg_rx, fw_rx, received>>

RxEnd ==
  /\ rxwork.pc = "loop" /\ rxbd_rdptr = rxwork.rdptr
  /\ rxwork' = [rxwork EXCEPT !.pc = "idle"]
  /\ UNCHANGED <<load, use_adma, txvars, reg_tx, rxbd_rdptr, rxbd_wrptr, rx_buf_list,
                 rxsched, rx_data_queue, reg_rx, fw_rx, received>>

--------------------------------------------------------------------------------
(* The card *)

\* It has sent a packet.  With ADMA only some descriptors ask for an interrupt.
CardTx ==
  /\ fw_tx # reg_tx
  /\ fw_tx' = Step(fw_tx)
  /\ \/ sched' = sched \union {CompleteWork}
     \/ use_adma /\ UNCHANGED sched
  /\ UNCHANGED <<load, use_adma, txbd_wrptr, txbd_rdptr, tx_buf_list, txbd_pending,
                 data_sent, pcie_tx_processing, more_tx_task_flag, pass, main,
                 next, running, completed, refused, last, rxvars, reg_tx>>

\* It has received a packet: the packets are numbered in the order they come.
CardRx ==
  /\ fw_rx # reg_rx /\ received < load.rx
  /\ received' = received + 1
  /\ rx_buf_list' = [rx_buf_list EXCEPT ![Index(fw_rx)] =
                       IF @ = None THEN None ELSE received']
  /\ fw_rx' = Step(fw_rx)
  /\ rxsched' = TRUE
  /\ UNCHANGED <<load, use_adma, txvars, reg_tx, rxbd_rdptr, rxbd_wrptr, rxwork,
                 rx_data_queue, reg_rx>>

--------------------------------------------------------------------------------
Pass == ReadTxRdptr \/ FreeTxBuf \/ SettleTx \/ AgainTx
Send == SendStart \/ SendRoom \/ SendFull \/ SendMapFails \/ SendAttach
          \/ SendSent \/ MainEnd
Receive == RxStart \/ RxDetach \/ RxOops \/ RxAttach \/ RxAttachFails \/ RxEnd

Next ==
  \/ Pass \/ Send \/ Receive \/ CardTx \/ CardRx
  \/ \E w \in Workers : WorkStart(w) \/ WorkEnd(w)

\* Threads run when they can, the card sends what it is given.
Fairness ==
  /\ WF_vars(Pass) /\ WF_vars(Send) /\ WF_vars(CardTx)
  /\ \A w \in Workers : WF_vars(WorkStart(w)) /\ WF_vars(WorkEnd(w))

Spec == Init /\ [][Next]_vars
FairSpec == Spec /\ Fairness

--------------------------------------------------------------------------------
Buffers == {i \in Slots : tx_buf_list[i] # None}
InRing == [k \in 1 .. Distance(txbd_rdptr, txbd_wrptr) |->
             tx_buf_list[Index(txbd_rdptr + k - 1)]]

TypeOK ==
  /\ load \in Loads /\ use_adma \in BOOLEAN
  /\ {txbd_wrptr, txbd_rdptr, reg_tx, fw_tx, rxbd_rdptr, rxbd_wrptr, reg_rx,
      fw_rx, pass.rdptr, rxwork.rdptr} \subseteq 0 .. Span - 1
  /\ tx_buf_list \in [Slots -> Packet \union {None}]
  /\ rx_buf_list \in [Slots -> 0 .. load.rx \union {None}]
  /\ txbd_pending \in 0 .. 2 * N
  /\ {data_sent, pcie_tx_processing, more_tx_task_flag, rxsched} \subseteq BOOLEAN
  /\ pass.pc \in {"none", "start", "free", "again"}
  /\ pass.by \in Workers \union {Main, None} /\ pass.unmap_count \in 0 .. N
  /\ main.pc \in {"idle", "room", "map", "full", "sent", "end"}
  /\ last \in {"sent", "full", "unmapped"}
  /\ main.pmbuf \in Packet \union {None} /\ next \in 1 .. load.tx + 1
  /\ sched \subseteq Workers /\ running \subseteq Workers
  /\ rxwork.pc \in {"idle", "loop", "attach", "oops"}

\* Each descriptor the card may still read has a buffer behind it, and each
\* one it may still fill has an empty one: the slots, the driver's pointers,
\* the shared register and the card's pointers agree (wlan_pcie_send_data,
\* wlan_pcie_send_data_complete, wlan_pcie_process_recv_data).
CardSlotsAttached ==
  /\ fw_tx # reg_tx => tx_buf_list[Index(fw_tx)] # None
  /\ fw_rx # reg_rx => rx_buf_list[Index(fw_rx)] = 0

\* txbd_pending counts the buffers in the ring and those the run in progress
\* has taken out and not yet subtracted, although the three are updated under
\* two locks or none.  Power save asks it whether the card is idle.
PendingCounts == txbd_pending = Cardinality(Buffers) + pass.unmap_count

\* The receive work hands over the packets in the order the card wrote them,
\* none twice, across any number of turns of the ring.
RxInOrder ==
  \A j, k \in 1 .. Len(rx_data_queue) :
     j < k => rx_data_queue[j] < rx_data_queue[k]

\* The transmit ring is a bounded queue that loses nothing and keeps the order.
Fifo == INSTANCE RingFifo WITH Capacity <- N, inside <- InRing, finished <- completed
TxIsFifo == Fifo!Spec

\* A transmit loop that data_sent stopped when the last packet had been posted
\* starts again: a packet is in the ring and its completion will clear the flag.
\* After one that was refused there may be none (README).
TxUnblocked == (data_sent /\ main.pc = "idle" /\ last = "sent") ~> ~data_sent
================================================================================
