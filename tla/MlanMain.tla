------------------------------ MODULE MlanMain ------------------------------
(***************************************************************************)
(* The two processing loops of mlan, mlan_main_process and                 *)
(* mlan_rx_process, the contexts of MOAL that enter them, and the shutdown *)
(* that has to find them quiet.                                            *)
(*                                                                         *)
(* Any number of contexts call mlan_main_process at the same time: the     *)
(* SDIO interrupt handler (a member of Irqs) and the work item of the main *)
(* workqueue (MainWork).  One of them at a time runs the loop; the others  *)
(* set more_task_flag and leave.  The receive loop runs in a workqueue of  *)
(* its own, is woken through mlan_queue_rx_work, and is held off with      *)
(* rx_lock_flag while the main loop frees a receive reorder table.         *)
(*                                                                         *)
(* A step of a thread is one critical section of pmain_proc_lock or        *)
(* prx_proc_lock, or one access to a field that no lock protects           *)
(* (hw_status, mlan_processing in mlan_shutdown_fw, rx_pkts_queued,        *)
(* delay_task_flag).  Accesses are sequentially consistent.                *)
(***************************************************************************)
EXTENDS Naturals

CONSTANTS
    Irqs,        \* contexts that call mlan_main_process directly
    MainWork,    \* the main_work item of the main workqueue
    Closer,      \* the thread that removes the card
    HighRx,      \* HIGH_RX_PENDING
    LowRx,       \* LOW_RX_PENDING
    MaxPkts,     \* bound: packets and DELBA events the card ever uploads
    MaxJobs,     \* bound: commands and packets the host ever queues
    MaxEvents,   \* bound: DELBA events among them
    Paths        \* ways the card is shut down: "remove", "switch_mode"

MainThreads == Irqs \cup {MainWork}
Threads == MainThreads \cup {Closer}

ASSUME ThreadAssumption == MainWork \notin Irqs /\ Closer \notin MainThreads
ASSUME RxPendingAssumption == HighRx \in Nat /\ LowRx \in Nat /\ LowRx <= HighRx
ASSUME BoundAssumption == MaxPkts \in Nat /\ MaxJobs \in Nat /\ MaxEvents \in Nat
ASSUME PathAssumption == Paths \subseteq {"remove", "switch_mode"}

VARIABLES
    pc,                 \* where each of Threads is
    rx_pc,              \* where the receive worker is
    main_state,         \* what MOAL last noted of any of MainThreads
    hw_status,          \* Ready, Closing, NotReady
    mlan_processing, more_task_flag, delay_task_flag,
    mlan_rx_processing, more_rx_task_flag, rx_lock_flag,
    rx_pkts_queued,     \* length of rx_data_queue
    ireg,               \* packets announced by the latched interrupt
    delba_ireg,         \* a DELBA event announced by the latched interrupt
    data_received, event_received,
    jobs,               \* commands and packets waiting on the host side
    main_work, rx_work, \* the work items are queued
    rx_flush,           \* work items flush_workqueue still waits for
    surprise_removed, path,
    init_wait_q_woken,
    teardowns,          \* times the body of mlan_shutdown_fw was entered
    sent, posted, events  \* what the environment did so far

mainVars == <<mlan_processing, more_task_flag, delay_task_flag, main_work>>
rxVars == <<rx_pc, mlan_rx_processing, more_rx_task_flag>>
blockVars == <<rx_lock_flag, rx_flush>>
cardVars == <<ireg, delba_ireg, data_received, event_received>>
closeVars == <<hw_status, surprise_removed, path, init_wait_q_woken, teardowns>>
envVars == <<sent, posted, events>>
placeVars == <<pc, main_state>>
vars == <<placeVars, mainVars, rxVars, rx_work, rx_pkts_queued, jobs, blockVars,
          cardVars, closeVars, envVars>>

-----------------------------------------------------------------------------
LoopPC == {"loop", "rx_limit", "pause", "pause_kick", "int", "int_kick",
           "gate", "block", "flush_call", "flush_rx", "delete_tbl", "unblock",
           "tail"}
\* Past the test of hw_status: the thread handles commands, events and data.
WorkPC == LoopPC \ {"loop", "tail"}
ShutdownPC == {"sd_check", "sd_set", "sd_test", "sd_down"}
MainPC == {"idle", "irq", "enter", "exit"} \cup LoopPC \cup ShutdownPC
CloserPC == {"start", "wait_end", "flush_main", "flush_rxq", "wait", "done"} \cup ShutdownPC
RxPC == {"idle", "enter", "deq", "run", "run_kick", "handle", "tail"}
RxLoopPC == RxPC \ {"idle", "enter"}

PcTypeOK ==
    /\ pc \in [Threads -> MainPC \cup CloserPC]
    /\ \A t \in MainThreads : pc[t] \in MainPC
    /\ pc[Closer] \in CloserPC
    /\ rx_pc \in RxPC

StatusTypeOK ==
    /\ hw_status \in {"Ready", "Closing", "NotReady"}
    /\ path \in {"none", "remove", "switch_mode"}
    /\ main_state \in {"busy", "end"}

FlagTypeOK ==
    /\ mlan_processing \in BOOLEAN /\ more_task_flag \in BOOLEAN
    /\ delay_task_flag \in BOOLEAN
    /\ mlan_rx_processing \in BOOLEAN /\ more_rx_task_flag \in BOOLEAN
    /\ rx_lock_flag \in BOOLEAN
    /\ delba_ireg \in BOOLEAN /\ data_received \in BOOLEAN
    /\ event_received \in BOOLEAN
    /\ main_work \in BOOLEAN /\ rx_work \in BOOLEAN
    /\ surprise_removed \in BOOLEAN /\ init_wait_q_woken \in BOOLEAN

CountTypeOK ==
    /\ rx_pkts_queued \in Nat /\ ireg \in Nat /\ jobs \in Nat
    /\ rx_flush \in 0..2
    /\ teardowns \in Nat /\ sent \in Nat /\ posted \in Nat /\ events \in Nat

TypeOK == PcTypeOK /\ StatusTypeOK /\ FlagTypeOK /\ CountTypeOK

Init ==
    /\ pc = [t \in Threads |-> IF t = Closer THEN "start" ELSE "idle"]
    /\ rx_pc = "idle" /\ main_state = "end"
    /\ hw_status = "Ready"
    /\ mlan_processing = FALSE /\ more_task_flag = FALSE /\ delay_task_flag = FALSE
    /\ mlan_rx_processing = FALSE /\ more_rx_task_flag = FALSE
    /\ rx_lock_flag = FALSE
    /\ rx_pkts_queued = 0 /\ ireg = 0 /\ delba_ireg = FALSE
    /\ data_received = FALSE /\ event_received = FALSE
    /\ jobs = 0
    /\ main_work = FALSE /\ rx_work = FALSE
    /\ rx_flush = 0
    /\ surprise_removed = FALSE /\ path = "none"
    /\ init_wait_q_woken = FALSE /\ teardowns = 0
    /\ sent = 0 /\ posted = 0 /\ events = 0

\* A thread moves on.  main_state is one field for all contexts: each writes
\* to it on its way to mlan_main_process (MOAL_RECV_INT, MOAL_ENTER_WORK_QUEUE)
\* and back from it (MOAL_END_MAIN_PROCESS).
Goto(t, label) ==
    /\ pc' = [pc EXCEPT ![t] = label]
    /\ main_state' = IF label = "enter" THEN "busy"
                     ELSE IF label = "idle" /\ pc[t] # "idle" THEN "end"
                     ELSE main_state

\* mlan_queue_main_work, one critical section of pmain_proc_lock.
QueueMainWork ==
    /\ IF mlan_processing
       THEN more_task_flag' = TRUE /\ UNCHANGED main_work
       ELSE main_work' = TRUE /\ UNCHANGED more_task_flag
    /\ UNCHANGED <<mlan_processing, delay_task_flag>>

\* mlan_queue_rx_work, one critical section of prx_proc_lock.
QueueRxWork ==
    /\ IF mlan_rx_processing
       THEN more_rx_task_flag' = TRUE /\ UNCHANGED rx_work
       ELSE rx_work' = TRUE /\ UNCHANGED more_rx_task_flag
    /\ UNCHANGED <<rx_pc, mlan_rx_processing>>

-----------------------------------------------------------------------------
(* The tests the protocol rests on, each followed by the faulty variant the *)
(* properties are tried on.                                                 *)

MainBusy_Ignored == FALSE
\* main_lock_flag is left out: nothing calls mlan_block_main_process.
MainBusy == mlan_processing

RxBusy_NotBlocked == mlan_rx_processing
RxBusy == mlan_rx_processing \/ rx_lock_flag

RxEmpty_Unseen == FALSE
RxEmpty == rx_pkts_queued = 0

MoreTask_Forgotten == FALSE
MoreTask == more_task_flag

MoreRxTask_Forgotten == FALSE
MoreRxTask == more_rx_task_flag

MainRunning_NotAwaited == FALSE
MainRunning == mlan_processing

RunAgain == delay_task_flag /\ rx_pkts_queued < LowRx

Closing_Unseen == FALSE
Closing == hw_status = "Closing"

-----------------------------------------------------------------------------
(* What enters the main loop. *)

\* The SDIO interrupt handler tests surprise_removed before it notes anything
\* in main_state.
IrqStart(t) ==
    /\ t \in Irqs /\ pc[t] = "idle" /\ ~surprise_removed
    /\ sent + events < MaxPkts
    /\ Goto(t, "irq")
    /\ UNCHANGED <<mainVars, rxVars, rx_work, rx_pkts_queued, jobs, blockVars,
                   cardVars, closeVars, envVars>>

\* mlan_interrupt latches what the card announces, then the handler calls
\* mlan_main_process in its own context.
Interrupt(t) ==
    /\ t \in Irqs /\ pc[t] = "irq"
    /\ \E n \in 0..(MaxPkts - sent - events), ev \in BOOLEAN :
          /\ n > 0 \/ ev
          /\ ev => /\ ~delba_ireg /\ ~event_received
                   /\ events < MaxEvents /\ sent + events + n < MaxPkts
          /\ ireg' = ireg + n /\ sent' = sent + n
          /\ delba_ireg' = (delba_ireg \/ ev)
          /\ events' = IF ev THEN events + 1 ELSE events
    /\ Goto(t, "enter")
    /\ UNCHANGED <<mainVars, rxVars, rx_work, rx_pkts_queued, jobs, blockVars,
                   data_received, event_received, closeVars, posted>>

\* The request is queued in mlan, then its caller queues main_work: an ioctl
\* always does, a transmit unless mlan_is_main_process_running.
PostJob ==
    /\ posted < MaxJobs /\ ~surprise_removed /\ hw_status = "Ready"
    /\ jobs' = jobs + 1 /\ posted' = posted + 1
    /\ \/ /\ main_work' = TRUE
          /\ UNCHANGED <<mlan_processing, more_task_flag, delay_task_flag>>
       \/ QueueMainWork
    /\ UNCHANGED <<placeVars, rxVars, rx_work, rx_pkts_queued, blockVars,
                   cardVars, closeVars, sent, events>>

\* woal_main_work_queue.
MainWorkStart ==
    /\ main_work /\ pc[MainWork] = "idle"
    /\ main_work' = FALSE
    /\ Goto(MainWork, IF surprise_removed THEN "idle" ELSE "enter")
    /\ UNCHANGED <<mlan_processing, more_task_flag, delay_task_flag, rxVars, rx_work,
                   rx_pkts_queued, jobs, blockVars, cardVars, closeVars, envVars>>

-----------------------------------------------------------------------------
(* mlan_main_process. *)

MainEnter(t) ==
    /\ t \in MainThreads /\ pc[t] = "enter"
    /\ IF MainBusy
       THEN more_task_flag' = TRUE /\ UNCHANGED mlan_processing /\ Goto(t, "exit")
       ELSE mlan_processing' = TRUE /\ UNCHANGED more_task_flag /\ Goto(t, "loop")
    /\ UNCHANGED <<delay_task_flag, main_work, rxVars, rx_work, rx_pkts_queued,
                   jobs, blockVars, cardVars, closeVars, envVars>>

\* The head of the loop: is mlan shutting down or not ready?
MainLoop(t) ==
    /\ t \in MainThreads /\ pc[t] = "loop"
    /\ Goto(t, IF hw_status = "Ready" THEN "rx_limit" ELSE "tail")
    /\ UNCHANGED <<mainVars, rxVars, rx_work, rx_pkts_queued, jobs, blockVars,
                   cardVars, closeVars, envVars>>

\* rx_pkts_queued is read without the lock of rx_data_queue.
MainRxLimit(t) ==
    /\ t \in MainThreads /\ pc[t] = "rx_limit"
    /\ Goto(t, IF rx_pkts_queued > HighRx THEN "pause" ELSE "int")
    /\ UNCHANGED <<mainVars, rxVars, rx_work, rx_pkts_queued, jobs, blockVars,
                   cardVars, closeVars, envVars>>

MainPause(t) ==
    /\ t \in MainThreads /\ pc[t] = "pause"
    /\ delay_task_flag' = TRUE
    /\ Goto(t, "pause_kick")
    /\ UNCHANGED <<mlan_processing, more_task_flag, main_work, rxVars, rx_work,
                   rx_pkts_queued, jobs, blockVars, cardVars, closeVars, envVars>>

MainPauseKick(t) ==
    /\ t \in MainThreads /\ pc[t] = "pause_kick"
    /\ QueueRxWork
    /\ Goto(t, "tail")
    /\ UNCHANGED <<mainVars, rx_pkts_queued, jobs, blockVars, cardVars,
                   closeVars, envVars>>

\* process_int_status: what the latched interrupt announced is uploaded.
MainInt(t) ==
    /\ t \in MainThreads /\ pc[t] = "int"
    /\ rx_pkts_queued' = rx_pkts_queued + ireg
    /\ data_received' = (data_received \/ ireg > 0)
    /\ event_received' = (event_received \/ delba_ireg)
    /\ ireg' = 0 /\ delba_ireg' = FALSE
    /\ Goto(t, IF (ireg > 0 \/ delba_ireg) /\ data_received'
               THEN "int_kick" ELSE "gate")
    /\ UNCHANGED <<mainVars, rxVars, rx_work, jobs, blockVars, closeVars, envVars>>

MainIntKick(t) ==
    /\ t \in MainThreads /\ pc[t] = "int_kick"
    /\ QueueRxWork
    /\ Goto(t, "gate")
    /\ UNCHANGED <<mainVars, rx_pkts_queued, jobs, blockVars, cardVars,
                   closeVars, envVars>>

\* The rest of the loop.  Without anything received and without anything to
\* send the loop ends; otherwise a received event is processed, one waiting
\* command or packet is sent, and the loop goes round.
MainGate(t) ==
    /\ t \in MainThreads /\ pc[t] = "gate"
    /\ data_received' = FALSE /\ event_received' = FALSE
    /\ jobs' = IF jobs > 0 THEN jobs - 1 ELSE 0
    /\ Goto(t, IF event_received THEN "block"
               ELSE IF data_received \/ jobs > 0 THEN "loop" ELSE "tail")
    /\ UNCHANGED <<mainVars, rxVars, rx_work, rx_pkts_queued, blockVars, ireg,
                   delba_ireg, closeVars, envVars>>

\* mlan_block_rx_process(MTRUE), called before a reorder table is deleted.
MainBlock(t) ==
    /\ t \in MainThreads /\ pc[t] = "block"
    /\ rx_lock_flag' = TRUE
    /\ Goto(t, IF mlan_rx_processing THEN "flush_call" ELSE "delete_tbl")
    /\ UNCHANGED <<mainVars, rxVars, rx_work, rx_pkts_queued, jobs, rx_flush,
                   cardVars, closeVars, envVars>>

\* DRV_FLUSH_RX_WORK: flush_workqueue waits for the work item that runs and
\* for the one that is queued at this moment.
MainFlushCall(t) ==
    /\ t \in MainThreads /\ pc[t] = "flush_call"
    /\ rx_flush' = (IF rx_pc = "idle" THEN 0 ELSE 1) + (IF rx_work THEN 1 ELSE 0)
    /\ Goto(t, "flush_rx")
    /\ UNCHANGED <<mainVars, rxVars, rx_work, rx_pkts_queued, jobs, rx_lock_flag,
                   cardVars, closeVars, envVars>>

MainFlushed(t) ==
    /\ t \in MainThreads /\ pc[t] = "flush_rx" /\ rx_flush = 0
    /\ Goto(t, "delete_tbl")
    /\ UNCHANGED <<mainVars, rxVars, rx_work, rx_pkts_queued, jobs, blockVars,
                   cardVars, closeVars, envVars>>

\* The table is unlinked and freed.
MainDeleteTbl(t) ==
    /\ t \in MainThreads /\ pc[t] = "delete_tbl"
    /\ Goto(t, "unblock")
    /\ UNCHANGED <<mainVars, rxVars, rx_work, rx_pkts_queued, jobs, blockVars,
                   cardVars, closeVars, envVars>>

\* mlan_block_rx_process(MFALSE): nothing is queued for a receive work item
\* that was turned away in the meantime.
MainUnblock(t) ==
    /\ t \in MainThreads /\ pc[t] = "unblock"
    /\ rx_lock_flag' = FALSE
    /\ Goto(t, "loop")
    /\ UNCHANGED <<mainVars, rxVars, rx_work, rx_pkts_queued, jobs, rx_flush,
                   cardVars, closeVars, envVars>>

MainTail(t) ==
    /\ t \in MainThreads /\ pc[t] = "tail"
    /\ more_task_flag' = FALSE
    /\ IF MoreTask
       THEN Goto(t, "loop") /\ UNCHANGED mlan_processing
       ELSE Goto(t, "exit") /\ mlan_processing' = FALSE
    /\ UNCHANGED <<delay_task_flag, main_work, rxVars, rx_work, rx_pkts_queued,
                   jobs, blockVars, cardVars, closeVars, envVars>>

\* exit_main_proc: reached with and without having run the loop.
MainExit(t) ==
    /\ t \in MainThreads /\ pc[t] = "exit"
    /\ Goto(t, IF Closing THEN "sd_check" ELSE "idle")
    /\ UNCHANGED <<mainVars, rxVars, rx_work, rx_pkts_queued, jobs, blockVars,
                   cardVars, closeVars, envVars>>

-----------------------------------------------------------------------------
(* mlan_rx_process, called by woal_rx_work_queue. *)

\* The end of the work item: a flush waits for one less.
RxDone == /\ rx_pc' = "idle"
          /\ rx_flush' = IF rx_flush > 0 THEN rx_flush - 1 ELSE 0

RxWorkStart ==
    /\ rx_work /\ rx_pc = "idle"
    /\ rx_work' = FALSE
    /\ IF surprise_removed THEN RxDone ELSE rx_pc' = "enter" /\ UNCHANGED rx_flush
    /\ UNCHANGED <<placeVars, mainVars, mlan_rx_processing, more_rx_task_flag,
                   rx_pkts_queued, jobs, rx_lock_flag, cardVars, closeVars, envVars>>

RxEnter ==
    /\ rx_pc = "enter"
    /\ IF RxBusy
       THEN RxDone /\ more_rx_task_flag' = TRUE /\ UNCHANGED mlan_rx_processing
       ELSE /\ rx_pc' = "deq" /\ mlan_rx_processing' = TRUE
            /\ UNCHANGED <<more_rx_task_flag, rx_flush>>
    /\ UNCHANGED <<placeVars, mainVars, rx_work, rx_pkts_queued, jobs, rx_lock_flag,
                   cardVars, closeVars, envVars>>

RxDequeue ==
    /\ rx_pc = "deq"
    /\ IF RxEmpty
       THEN rx_pc' = "tail" /\ UNCHANGED rx_pkts_queued
       ELSE rx_pc' = "run" /\ rx_pkts_queued' = rx_pkts_queued - 1
    /\ UNCHANGED <<placeVars, mainVars, mlan_rx_processing, more_rx_task_flag, rx_work,
                   jobs, blockVars, cardVars, closeVars, envVars>>

\* Enough of the queue is drained: the main loop may go on.
RxRun ==
    /\ rx_pc = "run"
    /\ IF RunAgain
       THEN rx_pc' = "run_kick" /\ delay_task_flag' = FALSE
       ELSE rx_pc' = "handle" /\ UNCHANGED delay_task_flag
    /\ UNCHANGED <<placeVars, mlan_processing, more_task_flag, main_work,
                   mlan_rx_processing, more_rx_task_flag, rx_work,
                   rx_pkts_queued, jobs, blockVars, cardVars, closeVars, envVars>>

RxRunKick ==
    /\ rx_pc = "run_kick"
    /\ QueueMainWork
    /\ rx_pc' = "handle"
    /\ UNCHANGED <<placeVars, mlan_rx_processing, more_rx_task_flag, rx_work,
                   rx_pkts_queued, jobs, blockVars, cardVars, closeVars, envVars>>

\* handle_rx_packet: the packet goes through the reorder tables.
RxHandle ==
    /\ rx_pc = "handle"
    /\ rx_pc' = "deq"
    /\ UNCHANGED <<placeVars, mainVars, mlan_rx_processing, more_rx_task_flag, rx_work,
                   rx_pkts_queued, jobs, blockVars, cardVars, closeVars, envVars>>

RxTail ==
    /\ rx_pc = "tail"
    /\ more_rx_task_flag' = FALSE
    /\ IF MoreRxTask
       THEN rx_pc' = "deq" /\ UNCHANGED <<mlan_rx_processing, rx_flush>>
       ELSE RxDone /\ mlan_rx_processing' = FALSE
    /\ UNCHANGED <<placeVars, mainVars, rx_work, rx_pkts_queued, jobs, rx_lock_flag,
                   cardVars, closeVars, envVars>>

-----------------------------------------------------------------------------
(* Shutdown.  woal_sdio_remove marks the handle and waits for main_state,   *)
(* then woal_remove_card flushes the workqueues and calls mlan_shutdown_fw; *)
(* woal_switch_drv_mode calls it without any of that.                       *)

CloseStart ==
    /\ pc[Closer] = "start"
    /\ \E p \in Paths :
          /\ path' = p
          /\ surprise_removed' = (p = "remove")
          /\ Goto(Closer, IF p = "remove" THEN "wait_end" ELSE "sd_check")
    /\ UNCHANGED <<mainVars, rxVars, rx_work, rx_pkts_queued, jobs, blockVars,
                   cardVars, hw_status, init_wait_q_woken, teardowns, envVars>>

\* "wait until woal_sdio_interrupt ends".
CloseMainEnded ==
    /\ pc[Closer] = "wait_end" /\ main_state = "end"
    /\ Goto(Closer, "flush_main")
    /\ UNCHANGED <<mainVars, rxVars, rx_work, rx_pkts_queued, jobs, blockVars,
                   cardVars, closeVars, envVars>>

CloseFlushMain ==
    /\ pc[Closer] = "flush_main" /\ ~main_work /\ pc[MainWork] = "idle"
    /\ Goto(Closer, "flush_rxq")
    /\ UNCHANGED <<mainVars, rxVars, rx_work, rx_pkts_queued, jobs, blockVars,
                   cardVars, closeVars, envVars>>

CloseFlushRx ==
    /\ pc[Closer] = "flush_rxq" /\ ~rx_work /\ rx_pc = "idle"
    /\ Goto(Closer, "sd_check")
    /\ UNCHANGED <<mainVars, rxVars, rx_work, rx_pkts_queued, jobs, blockVars,
                   cardVars, closeVars, envVars>>

\* Where mlan_shutdown_fw returns to.
After(t, pending) == IF t \in MainThreads THEN "idle"
                     ELSE IF pending THEN "wait" ELSE "done"

\* mlan_shutdown_fw reads hw_status, writes it, and reads mlan_processing.
ShutdownCheck(t) ==
    /\ pc[t] = "sd_check"
    /\ Goto(t, IF hw_status = "NotReady" THEN After(t, FALSE) ELSE "sd_set")
    /\ UNCHANGED <<mainVars, rxVars, rx_work, rx_pkts_queued, jobs, blockVars,
                   cardVars, closeVars, envVars>>

ShutdownSet(t) ==
    /\ pc[t] = "sd_set"
    /\ hw_status' = "Closing"
    /\ Goto(t, "sd_test")
    /\ UNCHANGED <<mainVars, rxVars, rx_work, rx_pkts_queued, jobs, blockVars,
                   cardVars, surprise_removed, path, init_wait_q_woken, teardowns,
                   envVars>>

ShutdownTest(t) ==
    /\ pc[t] = "sd_test"
    /\ IF MainRunning
       THEN Goto(t, After(t, TRUE)) /\ UNCHANGED teardowns
       ELSE Goto(t, "sd_down") /\ teardowns' = teardowns + 1
    /\ UNCHANGED <<mainVars, rxVars, rx_work, rx_pkts_queued, jobs, blockVars,
                   cardVars, hw_status, surprise_removed, path, init_wait_q_woken,
                   envVars>>

\* Commands and ioctls are cancelled, the priv structures freed, the receive
\* queue emptied, and moal_shutdown_fw_complete wakes the waiter.
ShutdownDown(t) ==
    /\ pc[t] = "sd_down"
    /\ jobs' = 0 /\ rx_pkts_queued' = 0
    /\ hw_status' = "NotReady" /\ init_wait_q_woken' = TRUE
    /\ Goto(t, After(t, FALSE))
    /\ UNCHANGED <<mainVars, rxVars, rx_work, blockVars, cardVars,
                   surprise_removed, path, teardowns, envVars>>

\* wait_event_interruptible(init_wait_q, init_wait_q_woken).
CloseWoken ==
    /\ pc[Closer] = "wait" /\ init_wait_q_woken
    /\ Goto(Closer, "done")
    /\ UNCHANGED <<mainVars, rxVars, rx_work, rx_pkts_queued, jobs, blockVars,
                   cardVars, closeVars, envVars>>

-----------------------------------------------------------------------------
MainStep(t) ==
    \/ MainEnter(t) \/ MainLoop(t) \/ MainRxLimit(t) \/ MainPause(t)
    \/ MainPauseKick(t) \/ MainInt(t) \/ MainIntKick(t) \/ MainGate(t)
    \/ MainBlock(t) \/ MainFlushCall(t) \/ MainFlushed(t) \/ MainDeleteTbl(t)
    \/ MainUnblock(t) \/ MainTail(t) \/ MainExit(t)

ShutdownStep(t) ==
    ShutdownCheck(t) \/ ShutdownSet(t) \/ ShutdownTest(t) \/ ShutdownDown(t)

RxStep == RxEnter \/ RxDequeue \/ RxRun \/ RxRunKick \/ RxHandle \/ RxTail

CloseStep == CloseMainEnded \/ CloseFlushMain \/ CloseFlushRx \/ CloseWoken

Next ==
    \/ \E t \in Irqs : IrqStart(t) \/ Interrupt(t)
    \/ PostJob \/ MainWorkStart
    \/ \E t \in MainThreads : MainStep(t)
    \/ RxWorkStart \/ RxStep
    \/ CloseStart \/ CloseStep
    \/ \E t \in Threads : ShutdownStep(t)

Spec == Init /\ [][Next]_vars

\* Every thread that can run is eventually scheduled, and a queued work item
\* is eventually run.  Interrupts, requests and the removal of the card come
\* from outside and may never come.
Fairness ==
    /\ WF_vars(MainWorkStart) /\ WF_vars(RxWorkStart) /\ WF_vars(RxStep)
    /\ \A t \in MainThreads :
          WF_vars(Interrupt(t) \/ MainStep(t) \/ ShutdownStep(t))
    /\ WF_vars(CloseStep \/ ShutdownStep(Closer))

FairSpec == Spec /\ Fairness

-----------------------------------------------------------------------------
(* Safety. *)

\* One context at a time is between taking and giving back mlan_processing,
\* however many interrupts and work items call mlan_main_process: the body of
\* the loop uses fields no lock protects.
MainExclusive ==
    \A t, u \in MainThreads : pc[t] \in LoopPC /\ pc[u] \in LoopPC => t = u

\* While the main loop deletes a reorder table (between the two calls of
\* mlan_block_rx_process) the receive worker is not inside its loop, although
\* it was running, or its work item was queued, when the deletion began.
TableQuiet ==
    \A t \in MainThreads :
       pc[t] \in {"delete_tbl", "unblock"} => rx_pc \notin RxLoopPC

\* Nobody works on the adapter while mlan_shutdown_fw takes it apart, although
\* it decides that from one unlocked read of mlan_processing: every context
\* that enters the loop later turns back at hw_status, and a removal has
\* flushed the receive worker.
TeardownQuiet ==
    \A t \in Threads : pc[t] = "sd_down" =>
       /\ \A u \in MainThreads : pc[u] \notin WorkPC
       /\ path = "remove" => rx_pc \notin RxLoopPC

\* "MLAN already shutdown": the adapter is taken apart once.
TeardownOnce == teardowns <= 1

-----------------------------------------------------------------------------
(* Liveness. *)

Leaving == hw_status # "Ready" \/ surprise_removed

\* What the host queues is sent, and what an interrupt announces is handled,
\* unless the loop paused itself for the receive queue: the wakeup of a caller
\* that finds the loop busy is not lost.
MainServes == (jobs > 0 \/ ireg > 0 \/ delba_ireg) ~>
  ((jobs = 0 /\ ireg = 0 /\ ~delba_ireg) \/ Leaving \/ delay_task_flag)

\* Every received packet is delivered, unless rx_lock_flag turned a work item
\* away, which more_rx_task_flag records.
RxServes == (rx_pkts_queued > 0) ~>
               (rx_pkts_queued = 0 \/ Leaving \/ more_rx_task_flag)

\* The thread that shuts the card down comes back: when mlan_shutdown_fw told
\* it to wait, the context that was in the loop does the rest and wakes it.
ShutdownCompletes == pc[Closer] = "sd_check" ~> pc[Closer] = "done"

=============================================================================
