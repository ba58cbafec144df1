------------------------------ MODULE PcieEvents -------------------------------
(***************************************************************************)
(* The event ring of a PCIe card (mlan_pcie.c) and the main process that   *)
(* handles the events (wlan_process_event).                                *)
(*                                                                         *)
(* The event work takes one event at a time out of the ring and publishes  *)
(* it in three fields of the adapter.  The main process handles it and     *)
(* puts the buffer back in the ring, which is what lets the next one in.   *)
(***************************************************************************)
EXTENDS Naturals, Sequences, FiniteSets, PcieThreads

CONSTANTS
  NEvt,            \* MLAN_MAX_EVT_BD, a power of two
  EventWork,       \* the work item of the event interrupt
  MaxEvtMapFails   \* bound: buffers that cannot be mapped again

ASSUME EvtAssumption ==
  /\ NEvt \in Nat \ {0} /\ MaxEvtMapFails \in Nat
  /\ Cardinality({Main, EventWork, None}) = 3 /\ None \notin Nat

Buffer == 1 .. NEvt
EvtSlots == 0 .. NEvt - 1

VARIABLES
  \* ---- driver ----
  evtbd_rdptr, evtbd_wrptr, evt_buf_list,
  event_cause, event_received, pmlan_buffer_event,  \* the event published
  pcie_event_processing, more_event_flag,
  reader,       \* the run of wlan_pcie_process_event in progress
  evtmain,      \* where the main process is with an event
  overtaken,    \* history: it took an event whose buffer was not yet published
  evtsched,     \* the event work is queued
  evtlost,      \* buffers freed because they could not be mapped
  handled,      \* the causes handled, in order
  \* ---- card ----
  fw_evt,       \* its pointer
  content,      \* the event it wrote in each buffer
  raised, toraise  \* events raised; bound: those still to raise

evtvars == <<evtbd_rdptr, evtbd_wrptr, evt_buf_list, event_cause,
             event_received, pmlan_buffer_event, pcie_event_processing,
             more_event_flag, reader, evtmain, overtaken, evtsched, evtlost,
             handled, fw_evt, content, raised, toraise>>

EvtSpan == 2 * NEvt
EvtStep(ptr) == (ptr + 1) % EvtSpan
EvtIndex(ptr) == ptr % NEvt

NoReader == [pc |-> "none", by |-> None, buf |-> None]
NoEvent == [pc |-> "idle", cause |-> 0, buf |-> None]

\* toraise is the caller's choice.
EvtInit ==
  /\ evtbd_rdptr = 0 /\ evtbd_wrptr = NEvt /\ fw_evt = 0
  /\ evt_buf_list = [i \in EvtSlots |-> i + 1]
  /\ event_cause = 0 /\ event_received = FALSE /\ pmlan_buffer_event = None
  /\ pcie_event_processing = FALSE /\ more_event_flag = FALSE
  /\ reader = NoReader /\ evtmain = NoEvent /\ evtsched = FALSE
  /\ overtaken = FALSE
  /\ evtlost = {} /\ handled = <<>>
  /\ content = [b \in Buffer |-> 0] /\ raised = 0

--------------------------------------------------------------------------------
(* wlan_pcie_process_event, under pmlan_event_lock except for EvtReady and  *)
(* EvtPublish                                                               *)

\* One thread reads at a time, and none while an event is not handled.
EnterEvent(t) ==
  IF pcie_event_processing \/ event_received \/ event_cause # 0
    THEN /\ more_event_flag' = TRUE
         /\ UNCHANGED <<pcie_event_processing, reader>>
    ELSE /\ pcie_event_processing' = TRUE /\ more_event_flag' = FALSE
         /\ reader' = [NoReader EXCEPT !.pc = "ready", !.by = t]

\* Its work item (mlan_process_pcie_interrupt_cb).
EventWorkRun ==
  /\ evtsched /\ reader.by # EventWork
  /\ evtsched' = FALSE
  /\ EnterEvent(EventWork)
  /\ UNCHANGED <<evtbd_rdptr, evtbd_wrptr, evt_buf_list, event_cause,
                 event_received, pmlan_buffer_event, evtmain, evtlost, handled,
                 fw_evt, content, raised, toraise, overtaken>>

\* wlan_pcie_process_event_ready: the buffer leaves its slot; the cause and the
\* flag are set under the lock.
EvtReady ==
  LET b == evt_buf_list[EvtIndex(evtbd_rdptr)]
  IN /\ reader.pc = "ready" /\ evtbd_rdptr # fw_evt
     /\ evt_buf_list' = [evt_buf_list EXCEPT ![EvtIndex(evtbd_rdptr)] = None]
     /\ event_cause' = content[b] /\ event_received' = TRUE
     /\ reader' = [reader EXCEPT !.pc = "publish", !.buf = b]
     /\ UNCHANGED <<pmlan_buffer_event, evtbd_rdptr, evtbd_wrptr,
                    pcie_event_processing, more_event_flag, evtmain, overtaken,
                    evtsched, evtlost, handled, fw_evt, content, raised, toraise>>

\* Its last statements, after the unlock: the main process may be faster.
EvtPublish ==
  /\ reader.pc = "publish"
  /\ pmlan_buffer_event' = reader.buf
  /\ evtbd_rdptr' = EvtStep(evtbd_rdptr)
  /\ reader' = [reader EXCEPT !.pc = "check", !.buf = None]
  /\ UNCHANGED <<evtbd_wrptr, evt_buf_list, event_cause, event_received,
                 pcie_event_processing, more_event_flag, evtmain, overtaken,
                 evtsched, evtlost, handled, fw_evt, content, raised, toraise>>

\* The ring is empty.
EvtNone ==
  /\ reader.pc = "ready" /\ evtbd_rdptr = fw_evt
  /\ reader' = [reader EXCEPT !.pc = "check"]
  /\ UNCHANGED <<evtbd_rdptr, evtbd_wrptr, evt_buf_list, event_cause,
                 event_received, pmlan_buffer_event, pcie_event_processing,
                 more_event_flag, evtmain, evtsched, evtlost, handled, fw_evt,
                 content, raised, toraise, overtaken>>


EvtCheck ==
  /\ reader.pc = "check"
  /\ IF more_event_flag /\ event_cause = 0
       THEN /\ more_event_flag' = FALSE
            /\ reader' = [reader EXCEPT !.pc = "ready"]
            /\ UNCHANGED pcie_event_processing
       ELSE /\ pcie_event_processing' = FALSE
            /\ reader' = NoReader
            /\ UNCHANGED more_event_flag
  /\ UNCHANGED <<evtbd_rdptr, evtbd_wrptr, evt_buf_list, event_cause,
                 event_received, pmlan_buffer_event, evtmain, evtsched, evtlost,
                 handled, fw_evt, content, raised, toraise, overtaken>>

--------------------------------------------------------------------------------
(* The main process: the event step of its loop                             *)

\* wlan_process_event reads the buffer and the cause once.
TakeEvent ==
  /\ evtmain.pc = "idle" /\ event_received
  /\ event_received' = FALSE
  /\ evtmain' = [pc |-> "handle", cause |-> event_cause, buf |-> pmlan_buffer_event]
  /\ handled' = Append(handled, event_cause)
  /\ overtaken' = (overtaken \/ reader.pc = "publish")
  /\ UNCHANGED <<evtbd_rdptr, evtbd_wrptr, evt_buf_list, event_cause,
                 pmlan_buffer_event, pcie_event_processing, more_event_flag,
                 reader, evtsched, evtlost, fw_evt, content, raised, toraise>>

\* The slot at evtbd_wrptr takes the buffer back, unless it has one.
PutBack(b) ==
  LET wrptr == EvtIndex(evtbd_wrptr)
  IN /\ evt_buf_list' = [evt_buf_list EXCEPT ![wrptr] = IF @ = None THEN b ELSE @]
     /\ evtbd_wrptr' = EvtStep(evtbd_wrptr)
     /\ UNCHANGED evtlost

\* moal_map_memory fails: the buffer is freed.
FreeEvtBuf(b) ==
  /\ evt_buf_list[EvtIndex(evtbd_wrptr)] = None
  /\ Cardinality(evtlost) < MaxEvtMapFails
  /\ evtlost' = evtlost \union {b}
  /\ UNCHANGED <<evt_buf_list, evtbd_wrptr>>

\* wlan_pcie_event_complete.
CompleteEvent ==
  /\ evtmain.pc = "handle"
  /\ IF evtmain.buf = None
       THEN UNCHANGED <<evt_buf_list, evtbd_wrptr, evtlost>>
       ELSE PutBack(evtmain.buf) \/ FreeEvtBuf(evtmain.buf)
  /\ event_cause' = 0 /\ pmlan_buffer_event' = None
  /\ evtmain' = [NoEvent EXCEPT !.pc = "again"]
  /\ UNCHANGED <<evtbd_rdptr, event_received, pcie_event_processing,
                 more_event_flag, reader, evtsched, handled, fw_evt, content,
                 raised, toraise, overtaken>>

\* Its last call: wlan_pcie_process_event.
AgainEvent ==
  /\ evtmain.pc = "again"
  /\ evtmain' = [evtmain EXCEPT !.pc = "read"]
  /\ EnterEvent(Main)
  /\ UNCHANGED <<evtbd_rdptr, evtbd_wrptr, evt_buf_list, event_cause,
                 event_received, pmlan_buffer_event, evtsched, evtlost, handled,
                 fw_evt, content, raised, toraise, overtaken>>

DoneEvent ==
  /\ evtmain.pc = "read" /\ reader.by # Main
  /\ evtmain' = NoEvent
  /\ UNCHANGED <<evtbd_rdptr, evtbd_wrptr, evt_buf_list, event_cause,
                 event_received, pmlan_buffer_event, pcie_event_processing,
                 more_event_flag, reader, evtsched, evtlost, handled, fw_evt,
                 content, raised, toraise, overtaken>>

--------------------------------------------------------------------------------
(* The card *)

\* It fills the next buffer of the ring, if there is one, and interrupts.
CardEvent ==
  /\ toraise > 0 /\ fw_evt # evtbd_wrptr
  /\ LET b == evt_buf_list[EvtIndex(fw_evt)]
     IN content' = IF b = None THEN content ELSE [content EXCEPT ![b] = raised + 1]
  /\ fw_evt' = EvtStep(fw_evt)
  /\ raised' = raised + 1 /\ toraise' = toraise - 1
  /\ evtsched' = TRUE
  /\ UNCHANGED <<evtbd_rdptr, evtbd_wrptr, evt_buf_list, event_cause,
                 event_received, pmlan_buffer_event, pcie_event_processing,
                 more_event_flag, reader, evtmain, evtlost, handled, overtaken>>

EvtReader == EvtReady \/ EvtPublish \/ EvtNone \/ EvtCheck
EvtMain == TakeEvent \/ CompleteEvent \/ AgainEvent \/ DoneEvent

--------------------------------------------------------------------------------
EvtTypeOK ==
  /\ {evtbd_rdptr, evtbd_wrptr, fw_evt} \subseteq 0 .. EvtSpan - 1
  /\ evt_buf_list \in [EvtSlots -> Buffer \union {None}]
  /\ {event_received, pcie_event_processing, more_event_flag, evtsched, overtaken}
       \subseteq BOOLEAN
  /\ {pmlan_buffer_event, reader.buf, evtmain.buf} \subseteq Buffer \union {None}
  /\ {event_cause, evtmain.cause} \subseteq 0 .. raised
  /\ reader.pc \in {"none", "ready", "publish", "check"}
  /\ reader.by \in {Main, EventWork, None}
  /\ evtmain.pc \in {"idle", "handle", "again", "read"}
  /\ evtlost \subseteq Buffer /\ handled \in Seq(1 .. raised)

\* "Take the pointer and set it to event pointer in adapter and will return
\* back after event handling callback" (wlan_pcie_process_event_ready): the main
\* process handles an event with the buffer that event came in, unless it once
\* took an event before its buffer was published.
EventMatchesBuffer ==
  evtmain.pc = "handle" /\ ~overtaken =>
    evtmain.buf # None /\ content[evtmain.buf] = evtmain.cause

\* Events are handled in the order the card raised them, each once, whichever
\* thread reads the ring (pcie_event_processing, more_event_flag, event_cause).
EventsInOrder == \A k \in 1 .. Len(handled) : handled[k] = k

\* A buffer is in one place, a slot, the reader's hands or the published event,
\* or was freed: none is lost or put in the ring twice.
EventBuffersKept ==
  LET inslot(b) == Cardinality({i \in EvtSlots : evt_buf_list[i] = b})
      held == {reader.buf, evtmain.buf, pmlan_buffer_event}
  IN \A b \in Buffer :
       inslot(b) + Cardinality({x \in {held, evtlost} : b \in x}) = 1

\* The message "Buffer is still valid" (wlan_pcie_event_complete) is never due,
\* and a slot the card may fill has a buffer.
EventSlotsAgree ==
  /\ (evtmain.pc = "handle" /\ evtmain.buf # None)
       => evt_buf_list[EvtIndex(evtbd_wrptr)] = None
  /\ fw_evt # evtbd_wrptr => evt_buf_list[EvtIndex(fw_evt)] # None

================================================================================
