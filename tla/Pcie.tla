--------------------------------- MODULE Pcie ----------------------------------
(***************************************************************************)
(* The rings of one PCIe card together: the data rings (PcieRing) and the  *)
(* event ring (PcieEvents).  They meet in the main process, which is in    *)
(* one call at a time: it sends, or it handles an event.                   *)
(***************************************************************************)
EXTENDS PcieRing, PcieEvents

allvars == <<vars, evtvars>>

PcieInit == Init /\ EvtInit /\ toraise = load.evt

MainSends == evtmain.pc = "idle" /\ Send
MainHandles == main.pc = "idle" /\ EvtMain

DataStep ==
  \/ Pass \/ MainSends \/ Receive \/ CardTx \/ CardRx
  \/ \E w \in Workers : WorkStart(w) \/ WorkEnd(w)
EventStep == EventWorkRun \/ EvtReader \/ MainHandles \/ CardEvent

PcieNext == (DataStep /\ UNCHANGED evtvars) \/ (EventStep /\ UNCHANGED vars)

\* Threads run when they can, the card sends and raises what it is given.  The
\* main process comes back to each of its two jobs.
PcieFairness ==
  /\ WF_allvars(Pass /\ UNCHANGED evtvars)
  /\ SF_allvars(MainSends /\ UNCHANGED evtvars)
  /\ WF_allvars(CardTx /\ UNCHANGED evtvars)
  /\ \A w \in Workers : WF_allvars(WorkStart(w) /\ UNCHANGED evtvars)
                          /\ WF_allvars(WorkEnd(w) /\ UNCHANGED evtvars)
  /\ WF_allvars(EventWorkRun /\ UNCHANGED vars)
  /\ WF_allvars(EvtReader /\ UNCHANGED vars)
  /\ SF_allvars(MainHandles /\ UNCHANGED vars)
  /\ WF_allvars(CardEvent /\ UNCHANGED vars)

PcieSpec == PcieInit /\ [][PcieNext]_allvars
PcieFairSpec == PcieSpec /\ PcieFairness

--------------------------------------------------------------------------------
PcieTypeOK == TypeOK /\ EvtTypeOK

\* What the card may read or fill has a buffer behind it, in the three rings,
\* and no event buffer is lost or in two places: the slots, the pointers of the
\* driver and those of the card agree.
RingsAttached ==
  CardSlotsAttached /\ (~overtaken => EventSlotsAgree /\ EventBuffersKept)

\* Packets and events reach the main process in the order the card wrote them,
\* none twice, over any number of turns of the rings.
HandedInOrder == RxInOrder /\ EventsInOrder /\ EventMatchesBuffer
================================================================================
