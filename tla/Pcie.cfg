SPECIFICATION PcieFairSpec
CONSTANTS
  N = 2
  None = None
  Main = main
  CompleteWork = complete_work
  DelayedWork = delayed_work
  Loads <- MCLoads
  MaxMapFails = 1
  NEvt = 2
  EventWork = event_work
  MaxEvtMapFails = 1
INVARIANTS PcieTypeOK RingsAttached PendingCounts HandedInOrder
PROPERTIES TxIsFifo TxUnblocked 
CHECK_DEADLOCK FALSE
