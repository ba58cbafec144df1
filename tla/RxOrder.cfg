SPECIFICATION Spec
CONSTANTS
  MAX_TID_VALUE = 16
  Bits = 8
  Empty = Empty
  FwDrop = FwDrop
  Napi = FALSE
  SyncRaces = FALSE
  Loads <- AllLoads
INVARIANTS TypeOK InOrder WindowAgrees OneFate BufferedHasExit FreedTableUntouched
