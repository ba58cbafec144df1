SPECIFICATION SdioFairSpec
CONSTANTS
  a = a
  b = b
  Sta = {a, b}
  HIGH_PRIO_TID = 3
  RX_LOW_THRESHOLD = 1
  None = None
  MpEndPort = 6
  TxBufSize = 3
  TxPktLimit = 3
  MaxPorts = 6
  RxBufSize = 3
  RxPktLimit = 3
  Batches = {1, 3, 6}
  Loads <- MCLoads
INVARIANTS SdioTypeOK QueuesConsistent WritePortsAgree TxExactlyOnce RxHandedUp
PROPERTY TxDrains
CHECK_DEADLOCK FALSE
