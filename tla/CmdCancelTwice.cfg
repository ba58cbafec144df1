\* A scan and its cancellation.
CONSTANTS
  i1 = i1
  i2 = i2
  i3 = i3
  None = None
  Node = {n1, n2}
  Ioctl = {i1, i2, i3}
  Scenarios <- ScanAndCancel
  MaxScanCmds = 1
  SlowHang = FALSE
SPECIFICATION Spec
INVARIANT CancelCompletedOnce
CHECK_DEADLOCK FALSE
