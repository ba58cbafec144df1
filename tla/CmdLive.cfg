\* A scan of up to two commands and a command that waits for it.
CONSTANTS
  i1 = i1
  i2 = i2
  i3 = i3
  None = None
  Node = {n1, n2, n3}
  Ioctl = {i1, i2, i3}
  Scenarios <- ScanAndConn
  MaxScanCmds = 2
  SlowHang = FALSE
SPECIFICATION LiveSpec
PROPERTY AcceptedCompletes
CHECK_DEADLOCK FALSE
