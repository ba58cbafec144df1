\* Cancellation, removal of an interface, scans that finish and scans that do not.
CONSTANTS
  i1 = i1
  i2 = i2
  i3 = i3
  None = None
  Node = {n1, n2, n3}
  Ioctl = {i1, i2, i3}
  Scenarios <- All
  MaxScanCmds = 3
  SlowHang = TRUE
SPECIFICATION Spec
SYMMETRY Symmetry
INVARIANTS TypeOK OnePlace OwnedOnce ResponseMatches CurrHasExit ScanReleases
PROPERTY ServesRequests
CHECK_DEADLOCK FALSE
