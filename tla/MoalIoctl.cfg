SPECIFICATION MoalFairSpec
CONSTANTS
  r1 = r1
  r2 = r2
  Requests = {r1, r2}
  Nobody = Nobody
INVARIANT RequestOwned
PROPERTY CallersReturn
CHECK_DEADLOCK FALSE
