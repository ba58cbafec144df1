SPECIFICATION PsFairSpec
CONSTANTS
  MaxNaps = 2
  MaxFaults = 1
INVARIANTS AgreeOnSleep
PROPERTY WorkIsSent
