\* Two calls, one slot: the second waits for the first one's timeout.
CONSTANTS
  Calls = {c1, c2}
  Limit = 1
  NoProc = NoProc
SPECIFICATION FairSpec
PROPERTIES
  EveryCallEnds
  RunSlotsSpec
CHECK_DEADLOCK FALSE
