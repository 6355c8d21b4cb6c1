\* Three calls, two slots: a queue forms, and a slot is reused.
CONSTANTS
  Calls = {c1, c2, c3}
  Limit = 2
  NoProc = NoProc
SPECIFICATION Spec
SYMMETRY CallSymmetry
INVARIANTS
  AtMostLimitClis
  OnlyOwnTimeoutKills
  NoOrphanCli
\* The calls are finite in number and the program may shut down.
CHECK_DEADLOCK FALSE
