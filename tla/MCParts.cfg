\* Small windows and histories, so that each of them is left behind.
CONSTANTS
  MaxHistory = 2
  MaxSamples = 6
  MaxStarts = 3
  MaxBadSaves = 2
  CpuWindow = 2
  DropWindow = 3
  DropThreshold = 2
  LevelAlerts = {"ram_high"}
  MaxClock = 5
  MaxAsks = 4
  Chats = {home, work}
  Types = {up}
  Callers = {c1, c2}
  Sender = sender
  DedupWindow = 2
  BootedFor = 1
  MaxTime = 4
  MaxRequests = 2
  MaxParts = 2
  ChunkSize = 10
  MaxPieces = 6
  Texts <- PieceTexts
SPECIFICATION Spec
INVARIANTS PartsTypeOK HistoryIsTheLatest AlertsAreTrue DedupIsExact SplitIsFaithful
PROPERTIES EventsAreSpaced EveryCutIsProgress
\* Each part ends at its bounds.
CHECK_DEADLOCK FALSE
