\* An odd chunk_size, and the other parts kept small.
CONSTANTS
  MaxHistory = 1
  MaxSamples = 6
  MaxStarts = 3
  MaxBadSaves = 2
  CpuWindow = 2
  DropWindow = 3
  DropThreshold = 2
  LevelAlerts = {"ram_high"}
  MaxClock = 5
  MaxAsks = 0
  Chats = {home, work}
  Types = {up}
  Callers = {c1, c2}
  Sender = sender
  DedupWindow = 2
  BootedFor = 1
  MaxTime = 4
  MaxRequests = 0
  MaxParts = 2
  ChunkSize = 9
  MaxPieces = 6
  Texts <- PieceTexts
SPECIFICATION Spec
PROPERTY EveryCutIsProgress
\* Each part ends at its bounds.
CHECK_DEADLOCK FALSE
