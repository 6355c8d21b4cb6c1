\* The owner and a user; every handler, two updates with one failure.
\* Half a minute passes at a time, and a quarter of a second short of a minute in two.
CONSTANTS
  Owner = boss
  Users = {boss, ann, eve}
  Admins = {}
  Registered = {boss, ann}
  None = None
  ClaudePerMin = 1
  CommandsPerMin = 1
  InvitesPerHour = 1
  TicksPerSecond = 4
  Passes = {118, 121}
  MaxTime = 239
  Sent = {"document", "nullByte", "tooLong", "start", "new", "invite", "epic", "add", "relay", "approve", "reject", "unknownButton"}
  Vias = {"message", "edited", "button", "orphan"}
  MaxChunks = 2
  MaxUpdates = 2
  MaxFaults = 1
SPECIFICATION Spec
INVARIANTS
  TypeOK
  GrantsAreBounded WaitIsEnough
  OneFailureIsTold ToldIsTrue EntitledOnly NothingLeftBehind AnswersAreWhole
CHECK_DEADLOCK FALSE
