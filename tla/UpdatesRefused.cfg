\* A user whose second text comes too soon, and whom the bot cannot tell so.
CONSTANTS
  Owner = boss
  Users = {boss, ann}
  Admins = {}
  Registered = {boss, ann}
  None = None
  ClaudePerMin = 1
  CommandsPerMin = 1
  InvitesPerHour = 1
  TicksPerSecond = 1
  Passes = {60}
  MaxTime = 0
  Sent = {"text"}
  Vias = {"message"}
  MaxChunks = 1
  MaxUpdates = 2
  MaxFaults = 1
SPECIFICATION Spec
INVARIANT RefusedIsDropped
CHECK_DEADLOCK FALSE
