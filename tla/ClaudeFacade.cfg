\* Two users, two updates at once under a cap that /limit lifts and midnight renews;
\* /new, expiry, a role change or a restart under way.
CONSTANTS
  Users = {u1, boss}
  Owner = boss
  DefaultCap = 1
  Caps = {}
  MaxCost = 1
  None = None
  MaxInFlight = 2
  MaxRequests = 3
  MaxSessions = 2
  MaxDays = 1
  MaxAdmin = 1
  MaxRestarts = 1
SPECIFICATION Spec
CONSTRAINT RestartAlone
INVARIANTS
  ResumesOnlyItsOwn
  OvershootIsBounded
  ContextKept
CHECK_DEADLOCK FALSE
