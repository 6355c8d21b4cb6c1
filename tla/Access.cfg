\* Two updates at once, or one at a time as deployed, with an error or a
\* cancellation of either, and a crash.
CONSTANTS
  Users = {boss, ann, bob}
  Owner = boss
  Tokens = {t1, t2}
  None = None
  MaxInFlight = 2
  MaxSets = 1
  MaxFaults = 1
  MaxCrashes = 1
SPECIFICATION Spec
SYMMETRY AccessSymmetry
INVARIANTS
  OneInviteEach
  LostOnlyToFailure
PROPERTIES
  RevokedAdmitsNobody
  RowsAreKept
CHECK_DEADLOCK FALSE
