\* The alert manager alone, asked as often and as fast as may be.
CONSTANTS
  CpuWindow = 2
  DropWindow = 3
  DropThreshold = 2
  LevelAlerts = {"ram_high"}
  MaxClock = 5
  MaxAsks = 4
SPECIFICATION AlertsSpec
INVARIANT CpuAlertIsSustained
CHECK_DEADLOCK FALSE
