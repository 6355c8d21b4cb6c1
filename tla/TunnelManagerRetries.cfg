CONSTANTS
  Urls = {url1}
  None = None
  FirstRetries = 2
  MaxRetries = 2
  MaxSpawns = 2
  MaxFaults = 1
  MaxStarts = 1
SPECIFICATION FairSpec
PROPERTY RetriesUntilUpOrExhausted
CHECK_DEADLOCK FALSE
