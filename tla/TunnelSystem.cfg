\* Two URLs, one restart and two incarnations, the first of them without retries;
\* the bot starts with the host, and both windows pass.
CONSTANTS
  Urls = {url1, url2}
  None = None
  FirstRetries = 0
  MaxRetries = 1
  MaxSpawns = 2
  MaxFaults = 2
  MaxStarts = 2
  StateWindow = 1
  ExhaustedWindow = 2
  StartTime = 0
  MaxTime = 3
SPECIFICATION SysFairSpec
INVARIANTS
  OwnNgrokIsKnown
  AdminIsUpToDate
PROPERTIES
  NewsGetsThrough
  ToldInOrder
  OnlyRepeatsAreSuppressed
\* ngrok and the bot may both be gone for good.
CHECK_DEADLOCK FALSE
