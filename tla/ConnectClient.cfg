SPECIFICATION FairSpec
CONSTANTS
  Callers = {c1, c2}
  ConfiguredRetries = 2
  ConfiguredBurst = 2
  Interval = 3
  Base = 1
  MaxDelay = 4
  Timeout = 1
  Hints = {3, 5}
PROPERTIES Limited RetryAfterHonoured Returns CancelEnds
