SPECIFICATION MCSpec
CONSTANTS
  Lanes = {"mnt", "devices"}
  Mnt = "mnt"
  Interval <- MCInterval
  ScrapeInterval = 1
  Backoff = 2
  Skew = 0
  MaxFailures = 2
  Spacing = 1
  MaxCycle = 1
  MaxService = 1
  Jumps <- MCJumps
  MaxStep = 8
  MaxJumps = 1
  MaxLoops = 2
INVARIANTS TypeOK OneCollection MntClientUse NoSuspension
PROPERTY SlotsSpaced
CHECK_DEADLOCK FALSE
