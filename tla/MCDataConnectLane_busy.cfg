SPECIFICATION Spec
CONSTANTS
  Lane <- BusyLane
  Priority <- BusyPriority
  Interval <- BusyInterval
  Order <- BusyOrder
  Sentinel = Sentinel
  Schema = "schema"
  AgingLevel = 1
  AgeCap = 12
  SlowInterval = 2
  MinRetry = 1
  SchemaRetryMax = 2
  Skew = 1
  MaxFailures = 1
  MaxService = 2
  MaxLoops = 1
INVARIANTS
  BoundedWait
