SPECIFICATION FairSpec
CONSTANTS
  Lane <- LifeLane
  Priority <- LifePriority
  Interval <- LifeInterval
  Order <- LifeOrder
  Sentinel = Sentinel
  Schema = "schema"
  AgingLevel = 1
  AgeCap = 4
  SlowInterval = 2
  MinRetry = 1
  SchemaRetryMax = 2
  Skew = 1
  MaxFailures = 2
  MaxService = 1
  MaxLoops = 2
INVARIANTS
  InflightExact
  SerializedLane
  NoStaleContract
  NoUseAfterClose
  TasksAccounted
PROPERTIES
  ImplementsSource
  RetrySpacing
  LoopEnds
  WorkerEnds
  Served
