SPECIFICATION ReportingSpec
CONSTANTS
  Proc = {exporter, cli}
  None = None
  Factor = 2
  MaxDuration = 2
  MinGap = 1
  LeaseCap = 3
  MaxBatch = 1
  MaxLocal = 1
  MaxCrashes = 1
  TornWrites = TRUE
PROPERTIES
  CrashSilence
