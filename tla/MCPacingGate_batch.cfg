SPECIFICATION Spec
CONSTANTS
  Proc = {exporter, cli}
  None = None
  Factor = 2
  MaxDuration = 2
  MinGap = 1
  LeaseCap = 2
  MaxBatch = 2
  MaxLocal = 1
  MaxCrashes = 1
  TornWrites = FALSE
PROPERTIES
  MeasuredExempt
