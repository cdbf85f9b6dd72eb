SPECIFICATION FairSpec
CONSTANTS
  first = first
  second = second
  probe = probe
  control = control
  Client = {control}
  Caller = {first, second, probe}
  Probe = {probe}
  ClientOf <- SmallClientOf
  None = None
  Threshold = 2
  Backoff = 2
  MaxLosses = 1
  MaxChanges = 2
INVARIANTS
  LockoutBound
PROPERTIES
  Answered
