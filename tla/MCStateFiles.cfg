SPECIFICATION MCSpec
CONSTANTS
  Threads = {t1, t2}
  Users = {u1}
  MaxCorruptStateGenerations = 1
  MaxCorrupt = 2
  MaxResets = 1
  MaxFaults = 1
INVARIANTS TypeOK ResetChecked
PROPERTIES HealthyKept OpenEnds
