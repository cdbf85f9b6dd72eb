SPECIFICATION CollectorsSpec
CONSTANTS
  Objects = {1, 2, 3}
  PageSize = 2
  MaxPages = 2
  MaxRows = 3
  MaxChanges = 1
  MaxFaults = 1
  Budgets <- MCBudgets
  Limits <- MCLimits
  MaxHopeless <- MCMaxHopeless
  Ttl = 2
  FailureLimit = 2
  ListCeiling = 2
  RequestCeiling = 3
  Workers = 2
  Anonymous = {3}
  Units = {u1, u2}
  Retention = 1
  MaxNow = 3
  MaxMoves = 1
  Things = {1, 2}
  Namings <- MCNamings
  Eligible = {1}
  Window = 1
  GroupLimits = {1, 2}
  MaxClock = 2
  MaxSent <- MCMaxSent
  MaxLapses = 1
  MaxLost = 2
  MaxDrift = 1
INVARIANTS
  CollectorsTypeOK
  PublicationFaithful
  ReportFaithful
  InspectionExact
PROPERTIES
  HighWaterKept
  Refreshed
