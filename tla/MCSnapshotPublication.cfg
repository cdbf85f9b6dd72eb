SPECIFICATION FairSpec
CONSTANTS
  Dataset = {radius, licensing}
  Persisted = {radius}
  None = None
  Scraper = Scraper
  Window = 1
  MaxAttempts = 2
  MaxRestarts = 1
INVARIANTS
  DataIsLastGood
PROPERTIES
  ImplementsRegistry
  ScrapeWhole
  StaleIsReported
