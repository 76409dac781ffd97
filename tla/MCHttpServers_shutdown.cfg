SPECIFICATION Spec
CONSTANTS
  scraper = scraper
  discoverer = discoverer
  Clients <- MCClients
  ServiceOf <- MCServiceOf
  MaxRuns = 2
CHECK_DEADLOCK FALSE
INVARIANT ShutdownClean
