SPECIFICATION FairSpec
CONSTANTS
  w1 = w1
  w2 = w2
  e1 = e1
  p1 = p1
  p2 = p2
  Workloads <- MCWorkloads
  Exports <- MCExports
  NoExport = NoExport
  ExportOf <- MCExportOf
  Paths <- MCPaths
  Refused <- MCRefused
  MaxWrites = 2
  MaxRuns = 2
  MaxSamples = 2
INVARIANTS TypeOK OnePoint CutStaysOut
PROPERTIES LeavesNoGap ImplementsStore CancelEnds
CHECK_DEADLOCK FALSE
