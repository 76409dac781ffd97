SPECIFICATION Spec
CONSTANTS
  Nil = Nil
  LevelArg = ""
  FileArg = ""
  Writable <- LogFiles
  c1 = c1
  c2 = c2
  Clusters <- MCClusters
  Contents <- SomeContents
  SaveStyles <- AllStyles
  EarlyEdits = TRUE
  MaxEdits = 2
  MaxHups = 1
INVARIANTS TypeOK OneConfig
PROPERTIES ReloadNeverStops StaleOnlyUnwatched ImplementsService
