SPECIFICATION Spec
CONSTANTS
  Nil = Nil
  LevelArg = ""
  FileArg = ""
  Writable <- LogFiles
  c1 = c1
  c2 = c2
  Clusters <- MCClusters
  Contents <- SomeContents
  SaveStyles <- InPlace
  EarlyEdits = FALSE
  MaxEdits = 1
  MaxHups = 1
PROPERTY ReloadFailureRecovered
