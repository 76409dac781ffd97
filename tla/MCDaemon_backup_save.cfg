SPECIFICATION FairSpec
CONSTANTS
  Nil = Nil
  LevelArg = ""
  FileArg = ""
  Writable <- LogFiles
  c1 = c1
  c2 = c2
  Clusters <- MCClusters
  Contents <- GoodContents
  SaveStyles <- AllStyles
  EarlyEdits = FALSE
  MaxEdits = 3
  MaxHups = 0
PROPERTY SavesAreRead
