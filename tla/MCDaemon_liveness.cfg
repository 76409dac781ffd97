SPECIFICATION FairSpec
CONSTANTS
  Nil = Nil
  LevelArg = ""
  FileArg = ""
  Writable <- LogFiles
  c1 = c1
  c2 = c2
  Clusters <- MCClusters
  Contents <- GoodContents
  SaveStyles <- InPlace
  EarlyEdits = FALSE
  MaxEdits = 2
  MaxHups = 2
PROPERTIES SavesAreRead HupIsServed TermEnds
