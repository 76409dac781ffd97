SPECIFICATION FairSpec
CONSTANTS
  d1 = d1
  d2 = d2
  Names <- MCNames
  NoName = NoName
  MaxWrites = 2
  Interval = 6
  MaxStamp = 4
INVARIANTS TypeOK RowsAsTold RetriesBounded
PROPERTIES ImplementsSampler CancelEnds KeepsSampling
