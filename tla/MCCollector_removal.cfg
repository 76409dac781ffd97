SPECIFICATION FairSpec
CONSTANTS
  d1 = d1
  d2 = d2
  Names <- MCNames
  NoName = NoName
  MaxWrites = 1
  Interval = 6
  MaxStamp = 2
PROPERTY RemovalsHandled
