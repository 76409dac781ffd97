SPECIFICATION Spec
CONSTANTS
  Listings <- MCListings
  MaxDsID = 2
  Rows <- OneNode
  NoKind = "none"
  Pinned = "Pinned"
  Buckets = {"System"}
  LookUps = TRUE
  TTL = 1
  MaxRows = 2
  MaxTime = 2
INVARIANTS TypeOK LabelCounts DatasetsCurrent
PROPERTY ImplementsExposition
