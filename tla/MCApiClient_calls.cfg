SPECIFICATION FairSpec
CONSTANTS
  t1 = t1
  t2 = t2
  t3 = t3
  NoToken = NoToken
  Tokens <- MCTokens
  Lifetimes <- MCLifetimes
  MaxRetries = 3
  MaxDelay = 3
  Grace = 2
  DefaultLifetime = 5
  MaxAnswer = 1
INVARIANT TypeOK
INVARIANT TokenOfSession
PROPERTY RenewedInTime ImplementsCalls
PROPERTY CallsEnd
PROPERTY CancelEnds
PROPERTY Recovers
