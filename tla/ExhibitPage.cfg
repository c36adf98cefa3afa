SPECIFICATION FairSpec
CONSTANTS
  Exhibit = {e1, e2}
  Nothing = Nothing
  Example = Example
  MaxVisits = 3
INVARIANT TypeOK
INVARIANT ScansHeardOnce
INVARIANT QuietPageIsRight
PROPERTY LoadingEnds
CHECK_DEADLOCK FALSE
