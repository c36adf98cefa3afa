SPECIFICATION RoutingSpec
CONSTANTS
  Node = {n1, n2, n3, n4}
  n1 = n1
  n2 = n2
  n3 = n3
  n4 = n4
  Passage <- MCPassage
  Weight = {1, 3}
  Elsewhere = Elsewhere
  Unknown = Unknown
  From = {n1, Elsewhere}
  MaxStops = 3
INVARIANT RoutingTypeOK
INVARIANT SearchesSettle
INVARIANT PathIsShortest
INVARIANT TourAnswered
PROPERTY CallReturns
CHECK_DEADLOCK FALSE
