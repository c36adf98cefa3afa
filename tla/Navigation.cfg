SPECIFICATION FairSpec
CONSTANTS
  User = {u1}
  Room = {r1, r4}
  DefaultRoom = r4
  NoRoom = NoRoom
  Absent = Absent
  MaxRequests = 3
INVARIANT TypeOK
INVARIANT FastHasReason
PROPERTY ArrivalEndsNavigation
PROPERTY RestIsSlow
