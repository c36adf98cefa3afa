SPECIFICATION FairSpec
CONSTANTS
  User = {u1}
  Padded = {}
  Room = {r1}
  NoRoom = NoRoom
  Absent = Absent
INVARIANT TypeOK
PROPERTY OnlyOffIsDropped
PROPERTY TagsAreLifecycles
PROPERTY OffIsDropped
PROPERTY EmptyRoomsWeighNothing
PROPERTY TouringIsPlaced
