SPECIFICATION FairSpec
CONSTANTS
  User = {u1}
  Padded = {u1}
  Room = {r1, r2}
  NoRoom = NoRoom
  Absent = Absent
PROPERTY OffIsDropped
