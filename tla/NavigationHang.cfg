SPECIFICATION Spec
CONSTANTS
  User = {u1}
  Room = {r1, r4}
  DefaultRoom = r4
  NoRoom = NoRoom
  Absent = Absent
  MaxRequests = 2
INVARIANT ServerStaysUp
