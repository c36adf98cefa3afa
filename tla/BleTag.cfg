CONSTANTS
  Beacons = {b1, b2}
  Losses = {60, 61}
  Cards = {c1}
  NoCard = NoCard
  MaxDevices = 2
  MaxValues = 2
  MinValues = 2
  BufferSize = 84
  MaxEvents = 2
  MaxDisturbed = 1
  MaxReboots = 1
SPECIFICATION Spec
INVARIANT ReportsAreSound
PROPERTY TagGoesOn
CHECK_DEADLOCK FALSE
