CONSTANTS
  NoFrame = NoFrame
  Nodes = {1, 2, 3, 4}
  Casts <- MCCasts
  HalfStamp = 64
  ClockWraps = 4
  DelayUnit = 4
  Uus = 50
  AntDelay = 1
  CntMod = 3
  MAX_READINGS = 3
  TrimOneIn = 3
  Centimetres = 300
SPECIFICATION Spec
INVARIANT RangingTypeOK
INVARIANT ExchangesAreSound
 
PROPERTY RangingGoesOn
CHECK_DEADLOCK FALSE
