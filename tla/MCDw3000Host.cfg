CONSTANTS
  NoFrame = 0
  MaxFrames = 3
  MaxCalls = 4
  Configs <- MCConfigs
SPECIFICATION Spec
INVARIANT FramesReadOnce
INVARIANT ReceiverTuned
PROPERTY NeverSentLate
PROPERTY SendersGoOn
CHECK_DEADLOCK FALSE
