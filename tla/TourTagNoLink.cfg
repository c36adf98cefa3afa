SPECIFICATION FairSpec
CONSTANT Modes = {0}
PROPERTY AutoSleepUponCharging
