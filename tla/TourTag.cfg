SPECIFICATION FairSpec
CONSTANT Modes = {0, 1}
INVARIANT TypeOK
INVARIANT SleepGroupReady
INVARIANT SafeSleep
PROPERTY OfflineIsLast
PROPERTY ImplementsLifecycle
PROPERTY ShutdownCompletes
PROPERTY ReturnsToTour
PROPERTY ModeTakesEffect
