\* As the server uses it: start at boot, shutdown once.
CONSTANTS
  InitialBackoff = 2
  MaxBackoff = 6
  RestartMax = 3
  StartAgain = FALSE
  MaxLaunches = 5
  MaxAsking = 2
SPECIFICATION FairSpec
CHECK_DEADLOCK FALSE
INVARIANTS
  OneWorker
  NeverStalls
  BackoffCoversFailures
  LaunchesAreCounted
  ReadyMeansWorker
PROPERTIES
  NoLaunchAfterShutdown
  ShutdownEnds
  SlowWorkerEnds
