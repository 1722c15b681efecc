\* One child, a network that loses and delays, crashes of both processes.
SPECIFICATION FairSpec
CONSTANTS
  n1 = n1
  n2 = n2
  Node = {n1}
  Registered = {n1}
  PullThreshold = 0
  ReconcileSetting = 2
  MissesSetting = 1
  DefaultByteDelta = 1
  DefaultReconcile = 2
  DefaultMisses = 3
  HeartbeatEvery = 1
  Lossy = TRUE
  MaxVersion = 2
  MaxBytes = 0
  MaxAge = 2
  MaxInFlight = 1
  MaxCrashes = 1
INVARIANTS
  TypeOK
  
  ViewMatchesDetail
  DownNeverPulled
PROPERTIES
  
  EventuallyMirrored
  DeadIsDetected
  RecoveryIsSeen
