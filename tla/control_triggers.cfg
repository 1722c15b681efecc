\* One child, no crash; the reconcile interval lies beyond the horizon MaxAge,
\* so that only the version and the traffic trigger can cause a pull.
SPECIFICATION FairSpec
CONSTANTS
  n1 = n1
  n2 = n2
  Node = {n1}
  Registered = {n1}
  PullThreshold = 1
  ReconcileSetting = 9
  MissesSetting = 1
  DefaultByteDelta = 2
  DefaultReconcile = 2
  DefaultMisses = 3
  HeartbeatEvery = 1
  Lossy = TRUE
  MaxVersion = 1
  MaxBytes = 1
  MaxAge = 2
  MaxInFlight = 2
  MaxCrashes = 0
PROPERTIES
  VersionTrigger
  TrafficTrigger
