\* The torn pull: a user change between the two reads of handlePull.
SPECIFICATION Spec
CONSTANTS
  n1 = n1
  n2 = n2
  Node = {n1}
  Registered = {n1}
  PullThreshold = 0
  ReconcileSetting = 9
  MissesSetting = 1
  DefaultByteDelta = 1
  DefaultReconcile = 2
  DefaultMisses = 3
  HeartbeatEvery = 1
  Lossy = FALSE
  MaxVersion = 2
  MaxBytes = 0
  MaxAge = 2
  MaxInFlight = 1
  MaxCrashes = 0
INVARIANT SettledMeansMirrored
