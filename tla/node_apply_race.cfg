\* Two API handlers, nothing fails.
SPECIFICATION Spec
CONSTANTS
  t1 = t1
  t2 = t2
  Thread = {t1, t2}
  NumEmails = 1
  MaxUsers = 2
  Requests <- StoreRequests
  CliRequests <- NoRequests
  Portal = FALSE
  Reconcile = FALSE
  PageSize = 1
  XrayManaged = TRUE
  FlushFails = FALSE
  ReloadFails = FALSE
  MaxCrashes = 0
SYMMETRY Symmetry
INVARIANT RevokedIsOut
