\* One handler, the reconcile run and the command line; people who come and go
\* in Authentik; flush failures, a crash.
SPECIFICATION FairSpec
CONSTANTS
  t1 = t1
  t2 = t2
  Thread = {t1}
  NumEmails = 2
  MaxUsers = 1
  Requests <- NoRequests
  CliRequests <- CliDelete
  Portal = TRUE
  Reconcile = TRUE
  PageSize = 2
  XrayManaged = FALSE
  FlushFails = TRUE
  ReloadFails = FALSE
  MaxCrashes = 1
PROPERTIES
  SteadyNeverPruned
  DeactivatedIsRevoked
