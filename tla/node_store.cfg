\* Two handlers of the API, the portal or the webhook, flush and reload
\* failures, a crash.
SPECIFICATION Spec
CONSTANTS
  t1 = t1
  t2 = t2
  Thread = {t1, t2}
  NumEmails = 1
  MaxUsers = 2
  Requests <- SameRequests
  CliRequests <- NoRequests
  Portal = TRUE
  Reconcile = FALSE
  PageSize = 1
  XrayManaged = TRUE
  FlushFails = TRUE
  ReloadFails = TRUE
  MaxCrashes = 1
SYMMETRY Symmetry
INVARIANTS
  TypeOK
  UniqueEmails
  
