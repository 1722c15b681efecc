\* An upgrade, two polls at a time, the portal, an operator beside a stopped
\* daemon, failing flushes and reloads, a crash.
SPECIFICATION FairSpec
CONSTANTS
  heartbeat = heartbeat
  pull = pull
  Poller = {heartbeat, pull}
  NumEmails = 1
  MaxUsers = 2
  Legacy = 1
  MaxTokens = 3
  MaxBytes = 1
  ReuseEmail = FALSE
  Changes = TRUE
  Portal = TRUE
  Operator = TRUE
  Beside = FALSE
  FlushFails = {"remove", "poll", "rotate"}
  ReloadFails = TRUE
  MaxCrashes = 1
INVARIANTS
  TypeOK
  OwnCounters
  RevokedIsDead
  LinkKept
PROPERTIES
  CaughtUp
CHECK_DEADLOCK FALSE
