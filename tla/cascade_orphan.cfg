\* One exit host, one command, one failure.  Deadlock is not checked: the
\* operator may stop typing commands.
SPECIFICATION Spec
CONSTANTS
  a = a
  b = b
  Host = {a}
  None = None
  MaxKeys = 3
  MaxRuns = 1
  MaxFaults = 1
INVARIANT EveryExitKnown
CHECK_DEADLOCK FALSE
