\* Two exit hosts, three commands, failures and reboots.  Deadlock is not
\* checked: the operator may stop typing commands.
SPECIFICATION Spec
CONSTANTS
  a = a
  b = b
  Host = {a, b}
  None = None
  MaxKeys = 5
  MaxRuns = 3
  MaxFaults = 2
SYMMETRY Symmetry
INVARIANTS
  TypeOK
  TunnelStands
  UninstallReverses
CHECK_DEADLOCK FALSE
