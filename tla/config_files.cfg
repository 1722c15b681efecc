\* Two commands at a time on the node and on the main server, three in all.
SPECIFICATION Spec
CONSTANTS
  c1 = c1
  c2 = c2
  self = self
  other = other
  Cmd = {c1, c2}
  None = None
  Empty = Empty
  Torn = Torn
  MaxRuns = 3
  Self = self
  Other = {other}
SYMMETRY Symmetry
INVARIANTS
  TypeOK
  NothingUndone
  
  
 
