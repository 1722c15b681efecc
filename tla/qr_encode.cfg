\* Sixteen texts, at the boundaries of all versions.
SPECIFICATION Spec
CONSTANTS
  Text <- SomeTexts
  None = None
INVARIANTS
  TypeOK
  ReadsBack
  Correctable
  PatternsKept
  UnmaskedBetween
  BestMask
