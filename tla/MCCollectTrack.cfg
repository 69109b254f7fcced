\* Collections that fail, are killed, and are repeated with the same output.
SPECIFICATION Spec
CONSTANTS
  Depth = 2
  MaxStamp = 8
  Samples = 2
  MaxAttempts = 2
INVARIANTS
  TypeOK
  RepetitionsStartAlike
PROPERTIES
  ManifestNamesAWholeRun
  CollectionEnds
CHECK_DEADLOCK FALSE
