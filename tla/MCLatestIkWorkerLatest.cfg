\* "latest-wins", taken literally: a request that arrives between the last
\* candidate and the recording of the batch does not stop the older solution.
SPECIFICATION Spec
CONSTANTS
  None = None
  Configs = {0, 1, 2}
  MaxJump = None
  MaxCandidates = 2
  MaxSubmits = 2
PROPERTIES
  OnlyNewestIsLatched
CHECK_DEADLOCK FALSE
