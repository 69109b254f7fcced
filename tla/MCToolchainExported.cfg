\* Whether what is released is what was validated.
SPECIFICATION Spec
CONSTANTS
  Joints = {"j1", "j2"}
  Groups = {"left", "right"}
  Robots = {"openarm", "other"}
  Robot = "openarm"
  NaN = NaN
  Absent = Absent
  Torn = Torn
  NoBlock = NoBlock
  NoName = NoName
  NoGroup = NoGroup
  Noise = 0
  MinimumRange = 2
  MaxGapPeriods = 3
  Scenarios <- MCScenarios
  StreamsOf <- MCStreamsOf
  Sources <- MCSources
  SweepsOf <- MCSweepsOf
  Revisions <- MCRevisions
PROPERTIES
  ExportedWasValidated
CHECK_DEADLOCK FALSE
