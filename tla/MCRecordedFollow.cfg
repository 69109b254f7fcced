\* One pose follow session and its record, with failures of every call and two interrupts.
SPECIFICATION RecordedSpec
CONSTANTS
  None = None
  ReadyPoints = 2
  SettleBeats = 3
  MaxInterrupts = 2
  Maximum <- MCMaximum
  Profiles <- MCProfiles
  Period = 1
  Elapsed <- MCElapsed
  Seconds = 10
  MaxWait = 2
  MaxTroubles = 1
INVARIANTS
  TypeOK
  EndsAsItSays
  RecordAgrees
  ProfileIsContinuous
  ReportIsTrue
PROPERTIES
  HoldIsFinal
  MotionUnderGravity
  HandoffEnds
CHECK_DEADLOCK FALSE
