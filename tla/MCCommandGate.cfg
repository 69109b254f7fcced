\* Every operation of one gate, in any order, over three instants of the clock.
SPECIFICATION Spec
CONSTANTS
  elbow = elbow
  wrist = wrist
  None = None
  Malformed = Malformed
  Joints <- MCJoints
  Lower <- MCLower
  Upper <- MCUpper
  Velocity <- MCVelocity
  MaxLead <- MCMaxLead
  EffortLimit <- MCEffortLimit
  Builds <- MCBuilds
  Poses <- MCPoses
  Efforts <- MCEfforts
  Durations <- MCDurations
  Period = 1
  Watchdog = 1
  MaxWaypoints = 2
  MaxTime = 2
INVARIANTS
  TypeOK
  ReleasedSafely
PROPERTIES
  WatchdogLatches
  RefusalKeepsState
