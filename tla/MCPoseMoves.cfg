\* The three position commands, ended anywhere.
SPECIFICATION Spec
CONSTANTS
  Lower <- MCLower
  Upper <- MCUpper
  Velocity <- MCVelocity
  Slack = 1
  Raised = 8
  Lifted = 2
  Duration = 6
  Passes = 4
  Tolerance = 0
  NameLists <- MCNameLists
  Measured <- MCMeasured
  Asked <- MCAsked
  Landings <- MCLandings
INVARIANTS
  TypeOK
  OnlyGainsContinue
PROPERTIES
  ElbowLowersLast
CHECK_DEADLOCK FALSE
