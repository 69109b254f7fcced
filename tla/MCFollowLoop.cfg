\* The loop, the gate and the IK mailbox over four control cycles.
SPECIFICATION Spec
CONSTANTS
  elbow = elbow
  wrist = wrist
  None = None
  Joints <- MCJoints
  Lower <- MCLower
  Upper <- MCUpper
  Velocity <- MCVelocity
  MaxLead <- MCMaxLead
  Configs <- MCConfigs
  Elapsed <- MCElapsed
  Period = 1
  Gain = 2
  Parts = 2
  JointBound = 2
  QuietBound = 0
  StableWindow = 1
  Timeout = 3
  MaxSubmits = 2
  MaxTime = 4
CHECK_DEADLOCK FALSE
INVARIANTS
  TypeOK
  HoldMatchesTarget
  LoopAndGateAgree
  ConvergenceIsEarned
PROPERTIES
  HeldJointNeverOvershoots
