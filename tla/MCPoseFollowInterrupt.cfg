\* One Ctrl-C, which the documentation says ends the session with zero torque.
SPECIFICATION Spec
CONSTANTS
  None = None
  ReadyPoints = 1
  SettleBeats = 2
  MaxInterrupts = 1
INVARIANT
  InterruptReleases
CHECK_DEADLOCK FALSE
