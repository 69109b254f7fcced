\* Every command that puts torque on the arm, ended anywhere, and the fit of its rounds.
SPECIFICATION RecordedSpec
CONSTANTS
  EffortLimit = 48
  Joints = 2
  Seed = 1
  MaxDoublings = 2
  Moved = 1
  Deflection = 6
  Steps = 4
  Equilibrium <- MCEquilibrium
  Bands <- MCBands
  Rooms <- MCRooms
  Ratings <- MCRatings
  Loads <- MCLoads
  Rounds = 2
  Poses = 2
  Gravity <- MCGravity
  Points = 2
  Beats = 2
  Noise = 0
INVARIANTS
  TypeOK
  ArmIsLeftSafe
  StaysInItsRoom
  RoundsOnTheirBranch
  FitIsTheJoint
CHECK_DEADLOCK FALSE
