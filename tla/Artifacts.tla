----------------------------- MODULE Artifacts -----------------------------
(***************************************************************************)
(* The signed files of the calibration toolchain                           *)
(* (src/robot_control/artifacts.py): gravity sweeps and static estimates,  *)
(* which say on which robot and joints they were measured and are refused  *)
(* anywhere else.  A file is what it says; one that is missing or was cut  *)
(* short says nothing.                                                     *)
(***************************************************************************)
EXTENDS StaticFit, DynamicFit

CONSTANTS
  Groups,   \* groups of joints of this profile
  Robots,   \* profiles and their assets
  Robot,    \* the profile in use, and its asset
  Sources,  \* sets of sweeps, told apart by the hashes of what is in them
  Absent,   \* a file that does not exist
  Torn      \* a file cut short: its writer died after opening it

ASSUME ArtifactsAssumption ==
  /\ Robot \in Robots /\ Absent # Torn /\ Joints # {} /\ IsFiniteSet(Joints)

Unreadable == {Absent, Torn}

\* A measured number is there or is not (nan, and null on disk).
Holes == {"finite", "nan"}
Column == [Joints -> Holes]
Whole(column) == \A j \in Joints : column[j] = "finite"

\* SWEEP_SCHEMA_VERSION, STATIC_SCHEMA_VERSION.
SweepVersion == 2
StaticVersion == 3

-----------------------------------------------------------------------------
(* _verify and _group_joints: written by this tool, in a version it knows, *)
(* unchanged since, for this robot and for joints it has.  The revision of *)
(* the robot's description is recorded and not compared.                   *)

Verified(file, newest) ==
  /\ file.version \in 1..newest
  /\ file.sealed
  /\ file.robot = Robot

NamesItsJoints(file) == file.group \in Groups /\ file.joints = file.group

Genuine(file, newest) == Verified(file, newest) /\ NamesItsJoints(file)

\* A file that is missing or is not JSON raises before anything is checked, and
\* not as an ArtifactError.
Reading(file, newest) ==
  IF file \in Unreadable THEN "raises" ELSE IF Genuine(file, newest) THEN "read" ELSE "refused"

\* A sweep has a round, and a torque, a pose and an error in every round.
ReadSweep(file) ==
  IF Reading(file, SweepVersion) = "read" /\ file.rounds = <<>> THEN "refused"
  ELSE Reading(file, SweepVersion)

-----------------------------------------------------------------------------
(* The static estimate of a group, from the sweeps it was fitted on.       *)

FitsOf(sweeps) == [j \in Joints |-> GravityFit([s \in DOMAIN sweeps |-> sweeps[s].rounds], j)]

Torqued(sweeps) == SelectSeq(sweeps, LAMBDA sweep : IsStaircase(sweep.rounds, sweep.scaled))

\* Of the joints a staircase reached, the Coulomb friction is a measurement.
CoulombOf(sweeps) ==
  LET driven == Torqued(sweeps)
      rounds == [s \in DOMAIN driven |-> driven[s].rounds]
  IN [j \in Joints |-> IF StaircaseMeasures(rounds, j) THEN "finite" ELSE "nan"]

StaticOf(sweeps, sources) ==
  LET found == FitsOf(sweeps)
  IN [version |-> StaticVersion, robot |-> Robot, sealed |-> TRUE,
      group |-> sweeps[1].group, joints |-> sweeps[1].group,
      stiffness |-> [j \in Joints |-> IF found[j] = "unidentified" THEN "nan" ELSE "finite"],
      scale |-> [j \in Joints |-> IF found[j] = "identified" THEN "finite" ELSE "nan"],
      coulomb |-> CoulombOf(sweeps),
      sources |-> sources]

Bug_WritesUnscaled(estimate) == Whole(estimate.stiffness)

\* write_static_estimate refuses an estimate with a hole in it.
Writable(estimate) == Whole(estimate.stiffness) /\ Whole(estimate.scale)

Statics ==
  [version : {StaticVersion}, robot : {Robot}, sealed : {TRUE},
   group : Groups, joints : Groups, stiffness : Column, scale : Column, coulomb : Column,
   sources : SUBSET Sources]

ReadStatic(file) ==
  IF Reading(file, StaticVersion) = "read" /\ ~Whole(file.stiffness) THEN "refused"
  ELSE Reading(file, StaticVersion)
=============================================================================
