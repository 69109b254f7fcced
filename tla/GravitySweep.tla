---------------------------- MODULE GravitySweep ----------------------------
(***************************************************************************)
(* `pose gravity --sweep` and `r2s identify --collect`                     *)
(* (src/robot_control/cli.py): a gravity torque is held at each of several *)
(* scales and the tracking error read; a collection does so at several     *)
(* poses, moving the arm in between.                                       *)
(***************************************************************************)
EXTENDS EffortLine

CONSTANTS
  Loads,   \* scaled gravity torques the model may ask for
  Rounds,  \* scales held at a pose
  Poses    \* poses of a collection

ASSUME SweepAssumption ==
  Loads \subseteq Int /\ Rounds \in Nat \ {0} /\ Poses \in Nat \ {0}

VARIABLES
  pose,   \* the pose of the collection
  round   \* the scale being held

sweepVars == <<pose, round>>

SweepInit == pose = 0 /\ round = 0

BeginGravity == pc = "starting" /\ command = "gravity" /\ Goto("publish") /\ UNCHANGED sweepVars

\* The itinerary is authorized before the first move.
BeginPoses == pc = "starting" /\ command = "poses" /\ Goto("moving") /\ UNCHANGED sweepVars

Move ==
  /\ pc = "moving"
  /\ pc' = "publish" /\ release' = "none" /\ round' = 0
  /\ UNCHANGED <<command, wire, fault, outcome, pose>>

\* The ramp is refused, or its goal fails.
MoveFails == pc = "moving" /\ (Leave("refused") \/ Leave("unusable")) /\ UNCHANGED sweepVars

\* A round: where is the arm, which torque holds it there, may it be published.
PublishLoad ==
  /\ pc = "publish"
  /\ \E load \in Loads : Authorized(load) /\ Send(load, "measure")
  /\ UNCHANGED sweepVars

LoadRefused ==
  /\ pc = "publish"
  /\ \E load \in Loads : ~Authorized(load) /\ Raise("refused")
  /\ UNCHANGED sweepVars

SweepCallFails == pc \in {"publish", "measure"} /\ Raise("unusable") /\ UNCHANGED sweepVars

Bug_MeasureReturns ==
  /\ pc = "measure"
  /\ round' = round + 1 /\ UNCHANGED pose
  /\ Goto(IF round + 1 < Rounds THEN "publish" ELSE "released")

Measure ==
  /\ pc = "measure"
  /\ round' = round + 1 /\ UNCHANGED pose
  /\ Goto(IF round + 1 < Rounds THEN "publish" ELSE "releasing")

\* The sweep of this pose is on disk.
MorePoses == command = "poses" /\ fault = "none" /\ pose + 1 < Poses

NextPose ==
  /\ pc = "released" /\ MorePoses
  /\ pose' = pose + 1 /\ UNCHANGED round
  /\ Goto("moving")

SweepStep ==
  \/ BeginGravity \/ BeginPoses \/ Move \/ MoveFails
  \/ PublishLoad \/ LoadRefused \/ SweepCallFails \/ Measure \/ NextPose

SweepTypeOK == pose \in 0..(Poses - 1) /\ round \in 0..Rounds
=============================================================================
