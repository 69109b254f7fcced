-------------------------- MODULE FittedStaircase --------------------------
(***************************************************************************)
(* The rounds `pose torque` records and what r2s identify makes of them:   *)
(* measure_staircase (src/robot_control/excitation.py) composed with       *)
(* fit_staircase and _frozen_rounds (identification.py).                   *)
(***************************************************************************)
EXTENDS ArmCommands, StaticFit

VARIABLE sweep  \* poses, applied and errors, joint by joint

recordedVars == <<vars, sweep>>

\* The joint under test carries the torque, the others none; the tracking error
\* is what the joint lags behind the position it is held at.
Round ==
  [j \in 1..Joints |->
    IF j = joint + 1 THEN [model |-> 0, applied |-> wire, error |-> -held]
                     ELSE [model |-> 0, applied |-> 0, error |-> 0]]

\* A round is recorded when its reading was in the room.
Record ==
  /\ sweep' = CASE NextRound \/ LastRound -> Append(sweep, Round)
                [] OTHER -> sweep

RecordedInit == Init /\ sweep = <<>>
RecordedSpec == RecordedInit /\ [][Next /\ Record]_recordedVars

-----------------------------------------------------------------------------
Measured == pc = "joint" /\ joint > 0

Compliance == Equilibrium[curve][1] - Equilibrium[curve][0]
Spring == \A t \in Torques : Equilibrium[curve][t] = Compliance * t + Equilibrium[curve][0]

\* Of a joint that is a spring with dry friction the fit reports the stiffness
\* and the friction it has where the steps clear the band, and never a softer
\* joint or more friction where they do not - also when the rounds of other
\* joints are in the same file (excitation.py:504-506, "the invariant the
\* fitter's single-argmax split assumes and cannot check for itself").
FitIsTheJoint ==
  Measured /\ Spring =>
    LET fit == StaircaseFit(<<sweep>>, joint)
    IN /\ fit.compliance <= Compliance * fit.per /\ fit.friction <= band * fit.cost
       /\ StepsClearTheBand =>
            /\ StaircaseMeasures(<<sweep>>, joint)
            /\ fit.compliance = Compliance * fit.per /\ fit.friction = band * fit.cost
=============================================================================
