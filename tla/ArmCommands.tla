---------------------------- MODULE ArmCommands ----------------------------
(***************************************************************************)
(* One command that puts torque on the arm, from its start to its end.     *)
(***************************************************************************)
EXTENDS Staircase, GravitySweep, ReadyMotion

vars == <<lineVars, staircaseVars, sweepVars, readyVars>>

Init == LineInit /\ StaircaseInit /\ SweepInit /\ ReadyInit

\* What every command does around its try.
LineStep ==
  /\ \/ StartFails \/ Review \/ ReleaseSent \/ ReleaseFails
     \/ WriteFails \/ (Finish /\ ~MorePoses) \/ Interrupt
  /\ UNCHANGED <<staircaseVars, sweepVars, readyVars>>

Next ==
  \/ LineStep
  \/ StaircaseStep /\ UNCHANGED <<sweepVars, readyVars>>
  \/ SweepStep /\ UNCHANGED <<staircaseVars, readyVars>>
  \/ ReadyStep /\ UNCHANGED <<staircaseVars, sweepVars>>

Spec == Init /\ [][Next]_vars

-----------------------------------------------------------------------------
TypeOK == LineTypeOK /\ StaircaseTypeOK /\ SweepTypeOK /\ ReadyTypeOK

\* No command ends, and no collection moves to its next pose, with torque on
\* the arm - unless publishing the zeros failed or was interrupted, and then it
\* does not report success (the finally of measure_staircase, _measure_sweep
\* and _pose_ready).
TorqueIsReleased ==
  pc \in {"moving", "ended"} /\ wire # 0
    => pc = "ended" /\ release = "failed" /\ outcome # "done"

\* A torque that carried a joint out of the room its pose leaves is followed by
\* no other: not by the next seed, the probe, nor a torque of the staircase
\* (_seed_response, _probe_peak, _check_room).
StaysInItsRoom == pc = "push" /\ phase # "baseline" /\ wire # 0 => ~LeftRoom

\* excitation.py:504-506: every round recorded was reached moving the way its
\* branch goes.  Where two torques next to each other on the staircase are no
\* further apart than the friction band is wide, the joint need not move.
StepsClearTheBand ==
  \A n \in 1..Last : Magnitude(Equilibrium[curve][Stair(n)] - Equilibrium[curve][Stair(n - 1)]) > 2 * band

RoundsOnTheirBranch ==
  pc = "read" /\ phase = "round" /\ StepsClearTheBand => direction = Branch

\* A motion to the ready posture that failed is held where the arm was last
\* measured before the torque is taken away, unless the hold failed too or the
\* operator interrupted (_pose_ready).
FailedMotionHolds ==
  pc = "releasing" /\ reference \in {"path", "target"} =>
    \/ settled = "yes" /\ fault = "none"
    \/ fault = "interrupted" \/ safeHold = "failed"

\* However a command ends, the arm is left without torque, and a motion that failed
\* held, or the command says that it could not.
ArmIsLeftSafe == TorqueIsReleased /\ FailedMotionHolds
=============================================================================
