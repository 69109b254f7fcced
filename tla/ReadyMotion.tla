----------------------------- MODULE ReadyMotion -----------------------------
(***************************************************************************)
(* `pose ready --execute` (src/robot_control/cli.py): the arm is moved     *)
(* along a minimum-jerk path under gravity torque, and given time to       *)
(* settle.  Every cycle publishes a torque for the pose just read, then a  *)
(* position.  A motion that fails is held where it was last measured       *)
(* before the torque is taken away.                                        *)
(***************************************************************************)
EXTENDS EffortLine

CONSTANTS
  Gravity,  \* gravity torques of the poses on the way
  Points,   \* points of the path
  Beats     \* cycles that fit into READY_SETTLE_TIMEOUT_SEC

ASSUME ReadyAssumption ==
  Gravity \subseteq Int /\ Points \in Nat /\ Beats \in Nat \ {0}

VARIABLES
  ahead,      \* points of the path not streamed yet
  samples,    \* telemetry["position_samples"]
  settling,   \* cycles of the settle loop
  settled,    \* the settle loop passed
  reference,  \* what the last position published was for
  safeHold    \* the hold after an exception: none, applied or failed

readyVars == <<ahead, samples, settling, settled, reference, safeHold>>

ReadyInit ==
  /\ ahead = 0 /\ samples = 0 /\ settling = 0 /\ settled = "no"
  /\ reference = "none" /\ safeHold = "none"

BeginReady == pc = "starting" /\ command = "ready" /\ Goto("check") /\ UNCHANGED readyVars

\* The controllers are active, the path is allowed.  The arm may be there.
Check ==
  /\ pc = "check"
  /\ ahead' \in {0, Points} /\ Goto("cycle")
  /\ UNCHANGED <<samples, settling, settled, reference, safeHold>>

\* _ready_control_cycle: the torque.
CycleTorque ==
  /\ pc = "cycle"
  /\ \E torque \in Gravity : Authorized(torque) /\ Send(torque, "point")
  /\ UNCHANGED readyVars

\* _ready_control_cycle: the position.
Position(what) == reference' = what /\ samples' = samples + 1

StreamPoint ==
  /\ pc = "point" /\ ahead > 0
  /\ Position("path") /\ ahead' = ahead - 1
  /\ Goto("cycle")
  /\ UNCHANGED <<settling, settled, safeHold>>

Settle(verdict, place) ==
  /\ pc = "point" /\ ahead = 0
  /\ Position("target")
  /\ settling' = settling + 1 /\ settled' = verdict
  /\ Goto(place)
  /\ UNCHANGED <<ahead, safeHold>>

Bug_NoDeadline == Settle("no", "cycle")
SettleOn == settling + 1 < Beats /\ Settle("no", "cycle")
SettlePasses == Settle("yes", "tracking")
SettleTimesOut == Settle("no", "tracking")

\* The controller's own tracking state is read in either case.
Tracked ==
  /\ pc = "tracking"
  /\ Goto(IF settled = "yes" THEN "releasing" ELSE "hold")
  /\ UNCHANGED readyVars

Hold(how, raised) ==
  /\ reference' = "hold" /\ safeHold' = how /\ fault' = raised /\ pc' = "releasing"
  /\ UNCHANGED <<command, wire, release, outcome, ahead, samples, settling, settled>>

\* Not settled: hold, and fail.
TimeoutHold == pc = "hold" /\ Hold("applied", "refused")

\* Any other exception, that of a hold included, is caught.
Bug_HoldOnlyAtTimeout ==
  /\ pc \in {"check", "cycle", "point", "tracking", "hold"}
  /\ fault' \in {"refused", "unusable"}
  /\ pc' = IF pc = "hold" THEN "holdAfter" ELSE "releasing"
  /\ UNCHANGED <<command, wire, release, outcome, readyVars>>

ReadyCallFails ==
  /\ pc \in {"check", "cycle", "point", "tracking", "hold"}
  /\ fault' \in {"refused", "unusable"}
  /\ pc' = IF samples > 0 THEN "holdAfter" ELSE "releasing"
  /\ UNCHANGED <<command, wire, release, outcome, readyVars>>

ExceptionHold == pc = "holdAfter" /\ Hold("applied", fault)

ExceptionHoldFails ==
  /\ pc = "holdAfter" /\ safeHold' = "failed"
  /\ Goto("releasing")
  /\ UNCHANGED <<ahead, samples, settling, settled, reference>>

ReadyStep ==
  \/ BeginReady \/ Check \/ CycleTorque \/ StreamPoint
  \/ SettleOn \/ SettlePasses \/ SettleTimesOut \/ Tracked
  \/ TimeoutHold \/ ReadyCallFails \/ ExceptionHold \/ ExceptionHoldFails

ReadyTypeOK ==
  /\ ahead \in 0..Points /\ samples \in 0..(Points + Beats) /\ settling \in 0..Beats
  /\ settled \in {"no", "yes"}
  /\ reference \in {"none", "path", "target", "hold"}
  /\ safeHold \in {"none", "applied", "failed"}
=============================================================================
