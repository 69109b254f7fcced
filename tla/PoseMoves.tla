----------------------------- MODULE PoseMoves -----------------------------
(***************************************************************************)
(* The commands that move the arm by position alone: `pose joints`, `pose  *)
(* rest` and `pose ee`, with or without --settle (src/robot_control/       *)
(* cli.py).  Each reads the arm, has a gate of its own allow the whole     *)
(* ramp, sends it as one goal and waits for its end.  No torque is         *)
(* published and nothing is undone: where a command stops, the controller  *)
(* holds the last pose sent.                                               *)
(*                                                                         *)
(* The arm is its elbow and its wrist; what the wrist does stands for      *)
(* every joint that settles with it.  The unit of an angle is what         *)
(* PARK_SPEED_RAD_PER_SEC covers in a second.                              *)
(***************************************************************************)
EXTENDS Integers, Sequences

CONSTANTS
  Lower, Upper,  \* position limits of each joint
  Velocity,      \* velocity limit of each joint
  Slack,         \* SEED_SLACK_RAD
  Raised,        \* READY_ELBOW_RAD
  Lifted,        \* READY_WRIST_RAD
  Duration,      \* --duration
  Passes,        \* SETTLE_PASSES
  Tolerance,     \* --tolerance
  NameLists,     \* the arms a rest is asked for, in order
  Measured,      \* poses an arm may be found in
  Asked,         \* poses asked for, or answered by IK
  Landings       \* how an arm comes to rest: joint by joint, where for a command

Joints == {"elbow", "wrist"}
Pose == [Joints -> Int]

ASSUME MovesAssumption ==
  /\ Lower \in Pose /\ Upper \in Pose /\ Velocity \in [Joints -> Nat]
  /\ \A j \in Joints : Lower[j] <= Upper[j]
  /\ Slack \in Nat /\ Raised \in Nat /\ Lifted \in Nat /\ Duration \in Nat
  /\ Passes \in Nat /\ Tolerance \in Nat
  /\ NameLists \subseteq Seq({"left", "right"}) \ {<<>>}
  /\ Measured \subseteq Pose /\ Asked \subseteq Pose
  /\ \A l \in Landings : \A j \in Joints : l[j] \in [Lower[j]..Upper[j] -> Int]

VARIABLES
  command,    \* the command, "settle" being `pose ee --settle`
  pc,         \* where it is
  names,      \* the arm being moved, and those after it
  legs,       \* targets not sent yet
  commanded,  \* the pose the command takes the arm to be sent to
  arm,        \* the pose it is in
  landing,    \* how it comes to rest
  solution,   \* what `pose ee` or `pose joints` asked for
  attempt,    \* corrections sent
  residual,   \* the distance the next correction is compared with
  trail,      \* history: the distance after each send of a settle
  outcome     \* how the command ended

vars == <<command, pc, names, legs, commanded, arm, landing, solution, attempt,
          residual, trail, outcome>>

Commands == {"joints", "rest", "ee", "settle"}
Home == [j \in Joints |-> 0]

-----------------------------------------------------------------------------
Magnitude(x) == IF x < 0 THEN -x ELSE x
Larger(x, y) == IF x < y THEN y ELSE x

\* Where a measured joint just outside its limits is taken to be.
Clip(j, x) ==
  IF x < Lower[j] THEN Lower[j] ELSE IF Upper[j] < x THEN Upper[j] ELSE x

StartPose(measured) ==
  LET clamped == [j \in Joints |-> Clip(j, measured[j])]
  IN  IF \A j \in Joints : Magnitude(clamped[j] - measured[j]) <= Slack
      THEN clamped ELSE measured

\* A fresh gate seeded with the start lets a ramp through: both its ends, and
\* with them every waypoint, are within the limits, and no joint is too fast.
InLimits(p) == \A j \in Joints : Lower[j] <= p[j] /\ p[j] <= Upper[j]

Authorized(start, target, seconds) ==
  /\ InLimits(start) /\ InLimits(target)
  /\ \A j \in Joints : Magnitude(target[j] - start[j]) <= Velocity[j] * seconds

\* Where the arm comes to rest once the goal has been followed.
Landed(p) == [j \in Joints |-> landing[j][p[j]]]

\* Both joints move the tool along one line.
Distance(p) ==
  Magnitude((p["elbow"] - solution["elbow"]) + (p["wrist"] - solution["wrist"]))

WristLift(name) == IF name = "left" THEN -Lifted ELSE Lifted

RestPose(name) == [elbow |-> 0, wrist |-> WristLift(name)]

Bug_ElbowLetDown(name, here) ==
  <<[elbow |-> Raised, wrist |-> WristLift(name)], RestPose(name)>>

\* _park_targets: everything settles with the elbow up, then the elbow lowers.
ParkTargets(name, here) ==
  <<[elbow |-> Larger(here["elbow"], Raised), wrist |-> WristLift(name)], RestPose(name)>>

ParkDuration(start, target) ==
  LET travel == Larger(Magnitude(target["elbow"] - start["elbow"]),
                       Magnitude(target["wrist"] - start["wrist"]))
  IN  Larger(travel, 1)

-----------------------------------------------------------------------------
Init ==
  /\ command \in Commands /\ pc = "starting"
  /\ names \in NameLists /\ arm \in Measured /\ landing \in Landings
  /\ legs = <<>> /\ commanded = Home /\ solution = Home
  /\ attempt = 0 /\ residual = 0 /\ trail = <<>> /\ outcome = "none"

Leave(how) ==
  /\ pc' = "ended" /\ outcome' = how
  /\ UNCHANGED <<command, names, legs, commanded, arm, landing, solution, attempt,
                 residual, trail>>

\* Without --execute: a target is shown, or refused.  --settle needs --execute.
Review ==
  /\ pc = "starting" /\ command # "settle"
  /\ Leave("done") \/ (command # "rest" /\ Leave("refused"))

\* The arm is read, and what is to be sent is decided.
Begin(targets) ==
  /\ commanded' = StartPose(arm) /\ legs' = targets /\ pc' = "leg"
  /\ UNCHANGED <<command, names, arm, landing, attempt, residual, trail, outcome>>

BeginJoints ==
  /\ pc = "starting" /\ command = "joints"
  /\ \E target \in Asked : Begin(<<target>>) /\ solution' = target

BeginEe ==
  /\ pc = "starting" /\ command \in {"ee", "settle"}
  /\ \E target \in Asked : Begin(<<target>>) /\ solution' = target

NoSolution ==
  /\ pc = "starting" /\ command \in {"ee", "settle"}
  /\ Leave("refused")

BeginRest ==
  /\ pc \in {"starting", "nextArm"} /\ command = "rest"
  /\ Begin(ParkTargets(Head(names), StartPose(arm)))
  /\ UNCHANGED solution

\* The next target of the command.
Due == pc = "leg" /\ legs # <<>>
NoTravel == command = "rest" /\ Head(legs) = commanded
Allowed ==
  Authorized(commanded, Head(legs),
             IF command = "rest" THEN ParkDuration(commanded, Head(legs)) ELSE Duration)

SkipLeg ==
  /\ Due /\ NoTravel
  /\ legs' = Tail(legs)
  /\ UNCHANGED <<command, pc, names, commanded, arm, landing, solution, attempt,
                 residual, trail, outcome>>

Move ==
  /\ Due /\ ~NoTravel /\ Allowed
  /\ commanded' = Head(legs) /\ arm' = Landed(Head(legs)) /\ legs' = Tail(legs)
  /\ UNCHANGED <<command, pc, names, landing, solution, attempt, residual, trail, outcome>>

MoveRefused == Due /\ ~NoTravel /\ ~Allowed /\ Leave("refused")

\* Arms go one at a time.
NextArm ==
  /\ pc = "leg" /\ legs = <<>> /\ command = "rest" /\ Len(names) > 1
  /\ names' = Tail(names) /\ pc' = "nextArm"
  /\ arm' \in Measured /\ landing' \in Landings
  /\ UNCHANGED <<command, legs, commanded, solution, attempt, residual, trail, outcome>>

Finish ==
  /\ pc = "leg" /\ legs = <<>>
  /\ command \in {"joints", "ee"} \/ (command = "rest" /\ Len(names) = 1)
  /\ Leave("done")

-----------------------------------------------------------------------------
\* _report_residual
FirstResidual ==
  /\ pc = "leg" /\ legs = <<>> /\ command = "settle"
  /\ residual' = Distance(arm) /\ trail' = <<Distance(arm)>> /\ pc' = "settle"
  /\ UNCHANGED <<command, names, legs, commanded, arm, landing, solution, attempt, outcome>>

Settled ==
  /\ pc = "settle" /\ (residual <= Tolerance \/ attempt = Passes)
  /\ Leave("done")

\* The command winds on by what the arm fell short.
WoundUp(actual) == [j \in Joints |-> commanded[j] + (solution[j] - actual[j])]

SendCorrection ==
  LET actual == StartPose(arm)
      further == WoundUp(actual)
  IN  /\ pc = "settle" /\ residual > Tolerance
      /\ Authorized(actual, further, Duration)
      /\ commanded' = further /\ arm' = Landed(further)
      /\ attempt' = attempt + 1 /\ pc' = "corrected"
      /\ UNCHANGED <<command, names, legs, landing, solution, residual, trail, outcome>>

Bug_NoLastPass == SendCorrection
Correct == attempt < Passes /\ SendCorrection

CorrectionRefused ==
  LET actual == StartPose(arm)
  IN  /\ pc = "settle" /\ residual > Tolerance /\ attempt < Passes
      /\ ~Authorized(actual, WoundUp(actual), Duration)
      /\ Leave("refused")

\* Less than SETTLE_PROGRESS nearer is the end of it.
Gained(corrected, before) == 10 * corrected <= 9 * before

Observe(then, next) ==
  /\ pc = "corrected"
  /\ trail' = Append(trail, Distance(arm)) /\ residual' = then
  /\ pc' = next /\ outcome' = IF next = "ended" THEN "done" ELSE outcome
  /\ UNCHANGED <<command, names, legs, commanded, arm, landing, solution, attempt>>

Bug_FirstResidualKept == Gained(Distance(arm), residual) /\ Observe(residual, "settle")
Converging == Gained(Distance(arm), residual) /\ Observe(Distance(arm), "settle")
NoLongerConverging == ~Gained(Distance(arm), residual) /\ Observe(residual, "ended")

-----------------------------------------------------------------------------
\* Any read or goal may fail, and Ctrl-C may come, wherever the command is.
CallFails == pc # "ended" /\ Leave("unusable")
Interrupt == pc # "ended" /\ Leave("interrupted")

Next ==
  \/ Review \/ BeginJoints \/ BeginEe \/ NoSolution \/ BeginRest
  \/ SkipLeg \/ Move \/ MoveRefused \/ NextArm \/ Finish
  \/ FirstResidual \/ Settled \/ Correct \/ CorrectionRefused
  \/ Converging \/ NoLongerConverging
  \/ CallFails \/ Interrupt

Spec == Init /\ [][Next]_vars

-----------------------------------------------------------------------------
TypeOK ==
  /\ command \in Commands
  /\ pc \in {"starting", "nextArm", "leg", "settle", "corrected", "ended"}
  /\ names \in Seq({"left", "right"}) \ {<<>>} /\ legs \in Seq(Pose)
  /\ commanded \in Pose /\ arm \in Pose /\ solution \in Pose /\ landing \in Landings
  /\ attempt \in 0..Passes /\ residual \in Nat /\ trail \in Seq(Nat)
  /\ outcome \in {"none", "done", "refused", "unusable", "interrupted"}

\* A correction is followed by another only while the tool is still too far and
\* came a tenth nearer with every one before: an arm against a stop, holding a
\* load or falling back is not wound up further (_report_residual, docs/
\* cli.md:446-453).
OnlyGainsContinue ==
  \A k \in 1..(Len(trail) - 1) :
    /\ trail[k] > Tolerance
    /\ k + 1 < Len(trail) => 10 * trail[k + 1] <= 9 * trail[k]

\* `pose rest` never lowers an elbow on the way to lifting the wrist: the elbow
\* is let down by a move of its own, after the one that lifted the wrist
\* (_park_targets), from wherever the arm was working and whichever moves were
\* skipped.
ElbowLowersLast ==
  [][command = "rest" /\ pc = "leg" /\ commanded'["elbow"] < commanded["elbow"] =>
       /\ commanded["wrist"] = WristLift(Head(names))
       /\ commanded' = RestPose(Head(names))]_vars
=============================================================================
