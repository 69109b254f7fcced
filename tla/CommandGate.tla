---------------------------- MODULE CommandGate ----------------------------
(***************************************************************************)
(* The safety gate every command passes before it reaches a controller     *)
(* (src/robot_control/safety.py).  One gate object is modelled together    *)
(* with a caller that may use any of its operations in any order, at any   *)
(* time: a discrete command, a whole trajectory, a servo step, a           *)
(* feedforward torque, the E-stop, and the pose to hold.                   *)
(*                                                                         *)
(* Angles and times are integers (ticks), so a velocity times a duration   *)
(* is exact and the code's 1e-12 slack is zero.                            *)
(***************************************************************************)
EXTENDS Integers, Sequences

CONSTANTS
  Joints,        \* the group's joints
  Lower, Upper,  \* position limits, per joint
  Velocity,      \* travel allowed per time unit, per joint
  Period,        \* command_period_sec
  Watchdog,      \* watchdog_sec
  MaxLead,       \* how far a streamed command may lead the measured pose
  EffortLimit,   \* torque limit, per joint
  Builds,        \* the gates built: with --execute, a lead bound, a torque bound or not
  None,          \* Python's None
  Malformed,     \* an array of the wrong shape, or holding a NaN or an infinity
  Poses,         \* the joint vectors a caller offers
  Efforts,       \* the torque vectors a caller offers
  Durations,     \* elapsed times of a servo step and spacings of a trajectory
  MaxWaypoints,  \* bound: longest trajectory offered
  MaxTime        \* bound: last instant of the caller's clock

Pose == [Joints -> Int]

ASSUME LimitsAssumption ==
  /\ Lower \in Pose /\ Upper \in Pose
  /\ \A j \in Joints : Lower[j] <= Upper[j]
  /\ Velocity \in [Joints -> Nat]
  /\ MaxLead \in [Joints -> Nat]
  /\ EffortLimit \in [Joints -> Nat]
  /\ Period \in Nat \ {0}
  /\ Watchdog \in Nat

ASSUME InputAssumption ==
  /\ Builds \subseteq [execute : BOOLEAN, lead : BOOLEAN, effort : BOOLEAN]
  /\ \A p \in Poses : p \in Pose
  /\ \A e \in Efforts : e \in Pose
  /\ \A d \in Durations : d \in Int
  /\ MaxWaypoints \in Nat /\ MaxTime \in Nat
  /\ None \notin Pose /\ None \notin Int
  /\ Malformed \notin Pose /\ Malformed # None

VARIABLES
  config,       \* the gate's build, fixed
  last,         \* _last: the command the next step is budgeted from
  lastTime,     \* _last_time: what the watchdog measures from
  estopped,     \* _estopped
  followLimits, \* _last_follow_limits: joints each rule limited in the last follow
  now,          \* the caller's clock
  call,         \* the last call and what it returned
  wire          \* history: the last command any call has let through

vars == <<config, last, lastTime, estopped, followLimits, now, call, wire>>

-----------------------------------------------------------------------------
Abs(x) == IF x < 0 THEN -x ELSE x
AtLeast(x, y) == IF x < y THEN y ELSE x
Clip(x, lo, hi) == IF x < lo THEN lo ELSE IF x > hi THEN hi ELSE x

Closed == ~config.execute \/ estopped

\* Travel allowed to joint j over an interval; never less than one period's.
Budget(j, elapsed) == Velocity[j] * AtLeast(elapsed, Period)

PositionOK(c) ==
  c # Malformed /\ \A j \in Joints : Lower[j] <= c[j] /\ c[j] <= Upper[j]

VelocityOK(c, previous, elapsed) ==
  \A j \in Joints : Abs(c[j] - previous[j]) <= Budget(j, elapsed)

NoLimits == [velocity |-> {}, lead |-> {}, lower |-> {}, upper |-> {}]
Limited(limits) == limits.velocity \cup limits.lead \cup limits.lower \cup limits.upper

\* What a call looks like afterwards: the points it let through, and for a
\* servo step the inputs it worked from.
Reply(op, ok, points) ==
  [op |-> op, ok |-> ok, points |-> points,
   base |-> None, target |-> None, measured |-> None, elapsed |-> 0]

Refuse(op) ==
  /\ call' = Reply(op, FALSE, <<>>)
  /\ UNCHANGED <<config, last, lastTime, estopped, now, wire>>

-----------------------------------------------------------------------------
Init ==
  /\ config \in Builds
  /\ last = None
  /\ lastTime = None
  /\ estopped = FALSE
  /\ followLimits = NoLimits
  /\ now = 0
  /\ call = Reply("none", FALSE, <<>>)
  /\ wire = None

\* Time passes between two calls.
Tick ==
  /\ now < MaxTime
  /\ now' = now + 1
  /\ UNCHANGED <<config, last, lastTime, estopped, followLimits, call, wire>>

\* Mutant: the watchdog is not consulted.
Bug_AuthorizeIgnoresWatchdog(c) ==
  ~Closed /\ PositionOK(c) /\ (lastTime # None => VelocityOK(c, last, now - lastTime))

AuthorizeOK(c) ==
  /\ ~Closed
  /\ PositionOK(c)
  /\ lastTime # None =>
       /\ now - lastTime <= Watchdog
       /\ VelocityOK(c, last, now - lastTime)

\* Mutant: the watchdog's clock is stamped before the checks, so that a refused
\* command feeds it.
Bug_AuthorizeStampsFirst(c) ==
  /\ lastTime' = now
  /\ last' = IF AuthorizeOK(c) THEN c ELSE last
  /\ wire' = IF AuthorizeOK(c) THEN c ELSE wire
  /\ call' = Reply("authorize", AuthorizeOK(c), IF AuthorizeOK(c) THEN <<c>> ELSE <<>>)
  /\ UNCHANGED <<config, estopped, followLimits, now>>

\* authorize: a discrete command passes whole or is refused.
Authorize(c) ==
  \/ /\ AuthorizeOK(c)
     /\ last' = c
     /\ lastTime' = now
     /\ call' = Reply("authorize", TRUE, <<c>>)
     /\ wire' = c
     /\ UNCHANGED <<config, estopped, followLimits, now>>
  \/ /\ ~AuthorizeOK(c)
     /\ Refuse("authorize")
     /\ UNCHANGED followLimits

\* The pose waypoint i is reached from; None before the first command.
Before(points, i) == IF i = 1 THEN last ELSE points[i - 1]

TrajectoryOK(points, spacing) ==
  /\ ~Closed
  /\ points # <<>>
  /\ spacing > 0
  /\ lastTime # None => (lastTime <= now /\ now - lastTime <= Watchdog)
  /\ \A i \in 1..Len(points) :
       /\ PositionOK(points[i])
       /\ Before(points, i) # None => VelocityOK(points[i], Before(points, i), spacing)

CommitTrajectory(points, spacing) ==
  last' = points[Len(points)] /\ lastTime' = now + Len(points) * spacing

\* Mutant: waypoints are committed as they are checked, so that a refusal leaves
\* the gate at the last good one.
Bug_TrajectoryTruncates(points, spacing) ==
  /\ ~Closed /\ points # <<>> /\ PositionOK(points[1])
  /\ last' = points[1]
  /\ call' = Reply("authorize_trajectory", FALSE, <<>>)
  /\ UNCHANGED <<config, lastTime, estopped, followLimits, now, wire>>

\* authorize_trajectory: every waypoint passes before any is let through, and
\* the gate's clock is moved to the end of the motion.
AuthorizeTrajectory(points, spacing) ==
  \/ /\ TrajectoryOK(points, spacing)
     /\ CommitTrajectory(points, spacing)
     /\ call' = Reply("authorize_trajectory", TRUE, points)
     /\ wire' = points[Len(points)]
     /\ UNCHANGED <<config, estopped, followLimits, now>>
  \/ /\ ~TrajectoryOK(points, spacing)
     /\ Refuse("authorize_trajectory")
     /\ UNCHANGED followLimits

FollowOK(target, measured, elapsed) ==
  ~Closed /\ target # Malformed /\ measured # Malformed /\ elapsed >= 0

\* follow, one rule after another: the step from the previous command (or,
\* before the first, from the measured pose), ...
Base(measured) == IF last = None THEN measured ELSE last

Stepped(target, measured, elapsed) ==
  [j \in Joints |-> LET b == Base(measured)[j] IN
     b + Clip(target[j] - b, -Budget(j, elapsed), Budget(j, elapsed))]

\* Mutant: only a command ahead of the arm in the positive direction is held back.
Bug_LedOneSided(stepped, measured) ==
  IF config.lead
  THEN [j \in Joints |-> IF stepped[j] - measured[j] > MaxLead[j]
                         THEN measured[j] + MaxLead[j] ELSE stepped[j]]
  ELSE stepped

\* ... then the lead over the measured pose, ...
Led(stepped, measured) ==
  IF config.lead
  THEN [j \in Joints |->
          measured[j] + Clip(stepped[j] - measured[j], -MaxLead[j], MaxLead[j])]
  ELSE stepped

\* Mutant: the lower limit is forgotten.
Bug_BoundedAboveOnly(led) == [j \in Joints |-> IF led[j] > Upper[j] THEN Upper[j] ELSE led[j]]

\* ... then the position limits.
Bounded(led) == [j \in Joints |-> Clip(led[j], Lower[j], Upper[j])]

\* Mutant: a joint clamped at its lower limit is not reported.
Bug_LowerUnreported(target, measured, elapsed, stepped, led) ==
  [velocity |-> {j \in Joints : Abs(target[j] - Base(measured)[j]) > Budget(j, elapsed)},
   lead     |-> {j \in Joints : led[j] # stepped[j]},
   lower    |-> {},
   upper    |-> {j \in Joints : led[j] > Upper[j]}]

FollowLimits(target, measured, elapsed, stepped, led) ==
  [velocity |-> {j \in Joints : Abs(target[j] - Base(measured)[j]) > Budget(j, elapsed)},
   lead     |-> {j \in Joints : led[j] # stepped[j]},
   lower    |-> {j \in Joints : led[j] < Lower[j]},
   upper    |-> {j \in Joints : led[j] > Upper[j]}]

\* A servo step is clamped rather than refused, and reports which joints were
\* limited by what.  It moves _last and leaves the watchdog's clock alone.
Follow(target, measured, elapsed) ==
  \/ /\ FollowOK(target, measured, elapsed)
     /\ LET stepped == Stepped(target, measured, elapsed)
            led == Led(stepped, measured)
            command == Bounded(led)
        IN /\ last' = command
           /\ followLimits' = FollowLimits(target, measured, elapsed, stepped, led)
           /\ call' = [op |-> "follow", ok |-> TRUE, points |-> <<command>>,
                       base |-> Base(measured), target |-> target,
                       measured |-> measured, elapsed |-> elapsed]
           /\ wire' = command
     /\ UNCHANGED <<config, lastTime, estopped, now>>
  \/ /\ ~FollowOK(target, measured, elapsed)
     /\ Refuse("follow")
     /\ UNCHANGED followLimits

EffortOK(effort) ==
  /\ ~Closed
  /\ config.effort
  /\ effort # Malformed
  /\ \A j \in Joints : Abs(effort[j]) <= EffortLimit[j]

\* authorize_effort: torque is refused, never clamped, and moves no gate state.
AuthorizeEffort(effort) ==
  /\ call' = Reply("authorize_effort", EffortOK(effort),
                   IF EffortOK(effort) THEN <<effort>> ELSE <<>>)
  /\ UNCHANGED <<config, last, lastTime, estopped, followLimits, now, wire>>

Estop ==
  /\ estopped' = TRUE
  /\ call' = Reply("estop", TRUE, <<>>)
  /\ UNCHANGED <<config, last, lastTime, followLimits, now, wire>>

\* hold_pose answers on a closed gate too: it names the pose to hold.
HoldPose ==
  /\ call' = Reply("hold_pose", last # None, IF last # None THEN <<last>> ELSE <<>>)
  /\ UNCHANGED <<config, last, lastTime, estopped, followLimits, now, wire>>

Offered == Poses \cup {Malformed}
Trajectories == UNION {[1..n -> Offered] : n \in 0..MaxWaypoints}

Next ==
  \/ Tick
  \/ \E c \in Offered : Authorize(c)
  \/ \E points \in Trajectories, spacing \in Durations : AuthorizeTrajectory(points, spacing)
  \/ \E target, measured \in Offered, elapsed \in Durations : Follow(target, measured, elapsed)
  \/ \E effort \in Efforts \cup {Malformed} : AuthorizeEffort(effort)
  \/ Estop
  \/ HoldPose

Spec == Init /\ [][Next]_vars

-----------------------------------------------------------------------------
(***************************************************************************)
(* Properties.                                                             *)
(***************************************************************************)
MaybePose == Pose \cup {None}
Calls == [op : {"none", "authorize", "authorize_trajectory", "follow",
                "authorize_effort", "estop", "hold_pose"},
          ok : BOOLEAN, points : Seq(Pose), base : MaybePose,
          target : MaybePose, measured : MaybePose, elapsed : Int]

\* Every variable keeps its type, and the watchdog is never armed without a
\* command to budget from: _check_velocity subtracts _last whenever _last_time
\* is set.
TypeOK ==
  /\ config \in Builds
  /\ last \in MaybePose
  /\ lastTime \in Int \cup {None}
  /\ lastTime # None => last # None
  /\ estopped \in BOOLEAN
  /\ followLimits \in [velocity : SUBSET Joints, lead : SUBSET Joints,
                       lower : SUBSET Joints, upper : SUBSET Joints]
  /\ now \in Nat
  /\ call \in Calls
  /\ wire \in MaybePose

\* Whatever path a position command took, and wherever the measured pose was,
\* each point let through lies inside the profile's limits; so does the pose
\* hold_pose names, after an E-stop too.
ReleasedInBounds ==
  call.op # "authorize_effort" =>
    \A i \in 1..Len(call.points), j \in Joints :
      Lower[j] <= call.points[i][j] /\ call.points[i][j] <= Upper[j]

\* The command the gate budgets the next step from, and would hold, is the one
\* it last let through: the end of a trajectory, the clamped result of a step.
HoldNamesLastReleased == last = wire

\* "max_lead bounds how far the command may run ahead of the measured
\* position": a servo command leads the measured pose by no more than its lead
\* bound, unless the measured pose is itself outside the position limits, and
\* then the command is at the limit nearest to it or within the lead of it.
LeadBounded ==
  (call.op = "follow" /\ call.ok /\ config.lead) =>
    \A j \in Joints :
      LET c == call.points[1][j]
          m == call.measured[j]
      IN \/ Abs(c - m) <= MaxLead[j]
         \/ m < Lower[j] /\ c = Lower[j]
         \/ m > Upper[j] /\ c = Upper[j]

\* follow "clamps and reports": a joint that no rule is reported to have
\* limited got exactly what was asked for, so an unreported clamp cannot happen,
\* and a report left over from the previous cycle cannot hide one.
UnreportedMeansReached ==
  (call.op = "follow" /\ call.ok) =>
    \A j \in Joints \ Limited(followLimits) : call.points[1][j] = call.target[j]

\* Nothing leaves the gate outside its bounds unnoticed: not past the profile's
\* limits, not ahead of the arm by more than the lead, not clamped in silence.
ReleasedSafely == ReleasedInBounds /\ LeadBounded /\ UnreportedMeansReached

\* A stalled stream of discrete commands latches: once the watchdog has expired
\* no discrete command or trajectory passes again, and no servo step re-arms it
\* ("feeding the watchdog from here would let a stalled stream look alive").
Expired == lastTime # None /\ now - lastTime > Watchdog
WatchdogLatches ==
  [][Expired => Expired' /\ lastTime' = lastTime]_vars

\* A refused call leaves the gate as it was.  For a trajectory this is all or
\* nothing: no prefix of valid waypoints moves the gate.
RefusalKeepsState ==
  [][~call'.ok => UNCHANGED <<last, lastTime, estopped, followLimits, wire>>]_vars

\* After an E-stop, and on a gate built without --execute, no call lets a
\* command or a torque through and the pose to hold never changes again.
ClosedGateReleasesNothing ==
  [][Closed => /\ Closed'
               /\ last' = last
               /\ (call' # call /\ call'.op # "hold_pose") => call'.points = <<>>]_vars
=============================================================================
