------------------------- MODULE CommandGateProofs -------------------------
(***************************************************************************)
(* Proofs about CommandGate for every group of joints, every set of limits *)
(* and every sequence of calls.                                            *)
(***************************************************************************)
EXTENDS CommandGate, TLAPS

-----------------------------------------------------------------------------
(***************************************************************************)
(* The arithmetic the gate is built from.                                  *)
(***************************************************************************)
\* np.clip returns a number inside its bounds, and the number itself when that
\* already is (Clip, safety.py follow).
LEMMA ClipBounds ==
  ASSUME NEW x \in Int, NEW lo \in Int, NEW hi \in Int, lo <= hi
  PROVE  /\ Clip(x, lo, hi) \in Int
         /\ lo <= Clip(x, lo, hi) /\ Clip(x, lo, hi) <= hi
         /\ lo <= x /\ x <= hi => Clip(x, lo, hi) = x
         /\ x < lo => Clip(x, lo, hi) = lo
         /\ x > hi => Clip(x, lo, hi) = hi
BY DEF Clip

\* A joint's travel budget is a natural number (Budget, _check_velocity).
LEMMA BudgetNat ==
  ASSUME NEW j \in Joints, NEW elapsed \in Int
  PROVE  Budget(j, elapsed) \in Nat
<1>1. AtLeast(elapsed, Period) \in Nat
  BY LimitsAssumption DEF AtLeast
<1>2. Velocity[j] \in Nat
  BY LimitsAssumption
<1>3. \A m, n \in Nat : m * n \in Nat
  OBVIOUS
<1>. QED
  BY <1>1, <1>2, <1>3 DEF Budget

-----------------------------------------------------------------------------
(***************************************************************************)
(* Type correctness.                                                       *)
(***************************************************************************)
\* A servo step's command is a vector of integers inside the position limits,
\* whatever the target and wherever the measured pose (follow).
LEMMA BoundedInLimits ==
  ASSUME NEW led \in Pose
  PROVE  /\ Bounded(led) \in Pose
         /\ \A j \in Joints : /\ Lower[j] <= Bounded(led)[j]
                              /\ Bounded(led)[j] <= Upper[j]
                              /\ led[j] < Lower[j] => Bounded(led)[j] = Lower[j]
                              /\ led[j] > Upper[j] => Bounded(led)[j] = Upper[j]
                              /\ Lower[j] <= led[j] /\ led[j] <= Upper[j]
                                   => Bounded(led)[j] = led[j]
<1>1. ASSUME NEW j \in Joints
      PROVE  /\ Lower[j] \in Int /\ Upper[j] \in Int /\ Lower[j] <= Upper[j]
             /\ led[j] \in Int
  BY LimitsAssumption DEF Pose
<1>. QED
  BY <1>1, ClipBounds DEF Bounded, Pose

\* The stepped and the led command are vectors of integers, and the led one is
\* within the lead bound of the measured pose (follow).
LEMMA SteppedType ==
  ASSUME TypeOK, NEW target \in Pose, NEW measured \in Pose, NEW elapsed \in Int
  PROVE  /\ Base(measured) \in Pose
         /\ Stepped(target, measured, elapsed) \in Pose
         /\ \A j \in Joints :
              Abs(target[j] - Base(measured)[j]) <= Budget(j, elapsed)
                => Stepped(target, measured, elapsed)[j] = target[j]
<1>1. Base(measured) \in Pose
  BY DEF TypeOK, MaybePose, Base
<1>2. ASSUME NEW j \in Joints
      PROVE  LET b == Base(measured)[j]
                 s == b + Clip(target[j] - b, -Budget(j, elapsed), Budget(j, elapsed))
             IN /\ s \in Int
                /\ Abs(target[j] - b) <= Budget(j, elapsed) => s = target[j]
  <2>1. /\ Base(measured)[j] \in Int /\ target[j] \in Int
        /\ Budget(j, elapsed) \in Nat
    BY <1>1, BudgetNat DEF Pose
  <2>. DEFINE x == target[j] - Base(measured)[j]
              m == Budget(j, elapsed)
  <2>2. x \in Int /\ m \in Int /\ -m \in Int /\ -m <= m
    BY <2>1
  <2>3. /\ Clip(x, -m, m) \in Int
        /\ -m <= x /\ x <= m => Clip(x, -m, m) = x
    <3>. HIDE DEF x, m
    <3>. QED
      BY <2>2, ClipBounds
  <2>4. Abs(x) <= m => -m <= x /\ x <= m
    <3>. HIDE DEF x, m
    <3>. QED
      BY <2>2 DEF Abs
  <2>. QED
    BY <2>1, <2>3, <2>4
<1>. QED
  BY <1>1, <1>2 DEF Stepped, Pose

\* The led command is a vector of integers too, and where the gate has a lead
\* bound it is within it of the measured pose (follow).
LEMMA LedType ==
  ASSUME NEW stepped \in Pose, NEW measured \in Pose
  PROVE  /\ Led(stepped, measured) \in Pose
         /\ config.lead => \A j \in Joints :
              Abs(Led(stepped, measured)[j] - measured[j]) <= MaxLead[j]
<1>1. ASSUME NEW j \in Joints
      PROVE  LET l == measured[j] + Clip(stepped[j] - measured[j], -MaxLead[j], MaxLead[j])
             IN l \in Int /\ Abs(l - measured[j]) <= MaxLead[j]
  <2>1. measured[j] \in Int /\ stepped[j] \in Int /\ MaxLead[j] \in Nat
    BY LimitsAssumption DEF Pose
  <2>. DEFINE x == stepped[j] - measured[j]
              m == MaxLead[j]
  <2>2. x \in Int /\ m \in Int /\ -m \in Int /\ -m <= m
    BY <2>1
  <2>3. /\ Clip(x, -m, m) \in Int /\ -m <= Clip(x, -m, m) /\ Clip(x, -m, m) <= m
    <3>. HIDE DEF x, m
    <3>. QED
      BY <2>2, ClipBounds
  <2>. QED
    BY <2>1, <2>3 DEF Abs
<1>. QED
  BY <1>1 DEF Led, Pose

\* What an accepted trajectory consists of: poses inside the limits, at least
\* one of them (authorize_trajectory).
LEMMA AcceptedTrajectory ==
  ASSUME NEW n \in Nat, NEW points \in [1..n -> Offered], NEW spacing \in Int,
         TrajectoryOK(points, spacing)
  PROVE  /\ points \in Seq(Pose) /\ Len(points) = n /\ n > 0
         /\ points[Len(points)] \in Pose
         /\ \A i \in 1..Len(points) : PositionOK(points[i])
<1>1. points \in Seq(Offered) /\ Len(points) = n
  OBVIOUS
<1>2. \A i \in 1..n : PositionOK(points[i])
  BY <1>1 DEF TrajectoryOK
<1>3. \A i \in 1..n : points[i] \in Pose
  BY <1>2, InputAssumption DEF PositionOK, Offered
<1>4. n > 0
  BY <1>1 DEF TrajectoryOK
<1>. QED
  BY <1>1, <1>2, <1>3, <1>4

\* A reply without servo inputs is well typed whenever its points are.
LEMMA ReplyType ==
  ASSUME NEW op \in {"none", "authorize", "authorize_trajectory", "follow",
                     "authorize_effort", "estop", "hold_pose"},
         NEW ok \in BOOLEAN, NEW points \in Seq(Pose)
  PROVE  Reply(op, ok, points) \in Calls
BY DEF Reply, MaybePose, Calls

\* Every reachable state has its type, and the watchdog is armed only when there
\* is a command to budget from.
THEOREM TypeCorrect == Spec => []TypeOK
<1>1. Init => TypeOK
  <2>. SUFFICES ASSUME Init PROVE TypeOK
    OBVIOUS
  <2>1. call = Reply("none", FALSE, <<>>)
    BY DEF Init
  <2>2. <<>> \in Seq(Pose)
    OBVIOUS
  <2>. QED
    BY <2>1, <2>2, ReplyType DEF Init, TypeOK, MaybePose, NoLimits
<1>2. TypeOK /\ [Next]_vars => TypeOK'
  <2>. SUFFICES ASSUME TypeOK, [Next]_vars PROVE TypeOK'
    OBVIOUS
  <2>0. <<>> \in Seq(Pose) /\ \A p \in Pose : <<p>> \in Seq(Pose)
    OBVIOUS
  <2>1. CASE Tick
    BY <2>1 DEF Tick, TypeOK
  <2>2. ASSUME NEW op \in {"authorize", "authorize_trajectory", "follow"},
               Refuse(op), UNCHANGED followLimits
        PROVE  TypeOK'
    BY <2>0, <2>2, ReplyType DEF Refuse, TypeOK
  <2>3. ASSUME NEW c \in Offered, Authorize(c) PROVE TypeOK'
    <3>1. CASE ~AuthorizeOK(c)
      BY <2>2, <2>3, <3>1 DEF Authorize
    <3>2. CASE AuthorizeOK(c)
      <4>1. c \in Pose
        BY <3>2, InputAssumption DEF AuthorizeOK, PositionOK, Offered
      <4>2. call' = Reply("authorize", TRUE, <<c>>) /\ last' = c /\ lastTime' = now /\ wire' = c
            /\ UNCHANGED <<config, estopped, followLimits, now>>
        BY <2>3, <3>2 DEF Authorize
      <4>3. c # None /\ now \in Int
        BY <4>1, InputAssumption DEF TypeOK
      <4>. QED
        BY <2>0, <4>1, <4>2, <4>3, ReplyType DEF TypeOK, MaybePose
    <3>. QED
      BY <3>1, <3>2
  <2>4. ASSUME NEW points \in Trajectories, NEW spacing \in Durations,
               AuthorizeTrajectory(points, spacing)
        PROVE  TypeOK'
    <3>1. CASE ~TrajectoryOK(points, spacing)
      BY <2>2, <2>4, <3>1 DEF AuthorizeTrajectory
    <3>2. CASE TrajectoryOK(points, spacing)
      <4>1. PICK n \in 0..MaxWaypoints : points \in [1..n -> Offered]
        BY DEF Trajectories
      <4>2. n \in Nat /\ spacing \in Int
        BY InputAssumption
      <4>3. /\ points \in Seq(Pose) /\ Len(points) = n /\ n > 0
            /\ points[Len(points)] \in Pose
        BY <3>2, <4>1, <4>2, AcceptedTrajectory
      <4>4. /\ call' = Reply("authorize_trajectory", TRUE, points)
            /\ last' = points[Len(points)] /\ wire' = points[Len(points)]
            /\ lastTime' = now + n * spacing
            /\ UNCHANGED <<config, estopped, followLimits, now>>
        BY <2>4, <3>2, <4>3 DEF AuthorizeTrajectory, CommitTrajectory
      <4>5. lastTime' \in Int
        <5>1. n * spacing \in Int
          BY <4>2
        <5>. QED
          BY <4>4, <5>1 DEF TypeOK
      <4>6. points[Len(points)] # None
        BY <4>3, InputAssumption
      <4>. QED
        BY <4>3, <4>4, <4>5, <4>6, ReplyType DEF TypeOK, MaybePose
    <3>. QED
      BY <3>1, <3>2
  <2>5. ASSUME NEW target \in Offered, NEW measured \in Offered, NEW elapsed \in Durations,
               Follow(target, measured, elapsed)
        PROVE  TypeOK'
    <3>1. CASE ~FollowOK(target, measured, elapsed)
      BY <2>2, <2>5, <3>1 DEF Follow
    <3>2. CASE FollowOK(target, measured, elapsed)
      <4>. DEFINE stepped == Stepped(target, measured, elapsed)
                  led == Led(stepped, measured)
                  command == Bounded(led)
      <4>1. target \in Pose /\ measured \in Pose /\ elapsed \in Int
        BY <3>2, InputAssumption DEF FollowOK, Offered
      <4>2. Base(measured) \in Pose /\ stepped \in Pose
        BY <4>1, SteppedType
      <4>3. led \in Pose
        BY <4>1, <4>2, LedType
      <4>4. command \in Pose
        BY <4>3, BoundedInLimits
      <4>5. command # None
        BY <4>4, InputAssumption
      <4>6. /\ last' = command /\ wire' = command
            /\ followLimits' = FollowLimits(target, measured, elapsed, stepped, led)
            /\ call' = [op |-> "follow", ok |-> TRUE, points |-> <<command>>,
                        base |-> Base(measured), target |-> target,
                        measured |-> measured, elapsed |-> elapsed]
            /\ UNCHANGED <<config, lastTime, estopped, now>>
        BY <2>5, <3>2 DEF Follow
      <4>. HIDE DEF stepped, led, command
      <4>7. followLimits' \in [velocity : SUBSET Joints, lead : SUBSET Joints,
                               lower : SUBSET Joints, upper : SUBSET Joints]
        BY <4>6 DEF FollowLimits
      <4>8. call' \in Calls
        BY <2>0, <4>1, <4>2, <4>4, <4>6 DEF MaybePose, Calls
      <4>. QED
        BY <4>4, <4>5, <4>6, <4>7, <4>8 DEF TypeOK, MaybePose
    <3>. QED
      BY <3>1, <3>2
  <2>6. ASSUME NEW effort \in Efforts \cup {Malformed}, AuthorizeEffort(effort)
        PROVE  TypeOK'
    <3>1. EffortOK(effort) \in BOOLEAN
      BY DEF EffortOK
    <3>2. (IF EffortOK(effort) THEN <<effort>> ELSE <<>>) \in Seq(Pose)
      BY <2>0, InputAssumption DEF EffortOK
    <3>. QED
      BY <2>6, <3>1, <3>2, ReplyType DEF AuthorizeEffort, TypeOK
  <2>7. CASE Estop
    BY <2>0, <2>7, ReplyType DEF Estop, TypeOK
  <2>8. CASE HoldPose
    <3>1. (IF last # None THEN <<last>> ELSE <<>>) \in Seq(Pose)
      BY <2>0 DEF TypeOK, MaybePose
    <3>. QED
      BY <2>8, <3>1, ReplyType DEF HoldPose, TypeOK
  <2>9. CASE UNCHANGED vars
    BY <2>9 DEF vars, TypeOK
  <2>. QED
    BY <2>1, <2>3, <2>4, <2>5, <2>6, <2>7, <2>8, <2>9 DEF Next
<1>. QED
  BY <1>1, <1>2, PTL DEF Spec

-----------------------------------------------------------------------------
(***************************************************************************)
(* Safety.  ReleasedInBounds is not inductive by itself: hold_pose answers *)
(* with _last, so the limits must hold of _last too, and that follows from *)
(* what each operation commits.                                            *)
(***************************************************************************)
LastInBounds == last # None => PositionOK(last)

GateInv ==
  /\ ReleasedInBounds
  /\ HoldNamesLastReleased
  /\ LeadBounded
  /\ UnreportedMeansReached
  /\ LastInBounds

\* A call without servo inputs that lets only in-limit points through keeps the
\* invariants about the last call.
LEMMA ReplyInv ==
  ASSUME NEW op \in {"none", "authorize", "authorize_trajectory", "estop", "hold_pose"},
         NEW ok, NEW points \in Seq(Pose),
         \A i \in 1..Len(points) : PositionOK(points[i]),
         call' = Reply(op, ok, points)
  PROVE  ReleasedInBounds' /\ LeadBounded' /\ UnreportedMeansReached'
<1>1. call'.op = op /\ call'.points = points
  BY DEF Reply
<1>2. op # "follow"
  OBVIOUS
<1>. QED
  BY <1>1, <1>2 DEF ReleasedInBounds, LeadBounded, UnreportedMeansReached, PositionOK

\* One servo step: the three rules in the order the code applies them leave the
\* command inside the limits and within the lead of the measured pose, and a
\* joint they do not report is at its target (follow).
LEMMA FollowInv ==
  ASSUME TypeOK, NEW target \in Offered, NEW measured \in Offered, NEW elapsed \in Durations,
         Follow(target, measured, elapsed), FollowOK(target, measured, elapsed)
  PROVE  GateInv'
<1>. DEFINE stepped == Stepped(target, measured, elapsed)
            led == Led(stepped, measured)
            command == Bounded(led)
            limits == FollowLimits(target, measured, elapsed, stepped, led)
<1>1. target \in Pose /\ measured \in Pose /\ elapsed \in Int
  BY InputAssumption DEF FollowOK, Offered
<1>2. /\ Base(measured) \in Pose /\ stepped \in Pose
      /\ \A j \in Joints : Abs(target[j] - Base(measured)[j]) <= Budget(j, elapsed)
                             => stepped[j] = target[j]
  BY <1>1, SteppedType
<1>3. /\ led \in Pose
      /\ config.lead => \A j \in Joints : Abs(led[j] - measured[j]) <= MaxLead[j]
  BY <1>1, <1>2, LedType
<1>4. /\ command \in Pose
      /\ \A j \in Joints : /\ Lower[j] <= command[j]
                           /\ command[j] <= Upper[j]
                           /\ led[j] < Lower[j] => command[j] = Lower[j]
                           /\ led[j] > Upper[j] => command[j] = Upper[j]
                           /\ Lower[j] <= led[j] /\ led[j] <= Upper[j] => command[j] = led[j]
  BY <1>3, BoundedInLimits
<1>5. /\ last' = command /\ wire' = command /\ followLimits' = limits
      /\ call' = [op |-> "follow", ok |-> TRUE, points |-> <<command>>,
                  base |-> Base(measured), target |-> target,
                  measured |-> measured, elapsed |-> elapsed]
      /\ config' = config
  BY DEF Follow
<1>6. \A j \in Joints :
        /\ target[j] \in Int /\ measured[j] \in Int /\ Base(measured)[j] \in Int
        /\ stepped[j] \in Int /\ led[j] \in Int /\ command[j] \in Int
        /\ Lower[j] \in Int /\ Upper[j] \in Int /\ MaxLead[j] \in Nat
        /\ Lower[j] <= Upper[j] /\ Budget(j, elapsed) \in Nat
  BY <1>1, <1>2, <1>3, <1>4, LimitsAssumption, BudgetNat DEF Pose
<1>7. limits = [velocity |-> {j \in Joints : Abs(target[j] - Base(measured)[j]) > Budget(j, elapsed)},
                lead     |-> {j \in Joints : led[j] # stepped[j]},
                lower    |-> {j \in Joints : led[j] < Lower[j]},
                upper    |-> {j \in Joints : led[j] > Upper[j]}]
  BY DEF FollowLimits
<1>. HIDE DEF stepped, led, command, limits
<1>8. /\ call'.op = "follow" /\ call'.ok /\ call'.points[1] = command /\ Len(call'.points) = 1
      /\ call'.points = <<command>>
      /\ call'.target = target /\ call'.measured = measured
  BY <1>5
<1>9. ReleasedInBounds' /\ HoldNamesLastReleased'
  BY <1>4, <1>5, <1>8 DEF ReleasedInBounds, HoldNamesLastReleased
<1>10. LastInBounds'
  <2>1. command # Malformed
    BY <1>4, InputAssumption
  <2>. QED
    BY <1>4, <1>5, <2>1 DEF LastInBounds, PositionOK
<1>11. LeadBounded'
  <2>1. ASSUME NEW j \in Joints, config.lead
        PROVE  \/ Abs(command[j] - measured[j]) <= MaxLead[j]
               \/ measured[j] < Lower[j] /\ command[j] = Lower[j]
               \/ measured[j] > Upper[j] /\ command[j] = Upper[j]
    BY <1>3, <1>4, <1>6, <2>1 DEF Abs
  <2>. QED
    BY <1>5, <1>8, <2>1 DEF LeadBounded
<1>12. UnreportedMeansReached'
  <2>1. ASSUME NEW j \in Joints, j \notin Limited(limits)
        PROVE  command[j] = target[j]
    <3>1. /\ ~(Abs(target[j] - Base(measured)[j]) > Budget(j, elapsed))
          /\ led[j] = stepped[j] /\ ~(led[j] < Lower[j]) /\ ~(led[j] > Upper[j])
      BY <1>7, <2>1 DEF Limited
    <3>2. Abs(target[j] - Base(measured)[j]) \in Int
      BY <1>6 DEF Abs
    <3>3. stepped[j] = target[j]
      BY <1>2, <1>6, <3>1, <3>2
    <3>. QED
      BY <1>4, <1>6, <3>1, <3>3
  <2>. QED
    BY <1>5, <1>8, <2>1 DEF UnreportedMeansReached
<1>. QED
  BY <1>9, <1>10, <1>11, <1>12 DEF GateInv

\* Every operation of the gate, and time passing, preserves the invariant.
LEMMA GateInvPreserved ==
  ASSUME TypeOK, GateInv, [Next]_vars
  PROVE  GateInv'
<1>. DEFINE AllOK(s) == \A i \in 1..Len(s) : PositionOK(s[i])
<1>a. <<>> \in Seq(Pose) /\ 1..Len(<<>>) = {} /\ AllOK(<<>>)
  OBVIOUS
<1>b. ASSUME NEW p \in Pose, PositionOK(p)
      PROVE  <<p>> \in Seq(Pose) /\ AllOK(<<p>>)
  <2>1. 1..Len(<<p>>) = {1} /\ <<p>>[1] = p
    OBVIOUS
  <2>. QED
    BY <1>b, <2>1
<1>1. CASE Tick
  BY <1>1 DEF Tick, GateInv, ReleasedInBounds, HoldNamesLastReleased, LeadBounded,
              UnreportedMeansReached, LastInBounds
<1>2. ASSUME NEW op \in {"authorize", "authorize_trajectory"}, Refuse(op), UNCHANGED followLimits
      PROVE  GateInv'
  <2>1. ReleasedInBounds' /\ LeadBounded' /\ UnreportedMeansReached'
    BY <1>a, <1>2, ReplyInv DEF Refuse
  <2>. QED
    BY <1>2, <2>1 DEF Refuse, GateInv, HoldNamesLastReleased, LastInBounds
<1>3. ASSUME NEW target, NEW measured, NEW elapsed, Follow(target, measured, elapsed),
             ~FollowOK(target, measured, elapsed)
      PROVE  GateInv'
  <2>1. call' = Reply("follow", FALSE, <<>>) /\ UNCHANGED <<last, wire>>
    BY <1>3 DEF Follow, Refuse
  <2>2. call'.ok = FALSE /\ call'.points = <<>>
    BY <2>1 DEF Reply
  <2>. QED
    BY <1>a, <2>1, <2>2 DEF GateInv, ReleasedInBounds, HoldNamesLastReleased, LeadBounded,
                            UnreportedMeansReached, LastInBounds
<1>4. ASSUME NEW c \in Offered, Authorize(c) PROVE GateInv'
  <2>1. CASE ~AuthorizeOK(c)
    BY <1>2, <1>4, <2>1 DEF Authorize
  <2>2. CASE AuthorizeOK(c)
    <3>1. c \in Pose /\ PositionOK(c)
      BY <2>2, InputAssumption DEF AuthorizeOK, PositionOK, Offered
    <3>2. call' = Reply("authorize", TRUE, <<c>>) /\ last' = c /\ wire' = c
      BY <1>4, <2>2 DEF Authorize
    <3>3. ReleasedInBounds' /\ LeadBounded' /\ UnreportedMeansReached'
      BY <1>b, <3>1, <3>2, ReplyInv
    <3>. QED
      BY <3>1, <3>2, <3>3 DEF GateInv, HoldNamesLastReleased, LastInBounds, PositionOK
  <2>. QED
    BY <2>1, <2>2
<1>5. ASSUME NEW points \in Trajectories, NEW spacing \in Durations,
             AuthorizeTrajectory(points, spacing)
      PROVE  GateInv'
  <2>1. CASE ~TrajectoryOK(points, spacing)
    BY <1>2, <1>5, <2>1 DEF AuthorizeTrajectory
  <2>2. CASE TrajectoryOK(points, spacing)
    <3>1. PICK n \in 0..MaxWaypoints : points \in [1..n -> Offered]
      BY DEF Trajectories
    <3>2. /\ points \in Seq(Pose) /\ Len(points) = n /\ n > 0
          /\ \A i \in 1..Len(points) : PositionOK(points[i])
      BY <2>2, <3>1, InputAssumption, AcceptedTrajectory
    <3>3. /\ call' = Reply("authorize_trajectory", TRUE, points)
          /\ last' = points[Len(points)] /\ wire' = points[Len(points)]
      BY <1>5, <2>2 DEF AuthorizeTrajectory, CommitTrajectory
    <3>4. ReleasedInBounds' /\ LeadBounded' /\ UnreportedMeansReached'
      BY <3>2, <3>3, ReplyInv
    <3>5. PositionOK(points[Len(points)])
      BY <3>2
    <3>. QED
      BY <3>3, <3>4, <3>5 DEF GateInv, HoldNamesLastReleased, LastInBounds, PositionOK
  <2>. QED
    BY <2>1, <2>2
<1>6. ASSUME NEW target \in Offered, NEW measured \in Offered, NEW elapsed \in Durations,
             Follow(target, measured, elapsed)
      PROVE  GateInv'
  BY <1>3, <1>6, FollowInv
<1>7. ASSUME NEW effort, AuthorizeEffort(effort) PROVE GateInv'
  <2>1. call'.op = "authorize_effort" /\ UNCHANGED <<last, wire>>
    BY <1>7 DEF AuthorizeEffort, Reply
  <2>. QED
    BY <2>1 DEF GateInv, ReleasedInBounds, HoldNamesLastReleased, LeadBounded,
                UnreportedMeansReached, LastInBounds, PositionOK
<1>8. CASE Estop
  <2>1. ReleasedInBounds' /\ LeadBounded' /\ UnreportedMeansReached'
    BY <1>a, <1>8, ReplyInv DEF Estop
  <2>. QED
    BY <1>8, <2>1 DEF Estop, GateInv, HoldNamesLastReleased, LastInBounds
<1>9. CASE HoldPose
  <2>. DEFINE points == IF last # None THEN <<last>> ELSE <<>>
  <2>1. points \in Seq(Pose) /\ \A i \in 1..Len(points) : PositionOK(points[i])
    BY <1>a, <1>b DEF TypeOK, MaybePose, GateInv, LastInBounds
  <2>2. call' = Reply("hold_pose", last # None, points)
    BY <1>9 DEF HoldPose
  <2>. HIDE DEF points
  <2>3. ReleasedInBounds' /\ LeadBounded' /\ UnreportedMeansReached'
    BY <2>1, <2>2, ReplyInv
  <2>. QED
    BY <1>9, <2>3 DEF HoldPose, GateInv, HoldNamesLastReleased, LastInBounds
<1>10. CASE UNCHANGED vars
  BY <1>10 DEF vars, GateInv, ReleasedInBounds, HoldNamesLastReleased, LeadBounded,
               UnreportedMeansReached, LastInBounds
<1>. QED
  BY <1>1, <1>4, <1>5, <1>6, <1>7, <1>8, <1>9, <1>10 DEF Next

\* The inductive invariant holds in every reachable state.
LEMMA GateInvAlways == Spec => []GateInv
<1>1. Init => GateInv
  <2>. SUFFICES ASSUME Init PROVE GateInv
    OBVIOUS
  <2>1. call.op = "none" /\ call.points = <<>> /\ last = None /\ wire = None
    BY DEF Init, Reply
  <2>. QED
    BY <2>1 DEF GateInv, ReleasedInBounds, HoldNamesLastReleased, LeadBounded,
                UnreportedMeansReached, LastInBounds
<1>2. TypeOK /\ GateInv /\ [Next]_vars => GateInv'
  BY GateInvPreserved
<1>. QED
  BY <1>1, <1>2, TypeCorrect, PTL DEF Spec

\* No call ever lets a position command outside the profile's limits through.
THEOREM NothingOutsideLimits == Spec => []ReleasedInBounds
BY GateInvAlways, PTL DEF GateInv

\* hold_pose always names the command last let through.
THEOREM HoldIsLastReleased == Spec => []HoldNamesLastReleased
BY GateInvAlways, PTL DEF GateInv

\* A streamed command never winds up past max_lead of the measured pose.
THEOREM NoWindUp == Spec => []LeadBounded
BY GateInvAlways, PTL DEF GateInv

\* follow reports every joint it limited.
THEOREM ClampsAreReported == Spec => []UnreportedMeansReached
BY GateInvAlways, PTL DEF GateInv

\* What the gate lets through is inside the limits, inside the lead, and not clamped
\* in silence (SafetyGate.follow, authorize, authorize_trajectory).
THEOREM NothingUnsafePasses == Spec => []ReleasedSafely
BY NothingOutsideLimits, NoWindUp, ClampsAreReported, PTL DEF ReleasedSafely

-----------------------------------------------------------------------------
(***************************************************************************)
(* What a step may never do.                                               *)
(***************************************************************************)
\* Once the watchdog has expired no discrete command re-arms it.
THEOREM StalledStreamStaysRefused == Spec => WatchdogLatches
<1>1. ASSUME TypeOK, [Next]_vars, Expired
      PROVE  Expired' /\ lastTime' = lastTime
  <2>0. lastTime \in Int /\ now \in Int /\ now - lastTime > Watchdog /\ lastTime # None
        /\ Watchdog \in Int
    BY <1>1, LimitsAssumption DEF TypeOK, Expired
  <2>1. ASSUME now' = now, lastTime' = lastTime PROVE Expired' /\ lastTime' = lastTime
    BY <2>0, <2>1 DEF Expired
  <2>2. CASE Tick
    BY <2>0, <2>2 DEF Tick, Expired
  <2>3. ASSUME NEW c, Authorize(c) PROVE now' = now /\ lastTime' = lastTime
    <3>1. ~AuthorizeOK(c)
      BY <2>0 DEF AuthorizeOK
    <3>. QED
      BY <2>3, <3>1 DEF Authorize, Refuse
  <2>4. ASSUME NEW points, NEW spacing, AuthorizeTrajectory(points, spacing)
        PROVE  now' = now /\ lastTime' = lastTime
    <3>1. ~TrajectoryOK(points, spacing)
      BY <2>0 DEF TrajectoryOK
    <3>. QED
      BY <2>4, <3>1 DEF AuthorizeTrajectory, Refuse
  <2>5. ASSUME NEW target, NEW measured, NEW elapsed, Follow(target, measured, elapsed)
        PROVE  now' = now /\ lastTime' = lastTime
    BY <2>5 DEF Follow, Refuse
  <2>6. ASSUME \/ \E effort \in Efforts \cup {Malformed} : AuthorizeEffort(effort)
               \/ Estop \/ HoldPose \/ UNCHANGED vars
        PROVE  now' = now /\ lastTime' = lastTime
    BY <2>6 DEF AuthorizeEffort, Estop, HoldPose, vars
  <2>. QED
    BY <1>1, <2>1, <2>2, <2>3, <2>4, <2>5, <2>6 DEF Next
<1>2. TypeOK /\ [Next]_vars => [Expired => Expired' /\ lastTime' = lastTime]_vars
  BY <1>1
<1>. QED
  BY <1>2, TypeCorrect, PTL DEF Spec, WatchdogLatches

\* A refused call, a trajectory above all, leaves the gate untouched.
THEOREM RefusalIsAtomic == Spec => RefusalKeepsState
<1>1. ASSUME [Next]_vars, ~call'.ok
      PROVE  UNCHANGED <<last, lastTime, estopped, followLimits, wire>>
  <2>0. ASSUME NEW op, NEW ok, NEW points, call' = Reply(op, ok, points)
        PROVE  call'.ok = ok
    BY <2>0 DEF Reply
  <2>1. ASSUME NEW c, Authorize(c)
        PROVE  UNCHANGED <<last, lastTime, estopped, followLimits, wire>>
    <3>1. ~AuthorizeOK(c)
      BY <1>1, <2>0, <2>1 DEF Authorize
    <3>. QED
      BY <2>1, <3>1 DEF Authorize, Refuse
  <2>2. ASSUME NEW points, NEW spacing, AuthorizeTrajectory(points, spacing)
        PROVE  UNCHANGED <<last, lastTime, estopped, followLimits, wire>>
    <3>1. ~TrajectoryOK(points, spacing)
      BY <1>1, <2>0, <2>2 DEF AuthorizeTrajectory
    <3>. QED
      BY <2>2, <3>1 DEF AuthorizeTrajectory, Refuse
  <2>3. ASSUME NEW target, NEW measured, NEW elapsed, Follow(target, measured, elapsed)
        PROVE  UNCHANGED <<last, lastTime, estopped, followLimits, wire>>
    <3>1. CASE FollowOK(target, measured, elapsed)
      <4>1. call'.ok
        BY <2>3, <3>1 DEF Follow
      <4>. QED
        BY <1>1, <4>1
    <3>2. CASE ~FollowOK(target, measured, elapsed)
      BY <2>3, <3>2 DEF Follow, Refuse
    <3>. QED
      BY <3>1, <3>2
  <2>4. CASE Estop
    BY <1>1, <2>0, <2>4 DEF Estop
  <2>5. ASSUME \/ Tick \/ HoldPose \/ UNCHANGED vars
               \/ \E effort \in Efforts \cup {Malformed} : AuthorizeEffort(effort)
        PROVE  UNCHANGED <<last, lastTime, estopped, followLimits, wire>>
    BY <2>5 DEF Tick, AuthorizeEffort, HoldPose, vars
  <2>. QED
    BY <1>1, <2>1, <2>2, <2>3, <2>4, <2>5 DEF Next
<1>2. [Next]_vars => [~call'.ok => UNCHANGED <<last, lastTime, estopped, followLimits, wire>>]_vars
  BY <1>1
<1>. QED
  BY <1>2, PTL DEF Spec, RefusalKeepsState

\* A closed gate stays closed and lets nothing through.
THEOREM ClosedIsFinal == Spec => ClosedGateReleasesNothing
<1>1. ASSUME TypeOK, [Next]_vars, Closed
      PROVE  /\ Closed'
             /\ last' = last
             /\ (call' # call /\ call'.op # "hold_pose") => call'.points = <<>>
  <2>0. ASSUME NEW op, NEW ok, NEW points, call' = Reply(op, ok, points)
        PROVE  call'.op = op /\ call'.points = points
    BY <2>0 DEF Reply
  <2>1. ASSUME NEW op, Refuse(op)
        PROVE  Closed' /\ last' = last /\ call'.points = <<>>
    BY <1>1, <2>0, <2>1 DEF Refuse, Closed
  <2>2. ASSUME NEW c, Authorize(c)
        PROVE  Closed' /\ last' = last /\ call'.points = <<>>
    BY <1>1, <2>1, <2>2 DEF Authorize, AuthorizeOK
  <2>3. ASSUME NEW points, NEW spacing, AuthorizeTrajectory(points, spacing)
        PROVE  Closed' /\ last' = last /\ call'.points = <<>>
    BY <1>1, <2>1, <2>3 DEF AuthorizeTrajectory, TrajectoryOK
  <2>4. ASSUME NEW target, NEW measured, NEW elapsed, Follow(target, measured, elapsed)
        PROVE  Closed' /\ last' = last /\ call'.points = <<>>
    BY <1>1, <2>1, <2>4 DEF Follow, FollowOK
  <2>5. ASSUME NEW effort, AuthorizeEffort(effort)
        PROVE  Closed' /\ last' = last /\ call'.points = <<>>
    <3>1. ~EffortOK(effort)
      BY <1>1 DEF EffortOK
    <3>2. call'.points = <<>>
      BY <2>0, <2>5, <3>1 DEF AuthorizeEffort
    <3>. QED
      BY <1>1, <2>5, <3>2 DEF AuthorizeEffort, Closed
  <2>6. CASE Estop
    BY <1>1, <2>0, <2>6 DEF Estop, Closed
  <2>7. CASE HoldPose
    BY <1>1, <2>0, <2>7 DEF HoldPose, Closed
  <2>8. CASE Tick \/ UNCHANGED vars
    BY <1>1, <2>8 DEF Tick, vars, Closed
  <2>. QED
    BY <1>1, <2>2, <2>3, <2>4, <2>5, <2>6, <2>7, <2>8 DEF Next
<1>2. TypeOK /\ [Next]_vars =>
        [Closed => /\ Closed'
                   /\ last' = last
                   /\ (call' # call /\ call'.op # "hold_pose") => call'.points = <<>>]_vars
  BY <1>1
<1>. QED
  BY <1>2, TypeCorrect, PTL DEF Spec, ClosedGateReleasesNothing

=============================================================================
