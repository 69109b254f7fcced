-------------------------- MODULE PoseMovesProofs --------------------------
(***************************************************************************)
(* Proofs about the commands that move the arm by position alone.          *)
(***************************************************************************)
EXTENDS PoseMoves, TLAPS

(***************************************************************************)
(* Poses.                                                                  *)
(***************************************************************************)
\* The start of a move is a pose.
LEMMA StartPoseIsPose ==
  ASSUME NEW p \in Pose
  PROVE  StartPose(p) \in Pose
<1> DEFINE clamped == [j \in Joints |-> Clip(j, p[j])]
<1>1. clamped \in Pose
  BY MovesAssumption DEF Pose, Clip
<1> QED BY <1>1 DEF StartPose

\* The two waypoints of a rest are poses; the first has the elbow no lower than
\* where the arm was.
LEMMA ParkTargetsArePoses ==
  ASSUME NEW name, NEW here \in Pose
  PROVE  /\ ParkTargets(name, here) \in Seq(Pose) /\ Len(ParkTargets(name, here)) = 2
         /\ ParkTargets(name, here)[1]["wrist"] = WristLift(name)
         /\ ParkTargets(name, here)[1]["elbow"] >= here["elbow"]
         /\ ParkTargets(name, here)[2] = RestPose(name)
<1> DEFINE settled == [elbow |-> Larger(here["elbow"], Raised), wrist |-> WristLift(name)]
<1>1. /\ here["elbow"] \in Int /\ Raised \in Int /\ WristLift(name) \in Int
  BY MovesAssumption DEF Pose, Joints, WristLift
<1>2. Larger(here["elbow"], Raised) \in Int /\ Larger(here["elbow"], Raised) >= here["elbow"]
  BY <1>1 DEF Larger
<1>3. settled \in Pose
  BY <1>1, <1>2 DEF Pose, Joints
<1>4. RestPose(name) \in Pose
  BY <1>1 DEF Pose, Joints, RestPose
<1> QED BY <1>2, <1>3, <1>4 DEF ParkTargets

\* An arm that follows an allowed goal comes to rest in a pose.
LEMMA LandedIsPose ==
  ASSUME landing \in Landings, NEW p \in Pose, InLimits(p)
  PROVE  Landed(p) \in Pose
<1>1. ASSUME NEW j \in Joints PROVE landing[j][p[j]] \in Int
  <2>1. landing[j] \in [Lower[j]..Upper[j] -> Int] /\ p[j] \in Lower[j]..Upper[j]
    BY <1>1, MovesAssumption DEF Pose, InLimits
  <2> QED BY <2>1
<1> QED BY <1>1 DEF Landed, Pose

\* The distance to the pose asked for is a natural number.
LEMMA DistanceIsNat ==
  ASSUME solution \in Pose, NEW p \in Pose
  PROVE  Distance(p) \in Nat
<1>1. /\ p["elbow"] \in Int /\ p["wrist"] \in Int
      /\ solution["elbow"] \in Int /\ solution["wrist"] \in Int
  BY DEF Pose, Joints
<1> QED BY <1>1 DEF Distance, Magnitude

\* A wound-up command is a pose.
LEMMA WoundUpIsPose ==
  ASSUME commanded \in Pose, solution \in Pose, NEW p \in Pose
  PROVE  WoundUp(p) \in Pose
  BY DEF Pose, WoundUp

-----------------------------------------------------------------------------
(***************************************************************************)
(* Types.                                                                  *)
(***************************************************************************)
\* What a correction sends, if it sends it, keeps the types.
LEMMA CorrectTyped ==
  ASSUME TypeOK, Correct
  PROVE  TypeOK'
<1> DEFINE actual == StartPose(arm)
           further == WoundUp(actual)
<1>1. actual \in Pose
  BY StartPoseIsPose DEF TypeOK
<1>2. further \in Pose
  BY <1>1, WoundUpIsPose DEF TypeOK
<1>3. InLimits(further)
  BY DEF Correct, SendCorrection, Authorized
<1>4. Landed(further) \in Pose
  BY <1>2, <1>3, LandedIsPose DEF TypeOK
<1>5. commanded' = further /\ arm' = Landed(further)
  BY DEF Correct, SendCorrection
<1> HIDE DEF further, actual
<1>6. attempt' \in 0..Passes
  BY MovesAssumption DEF TypeOK, Correct, SendCorrection
<1> QED BY <1>2, <1>4, <1>5, <1>6 DEF TypeOK, Correct, SendCorrection

\* No step of a command breaks its types.
LEMMA TypeStep ==
  ASSUME TypeOK, [Next]_vars
  PROVE  TypeOK'
<1>1. CASE UNCHANGED vars
  BY <1>1 DEF TypeOK, vars
<1>2. ASSUME NEW how \in {"done", "refused", "unusable", "interrupted"}, Leave(how)
      PROVE  TypeOK'
  BY <1>2 DEF TypeOK, Leave
<1>3. CASE \/ Review \/ NoSolution \/ MoveRefused \/ Finish \/ Settled
           \/ CorrectionRefused \/ CallFails \/ Interrupt
  BY <1>2, <1>3 DEF Review, NoSolution, MoveRefused, Finish, Settled, CorrectionRefused,
                    CallFails, Interrupt
<1>4. ASSUME NEW targets \in Seq(Pose), Begin(targets), solution' \in Pose
      PROVE  TypeOK'
  BY <1>4, StartPoseIsPose DEF TypeOK, Begin
<1>5. CASE BeginJoints \/ BeginEe
  <2>1. PICK target \in Asked : Begin(<<target>>) /\ solution' = target
    BY <1>5 DEF BeginJoints, BeginEe
  <2>2. target \in Pose
    BY <2>1, MovesAssumption
  <2>3. <<target>> \in Seq(Pose) /\ solution' \in Pose
    BY <2>1, <2>2
  <2> QED BY <1>4, <2>1, <2>3
<1>6. CASE BeginRest
  <2>1. ParkTargets(Head(names), StartPose(arm)) \in Seq(Pose)
    BY StartPoseIsPose, ParkTargetsArePoses DEF TypeOK
  <2> QED BY <1>4, <1>6, <2>1 DEF BeginRest, TypeOK
<1>7. CASE SkipLeg
  BY <1>7 DEF TypeOK, SkipLeg, Due
<1>8. CASE Move
  <2>1. Head(legs) \in Pose /\ Tail(legs) \in Seq(Pose)
    BY <1>8 DEF TypeOK, Move, Due
  <2>2. Landed(Head(legs)) \in Pose
    BY <1>8, <2>1, LandedIsPose DEF TypeOK, Move, Allowed, Authorized
  <2> QED BY <1>8, <2>1, <2>2 DEF TypeOK, Move
<1>9. CASE NextArm
  <2>1. names' \in Seq({"left", "right"}) \ {<<>>}
    <3>1. names \in Seq({"left", "right"}) /\ Len(names) > 1 /\ names' = Tail(names)
      BY <1>9 DEF TypeOK, NextArm
    <3>2. Tail(names) \in Seq({"left", "right"}) /\ Len(Tail(names)) = Len(names) - 1
      BY <3>1
    <3> QED BY <3>1, <3>2
  <2> QED BY <1>9, <2>1, MovesAssumption DEF TypeOK, NextArm
<1>10. CASE FirstResidual
  BY <1>10, DistanceIsNat DEF TypeOK, FirstResidual
<1>11. CASE Correct
  BY <1>11, CorrectTyped
<1>12. CASE Converging \/ NoLongerConverging
  <2>1. Distance(arm) \in Nat
    BY DistanceIsNat DEF TypeOK
  <2>2. /\ trail' = Append(trail, Distance(arm)) /\ residual' \in {residual, Distance(arm)}
        /\ trail \in Seq(Nat) /\ residual \in Nat
    BY <1>12 DEF TypeOK, Converging, NoLongerConverging, Observe
  <2>3. trail' \in Seq(Nat) /\ residual' \in Nat
    BY <2>1, <2>2
  <2> QED BY <1>12, <2>3 DEF TypeOK, Converging, NoLongerConverging, Observe
<1> QED BY <1>1, <1>3, <1>5, <1>6, <1>7, <1>8, <1>9, <1>10, <1>11, <1>12 DEF Next

\* Every value a position command computes is of the kind the code takes it to
\* be, and no settle sends more corrections than SETTLE_PASSES.
THEOREM TypeCorrect == Spec => []TypeOK
<1>1. Init => TypeOK
  BY MovesAssumption DEF Init, TypeOK, Pose, Home
<1>2. TypeOK /\ [Next]_vars => TypeOK'
  BY TypeStep
<1> QED BY <1>1, <1>2, PTL DEF Spec

-----------------------------------------------------------------------------
(***************************************************************************)
(* Settling.                                                               *)
(***************************************************************************)
\* Every correction measured so far was called for, and brought a gain.
AllGained ==
  \A k \in 1..(Len(trail) - 1) : trail[k] > Tolerance /\ Gained(trail[k + 1], trail[k])

\* The distance kept is the last one measured.
Trailed ==
  /\ pc \in {"starting", "nextArm", "leg"} => trail = <<>>
  /\ pc \in {"settle", "corrected"} =>
       /\ trail # <<>> /\ residual = trail[Len(trail)]
       /\ AllGained
  /\ pc = "corrected" => residual > Tolerance

\* A measurement is added to a trail of gains.
LEMMA ObserveKeepsTrail ==
  ASSUME TypeOK, Trailed, pc = "corrected", trail' = Append(trail, Distance(arm))
  PROVE  /\ OnlyGainsContinue'
         /\ trail' # <<>> /\ Distance(arm) = trail'[Len(trail')]
         /\ Gained(Distance(arm), residual) => AllGained'
<1> DEFINE n == Len(trail)
           d == Distance(arm)
<1>1. trail \in Seq(Nat) /\ n \in Nat \ {0} /\ d \in Nat /\ Tolerance \in Nat
  BY DistanceIsNat, MovesAssumption DEF TypeOK, Trailed
<1>2. residual = trail[n] /\ AllGained /\ trail[n] > Tolerance
  BY DEF Trailed
<1> HIDE DEF d
<1>3. /\ trail' = Append(trail, d) /\ Len(trail') = n + 1 /\ trail'[n + 1] = d
      /\ \A k \in 1..n : trail'[k] = trail[k]
  BY <1>1 DEF d
<1>4. ASSUME NEW k \in 1..n
      PROVE  /\ trail'[k] > Tolerance
             /\ k < n => Gained(trail'[k + 1], trail'[k])
  <2>1. CASE k = n
    BY <1>1, <1>2, <1>3, <2>1
  <2>2. CASE k < n
    <3>1. k \in 1..(n - 1) /\ k + 1 \in 1..n
      BY <1>1, <2>2
    <3> QED BY <1>2, <1>3, <3>1 DEF AllGained
  <2> QED BY <1>1, <2>1, <2>2
<1>5. OnlyGainsContinue'
  <2>1. SUFFICES ASSUME NEW k \in 1..n
                 PROVE  /\ trail'[k] > Tolerance
                        /\ k + 1 < n + 1 => 10 * trail'[k + 1] <= 9 * trail'[k]
    BY <1>1, <1>3 DEF OnlyGainsContinue
  <2> QED BY <1>1, <1>4, <2>1 DEF Gained
<1>6. ASSUME Gained(d, residual) PROVE AllGained'
  BY <1>1, <1>2, <1>3, <1>4, <1>6 DEF AllGained
<1> QED BY <1>1, <1>3, <1>5, <1>6 DEF d

\* No step breaks the trail.
LEMMA TrailStep ==
  ASSUME TypeOK, Trailed, OnlyGainsContinue, [Next]_vars
  PROVE  Trailed' /\ OnlyGainsContinue'
<1>1. CASE UNCHANGED vars
  BY <1>1 DEF vars, Trailed, AllGained, OnlyGainsContinue
<1>2. ASSUME NEW how, Leave(how) PROVE Trailed' /\ OnlyGainsContinue'
  BY <1>2 DEF Leave, Trailed, AllGained, OnlyGainsContinue
<1>3. CASE \/ Review \/ NoSolution \/ MoveRefused \/ Finish \/ Settled
           \/ CorrectionRefused \/ CallFails \/ Interrupt
  BY <1>2, <1>3 DEF Review, NoSolution, MoveRefused, Finish, Settled, CorrectionRefused,
                    CallFails, Interrupt
<1>4. CASE BeginJoints \/ BeginEe \/ BeginRest \/ SkipLeg \/ Move \/ NextArm
  <2>1. pc \in {"starting", "nextArm", "leg"} /\ pc' \in {"nextArm", "leg"}
        /\ trail' = trail
    BY <1>4 DEF BeginJoints, BeginEe, BeginRest, Begin, SkipLeg, Move, Due, NextArm
  <2> QED BY <2>1 DEF Trailed, OnlyGainsContinue
<1>5. CASE FirstResidual
  <2>1. trail' = <<Distance(arm)>> /\ residual' = Distance(arm) /\ pc' = "settle"
    BY <1>5 DEF FirstResidual
  <2> QED BY <2>1 DEF Trailed, AllGained, OnlyGainsContinue
<1>6. CASE Correct
  BY <1>6 DEF Correct, SendCorrection, Trailed, AllGained, OnlyGainsContinue
<1>7. CASE Converging
  BY <1>7, ObserveKeepsTrail DEF Converging, Observe, Trailed
<1>8. CASE NoLongerConverging
  BY <1>8, ObserveKeepsTrail DEF NoLongerConverging, Observe, Trailed
<1> QED BY <1>1, <1>3, <1>4, <1>5, <1>6, <1>7, <1>8 DEF Next

\* A settle sends a further correction only while each one before brought the
\* tool a tenth nearer and it is still too far (_report_residual).
THEOREM GainsContinue == Spec => []OnlyGainsContinue
<1>1. Init => Trailed /\ OnlyGainsContinue
  BY DEF Init, Trailed, OnlyGainsContinue
<1>2. TypeOK /\ Trailed /\ OnlyGainsContinue /\ [Next]_vars => Trailed' /\ OnlyGainsContinue'
  BY TrailStep
<1> QED BY <1>1, <1>2, TypeCorrect, PTL DEF Spec

-----------------------------------------------------------------------------
(***************************************************************************)
(* Resting.                                                                *)
(***************************************************************************)
\* What is left of a rest, whichever of its moves were skipped.
Parking ==
  command = "rest" /\ pc = "leg" =>
    \/ legs = <<>>
    \/ /\ Len(legs) = 1 /\ legs[1] = RestPose(Head(names))
       /\ commanded["wrist"] = WristLift(Head(names))
    \/ /\ Len(legs) = 2 /\ legs[2] = RestPose(Head(names))
       /\ legs[1]["wrist"] = WristLift(Head(names))
       /\ legs[1]["elbow"] >= commanded["elbow"]

\* One target is dealt with: it is commanded now, sent or skipped.
LEMMA LegDone ==
  ASSUME TypeOK, Parking, Due, command = "rest",
         commanded' = Head(legs), legs' = Tail(legs), UNCHANGED <<command, pc, names>>
  PROVE  /\ Parking'
         /\ commanded'["elbow"] < commanded["elbow"] =>
              /\ commanded["wrist"] = WristLift(Head(names))
              /\ commanded' = RestPose(Head(names))
<1>1. legs \in Seq(Pose) /\ legs # <<>> /\ pc = "leg" /\ commanded \in Pose
  BY DEF TypeOK, Due
<1>2. CASE Len(legs) = 1
  <2>1. Tail(legs) = <<>> /\ Head(legs) = legs[1]
    BY <1>1, <1>2
  <2> QED BY <1>1, <1>2, <2>1 DEF Parking
<1>3. CASE Len(legs) = 2
  <2>1. /\ legs[2] = RestPose(Head(names)) /\ legs[1]["wrist"] = WristLift(Head(names))
        /\ legs[1]["elbow"] >= commanded["elbow"]
    BY <1>1, <1>3 DEF Parking
  <2>2. Head(legs) = legs[1] /\ Len(Tail(legs)) = 1 /\ Tail(legs)[1] = legs[2]
    BY <1>1, <1>3
  <2>3. legs[1]["elbow"] \in Int /\ commanded["elbow"] \in Int
    BY <1>1, <1>3 DEF Pose, Joints
  <2> QED BY <1>1, <2>1, <2>2, <2>3 DEF Parking
<1> QED BY <1>1, <1>2, <1>3 DEF Parking

\* No step breaks the order of a rest.
LEMMA ParkStep ==
  ASSUME TypeOK, Parking, [Next]_vars
  PROVE  /\ Parking'
         /\ command = "rest" /\ pc = "leg" /\ commanded'["elbow"] < commanded["elbow"] =>
              /\ commanded["wrist"] = WristLift(Head(names))
              /\ commanded' = RestPose(Head(names))
<1>0. commanded["elbow"] \in Int
  BY DEF TypeOK, Pose, Joints
<1>1. CASE UNCHANGED vars
  BY <1>0, <1>1 DEF vars, Parking
<1>2. ASSUME commanded' = commanded, pc' # "leg"
      PROVE  Parking' /\ ~(commanded'["elbow"] < commanded["elbow"])
  BY <1>0, <1>2 DEF Parking
<1>3. CASE \/ Review \/ NoSolution \/ MoveRefused \/ Finish \/ Settled
           \/ CorrectionRefused \/ CallFails \/ Interrupt \/ NextArm \/ FirstResidual
           \/ Converging \/ NoLongerConverging
  <2>1. commanded' = commanded /\ pc' # "leg"
    BY <1>3 DEF Review, NoSolution, MoveRefused, Finish, Settled, CorrectionRefused,
                CallFails, Interrupt, Leave, NextArm, FirstResidual, Converging,
                NoLongerConverging, Observe
  <2> QED BY <1>2, <2>1
<1>4. CASE BeginJoints \/ BeginEe
  BY <1>4 DEF BeginJoints, BeginEe, Begin, Parking
<1>5. CASE BeginRest
  <2>1. /\ commanded' = StartPose(arm) /\ names' = names /\ pc # "leg"
        /\ legs' = ParkTargets(Head(names), StartPose(arm))
    BY <1>5 DEF BeginRest, Begin
  <2>2. StartPose(arm) \in Pose
    BY StartPoseIsPose DEF TypeOK
  <2> QED BY <2>1, <2>2, ParkTargetsArePoses DEF Parking, WristLift, RestPose
<1>6. CASE SkipLeg
  <2>1. /\ Due /\ command = "rest" /\ commanded' = Head(legs) /\ legs' = Tail(legs)
        /\ UNCHANGED <<command, pc, names>>
    BY <1>6 DEF SkipLeg, NoTravel
  <2> QED BY <2>1, LegDone
<1>7. CASE Move
  <2>1. CASE command = "rest"
    BY <1>7, <2>1, LegDone DEF Move
  <2>2. CASE command # "rest"
    BY <1>7, <2>2 DEF Move, Parking
  <2> QED BY <2>1, <2>2
<1>8. CASE Correct
  BY <1>8 DEF Correct, SendCorrection, Parking
<1> QED BY <1>1, <1>3, <1>4, <1>5, <1>6, <1>7, <1>8 DEF Next

\* A rest lowers the elbow only by the move of its own that follows the one
\* that lifted the wrist, wherever the arm was found (_park_targets).
THEOREM ElbowIsLast == Spec => ElbowLowersLast
<1>1. Init => Parking
  BY DEF Init, Parking
<1>2. TypeOK /\ Parking /\ [Next]_vars => Parking'
  BY ParkStep
<1>3. Spec => []Parking
  BY <1>1, <1>2, TypeCorrect, PTL DEF Spec
<1>4. TypeOK /\ Parking /\ [Next]_vars =>
        [command = "rest" /\ pc = "leg" /\ commanded'["elbow"] < commanded["elbow"] =>
           /\ commanded["wrist"] = WristLift(Head(names))
           /\ commanded' = RestPose(Head(names))]_vars
  BY ParkStep
<1> QED BY <1>3, <1>4, TypeCorrect, PTL DEF Spec, ElbowLowersLast
=============================================================================
