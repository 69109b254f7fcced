------------------------- MODULE ArmCommandsProofs -------------------------
(***************************************************************************)
(* Proofs about the commands that put torque on the arm.                   *)
(***************************************************************************)
EXTENDS FittedStaircase, FiniteSetTheorems, TLAPS

(***************************************************************************)
(* Arithmetic of the quotients.                                            *)
(***************************************************************************)
\* A quotient of natural numbers is one.
LEMMA QuotientNat ==
  ASSUME NEW a \in Nat, NEW b \in Nat \ {0}
  PROVE  a \div b \in Nat
  BY SMT

\* The quotient of at most k times b, by b, is at most k.
LEMMA QuotientAtMost ==
  ASSUME NEW a \in Nat, NEW b \in Nat \ {0}, NEW k \in Nat, a <= k * b
  PROVE  a \div b <= k
<1> DEFINE q == a \div b
<1>1. q \in Nat /\ b * q <= a
  BY SMT
<1> HIDE DEF q
<1>2. SUFFICES ASSUME q >= k + 1 PROVE FALSE
  BY <1>1 DEF q
<1>3. b * q >= b * (k + 1)
  BY <1>1, <1>2, SMT
<1>4. b * (k + 1) = k * b + b
  BY SMT
<1> QED BY <1>1, <1>3, <1>4, SMT

\* The quotient grows with its dividend.
LEMMA QuotientGrows ==
  ASSUME NEW a \in Nat, NEW c \in Nat, NEW b \in Nat \ {0}, a <= c
  PROVE  a \div b <= c \div b
  BY SMT

\* The quotient of a product by one of its factors is the other.
LEMMA ExactQuotient ==
  ASSUME NEW a \in Nat, NEW b \in Nat \ {0}
  PROVE  (b * a) \div b = a
<1> DEFINE p == b * a
           d == p \div b
<1>1. p \in Nat
  BY SMT
<1> HIDE DEF p
<1>2. d \in Nat /\ b * d <= p /\ p < b * (d + 1)
  BY <1>1, SMT
<1> HIDE DEF d
<1>3. b * d <= b * a /\ b * a < b * (d + 1)
  BY <1>2 DEF p
<1>4. ASSUME NEW x \in Nat, NEW y \in Nat, x < y
      PROVE  b * (x + 1) <= b * y
  BY <1>4, SMT
<1>5. ~(d < a) /\ ~(a < d)
  <2>1. ASSUME d < a PROVE FALSE
    <3>1. b * (d + 1) <= b * a
      BY <1>2, <1>4, <2>1
    <3> QED BY <1>2, <1>3, <3>1
  <2>2. ASSUME a < d PROVE FALSE
    <3>1. b * (a + 1) <= b * d
      BY <1>2, <1>4, <2>2
    <3>2. b * (a + 1) = b * a + b /\ b * a \in Int /\ b * d \in Int
      BY <1>2, SMT
    <3> QED BY <1>3, <3>1, <3>2
  <2> QED BY <2>1, <2>2
<1> QED BY <1>2, <1>5 DEF d, p

\* A product of natural numbers is one, and grows with its factor.
LEMMA ProductGrows ==
  ASSUME NEW k \in Nat, NEW m \in Nat, NEW n \in Nat, m <= n
  PROVE  k * m \in Nat /\ k * n \in Nat /\ k * m <= k * n
  BY SMT

-----------------------------------------------------------------------------
(***************************************************************************)
(* The staircase.                                                          *)
(***************************************************************************)
Rung(n) == IF n < Steps THEN n ELSE Last - n

\* A torque of the staircase is its bottom and so many steps.
LEMMA StairIsARung ==
  ASSUME NEW n \in Nat
  PROVE  Stair(n) = -peak + (2 * peak * Rung(n)) \div (Steps - 1)
  BY DEF Stair, Rung

\* The rungs are those of a ladder of Steps.
LEMMA RungBounded ==
  ASSUME NEW n \in 0..Last
  PROVE  Rung(n) \in 0..(Steps - 1)
  BY StaircaseAssumption DEF Rung, Last

\* No torque of the staircase is further from zero than its peak.
LEMMA StairBounded ==
  ASSUME peak \in Nat, NEW n \in 0..Last
  PROVE  Stair(n) \in -peak..peak
<1> DEFINE a == 2 * peak * Rung(n)
           b == Steps - 1
<1>1. b \in Nat \ {0} /\ Steps \in Nat /\ n \in Nat
  BY StaircaseAssumption DEF Last
<1>2. Rung(n) \in Nat /\ b \in Nat /\ Rung(n) <= b
  BY <1>1, RungBounded
<1>3. a \in Nat /\ a <= 2 * peak * b
  <2>1. 2 * peak \in Nat
    OBVIOUS
  <2> QED BY <2>1, <1>2, ProductGrows
<1> HIDE DEF a, b
<1>4. a \div b \in Nat /\ a \div b <= 2 * peak
  <2>1. 2 * peak \in Nat
    OBVIOUS
  <2> QED BY <2>1, <1>1, <1>3, QuotientNat, QuotientAtMost
<1>5. Stair(n) = -peak + a \div b
  BY <1>1, StairIsARung DEF a, b
<1> QED BY <1>4, <1>5, SMT

\* It climbs until the top of the ladder, and descends from it.
LEMMA StairClimbs ==
  ASSUME peak \in Nat, NEW n \in 1..Last
  PROVE  IF n < Steps THEN Stair(n - 1) <= Stair(n) ELSE Stair(n) <= Stair(n - 1)
<1> DEFINE b == Steps - 1
           Height(k) == (2 * peak * k) \div b
<1>1. b \in Nat \ {0} /\ Steps \in Nat /\ n \in Nat /\ n - 1 \in Nat /\ 2 * peak \in Nat
  BY StaircaseAssumption DEF Last
<1>2. n \in 0..Last /\ n - 1 \in 0..Last
  BY StaircaseAssumption DEF Last
<1>3. Rung(n) \in Nat /\ Rung(n - 1) \in Nat
  BY <1>1, <1>2, RungBounded
<1>4. IF n < Steps THEN Rung(n - 1) <= Rung(n) ELSE Rung(n) <= Rung(n - 1)
  BY StaircaseAssumption DEF Rung, Last
<1>5. ASSUME NEW j \in Nat, NEW k \in Nat, j <= k
      PROVE  Height(j) \in Nat /\ Height(k) \in Nat /\ Height(j) <= Height(k)
  <2>1. 2 * peak * j \in Nat /\ 2 * peak * k \in Nat /\ 2 * peak * j <= 2 * peak * k
    BY <1>1, <1>5, ProductGrows
  <2> QED BY <2>1, <1>1, QuotientNat, QuotientGrows
<1>6. Stair(n) = -peak + Height(Rung(n)) /\ Stair(n - 1) = -peak + Height(Rung(n - 1))
  BY <1>1, StairIsARung
<1> HIDE DEF Height
<1>7. CASE n < Steps
  <2>1. Rung(n - 1) <= Rung(n)
    BY <1>4, <1>7
  <2>2. Height(Rung(n - 1)) \in Nat /\ Height(Rung(n)) \in Nat
          /\ Height(Rung(n - 1)) <= Height(Rung(n))
    BY <2>1, <1>3, <1>5
  <2> QED BY <2>2, <1>6, <1>7, SMT
<1>8. CASE ~(n < Steps)
  <2>1. Rung(n) <= Rung(n - 1)
    BY <1>4, <1>8
  <2>2. Height(Rung(n - 1)) \in Nat /\ Height(Rung(n)) \in Nat
          /\ Height(Rung(n)) <= Height(Rung(n - 1))
    BY <2>1, <1>3, <1>5
  <2> QED BY <2>2, <1>6, <1>8, SMT
<1> QED BY <1>7, <1>8

-----------------------------------------------------------------------------
(***************************************************************************)
(* Types, and the bound of every torque.                                   *)
(***************************************************************************)
\* What the torques of each phase were checked against.
Sized ==
  /\ phase = "seed" => seed <= rating
  /\ phase = "confirm" => 2 * seed <= Ceiling
  /\ phase \in {"probe", "arrive", "round"} => peak <= Ceiling
  /\ phase = "round" => step \in 1..Last

\* What is left to do.
Counted ==
  /\ pc \in {"push", "read"} => joint < Joints
  /\ pc = "starting" => round = 0 /\ samples = 0 /\ settling = 0
  /\ pc = "check" => samples = 0 /\ settling = 0
  /\ pc \in {"publish", "measure"} => round < Rounds
  /\ pc \in {"cycle", "point"} => settling < Beats
  /\ ahead + samples <= Points + settling

\* The rating, and its quarter, are within the profile's bound.
LEMMA RatingBounded ==
  ASSUME TypeOK
  PROVE  /\ rating \in Nat /\ Ceiling \in Nat
         /\ Ceiling <= rating /\ rating <= EffortLimit /\ Seed <= rating
<1>1. rating \in Seed..EffortLimit /\ Seed \in Nat /\ EffortLimit \in Nat
  BY StaircaseAssumption, LineAssumption DEF TypeOK, StaircaseTypeOK
<1>2. rating \in Nat /\ Seed <= rating /\ rating <= EffortLimit
  BY <1>1
<1>3. Ceiling \in Nat /\ Ceiling <= rating
  BY <1>2, SMT DEF Ceiling
<1> QED BY <1>2, <1>3

\* The torque of a push is in the range of the bound.
LEMMA TorqueBounded ==
  ASSUME TypeOK, Sized
  PROVE  Torque \in Torques
<1>1. /\ rating \in Nat /\ Ceiling \in Nat
      /\ Ceiling <= rating /\ rating <= EffortLimit /\ EffortLimit \in Nat
  BY RatingBounded, LineAssumption
<1>2. phase \in Phases /\ seed \in Nat /\ peak \in Nat /\ step \in 0..Last
  BY DEF TypeOK, StaircaseTypeOK
<1>3. CASE phase \in {"arrive", "round"}
  <2>1. Stair(step) \in -peak..peak /\ peak <= Ceiling
    BY <1>2, <1>3, StairBounded DEF Sized
  <2>2. Torque = Stair(step)
    BY <1>3 DEF Torque
  <2> QED BY <2>1, <2>2, <1>1, <1>2 DEF Torques
<1>4. CASE phase \in {"baseline", "seed", "confirm", "probe"}
  BY <1>1, <1>2, <1>4 DEF Torque, Torques, Sized
<1> QED BY <1>2, <1>3, <1>4 DEF Phases

\* A torque that sizes the staircase is within the ceiling, and a whole number of
\* rungs, at least one where the torque it is sized from is not zero.
LEMMA WantedBounded ==
  ASSUME TypeOK, NEW torque \in Nat, NEW response \in Nat, Sizes(torque, response)
  PROVE  /\ Wanted(torque, response) \in Nat /\ Wanted(torque, response) <= Ceiling
         /\ torque # 0 => \E q \in Nat \ {0} : Wanted(torque, response) = (Steps - 1) * q
<1> DEFINE m == Steps - 1
           x == Deflection * torque
           y == m * response
           q == (x + y - 1) \div y
<1>1. response \in Nat \ {0} /\ Wanted(torque, response) <= Ceiling /\ m \in Nat \ {0}
  BY StaircaseAssumption DEF Sizes
<1>2. Wanted(torque, response) = m * q
  BY DEF Wanted
<1>3. x \in Nat /\ (torque # 0 => x > 0)
  <2>1. ASSUME NEW d \in Nat \ {0} PROVE d * torque \in Nat /\ (torque # 0 => d * torque > 0)
    BY SMT
  <2> QED BY <2>1, StaircaseAssumption
<1>4. y \in Nat \ {0}
  <2>1. ASSUME NEW d \in Nat \ {0}, NEW r \in Nat \ {0} PROVE d * r \in Nat \ {0}
    BY SMT
  <2> QED BY <1>1, <2>1
<1> HIDE DEF x, y, m
<1>5. q \in Nat /\ (x > 0 => q # 0)
  <2>1. x + y - 1 \in Nat /\ (x > 0 => y <= x + y - 1)
    BY <1>3, <1>4
  <2> DEFINE z == x + y - 1
  <2> HIDE DEF z
  <2>2. z \div y \in Nat /\ (y <= z => y \div y <= z \div y)
    BY <1>4, <2>1, QuotientNat, QuotientGrows DEF z
  <2>3. y \div y = 1
    BY <1>4, SMT
  <2> QED BY <2>1, <2>2, <2>3 DEF z
<1> HIDE DEF q
<1>6. m * q \in Nat
  BY <1>1, <1>5, ProductGrows
<1> QED BY <1>1, <1>2, <1>3, <1>5, <1>6 DEF m

TypeInv == TypeOK /\ Sized /\ Counted

\* The initial states are typed.
LEMMA TypeInit == Init => TypeInv
<1>1. ASSUME Init PROVE LineTypeOK
  BY <1>1, LineAssumption DEF Init, LineInit, LineTypeOK, Commands, Places
<1>2. ASSUME Init PROVE StaircaseTypeOK /\ Sized
  BY <1>2, StaircaseAssumption
     DEF Init, StaircaseInit, StaircaseTypeOK, Sized, Phases, Last
<1>3. ASSUME Init PROVE SweepTypeOK
  BY <1>3, SweepAssumption DEF Init, SweepInit, SweepTypeOK
<1>4. ASSUME Init PROVE ReadyTypeOK
  BY <1>4, ReadyAssumption DEF Init, ReadyInit, ReadyTypeOK
<1>5. ASSUME Init PROVE Counted
  BY <1>5, ReadyAssumption DEF Init, LineInit, SweepInit, ReadyInit, Counted
<1> QED BY <1>1, <1>2, <1>3, <1>4, <1>5 DEF TypeInv, TypeOK

\* What every command does around its try changes none of the other variables.
LEMMA LineTypes ==
  ASSUME TypeInv, LineStep
  PROVE  TypeInv'
<1> USE DEF Leave, Raise, Goto
<1>1. LineTypeOK /\ StaircaseTypeOK /\ SweepTypeOK /\ ReadyTypeOK /\ Sized /\ Counted
  BY DEF TypeInv, TypeOK
<1>2. UNCHANGED <<staircaseVars, sweepVars, readyVars>>
  BY DEF LineStep
<1>3. StaircaseTypeOK' /\ Sized'
  BY <1>1, <1>2
     DEF StaircaseTypeOK, Sized, staircaseVars, jointVars, standing, sizing, Ceiling
<1>4. SweepTypeOK' /\ ReadyTypeOK'
  BY <1>1, <1>2 DEF SweepTypeOK, sweepVars, ReadyTypeOK, readyVars
<1>5. LineTypeOK'
  <2>1. CASE StartFails \/ Review \/ WriteFails \/ Finish
    BY <1>1, <2>1 DEF LineTypeOK, StartFails, Review, WriteFails, Finish, Places, InTry
  <2>2. CASE ReleaseSent \/ ReleaseFails
    BY <1>1, <2>2, LineAssumption DEF LineTypeOK, ReleaseSent, ReleaseFails, Places, InTry
  <2>3. CASE Interrupt
    BY <1>1, <2>3, LineAssumption DEF LineTypeOK, Interrupt, Places, InTry
  <2> QED BY <2>1, <2>2, <2>3 DEF LineStep
<1>6. Counted'
  <2>1. pc' \in {"releasing", "released", "ended"}
    BY DEF LineStep, StartFails, Review, WriteFails, Finish, ReleaseSent, ReleaseFails,
           Interrupt
  <2> QED BY <1>1, <1>2, <2>1 DEF Counted, sweepVars, readyVars
<1> QED BY <1>3, <1>4, <1>5, <1>6 DEF TypeInv, TypeOK

\* The sweeps.
LEMMA SweepTypes ==
  ASSUME TypeInv, SweepStep, UNCHANGED <<staircaseVars, readyVars>>
  PROVE  TypeInv'
<1> USE DEF Leave, Raise, Goto, Send, Places, InTry
<1>1. LineTypeOK /\ StaircaseTypeOK /\ SweepTypeOK /\ ReadyTypeOK /\ Sized /\ Counted
  BY DEF TypeInv, TypeOK
<1>2. StaircaseTypeOK' /\ Sized' /\ ReadyTypeOK'
  BY <1>1 DEF StaircaseTypeOK, Sized, staircaseVars, jointVars, standing, sizing,
              Ceiling, ReadyTypeOK, readyVars
<1>3. LineTypeOK' /\ SweepTypeOK' /\ Counted'
  <2>1. CASE BeginGravity \/ BeginPoses \/ Move \/ MoveFails
    BY <1>1, <2>1, SweepAssumption
       DEF LineTypeOK, SweepTypeOK, BeginGravity, BeginPoses, Move, MoveFails, sweepVars,
           Counted, readyVars
  <2>2. CASE PublishLoad
    BY <1>1, <2>2, LineAssumption, SweepAssumption
       DEF LineTypeOK, SweepTypeOK, PublishLoad, Authorized, sweepVars, Counted,
           readyVars
  <2>3. CASE LoadRefused \/ SweepCallFails
    BY <1>1, <2>3 DEF LineTypeOK, SweepTypeOK, LoadRefused, SweepCallFails, sweepVars,
                      Counted, readyVars
  <2>4. CASE Measure
    BY <1>1, <2>4, SweepAssumption DEF LineTypeOK, SweepTypeOK, Measure, Counted,
                                       readyVars
  <2>5. CASE NextPose
    BY <1>1, <2>5, SweepAssumption DEF LineTypeOK, SweepTypeOK, NextPose, MorePoses,
                                       Counted, readyVars
  <2> QED BY <2>1, <2>2, <2>3, <2>4, <2>5 DEF SweepStep
<1> QED BY <1>2, <1>3 DEF TypeInv, TypeOK

\* The motion to the ready posture.
LEMMA ReadyTypes ==
  ASSUME TypeInv, ReadyStep, UNCHANGED <<staircaseVars, sweepVars>>
  PROVE  TypeInv'
<1> USE DEF Leave, Raise, Goto, Send, Places, InTry
<1>1. LineTypeOK /\ StaircaseTypeOK /\ SweepTypeOK /\ ReadyTypeOK /\ Sized /\ Counted
  BY DEF TypeInv, TypeOK
<1>2. StaircaseTypeOK' /\ Sized' /\ SweepTypeOK'
  BY <1>1 DEF StaircaseTypeOK, Sized, staircaseVars, jointVars, standing, sizing,
              Ceiling, SweepTypeOK, sweepVars
<1>3. LineTypeOK' /\ ReadyTypeOK' /\ Counted'
  <2>1. CASE BeginReady \/ Check
    BY <1>1, <2>1, ReadyAssumption
       DEF LineTypeOK, ReadyTypeOK, BeginReady, Check, Counted, readyVars, sweepVars
  <2>2. CASE CycleTorque
    BY <1>1, <2>2, LineAssumption, ReadyAssumption
       DEF LineTypeOK, ReadyTypeOK, CycleTorque, Authorized, Counted, readyVars, sweepVars
  <2>3. CASE StreamPoint
    BY <1>1, <2>3, ReadyAssumption
       DEF LineTypeOK, ReadyTypeOK, StreamPoint, Position, Counted, sweepVars
  <2>4. CASE SettleOn \/ SettlePasses \/ SettleTimesOut
    BY <1>1, <2>4, ReadyAssumption
       DEF LineTypeOK, ReadyTypeOK, SettleOn, SettlePasses, SettleTimesOut, Settle,
           Position, Counted, sweepVars
  <2>5. CASE Tracked \/ ReadyCallFails
    BY <1>1, <2>5
       DEF LineTypeOK, ReadyTypeOK, Tracked, ReadyCallFails, Counted, readyVars, sweepVars
  <2>6. CASE TimeoutHold \/ ExceptionHold \/ ExceptionHoldFails
    BY <1>1, <2>6
       DEF LineTypeOK, ReadyTypeOK, TimeoutHold, ExceptionHold, ExceptionHoldFails, Hold,
           Counted, sweepVars
  <2> QED BY <2>1, <2>2, <2>3, <2>4, <2>5, <2>6 DEF ReadyStep
<1> QED BY <1>2, <1>3 DEF TypeInv, TypeOK

\* How far a reading is from another.
LEMMA MagnitudeNat ==
  ASSUME NEW x \in Int, NEW y \in Int
  PROVE  Magnitude(x - y) \in Nat
  BY DEF Magnitude

\* A push sends the joint to a place, and the torque to the arm.
LEMMA PushTypes ==
  ASSUME TypeInv, Push
  PROVE  LineTypeOK' /\ StaircaseTypeOK' /\ Sized'
<1> USE DEF Send, Places, InTry
<1>1. LineTypeOK /\ StaircaseTypeOK /\ Sized
  BY DEF TypeInv, TypeOK
<1>2. Torque \in Torques
  BY TorqueBounded DEF TypeInv
<1>3. Equilibrium[curve][Torque] \in Int /\ band \in Nat
  BY <1>1, <1>2, StaircaseAssumption DEF StaircaseTypeOK
<1> HIDE DEF Torque
<1>4. LineTypeOK'
  BY <1>1, <1>2 DEF Push, LineTypeOK, Torques
<1>5. held' \in Int /\ direction' \in {"none", "up", "down"}
  BY <1>1, <1>3 DEF Push, StaircaseTypeOK, standing
<1>6. StaircaseTypeOK' /\ Sized'
  BY <1>1, <1>5 DEF Push, StaircaseTypeOK, Sized, jointVars, sizing, Ceiling
<1> QED BY <1>4, <1>6

\* The staircase: what is read, and what is pushed next.
LEMMA StaircaseTypes ==
  ASSUME TypeInv, StaircaseStep, UNCHANGED <<sweepVars, readyVars>>
  PROVE  TypeInv'
<1> USE DEF Raise, Goto, Send, PushFor, RefuseAt, Places, InTry
<1>1. LineTypeOK /\ StaircaseTypeOK /\ SweepTypeOK /\ ReadyTypeOK /\ Sized /\ Counted
  BY DEF TypeInv, TypeOK
<1>2. SweepTypeOK' /\ ReadyTypeOK'
  BY <1>1 DEF SweepTypeOK, sweepVars, ReadyTypeOK, readyVars
<1>3. Counted'
  <2>1. /\ pc' \in {"joint", "push", "read", "releasing"}
        /\ pc' \in {"push", "read"} =>
             joint' = joint /\ (pc \in {"push", "read"} \/ joint < Joints)
    BY DEF StaircaseStep, BeginTorque, BeginJoint, AllMeasured, Push, TorqueCallFails,
           ReadBaseline, SeedTooFar, SeedAtCeiling, SeedMoves, SeedDoubles, SeedUnheard,
           OutsideRoom, SizeFromSeed, ProbeHits, SizeFromProbe, CannotSize,
           Arrive, NextRound, LastRound, staircaseVars
  <2> QED BY <1>1, <2>1 DEF Counted, sweepVars, readyVars
<1>4. LineTypeOK' /\ StaircaseTypeOK' /\ Sized'
  <2> USE DEF LineTypeOK, StaircaseTypeOK, Sized, Phases, staircaseVars, jointVars,
              standing, sizing, Ceiling
  <2>1. CASE BeginTorque \/ AllMeasured \/ TorqueCallFails
    BY <1>1, <2>1 DEF BeginTorque, AllMeasured, TorqueCallFails
  <2>2. CASE SeedTooFar \/ SeedAtCeiling \/ SeedUnheard \/ OutsideRoom \/ CannotSize
    BY <1>1, <2>2 DEF SeedTooFar, SeedAtCeiling, SeedUnheard, OutsideRoom, CannotSize
  <2>3. CASE BeginJoint
    <3>1. 0 \in Torques
      BY LineAssumption DEF Torques
    <3>2. Equilibrium[curve'][0] \in Int /\ band' \in Nat
      BY <2>3, <3>1, StaircaseAssumption DEF BeginJoint
    <3> QED BY <1>1, <2>3, <3>2 DEF BeginJoint
  <2>4. CASE Push
    BY <2>4, PushTypes
  <2>5. CASE ReadBaseline
    <3>1. Seed <= rating
      BY <1>1, StaircaseAssumption, LineAssumption
    <3> QED BY <1>1, <2>5, <3>1, StaircaseAssumption DEF ReadBaseline
  <2>6. CASE SeedMoves
    BY <1>1, <2>6 DEF SeedMoves
  <2>7. CASE SeedDoubles
    <3>1. Ceiling <= rating
      BY RatingBounded DEF TypeInv
    <3>2. seed' = 2 * seed /\ seed' <= rating /\ seed' \in Nat \ {0}
      BY <1>1, <2>7, <3>1 , RatingBounded DEF SeedDoubles, TypeInv
    <3> QED BY <1>1, <2>7, <3>2, StaircaseAssumption DEF SeedDoubles
  <2>8. CASE SizeFromSeed
    <3>1. Response \in Nat /\ seed \in Nat
      BY <1>1, MagnitudeNat DEF Response
    <3>2. peak' \in Nat /\ peak' <= Ceiling
      BY <2>8, <3>1, WantedBounded DEF SizeFromSeed, TypeInv
    <3> QED BY <1>1, <2>8, <3>2 DEF SizeFromSeed
  <2>9. CASE SizeFromProbe
    <3>1. Travelled \in Nat /\ peak \in Nat
      BY <1>1, MagnitudeNat DEF Travelled
    <3>2. peak' \in Nat /\ peak' <= Ceiling
      BY <2>9, <3>1, WantedBounded DEF SizeFromProbe, TypeInv
    <3>3. 0 \in 0..Last
      BY StaircaseAssumption DEF Last
    <3> QED BY <1>1, <2>9, <3>2, <3>3 DEF SizeFromProbe
  <2>10. CASE ProbeHits \/ Arrive
    <3>1. 0 \in 0..Last /\ 1 \in 1..Last /\ 1 \in 0..Last
      BY StaircaseAssumption DEF Last
    <3> QED BY <1>1, <2>10, <3>1 DEF ProbeHits, Arrive
  <2>11. CASE NextRound
    <3>1. Last \in Nat
      BY StaircaseAssumption DEF Last
    <3>2. step' \in 0..Last /\ step' \in 1..Last
      BY <1>1, <2>11, <3>1 DEF NextRound
    <3> QED BY <1>1, <2>11, <3>2 DEF NextRound
  <2>12. CASE LastRound
    BY <1>1, <2>12, StaircaseAssumption DEF LastRound, Counted
  <2> QED BY <2>1, <2>2, <2>3, <2>4, <2>5, <2>6, <2>7, <2>8, <2>9, <2>10, <2>11, <2>12
         DEF StaircaseStep
<1> QED BY <1>2, <1>3, <1>4 DEF TypeInv, TypeOK

\* A stuttering step changes nothing.
LEMMA TypeStutters ==
  ASSUME TypeInv, UNCHANGED vars
  PROVE  TypeInv'
<1>1. LineTypeOK /\ StaircaseTypeOK /\ SweepTypeOK /\ ReadyTypeOK /\ Sized /\ Counted
  BY DEF TypeInv, TypeOK
<1>2. LineTypeOK' /\ StaircaseTypeOK' /\ Sized'
  BY <1>1 DEF vars, lineVars, staircaseVars, jointVars, standing, sizing,
              LineTypeOK, StaircaseTypeOK, Sized, Ceiling
<1>3. SweepTypeOK' /\ ReadyTypeOK' /\ Counted'
  BY <1>1 DEF vars, lineVars, staircaseVars, sweepVars, readyVars,
              SweepTypeOK, ReadyTypeOK, Counted
<1> QED BY <1>2, <1>3 DEF TypeInv, TypeOK

\* The invariant behind the types.
THEOREM TypeInvariant == Spec => []TypeInv
<1>1. TypeInv /\ [Next]_vars => TypeInv'
  BY LineTypes, SweepTypes, ReadyTypes, StaircaseTypes, TypeStutters DEF Next
<1> QED BY <1>1, TypeInit, PTL DEF Spec

\* Every variable keeps its type; above all no torque on the arm is over the
\* profile's bound, whichever command published it (authorize_effort, and the
\* ceiling of the probe).
THEOREM TypeCorrect == Spec => []TypeOK
<1>1. TypeInv => TypeOK
  BY DEF TypeInv
<1> QED BY <1>1, TypeInvariant, PTL

-----------------------------------------------------------------------------
(***************************************************************************)
(* The release.                                                            *)
(***************************************************************************)
\* Once the finally is behind the command, a torque still on the arm is one it
\* could not take away, and says so.
Released ==
  /\ pc \in {"starting", "moving"} => wire = 0
  /\ pc = "released" /\ wire # 0 => release = "failed" /\ fault # "none"
  /\ pc = "ended" /\ wire # 0 => release = "failed" /\ outcome # "done"

\* What every command does around its try.
LEMMA LineReleases ==
  ASSUME LineTypeOK, Released, LineStep
  PROVE  Released'
<1> USE DEF Leave, Raise, Goto, InTry, Released
<1>1. CASE StartFails \/ Review \/ WriteFails \/ Finish
  BY <1>1 DEF StartFails, Review, WriteFails, Finish, LineTypeOK
<1>2. CASE ReleaseSent \/ ReleaseFails
  BY <1>2 DEF ReleaseSent, ReleaseFails
<1>3. CASE Interrupt
  BY <1>3 DEF Interrupt
<1> QED BY <1>1, <1>2, <1>3 DEF LineStep

\* What the commands do inside it, and the moves of a collection.
LEMMA BodiesRelease ==
  ASSUME Released, SweepStep \/ ReadyStep \/ StaircaseStep
  PROVE  Released'
<1> USE DEF Leave, Raise, Goto, Send, PushFor, RefuseAt, InTry
<1>1. CASE SweepStep
  <2>1. CASE NextPose
    BY <2>1 DEF Released, NextPose, MorePoses
  <2>2. CASE MoveFails \/ BeginPoses
    BY <2>2 DEF Released, MoveFails, BeginPoses
  <2>3. CASE BeginGravity \/ Move \/ PublishLoad \/ LoadRefused \/ SweepCallFails \/ Measure
    <3>1. pc' \in {"publish", "measure", "releasing"}
      BY <2>3 DEF BeginGravity, Move, PublishLoad, LoadRefused, SweepCallFails, Measure
    <3> QED BY <3>1 DEF Released
  <2> QED BY <1>1, <2>1, <2>2, <2>3 DEF SweepStep
<1>2. CASE ReadyStep
  <2>1. pc' \in {"check", "cycle", "point", "tracking", "hold", "holdAfter", "releasing"}
    BY <1>2 DEF ReadyStep, BeginReady, Check, CycleTorque, StreamPoint, SettleOn,
                SettlePasses, SettleTimesOut, Settle, Tracked, TimeoutHold,
                ReadyCallFails, ExceptionHold, ExceptionHoldFails, Hold
  <2> QED BY <2>1 DEF Released
<1>3. CASE StaircaseStep
  <2>1. pc' \in {"joint", "push", "read", "releasing"}
    BY <1>3
       DEF StaircaseStep, BeginTorque, BeginJoint, AllMeasured, Push, TorqueCallFails,
           ReadBaseline, SeedTooFar, SeedAtCeiling, SeedMoves, SeedDoubles, SeedUnheard,
           OutsideRoom, SizeFromSeed, ProbeHits, SizeFromProbe, CannotSize,
           Arrive, NextRound, LastRound
  <2> QED BY <2>1 DEF Released
<1> QED BY <1>1, <1>2, <1>3

\* No command ends, and no collection moves on, with torque on the arm, unless
\* the release failed and the command does not report success (the finally of
\* measure_staircase, _measure_sweep and _pose_ready).
THEOREM TorqueReleased == Spec => []TorqueIsReleased
<1>1. Init => Released
  BY DEF Init, LineInit, Released
<1>2. TypeOK /\ Released /\ [Next]_vars => Released'
  <2>1. SUFFICES ASSUME TypeOK, Released, [Next]_vars PROVE Released'
    OBVIOUS
  <2>2. CASE UNCHANGED vars
    BY <2>1, <2>2 DEF vars, lineVars, Released
  <2> QED BY <2>1, <2>2, LineReleases, BodiesRelease DEF Next, TypeOK
<1>3. Released => TorqueIsReleased
  BY DEF Released, TorqueIsReleased
<1> QED BY <1>1, <1>2, <1>3, TypeCorrect, PTL DEF Spec

-----------------------------------------------------------------------------
(***************************************************************************)
(* The hold of a motion that failed.                                       *)
(***************************************************************************)
ReadyPlaces == {"check", "cycle", "point", "tracking", "hold", "holdAfter"}

\* A position was published only by pose ready, which counts it; until something
\* fails the motion has no exception.
Tracking ==
  /\ reference # "none" => command = "ready" /\ samples > 0
  /\ pc = "check" => reference = "none"
  /\ pc \in {"tracking", "hold", "holdAfter"} => samples > 0
  /\ pc \in ReadyPlaces => command = "ready"
  /\ pc \in {"joint", "push", "read"} => command = "torque"
  /\ pc \in {"moving", "publish", "measure"} => command \in {"gravity", "poses"}
  /\ pc \in ReadyPlaces \ {"holdAfter"} => fault = "none"
  /\ pc = "starting" => reference = "none" /\ fault = "none"

\* The motion itself.
LEMMA ReadyTracks ==
  ASSUME ReadyTypeOK, Tracking, FailedMotionHolds, ReadyStep
  PROVE  Tracking' /\ FailedMotionHolds'
<1> USE DEF Goto, Send, ReadyPlaces, Tracking, FailedMotionHolds
<1>1. CASE BeginReady \/ Check \/ CycleTorque
  BY <1>1 DEF BeginReady, Check, CycleTorque, readyVars
<1>2. CASE StreamPoint \/ SettleOn \/ SettlePasses \/ SettleTimesOut
  BY <1>2 DEF StreamPoint, SettleOn, SettlePasses, SettleTimesOut, Settle, Position,
              ReadyTypeOK
<1>3. CASE Tracked
  BY <1>3 DEF Tracked, readyVars
<1>4. CASE ReadyCallFails
  BY <1>4 DEF ReadyCallFails, readyVars
<1>5. CASE TimeoutHold \/ ExceptionHold \/ ExceptionHoldFails
  BY <1>5 DEF TimeoutHold, ExceptionHold, ExceptionHoldFails, Hold
<1> QED BY <1>1, <1>2, <1>3, <1>4, <1>5 DEF ReadyStep

\* The other commands publish no position; what they share leaves the hold alone.
LEMMA OthersTrack ==
  ASSUME Tracking, FailedMotionHolds, UNCHANGED readyVars,
         LineStep \/ SweepStep \/ StaircaseStep
  PROVE  Tracking' /\ FailedMotionHolds'
<1> USE DEF Goto, Send, Raise, Leave, PushFor, RefuseAt, readyVars, Tracking,
            FailedMotionHolds
<1>1. CASE LineStep
  <2>1. CASE StartFails \/ Review \/ WriteFails \/ Finish \/ ReleaseSent \/ ReleaseFails
    BY <2>1 DEF StartFails, Review, WriteFails, Finish, ReleaseSent, ReleaseFails,
                ReadyPlaces
  <2>2. CASE Interrupt
    BY <2>2 DEF Interrupt, InTry, ReadyPlaces
  <2> QED BY <1>1, <2>1, <2>2 DEF LineStep
<1>2. CASE SweepStep
  <2>1. /\ pc' \in {"moving", "publish", "measure", "releasing", "released", "ended"}
        /\ command' = command /\ command \in {"gravity", "poses"}
    BY <1>2 DEF SweepStep, BeginGravity, BeginPoses, Move, MoveFails, PublishLoad,
                LoadRefused, SweepCallFails, Measure, NextPose, MorePoses
  <2> QED BY <2>1 DEF ReadyPlaces
<1>3. CASE StaircaseStep
  <2>1. /\ pc' \in {"joint", "push", "read", "releasing"}
        /\ command' = command /\ command = "torque"
    BY <1>3
       DEF StaircaseStep, BeginTorque, BeginJoint, AllMeasured, Push, TorqueCallFails,
           ReadBaseline, SeedTooFar, SeedAtCeiling, SeedMoves, SeedDoubles, SeedUnheard,
           OutsideRoom, SizeFromSeed, ProbeHits, SizeFromProbe, CannotSize,
           Arrive, NextRound, LastRound, SeedStays
  <2> QED BY <2>1 DEF ReadyPlaces
<1> QED BY <1>1, <1>2, <1>3

\* A motion to the ready posture that failed is held where the arm was last
\* measured before its torque is taken away (_pose_ready).
THEOREM FailedMotionIsHeld == Spec => []FailedMotionHolds
<1>1. Init => Tracking /\ FailedMotionHolds
  BY DEF Init, LineInit, ReadyInit, Tracking, FailedMotionHolds, ReadyPlaces
<1>2. TypeOK /\ Tracking /\ FailedMotionHolds /\ [Next]_vars
        => Tracking' /\ FailedMotionHolds'
  <2>1. SUFFICES ASSUME TypeOK, Tracking, FailedMotionHolds, [Next]_vars
                 PROVE  Tracking' /\ FailedMotionHolds'
    OBVIOUS
  <2>2. CASE UNCHANGED vars
    BY <2>1, <2>2 DEF vars, lineVars, readyVars, Tracking, FailedMotionHolds, ReadyPlaces
  <2> QED BY <2>1, <2>2, ReadyTracks, OthersTrack DEF Next, LineStep, TypeOK
<1> QED BY <1>1, <1>2, TypeCorrect, PTL DEF Spec

\* A command leaves the arm without torque and a failed motion held, or says that
\* it could not (the finally and the handlers of every torque command).
THEOREM ArmIsSafe == Spec => []ArmIsLeftSafe
BY TorqueReleased, FailedMotionIsHeld, PTL DEF ArmIsLeftSafe

\* Recording the rounds changes nothing of a command: what is proved of every
\* command holds where its rounds are recorded and fitted (measure_staircase).
THEOREM RecordedIsACommand == RecordedSpec => Spec
<1>1. RecordedInit => Init
  BY DEF RecordedInit
<1>2. [Next /\ Record]_recordedVars => [Next]_vars
  BY DEF recordedVars
<1> QED BY <1>1, <1>2, PTL DEF RecordedSpec, Spec

-----------------------------------------------------------------------------
(***************************************************************************)
(* The room of the joint.                                                  *)
(***************************************************************************)
\* The reading at zero torque is taken at zero torque.
BaselineAtRest == pc = "read" /\ phase = "baseline" => wire = 0

\* A step of the staircase.
LEMMA StaircaseStays ==
  ASSUME BaselineAtRest, StaysInItsRoom, StaircaseStep
  PROVE  BaselineAtRest' /\ StaysInItsRoom'
<1> USE DEF Goto, Send, Raise, PushFor, RefuseAt, BaselineAtRest, StaysInItsRoom,
            staircaseVars, jointVars, standing, sizing, LeftRoom, Travelled
<1>1. CASE BeginTorque \/ AllMeasured \/ TorqueCallFails \/ LastRound \/ BeginJoint
  BY <1>1 DEF BeginTorque, AllMeasured, TorqueCallFails, LastRound, BeginJoint
<1>2. CASE SeedTooFar \/ SeedAtCeiling \/ SeedUnheard \/ OutsideRoom \/ CannotSize
  BY <1>2 DEF SeedTooFar, SeedAtCeiling, SeedUnheard, OutsideRoom, CannotSize
<1>3. CASE Push
  BY <1>3 DEF Push, Torque
<1>4. CASE ReadBaseline
  BY <1>4 DEF ReadBaseline
<1>5. CASE SeedMoves \/ SeedDoubles
  BY <1>5 DEF SeedMoves, SeedDoubles, SeedStays
<1>6. CASE SizeFromSeed \/ ProbeHits \/ SizeFromProbe
  BY <1>6 DEF SizeFromSeed, ProbeHits, SizeFromProbe
<1>7. CASE Arrive \/ NextRound
  BY <1>7 DEF Arrive, NextRound
<1> QED BY <1>1, <1>2, <1>3, <1>4, <1>5, <1>6, <1>7 DEF StaircaseStep

\* A torque that carried a joint out of its room is followed by no other
\* (_seed_response, _probe_peak, _check_room).
THEOREM JointStaysInItsRoom == Spec => []StaysInItsRoom
<1>1. Init => BaselineAtRest /\ StaysInItsRoom
  BY DEF Init, LineInit, BaselineAtRest, StaysInItsRoom
<1>2. BaselineAtRest /\ StaysInItsRoom /\ [Next]_vars
        => BaselineAtRest' /\ StaysInItsRoom'
  <2>1. SUFFICES ASSUME BaselineAtRest, StaysInItsRoom, [Next]_vars
                 PROVE  BaselineAtRest' /\ StaysInItsRoom'
    OBVIOUS
  <2> USE DEF BaselineAtRest, StaysInItsRoom
  <2>2. CASE UNCHANGED vars
    BY <2>1, <2>2 DEF vars, lineVars, staircaseVars, jointVars, standing, sizing, LeftRoom,
                      Travelled
  <2>3. CASE LineStep
    BY <2>3 DEF LineStep, StartFails, Review, WriteFails, Finish, ReleaseSent,
                ReleaseFails, Interrupt, Leave, Raise
  <2>4. CASE SweepStep
    BY <2>4 DEF SweepStep, BeginGravity, BeginPoses, Move, MoveFails, PublishLoad,
                LoadRefused, SweepCallFails, Measure, NextPose, Leave, Raise, Goto, Send
  <2>5. CASE ReadyStep
    BY <2>5 DEF ReadyStep, BeginReady, Check, CycleTorque, StreamPoint, SettleOn,
                SettlePasses, SettleTimesOut, Settle, Tracked, TimeoutHold,
                ReadyCallFails, ExceptionHold, ExceptionHoldFails, Hold, Goto, Send
  <2> QED BY <2>1, <2>2, <2>3, <2>4, <2>5, StaircaseStays DEF Next
<1> QED BY <1>1, <1>2, PTL DEF Spec

-----------------------------------------------------------------------------
(***************************************************************************)
(* The branch a round is reached on.                                       *)
(***************************************************************************)
\* The joint stands in the band of this torque of the staircase.
AtStair(n) ==
  /\ Equilibrium[curve][Stair(n)] - band <= held
  /\ held <= Equilibrium[curve][Stair(n)] + band

OnLadder ==
  /\ phase = "arrive" => step = 0
  /\ pc = "read" /\ phase \in {"arrive", "round"} => AtStair(step)
  /\ pc = "push" /\ phase = "round" => AtStair(step - 1)

\* Where a torque of the staircase moves the equilibrium.
LEMMA StairEquilibrium ==
  ASSUME TypeInv, NEW n \in 0..Last, phase \in {"arrive", "round"}
  PROVE  Stair(n) \in Torques /\ Equilibrium[curve][Stair(n)] \in Int
<1>1. peak \in Nat /\ curve \in Curves /\ peak <= Ceiling
  BY DEF TypeInv, TypeOK, StaircaseTypeOK, Sized
<1>2. Stair(n) \in -peak..peak
  BY <1>1, StairBounded
<1>3. Stair(n) \in Torques
  BY <1>1, <1>2, RatingBounded, LineAssumption DEF TypeInv, Torques
<1> HIDE DEF Stair
<1> QED BY <1>1, <1>3, StaircaseAssumption

\* Between two torques whose equilibria are further apart than the band is wide
\* the joint moves the way of the branch.
LEMMA BandsApart ==
  ASSUME TypeInv, phase = "round", StepsClearTheBand
  PROVE  IF step < Steps
         THEN Equilibrium[curve][Stair(step - 1)] + band
                < Equilibrium[curve][Stair(step)] - band
         ELSE Equilibrium[curve][Stair(step)] + band
                < Equilibrium[curve][Stair(step - 1)] - band
<1>1. /\ step \in 1..Last /\ peak \in Nat /\ curve \in Curves /\ band \in Nat
      /\ Steps \in Nat /\ Last \in Nat
  BY StaircaseAssumption DEF TypeInv, TypeOK, StaircaseTypeOK, Sized, Last
<1>2. step \in 0..Last /\ step - 1 \in 0..Last
  BY <1>1
<1> DEFINE here == Equilibrium[curve][Stair(step)]
           there == Equilibrium[curve][Stair(step - 1)]
<1>3. Magnitude(here - there) > 2 * band
  BY <1>1 DEF StepsClearTheBand
<1>4. here \in Int /\ there \in Int /\ Stair(step) \in Torques /\ Stair(step - 1) \in Torques
  BY <1>2, StairEquilibrium
<1>5. IF step < Steps THEN Stair(step - 1) <= Stair(step) ELSE Stair(step) <= Stair(step - 1)
  BY <1>1, StairClimbs
<1>6. \A s, t \in Torques : s <= t => Equilibrium[curve][s] <= Equilibrium[curve][t]
  BY <1>1, StaircaseAssumption
<1>7. IF step < Steps THEN there <= here ELSE here <= there
  BY <1>4, <1>5, <1>6
<1> HIDE DEF here, there
<1>8. IF step < Steps THEN there + band < here - band ELSE here + band < there - band
  BY <1>1, <1>3, <1>4, <1>7, SMT DEF Magnitude
<1> QED BY <1>8 DEF here, there

\* A push of the staircase.
LEMMA PushClimbs ==
  ASSUME TypeInv, OnLadder, Push, phase \in {"arrive", "round"}
  PROVE  /\ AtStair(step)'
         /\ phase = "round" /\ StepsClearTheBand => direction' = Branch
<1>1. /\ step \in 0..Last /\ band \in Nat /\ held \in Int
      /\ phase = "round" => step \in 1..Last
      /\ Steps \in Nat /\ Last \in Nat
  BY StaircaseAssumption DEF TypeInv, TypeOK, StaircaseTypeOK, Sized, Last
<1>2. Torque = Stair(step)
  BY DEF Torque
<1> DEFINE here == Equilibrium[curve][Stair(step)]
           there == Equilibrium[curve][Stair(step - 1)]
<1>3. here \in Int
  BY <1>1, StairEquilibrium
<1>4. \/ held < here - band /\ held' = here - band /\ direction' = "up"
      \/ held > here + band /\ held' = here + band /\ direction' = "down"
      \/ here - band <= held /\ held <= here + band /\ held' = held
  BY <1>2 DEF Push, standing
<1>5. AtStair(step)' <=> here - band <= held' /\ held' <= here + band
  BY DEF AtStair, Push, jointVars, sizing, Stair, Last
<1>6. ASSUME phase = "round", StepsClearTheBand
      PROVE  direction' = Branch
  <2>1. there - band <= held /\ held <= there + band
    BY <1>6 DEF OnLadder, Push, AtStair
  <2>2. IF step < Steps THEN there + band < here - band ELSE here + band < there - band
    BY <1>6, BandsApart
  <2>3. step - 1 \in 0..Last
    BY <1>1, <1>6
  <2>4. there \in Int
    BY <2>3, StairEquilibrium
  <2> HIDE DEF here, there
  <2> QED BY <1>1, <1>3, <1>4, <2>1, <2>2, <2>4, SMT DEF Branch
<1> HIDE DEF here, there
<1>7. here - band <= held' /\ held' <= here + band
  BY <1>1, <1>3, <1>4, SMT
<1> QED BY <1>5, <1>6, <1>7

\* The other steps of the staircase.
LEMMA OtherStepsStay ==
  ASSUME TypeInv, OnLadder, StaircaseStep, ~Push
  PROVE  OnLadder' /\ ~(pc' = "read" /\ phase' = "round")
<1> USE DEF Goto, Raise, PushFor, RefuseAt, staircaseVars, jointVars, standing, sizing
<1> HIDE DEF Stair
<1>1. CASE BeginTorque \/ AllMeasured \/ TorqueCallFails \/ LastRound \/ BeginJoint
  BY <1>1 DEF BeginTorque, AllMeasured, TorqueCallFails, LastRound, BeginJoint, OnLadder
<1>2. CASE SeedTooFar \/ SeedAtCeiling \/ SeedUnheard \/ OutsideRoom \/ CannotSize
  BY <1>2 DEF SeedTooFar, SeedAtCeiling, SeedUnheard, OutsideRoom, CannotSize, OnLadder
<1>3. CASE ReadBaseline \/ SeedMoves \/ SeedDoubles \/ SizeFromSeed \/ ProbeHits
           \/ SizeFromProbe
  BY <1>3 DEF ReadBaseline, SeedMoves, SeedDoubles, SizeFromSeed, ProbeHits,
              SizeFromProbe, OnLadder
<1>4. CASE Arrive \/ NextRound
  <2>1. /\ pc' = "push" /\ phase' = "round" /\ step' = step + 1 /\ step \in Nat
        /\ AtStair(step) /\ UNCHANGED <<curve, band, held, peak>>
    BY <1>4, StaircaseAssumption
       DEF Arrive, NextRound, OnLadder, TypeInv, TypeOK, StaircaseTypeOK, Last
  <2>2. AtStair(step - 1)'
    BY <2>1 DEF AtStair, Stair, Last
  <2> QED BY <2>1, <2>2 DEF OnLadder
<1> QED BY <1>1, <1>2, <1>3, <1>4 DEF StaircaseStep

\* The invariant behind the branches.
THEOREM LadderInvariant == Spec => [](OnLadder /\ RoundsOnTheirBranch)
<1>1. Init => OnLadder /\ RoundsOnTheirBranch
  BY DEF Init, LineInit, StaircaseInit, OnLadder, RoundsOnTheirBranch
<1>2. TypeInv /\ OnLadder /\ RoundsOnTheirBranch /\ [Next]_vars
        => OnLadder' /\ RoundsOnTheirBranch'
  <2>1. SUFFICES ASSUME TypeInv, OnLadder, RoundsOnTheirBranch, [Next]_vars
                 PROVE  OnLadder' /\ RoundsOnTheirBranch'
    OBVIOUS
  <2>2. CASE UNCHANGED vars
    BY <2>1, <2>2 DEF vars, lineVars, staircaseVars, jointVars, standing, sizing, OnLadder,
                      AtStair, Stair, Last, RoundsOnTheirBranch, StepsClearTheBand, Branch
  <2>3. CASE (LineStep \/ SweepStep \/ ReadyStep) /\ UNCHANGED staircaseVars
    <3>1. pc' \notin {"push", "read"}
      BY <2>3
         DEF LineStep, StartFails, Review, WriteFails, Finish, ReleaseSent, ReleaseFails,
             Interrupt, SweepStep, BeginGravity, BeginPoses, Move, MoveFails, PublishLoad,
             LoadRefused, SweepCallFails, Measure, NextPose, ReadyStep, BeginReady, Check,
             CycleTorque, StreamPoint, SettleOn, SettlePasses, SettleTimesOut, Settle,
             Tracked, TimeoutHold, ReadyCallFails, ExceptionHold, ExceptionHoldFails,
             Hold, Leave, Raise, Goto, Send
    <3>2. phase' = phase /\ step' = step
      BY <2>3 DEF staircaseVars, sizing
    <3> QED BY <2>1, <3>1, <3>2 DEF OnLadder, RoundsOnTheirBranch
  <2>4. CASE StaircaseStep /\ ~Push
    BY <2>1, <2>4, OtherStepsStay DEF RoundsOnTheirBranch
  <2>5. CASE Push
    <3>1. /\ pc' = "read" /\ phase' = phase
          /\ UNCHANGED <<curve, band, peak, step>>
      BY <2>5 DEF Push, Send, jointVars, sizing
    <3>2. OnLadder'
      BY <2>1, <2>5, <3>1, PushClimbs DEF OnLadder
    <3>3. StepsClearTheBand' = StepsClearTheBand /\ Branch' = Branch
      BY <3>1 DEF StepsClearTheBand, Stair, Last, Branch
    <3> QED BY <2>1, <2>5, <3>1, <3>2, <3>3, PushClimbs DEF RoundsOnTheirBranch
  <2> QED BY <2>1, <2>2, <2>3, <2>4, <2>5 DEF Next, LineStep
<1> QED BY <1>1, <1>2, TypeInvariant, PTL DEF Spec
\* Every recorded round was reached moving the way its branch goes, where the
\* torques are further apart than the joint's friction band (measure_staircase).
THEOREM RoundsOnTheirBranches == Spec => []RoundsOnTheirBranch
BY LadderInvariant, PTL

-----------------------------------------------------------------------------
(***************************************************************************)
(* Sums over finite sets.                                                  *)
(***************************************************************************)
\* Of the sets in a family of subsets of a finite set one has no smaller one in it.
LEMMA Smallest ==
  ASSUME NEW D, IsFiniteSet(D), NEW B, B \subseteq SUBSET D, B # {}
  PROVE  \E m \in B : \A s \in SUBSET m : s # m => s \notin B
<1>1. IsWellFoundedOn(StrictSubsetOrdering(D), SUBSET D)
  BY FS_StrictSubsetOrderingWellFounded, FS_FiniteSubsetsOfFinite
<1>2. PICK m \in B : \A s \in B : <<s, m>> \notin StrictSubsetOrdering(D)
  BY <1>1, WFMin
<1>3. ASSUME NEW s \in SUBSET m, s # m, s \in B
      PROVE  <<s, m>> \in StrictSubsetOrdering(D)
  BY <1>3 DEF StrictSubsetOrdering
<1>4. \A s \in SUBSET m : s # m => s \notin B
  BY <1>2, <1>3
<1> QED BY <1>4

\* The element a sum takes first.
First(s) == CHOOSE x \in s : TRUE

\* it sums f over every subset of D, element by element.
Adds(it, f, D) ==
  it = [s \in SUBSET D |-> IF s = {} THEN 0 ELSE f[First(s)] + it[s \ {First(s)}]]

\* It is in the set, and the rest is another set.
LEMMA FirstIn ==
  ASSUME NEW s, s # {}
  PROVE  First(s) \in s /\ s \ {First(s)} # s
  BY DEF First

\* Two such sums agree where both are defined.
LEMMA AddsAgree ==
  ASSUME NEW f, NEW C, NEW D, IsFiniteSet(C), NEW a, NEW b, Adds(a, f, C), Adds(b, f, D),
         NEW s, s \subseteq C, s \subseteq D
  PROVE  a[s] = b[s]
<1> DEFINE Bad == {z \in SUBSET C : z \subseteq D /\ a[z] # b[z]}
<1> SUFFICES ASSUME Bad # {} PROVE FALSE
  OBVIOUS
<1>1. PICK m \in Bad : \A z \in SUBSET m : z # m => z \notin Bad
  <2>1. Bad \subseteq SUBSET C
    OBVIOUS
  <2> HIDE DEF Bad
  <2> QED BY <2>1, Smallest
<1>2. m \subseteq C /\ m \subseteq D /\ a[m] # b[m]
  OBVIOUS
<1>3. m # {}
  <2>1. a[{}] = 0 /\ b[{}] = 0
    BY DEF Adds
  <2> QED BY <1>2, <2>1
<1>4. First(m) \in m /\ m \ {First(m)} # m
  BY <1>3, FirstIn
<1>5. a[m \ {First(m)}] = b[m \ {First(m)}]
  BY <1>1, <1>2, <1>4
<1>6. a[m] = f[First(m)] + a[m \ {First(m)}]
  BY <1>2, <1>3 DEF Adds
<1>7. b[m] = f[First(m)] + b[m \ {First(m)}]
  BY <1>2, <1>3 DEF Adds
<1> QED BY <1>2, <1>5, <1>6, <1>7

\* They exist.
LEMMA AddsExists ==
  ASSUME NEW f, NEW D, IsFiniteSet(D)
  PROVE  \E it : Adds(it, f, D)
<1> DEFINE Bad == {z \in SUBSET D : ~\E it : Adds(it, f, z)}
<1> SUFFICES ASSUME Bad # {} PROVE FALSE
  OBVIOUS
<1>1. PICK m \in Bad : \A z \in SUBSET m : z # m => z \notin Bad
  <2>1. Bad \subseteq SUBSET D
    OBVIOUS
  <2> HIDE DEF Bad
  <2> QED BY <2>1, Smallest
<1>2. m \in SUBSET D /\ ~\E it : Adds(it, f, m)
  OBVIOUS
<1> DEFINE Sum(z) == CHOOSE it : Adds(it, f, z)
           all == [z \in SUBSET m |-> IF z = {} THEN 0
                                      ELSE f[First(z)] + Sum(z \ {First(z)})[z \ {First(z)}]]
<1>3. ASSUME NEW z \in SUBSET m, z # m
      PROVE  Adds(Sum(z), f, z)
  <2>1. z \in SUBSET D /\ z \notin Bad
    BY <1>1, <1>2, <1>3
  <2> QED BY <2>1
<1>4. ASSUME NEW z \in SUBSET m, z # {}
      PROVE  all[z \ {First(z)}] = Sum(z \ {First(z)})[z \ {First(z)}]
  <2> DEFINE y == z \ {First(z)}
  <2>1. y \in SUBSET m /\ y # m
    BY <1>4, FirstIn
  <2>2. Adds(Sum(y), f, y)
    BY <1>3, <2>1
  <2>3. CASE y = {}
    <3>1. Sum(y)[{}] = 0
      BY <2>2 DEF Adds
    <3> QED BY <2>3, <3>1
  <2>4. CASE y # {}
    <3> DEFINE x == y \ {First(y)}
    <3>1. x \in SUBSET m /\ x # m /\ x \subseteq y
      BY <2>1, <2>4, FirstIn
    <3>2. Adds(Sum(x), f, x)
      BY <1>3, <3>1
    <3>3. IsFiniteSet(y)
      BY <1>2, <2>1, FS_Subset
    <3> HIDE DEF Sum, x, y
    <3>4. Sum(y)[x] = Sum(x)[x]
      BY <2>2, <3>1, <3>2, <3>3, AddsAgree
    <3>5. Sum(y)[y] = f[First(y)] + Sum(y)[x]
      BY <2>2, <2>4 DEF Adds, x
    <3>6. all[y] = f[First(y)] + Sum(x)[x]
      BY <2>1, <2>4 DEF x
    <3> QED BY <3>4, <3>5, <3>6 DEF y
  <2> QED BY <2>3, <2>4
<1> HIDE DEF Sum
<1>5. all = [z \in SUBSET m |-> IF z = {} THEN 0 ELSE f[First(z)] + all[z \ {First(z)}]]
  <2>1. ASSUME NEW z \in SUBSET m
        PROVE  all[z] = IF z = {} THEN 0 ELSE f[First(z)] + all[z \ {First(z)}]
    BY <1>4
  <2> DEFINE g == [z \in SUBSET m |-> IF z = {} THEN 0 ELSE f[First(z)] + all[z \ {First(z)}]]
  <2>2. \A z \in SUBSET m : all[z] = g[z]
    <3> HIDE DEF all
    <3> QED BY <2>1
  <2> QED BY <2>2
<1> HIDE DEF all
<1> QED BY <1>2, <1>5 DEF Adds

\* it gives the sum of f over each subset of D: any of its elements, and the rest.
IsSum(it, f, D) ==
  /\ it \in [SUBSET D -> Int]
  /\ it[{}] = 0
  /\ \A s \in SUBSET D : \A x \in s : it[s] = f[x] + it[s \ {x}]

\* The order in which the elements are taken does not matter.
LEMMA AddsIsSum ==
  ASSUME NEW D, IsFiniteSet(D), NEW f \in [D -> Int], NEW it, Adds(it, f, D)
  PROVE  IsSum(it, f, D)
<1>1. it[{}] = 0
  BY DEF Adds
<1>2. ASSUME NEW s \in SUBSET D, s # {}
      PROVE  First(s) \in s /\ s \ {First(s)} # s /\ it[s] = f[First(s)] + it[s \ {First(s)}]
  BY <1>2, FirstIn DEF Adds
<1>3. \A s \in SUBSET D : it[s] \in Int
  <2> DEFINE Bad == {s \in SUBSET D : it[s] \notin Int}
  <2> SUFFICES ASSUME Bad # {} PROVE FALSE
    OBVIOUS
  <2>1. PICK m \in Bad : \A z \in SUBSET m : z # m => z \notin Bad
    <3>1. Bad \subseteq SUBSET D
      OBVIOUS
    <3> HIDE DEF Bad
    <3> QED BY <3>1, Smallest
  <2>2. m \in SUBSET D /\ it[m] \notin Int
    OBVIOUS
  <2>3. m # {}
    BY <1>1, <2>2
  <2>4. it[m \ {First(m)}] \in Int
    BY <1>2, <2>1, <2>2, <2>3
  <2>5. f[First(m)] \in Int
    BY <1>2, <2>2, <2>3
  <2>6. it[m] = f[First(m)] + it[m \ {First(m)}]
    BY <1>2, <2>2, <2>3
  <2> HIDE DEF Bad
  <2> QED BY <2>2, <2>4, <2>5, <2>6
<1>4. it \in [SUBSET D -> Int]
  BY <1>3 DEF Adds
<1>5. \A s \in SUBSET D : \A x \in s : it[s] = f[x] + it[s \ {x}]
  <2> DEFINE Bad == {s \in SUBSET D : \E x \in s : it[s] # f[x] + it[s \ {x}]}
  <2> SUFFICES ASSUME Bad # {} PROVE FALSE
    OBVIOUS
  <2>1. PICK m \in Bad : \A z \in SUBSET m : z # m => z \notin Bad
    <3>1. Bad \subseteq SUBSET D
      OBVIOUS
    <3> HIDE DEF Bad
    <3> QED BY <3>1, Smallest
  <2>2. PICK x \in m : it[m] # f[x] + it[m \ {x}]
    OBVIOUS
  <2> DEFINE c == First(m)
  <2>3. m \in SUBSET D /\ m # {}
    BY <2>2
  <2>4. c \in m /\ it[m] = f[c] + it[m \ {c}]
    BY <1>2, <2>3
  <2> HIDE DEF c
  <2>5. c # x
    BY <2>2, <2>4
  <2>6. m \ {c} \in SUBSET D /\ m \ {c} \notin Bad /\ x \in m \ {c}
    BY <2>1, <2>2, <2>3, <2>4, <2>5
  <2>7. m \ {x} \in SUBSET D /\ m \ {x} \notin Bad /\ c \in m \ {x}
    BY <2>1, <2>2, <2>3, <2>4, <2>5
  <2>8. it[m \ {c}] = f[x] + it[(m \ {c}) \ {x}]
    BY <2>6
  <2>9. it[m \ {x}] = f[c] + it[(m \ {x}) \ {c}]
    BY <2>7
  <2>10. (m \ {c}) \ {x} = (m \ {x}) \ {c} /\ (m \ {x}) \ {c} \in SUBSET D
    BY <2>3
  <2>11. it[(m \ {x}) \ {c}] \in Int /\ f[x] \in Int /\ f[c] \in Int
    BY <1>3, <2>2, <2>3, <2>4, <2>10
  <2> DEFINE rest == (m \ {x}) \ {c}
  <2>12. it[m] = f[c] + (f[x] + it[rest]) /\ it[m \ {x}] = f[c] + it[rest]
    BY <2>4, <2>8, <2>9, <2>10
  <2>13. it[rest] \in Int
    BY <2>11
  <2> HIDE DEF Bad, rest
  <2>14. it[m] = f[x] + it[m \ {x}]
    BY <2>11, <2>12, <2>13
  <2> QED BY <2>2, <2>14
<1> QED BY <1>1, <1>4, <1>5 DEF IsSum

\* The sum of a function is one of them.
LEMMA SumIs ==
  ASSUME NEW D, IsFiniteSet(D), NEW f \in [D -> Int]
  PROVE  \E it : IsSum(it, f, D) /\ SumFunction(f) = it[D]
<1> DEFINE it == CHOOSE it : Adds(it, f, D)
<1>1. Adds(it, f, D)
  BY AddsExists
<1>2. DOMAIN f = D
  OBVIOUS
<1>3. SumFunction(f) = it[D]
  BY <1>2 DEF Adds, First, SumFunction, SumFunctionOnSet, FoldFunctionOnSet, MapThenFoldSet
<1> HIDE DEF it
<1> QED BY <1>1, <1>3, AddsIsSum

\* One step of the sum of a combination.
LEMMA LinearStep ==
  ASSUME NEW a \in Int, NEW b \in Int, NEW c \in Int, NEW d \in Int,
         NEW f \in Int, NEW g \in Int, NEW k \in Int,
         NEW F \in Int, NEW G \in Int, NEW K \in Int, NEW n \in Int
  PROVE  (a * f + b * g + c * k + d) + (a * F + b * G + c * K + d * (n - 1))
           = a * (f + F) + b * (g + G) + c * (k + K) + d * n
<1>1. a * (f + F) = a * f + a * F
  BY SMT
<1>2. b * (g + G) = b * g + b * G
  BY SMT
<1>3. c * (k + K) = c * k + c * K
  BY SMT
<1>4. d * (n - 1) = d * n - d
  BY SMT
<1> QED BY <1>1, <1>2, <1>3, <1>4, SMT

\* h is, everywhere on D, this combination of three functions and a constant.
Combines(h, D, a, f, b, g, c, k, d) ==
  /\ f \in [D -> Int] /\ g \in [D -> Int] /\ k \in [D -> Int] /\ h \in [D -> Int]
  /\ a \in Int /\ b \in Int /\ c \in Int /\ d \in Int
  /\ \A x \in D : h[x] = a * f[x] + b * g[x] + c * k[x] + d

\* The sum of a combination of functions is that of their sums.
LEMMA SumLinear ==
  ASSUME NEW D, IsFiniteSet(D), NEW h, NEW f, NEW g, NEW k, NEW a, NEW b, NEW c, NEW d,
         Combines(h, D, a, f, b, g, c, k, d)
  PROVE  SumFunction(h) = a * SumFunction(f) + b * SumFunction(g) + c * SumFunction(k)
                            + d * Cardinality(D)
<1> USE DEF Combines
<1>1. PICK F : IsSum(F, f, D) /\ SumFunction(f) = F[D]
  BY SumIs
<1>2. PICK G : IsSum(G, g, D) /\ SumFunction(g) = G[D]
  BY SumIs
<1>3. PICK K : IsSum(K, k, D) /\ SumFunction(k) = K[D]
  BY SumIs
<1>4. PICK H : IsSum(H, h, D) /\ SumFunction(h) = H[D]
  BY SumIs
<1> DEFINE Of(s) == a * F[s] + b * G[s] + c * K[s] + d * Cardinality(s)
           Bad == {s \in SUBSET D : H[s] # Of(s)}
<1>5. SUFFICES ASSUME Bad # {} PROVE FALSE
  <2>1. D \in SUBSET D /\ Bad = {}
    BY <1>5
  <2>2. H[D] = Of(D)
    BY <2>1
  <2> QED BY <1>1, <1>2, <1>3, <1>4, <2>2
<1>6. PICK m \in Bad : \A z \in SUBSET m : z # m => z \notin Bad
  <2>1. Bad \subseteq SUBSET D
    OBVIOUS
  <2> HIDE DEF Bad
  <2> QED BY <1>5, <2>1, Smallest
<1>7. m \in SUBSET D /\ H[m] # Of(m)
  OBVIOUS
<1>8. m # {}
  <2>1. Cardinality({}) = 0
    BY FS_EmptySet
  <2>2. H[{}] = 0 /\ F[{}] = 0 /\ G[{}] = 0 /\ K[{}] = 0
    BY <1>1, <1>2, <1>3, <1>4 DEF IsSum
  <2>3. Of({}) = 0
    BY <2>1, <2>2
  <2> QED BY <1>7, <2>2, <2>3
<1>9. PICK x \in m : TRUE
  BY <1>8
<1> DEFINE rest == m \ {x}
<1>10. rest \in SUBSET D /\ rest # m /\ rest \in SUBSET m
  BY <1>7, <1>9
<1>11. H[rest] = Of(rest)
  BY <1>6, <1>10
<1>12. IsFiniteSet(m) /\ Cardinality(m) \in Nat /\ Cardinality(rest) = Cardinality(m) - 1
  BY <1>7, <1>9, FS_Subset, FS_RemoveElement, FS_CardinalityType
<1>13. /\ F[m] = f[x] + F[rest] /\ G[m] = g[x] + G[rest] /\ K[m] = k[x] + K[rest]
       /\ H[m] = h[x] + H[rest]
  BY <1>1, <1>2, <1>3, <1>4, <1>7, <1>9 DEF IsSum
<1>14. /\ F[rest] \in Int /\ G[rest] \in Int /\ K[rest] \in Int
       /\ f[x] \in Int /\ g[x] \in Int /\ k[x] \in Int
  BY <1>1, <1>2, <1>3, <1>7, <1>9, <1>10 DEF IsSum
<1>15. h[x] = a * f[x] + b * g[x] + c * k[x] + d
  BY <1>7, <1>9
<1>16. Of(rest) = a * F[rest] + b * G[rest] + c * K[rest] + d * (Cardinality(m) - 1)
  BY <1>12
<1>17. Of(m) = a * (f[x] + F[rest]) + b * (g[x] + G[rest]) + c * (k[x] + K[rest])
                 + d * Cardinality(m)
  BY <1>13
<1> HIDE DEF Of, Bad, rest
<1>18. (a * f[x] + b * g[x] + c * k[x] + d)
         + (a * F[rest] + b * G[rest] + c * K[rest] + d * (Cardinality(m) - 1))
           = a * (f[x] + F[rest]) + b * (g[x] + G[rest]) + c * (k[x] + K[rest])
               + d * Cardinality(m)
  BY <1>12, <1>14, LinearStep
<1>19. H[m] = Of(m)
  BY <1>11, <1>13, <1>15, <1>16, <1>17, <1>18
<1> QED BY <1>7, <1>19

\* Sums of integers are integers.
LEMMA SumType ==
  ASSUME NEW D, IsFiniteSet(D), NEW f \in [D -> Int]
  PROVE  SumFunction(f) \in Int
<1>1. PICK F : IsSum(F, f, D) /\ SumFunction(f) = F[D]
  BY SumIs
<1> QED BY <1>1 DEF IsSum

\* A sum of what is not negative is not negative, and no term is over it.
LEMMA SumNat ==
  ASSUME NEW D, IsFiniteSet(D), NEW f \in [D -> Int], \A x \in D : f[x] >= 0
  PROVE  /\ SumFunction(f) \in Int /\ SumFunction(f) >= 0
         /\ \A x \in D : f[x] <= SumFunction(f)
<1>1. PICK F : IsSum(F, f, D) /\ SumFunction(f) = F[D]
  BY SumIs
<1> DEFINE Bad == {s \in SUBSET D : ~(F[s] >= 0)}
<1>2. Bad = {}
  <2> SUFFICES ASSUME Bad # {} PROVE FALSE
    OBVIOUS
  <2>1. PICK m \in Bad : \A z \in SUBSET m : z # m => z \notin Bad
    <3>1. Bad \subseteq SUBSET D
      OBVIOUS
    <3> HIDE DEF Bad
    <3> QED BY <3>1, Smallest
  <2>2. m \in SUBSET D /\ ~(F[m] >= 0)
    OBVIOUS
  <2>3. m # {}
    <3>1. F[{}] = 0
      BY <1>1 DEF IsSum
    <3> QED BY <2>2, <3>1
  <2>4. PICK x \in m : TRUE
    BY <2>3
  <2>5. m \ {x} \in SUBSET D /\ m \ {x} \in SUBSET m /\ m \ {x} # m
    BY <2>2, <2>4
  <2>6. F[m \ {x}] >= 0
    BY <2>1, <2>5
  <2>7. F[m] = f[x] + F[m \ {x}] /\ F[m \ {x}] \in Int /\ f[x] \in Int /\ f[x] >= 0
    BY <1>1, <2>2, <2>4, <2>5 DEF IsSum
  <2> HIDE DEF Bad
  <2> QED BY <2>2, <2>6, <2>7
<1>3. \A s \in SUBSET D : F[s] >= 0
  BY <1>2
<1> HIDE DEF Bad
<1>4. ASSUME NEW x \in D
      PROVE  f[x] <= F[D]
  <2>1. F[D] = f[x] + F[D \ {x}] /\ F[D \ {x}] \in Int /\ f[x] \in Int
    BY <1>1 DEF IsSum
  <2>2. D \ {x} \in SUBSET D
    OBVIOUS
  <2>3. F[D \ {x}] >= 0
    BY <1>3, <2>2
  <2> QED BY <2>1, <2>3
<1> QED BY <1>1, <1>3, <1>4 DEF IsSum

\* A set of natural numbers has a least one.
LEMMA Least ==
  ASSUME NEW T, T \subseteq Nat, T # {}
  PROVE  \E m \in T : \A k \in T : m <= k
<1> DEFINE Below == OpToRel(<, Nat)
<1>1. \A x, y \in Nat : <<x, y>> \in Below <=> x < y
  BY DEF OpToRel
<1>2. IsWellFoundedOn(Below, Nat)
  BY NatLessThanWellFounded
<1> HIDE DEF Below
<1>3. PICK m \in T : \A k \in T : <<k, m>> \notin Below
  BY <1>2, WFMin
<1>4. \A k \in T : ~(k < m)
  BY <1>1, <1>3
<1>5. m \in Nat /\ \A k \in T : k \in Nat
  BY <1>3
<1> QED
  BY <1>3, <1>4, <1>5

\* The ends of a set that has them.
LEMMA MinIs ==
  ASSUME NEW S, S \subseteq Int, NEW x \in S, \A y \in S : x <= y
  PROVE  Min(S) = x
<1>1. Min(S) \in S /\ \A y \in S : Min(S) <= y
  BY Zenon DEF Min
<1> DEFINE it == Min(S)
<1>2. it \in Int /\ x \in Int /\ it <= x /\ x <= it
  <2> HIDE DEF it
  <2> QED BY <1>1, Zenon DEF it
<1> HIDE DEF it
<1>3. it = x
  BY <1>2
<1> QED BY <1>3 DEF it

\* The largest of a set.
LEMMA MaxIs ==
  ASSUME NEW S, S \subseteq Int, NEW x \in S, \A y \in S : x >= y
  PROVE  Max(S) = x
<1>1. Max(S) \in S /\ \A y \in S : Max(S) >= y
  BY Zenon DEF Max
<1> DEFINE it == Max(S)
<1>2. it \in Int /\ x \in Int /\ it >= x /\ x >= it
  <2> HIDE DEF it
  <2> QED BY <1>1, Zenon DEF it
<1> HIDE DEF it
<1>3. it = x
  BY <1>2
<1> QED BY <1>3 DEF it

-----------------------------------------------------------------------------
(***************************************************************************)
(* Torques evenly apart.                                                   *)
(***************************************************************************)
\* The rows of a sweep from one round to another, and how many they are.
Rows(from, n) == {<<1, k>> : k \in from + 1..from + n}

\* They are as many as the rounds.
LEMMA RowsCounted ==
  ASSUME NEW from \in Int, NEW n \in Nat
  PROVE  IsFiniteSet(Rows(from, n)) /\ Cardinality(Rows(from, n)) = n
<1> DEFINE S == from + 1..from + n
           row == [k \in S |-> <<1, k>>]
<1>1. IsFiniteSet(S) /\ Cardinality(S) = n
  <2>1. from + 1 \in Int /\ from + n \in Int
    OBVIOUS
  <2>2. /\ IsFiniteSet(S)
        /\ Cardinality(S) = IF from + 1 > from + n THEN 0 ELSE (from + n) - (from + 1) + 1
    BY <2>1, FS_Interval
  <2> QED BY <2>2
<1>2. row \in [S -> Rows(from, n)]
  BY DEF Rows
<1>3. \A k, l \in S : row[k] = row[l] => k = l
  OBVIOUS
<1>4. \A r \in Rows(from, n) : \E k \in S : row[k] = r
  BY DEF Rows
<1> HIDE DEF row, S
<1> DEFINE T == Rows(from, n)
<1> HIDE DEF T
<1>5. row \in Injection(S, T)
  BY <1>2, <1>3 DEF Injection, IsInjective, T
<1>6. row \in Surjection(S, T)
  BY <1>2, <1>4 DEF Surjection, T
<1>7. ExistsBijection(S, T)
  BY <1>5, <1>6 DEF ExistsBijection, Bijection
<1> USE DEF T
<1>8. ExistsBijection(S, Rows(from, n))
  BY <1>7
<1> QED BY <1>1, <1>8, FS_Bijection

\* The sum of torques evenly apart.
LEMMA ProgressionStep ==
  ASSUME NEW c \in Int, NEW k \in Int, NEW m \in Int
  PROVE  c * (2 * k - m) + c * ((k - 1) * (k - m)) = c * (k * (k + 1 - m))
<1>1. (k - 1) * (k - m) = k * k - k * m - k + m
  BY SMT
<1>2. k * (k + 1 - m) = k * k + k - k * m
  BY SMT
<1>3. k * (k + 1 - m) = (2 * k - m) + (k - 1) * (k - m)
  <2>1. k * k \in Int /\ k * m \in Int
    OBVIOUS
  <2> QED BY <1>1, <1>2, <2>1
<1> DEFINE x == 2 * k - m
           y == (k - 1) * (k - m)
<1>4. x \in Int /\ y \in Int
  OBVIOUS
<1>5. k * (k + 1 - m) = x + y
  BY <1>3
<1> HIDE DEF x, y
<1>6. c * (x + y) = c * x + c * y
  BY <1>4, SMT
<1> QED BY <1>5, <1>6 DEF x, y

\* f climbs, or descends, evenly from round to round.
Progresses(f, from, n, c, m) ==
  /\ f \in [Rows(from, n) -> Int]
  /\ \A k \in 1..n : f[<<1, from + k>>] = c * (2 * k - m)

\* So the torques of a whole way of the staircase sum to the last of them.
LEMMA SumProgression ==
  ASSUME NEW from \in Int, NEW n \in Nat, NEW c \in Int, NEW m \in Int, NEW f,
         Progresses(f, from, n, c, m)
  PROVE  SumFunction(f) = c * (n * (n + 1 - m))
<1> USE DEF Progresses
<1>1. PICK F : IsSum(F, f, Rows(from, n)) /\ SumFunction(f) = F[Rows(from, n)]
  BY RowsCounted, SumIs
<1> DEFINE Of(k) == c * (k * (k + 1 - m))
           Bad == {k \in Nat : k <= n /\ F[Rows(from, k)] # Of(k)}
<1>2. SUFFICES ASSUME Bad # {} PROVE FALSE
  <2>1. n \notin Bad
    BY <1>2
  <2> QED BY <1>1, <2>1
<1>3. PICK k \in Bad : \A l \in Bad : k <= l
  <2>1. Bad \subseteq Nat
    OBVIOUS
  <2> HIDE DEF Bad
  <2> QED BY <1>2, <2>1, Least
<1>4. k \in Nat /\ k <= n /\ F[Rows(from, k)] # Of(k)
  OBVIOUS
<1>5. k # 0
  <2>1. Rows(from, 0) = {}
    BY DEF Rows
  <2>2. F[{}] = 0
    BY <1>1 DEF IsSum
  <2>3. Of(0) = 0
    OBVIOUS
  <2> QED BY <1>4, <2>1, <2>2, <2>3
<1>6. k - 1 \in Nat /\ k - 1 <= n /\ k \in 1..n /\ ~(k <= k - 1)
  BY <1>4, <1>5
<1>7. F[Rows(from, k - 1)] = Of(k - 1)
  BY <1>3, <1>6
<1>8. /\ <<1, from + k>> \in Rows(from, k)
      /\ Rows(from, k) \in SUBSET Rows(from, n)
      /\ Rows(from, k) \ {<<1, from + k>>} = Rows(from, k - 1)
  <2>1. from + k \in from + 1..from + k
    BY <1>6
  <2>2. from + 1..from + k \subseteq from + 1..from + n
    BY <1>6
  <2>3. (from + 1..from + k) \ {from + k} = from + 1..from + (k - 1)
    BY <1>6
  <2>4. <<1, from + k>> \in Rows(from, k) /\ Rows(from, k) \in SUBSET Rows(from, n)
    BY <2>1, <2>2 DEF Rows
  <2>5. ASSUME NEW r
        PROVE  r \in Rows(from, k) \ {<<1, from + k>>} <=> r \in Rows(from, k - 1)
    <3>1. ASSUME r \in Rows(from, k) \ {<<1, from + k>>}
          PROVE  r \in Rows(from, k - 1)
      <4>1. PICK i \in from + 1..from + k : r = <<1, i>>
        BY <3>1 DEF Rows
      <4>2. i # from + k
        BY <3>1, <4>1
      <4>3. i \in from + 1..from + (k - 1)
        BY <2>3, <4>1, <4>2
      <4> QED BY <4>1, <4>3 DEF Rows
    <3>2. ASSUME r \in Rows(from, k - 1)
          PROVE  r \in Rows(from, k) \ {<<1, from + k>>}
      <4>1. PICK i \in from + 1..from + (k - 1) : r = <<1, i>>
        BY <3>2 DEF Rows
      <4>2. i \in from + 1..from + k /\ i # from + k
        BY <2>3, <4>1
      <4>3. r # <<1, from + k>>
        BY <4>1, <4>2
      <4> QED BY <4>1, <4>2, <4>3 DEF Rows
    <3> QED BY <3>1, <3>2
  <2> QED BY <2>4, <2>5
<1>9. F[Rows(from, k)] = f[<<1, from + k>>] + F[Rows(from, k - 1)]
  BY <1>1, <1>8 DEF IsSum
<1>10. f[<<1, from + k>>] = c * (2 * k - m)
  BY <1>6
<1>11. Of(k - 1) = c * ((k - 1) * (k - m))
  <2>1. (k - 1) + 1 - m = k - m
    BY <1>6
  <2> QED BY <2>1
<1>12. c * (2 * k - m) + c * ((k - 1) * (k - m)) = Of(k)
  BY <1>6, ProgressionStep
<1> QED BY <1>4, <1>7, <1>9, <1>10, <1>11, <1>12

-----------------------------------------------------------------------------
(***************************************************************************)
(* The line through a branch (Line): that of the spring, less what the lag *)
(* makes of it.                                                            *)
(***************************************************************************)
\* The products of what two functions give.
Product(f, g) == [x \in DOMAIN f |-> f[x] * g[x]]

\* u grows, or stays, where t grows.
Grows(D, t, u) == \A x, y \in D : (t[x] - t[y]) * (u[x] - u[y]) >= 0

\* What grows with the torque, or stays, does so on the whole: Chebyshev's sum inequality.
LEMMA GrowTogether ==
  ASSUME NEW D, IsFiniteSet(D), NEW t \in [D -> Int], NEW u \in [D -> Int],
         Grows(D, t, u)
  PROVE  Cardinality(D) * SumFunction(Product(t, u)) - SumFunction(t) * SumFunction(u) >= 0
<1> DEFINE n == Cardinality(D)
           St == SumFunction(t)
           Su == SumFunction(u)
           tu == Product(t, u)
           Stu == SumFunction(tu)
<1>1. tu \in [D -> Int] /\ \A x \in D : tu[x] = t[x] * u[x]
  BY DEF Product
<1>2. n \in Nat /\ St \in Int /\ Su \in Int /\ Stu \in Int
  BY <1>1, SumType, FS_CardinalityType
<1> HIDE DEF n, St, Su, tu, Stu
<1>3. ASSUME NEW y \in D
      PROVE  n * tu[y] + (-St) * u[y] + (-Su) * t[y] + Stu >= 0
  <2> DEFINE g == [x \in D |-> (t[x] - t[y]) * (u[x] - u[y])]
  <2>1. t[y] \in Int /\ u[y] \in Int /\ -u[y] \in Int /\ -t[y] \in Int /\ t[y] * u[y] \in Int
    OBVIOUS
  <2>2. g \in [D -> Int] /\ \A x \in D : g[x] >= 0
    BY DEF Grows
  <2>3. ASSUME NEW x \in D
        PROVE  g[x] = 1 * tu[x] + (-u[y]) * t[x] + (-t[y]) * u[x] + t[y] * u[y]
    <3>1. t[x] \in Int /\ u[x] \in Int
      OBVIOUS
    <3>2. (t[x] - t[y]) * (u[x] - u[y])
            = 1 * (t[x] * u[x]) + (-u[y]) * t[x] + (-t[y]) * u[x] + t[y] * u[y]
      BY <2>1, <3>1, SMT
    <3> QED BY <1>1, <3>2
  <2> HIDE DEF g
  <2>4. SumFunction(g) = 1 * Stu + (-u[y]) * St + (-t[y]) * Su + (t[y] * u[y]) * n
    <3>1. \A x \in D : g[x] = 1 * tu[x] + (-u[y]) * t[x] + (-t[y]) * u[x] + t[y] * u[y]
      BY <2>3
    <3>2. 1 \in Int
      OBVIOUS
    <3>3. Combines(g, D, 1, tu, -u[y], t, -t[y], u, t[y] * u[y])
      BY <1>1, <2>1, <2>2, <3>1, <3>2, Zenon DEF Combines
    <3> QED BY <3>3, SumLinear DEF n, St, Su, Stu
  <2>5. SumFunction(g) >= 0
    BY <2>2, SumNat
  <2>6. tu[y] = t[y] * u[y]
    BY <1>1
  <2>7. 1 * Stu + (-u[y]) * St + (-t[y]) * Su + (t[y] * u[y]) * n
          = n * (t[y] * u[y]) + (-St) * u[y] + (-Su) * t[y] + Stu
    BY <1>2, <2>1, SMT
  <2> QED BY <2>4, <2>5, <2>6, <2>7
<1> DEFINE h == [y \in D |-> n * tu[y] + (-St) * u[y] + (-Su) * t[y] + Stu]
<1>4. h \in [D -> Int] /\ \A y \in D : h[y] >= 0
  BY <1>1, <1>2, <1>3
<1>5. \A y \in D : h[y] = n * tu[y] + (-St) * u[y] + (-Su) * t[y] + Stu
  OBVIOUS
<1> HIDE DEF h
<1>6. n \in Int /\ -St \in Int /\ -Su \in Int
  BY <1>2
<1>7. SumFunction(h) = n * Stu + (-St) * Su + (-Su) * St + Stu * n
  <2>1. Combines(h, D, n, tu, -St, u, -Su, t, Stu)
    BY <1>1, <1>2, <1>4, <1>5, <1>6 DEF Combines
  <2> QED BY <2>1, SumLinear DEF n, St, Su, Stu
<1>8. SumFunction(h) >= 0
  BY <1>4, SumNat
<1>9. n * Stu + (-St) * Su + (-Su) * St + Stu * n = 2 * (n * Stu - St * Su)
  BY <1>2, SMT
<1>10. n * Stu - St * Su >= 0
  <2> DEFINE z == n * Stu - St * Su
  <2>1. z \in Int /\ 2 * z >= 0
    BY <1>2, <1>7, <1>8, <1>9
  <2> HIDE DEF z
  <2>2. z >= 0
    BY <2>1
  <2> QED BY <2>2 DEF z
<1> QED BY <1>10 DEF n, St, Su, Stu, tu

\* The squares of torques of which one is p or its opposite sum to its square at least.
LEMMA SquaresOutweigh ==
  ASSUME NEW D, IsFiniteSet(D), NEW t \in [D -> Int], NEW p \in Nat,
         \E x \in D : t[x] * t[x] = p * p
  PROVE  SumFunction(Product(t, t)) \in Int /\ SumFunction(Product(t, t)) >= p * p
<1> DEFINE tt == Product(t, t)
<1>1. tt \in [D -> Int] /\ \A x \in D : tt[x] = t[x] * t[x]
  BY DEF Product
<1> HIDE DEF tt
<1>2. \A x \in D : tt[x] >= 0
  <2>1. ASSUME NEW z \in Int PROVE z * z >= 0
    BY SMT
  <2> QED BY <1>1, <2>1
<1>3. PICK x \in D : t[x] * t[x] = p * p
  OBVIOUS
<1>4. SumFunction(tt) \in Int /\ tt[x] <= SumFunction(tt)
  BY <1>1, <1>2, SumNat
<1>5. tt[x] = p * p /\ p * p \in Int
  BY <1>1, <1>3
<1> QED BY <1>4, <1>5 DEF tt

\* Of torques that sum to the largest of them or its opposite, none outweighs its
\* square: what is bounded by b, weighed so, is bounded by b.
LEMMA WeighedSum ==
  ASSUME NEW D, IsFiniteSet(D), NEW t \in [D -> Int], NEW u \in [D -> Int],
         NEW p \in Nat, NEW b \in Int, NEW s \in Int,
         \A x \in D : -p <= t[x] /\ t[x] <= p,
         \E x \in D : t[x] * t[x] = p * p,
         SumFunction(t) = p \/ SumFunction(t) = -p,
         s = 1 \/ s = -1,
         \A x \in D : s * u[x] <= b
  PROVE  s * (SumFunction(Product(t, t)) * SumFunction(u)
                 - SumFunction(t) * SumFunction(Product(t, u)))
           <= b * (Cardinality(D) * SumFunction(Product(t, t)) - SumFunction(t) * SumFunction(t))
<1> DEFINE n == Cardinality(D)
           St == SumFunction(t)
           Su == SumFunction(u)
           tt == Product(t, t)
           tu == Product(t, u)
           Stt == SumFunction(tt)
           Stu == SumFunction(tu)
<1>1. /\ tu \in [D -> Int] /\ \A x \in D : tu[x] = t[x] * u[x]
      /\ tt \in [D -> Int] /\ \A x \in D : tt[x] = t[x] * t[x]
  BY DEF Product
<1>2. n \in Nat /\ St \in Int /\ Su \in Int /\ Stu \in Int /\ Stt \in Int
  BY <1>1, SumType, FS_CardinalityType
<1>3. St = p \/ St = -p
  OBVIOUS
<1> HIDE DEF n, St, Su, tu, Stu, tt, Stt
<1>4. Stt >= p * p
  BY SquaresOutweigh DEF Stt, tt
<1>5. ASSUME NEW x \in D
      PROVE  Stt - St * t[x] >= 0
  <2>1. t[x] \in Int /\ -p <= t[x] /\ t[x] <= p
    OBVIOUS
  <2>2. CASE St = p
    <3>1. p * t[x] <= p * p
      BY <2>1, SMT
    <3>2. p * t[x] \in Int /\ p * p \in Int
      BY <2>1
    <3> QED BY <1>2, <1>4, <2>2, <3>1, <3>2
  <2>3. CASE St = -p
    <3>1. (-p) * t[x] <= p * p
      BY <2>1, SMT
    <3>2. (-p) * t[x] \in Int /\ p * p \in Int
      BY <2>1
    <3> QED BY <1>2, <1>4, <2>3, <3>1, <3>2
  <2> QED BY <1>3, <2>2, <2>3
<1> DEFINE g == [x \in D |-> (b - s * u[x]) * (Stt - St * t[x])]
<1>6. ASSUME NEW x \in D
      PROVE  g[x] \in Int /\ g[x] >= 0
  <2>1. u[x] \in Int /\ s * u[x] \in Int /\ s * u[x] <= b /\ t[x] \in Int /\ St * t[x] \in Int
    BY <1>2
  <2> DEFINE v == b - s * u[x]
             w == Stt - St * t[x]
  <2>2. v \in Int /\ v >= 0 /\ w \in Int /\ w >= 0
    BY <1>2, <1>5, <2>1
  <2>3. g[x] = v * w
    OBVIOUS
  <2> HIDE DEF v, w, g
  <2>4. v * w \in Int /\ v * w >= 0
    BY <2>2, SMT
  <2> QED BY <2>3, <2>4
<1>7. g \in [D -> Int]
  BY <1>6
<1>8. ASSUME NEW x \in D
      PROVE  g[x] = (-b * St) * t[x] + (-s * Stt) * u[x] + (s * St) * tu[x] + b * Stt
  <2>1. u[x] \in Int /\ t[x] \in Int
    OBVIOUS
  <2>2. (b - s * u[x]) * (Stt - St * t[x])
          = (-b * St) * t[x] + (-s * Stt) * u[x] + (s * St) * (t[x] * u[x]) + b * Stt
    BY <1>2, <2>1, SMT
  <2> QED BY <1>1, <2>2
<1> HIDE DEF g
<1>9. -b * St \in Int /\ -s * Stt \in Int /\ s * St \in Int /\ b * Stt \in Int
  BY <1>2
<1>10. SumFunction(g) = (-b * St) * St + (-s * Stt) * Su + (s * St) * Stu + (b * Stt) * n
  <2>1. Combines(g, D, -b * St, t, -s * Stt, u, s * St, tu, b * Stt)
    BY <1>1, <1>7, <1>8, <1>9 DEF Combines
  <2> QED BY <2>1, SumLinear DEF n, St, Su, Stu
<1>11. SumFunction(g) >= 0
  BY <1>6, <1>7, SumNat
<1>12. (-b * St) * St + (-s * Stt) * Su + (s * St) * Stu + (b * Stt) * n
         = b * (n * Stt - St * St) - s * (Stt * Su - St * Stu)
  BY <1>2, SMT
<1>13. b * (n * Stt - St * St) \in Int /\ s * (Stt * Su - St * Stu) \in Int
  BY <1>2
<1>14. s * (Stt * Su - St * Stu) <= b * (n * Stt - St * St)
  BY <1>10, <1>11, <1>12, <1>13
<1> QED BY <1>14 DEF n, St, Su, tt, tu, Stt, Stu

\* The line through errors e at torques t, times what Line gives it.
Run(t) ==
  Cardinality(DOMAIN t) * SumFunction(Product(t, t)) - SumFunction(t) * SumFunction(t)
Rise(t, e) ==
  Cardinality(DOMAIN t) * SumFunction(Product(t, e)) - SumFunction(t) * SumFunction(e)
Foot(t, e) == SumFunction(e) * Run(t) - Rise(t, e) * SumFunction(t)

\* The torques and the errors of a branch.
Reads(t, e, sweeps, j, branch) ==
  /\ t = [r \in branch |-> sweeps[r[1]][r[2]][j].applied]
  /\ e = [r \in branch |-> sweeps[r[1]][r[2]][j].error]

\* What Line computes of a branch is its rise, its run and its foot.
LEMMA LineThrough ==
  ASSUME NEW sweeps, NEW j, NEW branch, NEW t, NEW e, Reads(t, e, sweeps, j, branch)
  PROVE  Line(sweeps, j, branch)
           = [rise |-> Rise(t, e), run |-> Run(t), points |-> Cardinality(branch),
              foot |-> Foot(t, e)]
<1> USE DEF Reads
<1>1. DOMAIN t = branch
  OBVIOUS
<1>2. /\ Product(t, t) = [r \in branch |-> t[r] * t[r]]
      /\ Product(t, e) = [r \in branch |-> t[r] * e[r]]
  BY <1>1 DEF Product
<1> QED BY <1>1, <1>2, Zenon DEF Line, Rise, Run, Foot

\* The rise of a sum of lines.
LEMMA ShiftedRise ==
  ASSUME NEW n \in Int, NEW St \in Int, NEW Stt \in Int, NEW Su \in Int, NEW Stu \in Int,
         NEW c \in Int, NEW c0 \in Int
  PROVE  n * (Stu - c * Stt - c0 * St) - St * (Su - c * St - c0 * n)
           = (n * Stu - St * Su) - c * (n * Stt - St * St)
  BY SMT

\* The foot of a sum of lines.
LEMMA ShiftedFoot ==
  ASSUME NEW n \in Int, NEW St \in Int, NEW Stt \in Int, NEW Su \in Int, NEW Stu \in Int,
         NEW c \in Int, NEW c0 \in Int, NEW run \in Int, NEW rise \in Int,
         run = n * Stt - St * St, rise = (n * Stu - St * Su) - c * run
  PROVE  (Su - c * St - c0 * n) * run - rise * St
           = n * (Stt * Su - St * Stu) - c0 * (n * run)
<1>1. rise * St = (n * Stu - St * Su) * St - (c * St) * run
  BY SMT
<1>2. (Su - c * St - c0 * n) * run = Su * run - (c * St) * run - c0 * (n * run)
  BY SMT
<1>3. Su * run - (n * Stu - St * Su) * St = n * (Stt * Su - St * Stu)
  BY SMT
<1>4. /\ (c * St) * run \in Int /\ c0 * (n * run) \in Int /\ Su * run \in Int
      /\ (n * Stu - St * Su) * St \in Int /\ n * (Stt * Su - St * Stu) \in Int
  OBVIOUS
<1> QED BY <1>1, <1>2, <1>3, <1>4

\* At torques t, errors e are those of a spring of compliance c that lags by u.
OfSpring(e, D, t, u, c, c0) ==
  /\ t \in [D -> Int] /\ u \in [D -> Int] /\ e \in [D -> Int] /\ c \in Int /\ c0 \in Int
  /\ \A x \in D : e[x] = u[x] - c * t[x] - c0

\* What is left of the errors of a spring when its lag is taken away is the line of
\* the spring itself.
LEMMA LineOfSpring ==
  ASSUME NEW D, IsFiniteSet(D), NEW e, NEW t, NEW u, NEW c, NEW c0, OfSpring(e, D, t, u, c, c0)
  PROVE  /\ Run(t) \in Int /\ Rise(t, e) \in Int /\ Foot(t, e) \in Int
         /\ Rise(t, e) = Rise(t, u) - c * Run(t)
         /\ Foot(t, e) = Cardinality(D) * (SumFunction(Product(t, t)) * SumFunction(u)
                                             - SumFunction(t) * SumFunction(Product(t, u)))
                           - c0 * (Cardinality(D) * Run(t))
<1> USE DEF OfSpring
<1> DEFINE n == Cardinality(D)
           St == SumFunction(t)
           Su == SumFunction(u)
           tt == Product(t, t)
           tu == Product(t, u)
           te == Product(t, e)
           Stt == SumFunction(tt)
           Stu == SumFunction(tu)
           run == n * Stt - St * St
           rise == (n * Stu - St * Su) - c * run
<1>1. /\ tu \in [D -> Int] /\ \A x \in D : tu[x] = t[x] * u[x]
      /\ tt \in [D -> Int] /\ \A x \in D : tt[x] = t[x] * t[x]
      /\ te \in [D -> Int] /\ \A x \in D : te[x] = t[x] * e[x]
  BY DEF Product
<1>2. n \in Int /\ St \in Int /\ Su \in Int /\ Stu \in Int /\ Stt \in Int
  BY <1>1, SumType, FS_CardinalityType
<1>3. run \in Int /\ rise \in Int
  BY <1>2
<1>4. DOMAIN t = D
  OBVIOUS
<1>5. Run(t) = run /\ Rise(t, u) = n * Stu - St * Su
  BY <1>4 DEF Run, Rise
<1> HIDE DEF n, St, Su, tt, tu, te, Stt, Stu
<1>6. SumFunction(e) = Su - c * St - c0 * n
  <2>1. \A x \in D : e[x] = 1 * u[x] + (-c) * t[x] + 0 * t[x] + (-c0)
    <3> TAKE x \in D
    <3>1. u[x] \in Int /\ t[x] \in Int /\ c * t[x] \in Int /\ (-c) * t[x] = -(c * t[x])
      BY SMT
    <3> QED BY <3>1
  <2>2. 1 \in Int /\ -c \in Int /\ 0 \in Int /\ -c0 \in Int
    OBVIOUS
  <2>3. Combines(e, D, 1, u, -c, t, 0, t, -c0)
    BY <2>1, <2>2, Zenon DEF Combines
  <2>4. SumFunction(e) = 1 * Su + (-c) * St + 0 * St + (-c0) * n
    BY <2>3, SumLinear DEF Su, St, n
  <2> QED BY <2>4, <1>2, SMT
<1>7. SumFunction(te) = Stu - c * Stt - c0 * St
  <2>1. \A x \in D : te[x] = 1 * tu[x] + (-c) * tt[x] + (-c0) * t[x] + 0
    <3> TAKE x \in D
    <3>1. t[x] * (u[x] - c * t[x] - c0)
            = 1 * (t[x] * u[x]) + (-c) * (t[x] * t[x]) + (-c0) * t[x] + 0
      BY SMT
    <3> QED BY <1>1, <3>1
  <2>2. 1 \in Int /\ -c \in Int /\ 0 \in Int /\ -c0 \in Int
    OBVIOUS
  <2>3. Combines(te, D, 1, tu, -c, tt, -c0, t, 0)
    BY <1>1, <2>1, <2>2, Zenon DEF Combines
  <2>4. SumFunction(te) = 1 * Stu + (-c) * Stt + (-c0) * St + 0 * n
    BY <2>3, SumLinear DEF Stu, Stt, St, n
  <2> QED BY <2>4, <1>2, SMT
<1>8. Rise(t, e) = rise
  <2>1. Rise(t, e) = n * SumFunction(te) - St * SumFunction(e)
    BY <1>4 DEF Rise, n, St, te
  <2>2. n * (Stu - c * Stt - c0 * St) - St * (Su - c * St - c0 * n) = rise
    BY <1>2, ShiftedRise
  <2> QED BY <1>6, <1>7, <2>1, <2>2
<1>9. Foot(t, e) = n * (Stt * Su - St * Stu) - c0 * (n * run)
  <2>1. Foot(t, e) = (Su - c * St - c0 * n) * run - rise * St
    BY <1>5, <1>6, <1>8 DEF Foot, St
  <2> DEFINE r == run
             i == rise
  <2>2. r \in Int /\ i \in Int /\ r = n * Stt - St * St /\ i = (n * Stu - St * Su) - c * r
    BY <1>3
  <2> HIDE DEF r, i
  <2>3. (Su - c * St - c0 * n) * r - i * St = n * (Stt * Su - St * Stu) - c0 * (n * r)
    BY <1>2, <2>2, ShiftedFoot
  <2> QED BY <2>1, <2>3 DEF r, i
<1>10. n * (Stt * Su - St * Stu) - c0 * (n * run) \in Int
  BY <1>2, <1>3
<1> QED BY <1>3, <1>5, <1>8, <1>9, <1>10 DEF n, St, Su, tt, tu, Stt, Stu

\* A lag that is the same everywhere leaves the slope alone.
LEMMA ConstantLag ==
  ASSUME NEW D, IsFiniteSet(D), NEW t \in [D -> Int], NEW u \in [D -> Int], NEW b \in Int,
         \A x \in D : u[x] = b
  PROVE  Rise(t, u) = 0
<1> DEFINE n == Cardinality(D)
           St == SumFunction(t)
           tu == Product(t, u)
<1>1. tu \in [D -> Int] /\ \A x \in D : tu[x] = t[x] * u[x]
  BY DEF Product
<1>2. n \in Int /\ St \in Int
  BY SumType, FS_CardinalityType
<1>3. DOMAIN t = D
  OBVIOUS
<1> HIDE DEF n, St, tu
<1>4. SumFunction(u) = b * n
  <2>1. \A x \in D : u[x] = 0 * t[x] + 0 * t[x] + 0 * t[x] + b
    BY SMT
  <2>2. 0 \in Int
    OBVIOUS
  <2>3. Combines(u, D, 0, t, 0, t, 0, t, b)
    BY <2>1, <2>2, Zenon DEF Combines
  <2> QED BY <1>2, <2>3, SumLinear DEF n, St
<1>5. SumFunction(tu) = b * St
  <2>1. \A x \in D : tu[x] = b * t[x] + 0 * t[x] + 0 * t[x] + 0
    <3> TAKE x \in D
    <3>1. tu[x] = t[x] * b /\ t[x] \in Int
      BY <1>1
    <3>2. t[x] * b = b * t[x] + 0 * t[x] + 0 * t[x] + 0
      BY <3>1, SMT
    <3> QED BY <3>1, <3>2
  <2>2. 0 \in Int
    OBVIOUS
  <2>3. Combines(tu, D, b, t, 0, t, 0, t, 0)
    BY <1>1, <2>1, <2>2, Zenon DEF Combines
  <2>4. SumFunction(tu) = b * St + 0 * St + 0 * St + 0 * n
    BY <2>3, SumLinear DEF n, St
  <2> QED BY <1>2, <2>4
<1>6. Rise(t, u) = n * (b * St) - St * (b * n)
  BY <1>3, <1>4, <1>5 DEF Rise, n, St, tu
<1>7. n * (b * St) - St * (b * n) = 0
  BY <1>2, SMT
<1> QED BY <1>6, <1>7

\* A branch of the rounds of a spring: its torques climb from one side to the other,
\* and the joint lags behind them by lo at least and hi at most, more where the torque
\* is larger.  Its line is no steeper than the spring, and off it by no more than the lag.
LEMMA BranchOfSpring ==
  ASSUME NEW D, IsFiniteSet(D), Cardinality(D) >= 3,
         NEW e, NEW t, NEW u, NEW c, NEW c0, OfSpring(e, D, t, u, c, c0),
         NEW p \in Nat \ {0},
         \A x \in D : -p <= t[x] /\ t[x] <= p,
         \E x \in D : t[x] * t[x] = p * p,
         SumFunction(t) = p \/ SumFunction(t) = -p,
         NEW lo \in Int, NEW hi \in Int, \A x \in D : lo <= u[x] /\ u[x] <= hi,
         Grows(D, t, u)
  PROVE  /\ Run(t) \in Int /\ Rise(t, e) \in Int /\ Foot(t, e) \in Int
         /\ Run(t) > 0
         /\ Rise(t, e) + c * Run(t) >= 0
         /\ lo = hi => Rise(t, e) + c * Run(t) = 0
         /\ lo * (Cardinality(D) * Run(t)) <= Foot(t, e) + c0 * (Cardinality(D) * Run(t))
         /\ Foot(t, e) + c0 * (Cardinality(D) * Run(t)) <= hi * (Cardinality(D) * Run(t))
<1> DEFINE n == Cardinality(D)
           St == SumFunction(t)
           Su == SumFunction(u)
           Stt == SumFunction(Product(t, t))
           Stu == SumFunction(Product(t, u))
           X == Stt * Su - St * Stu
           R == Run(t)
<1>0. t \in [D -> Int] /\ u \in [D -> Int] /\ e \in [D -> Int] /\ c \in Int /\ c0 \in Int
  BY DEF OfSpring
<1> USE <1>0
<1>1. /\ R \in Int /\ Rise(t, e) \in Int /\ Foot(t, e) \in Int
      /\ Rise(t, e) = Rise(t, u) - c * R
      /\ Foot(t, e) = n * X - c0 * (n * R)
  BY LineOfSpring
<1>2. n \in Nat /\ n >= 3
  BY FS_CardinalityType
<1>3. DOMAIN t = D
  OBVIOUS
<1>4. R = n * Stt - St * St
  BY <1>3 DEF Run
<1>5. Stt \in Int /\ Stt >= p * p
  BY SquaresOutweigh
<1>6. St \in Int /\ St * St = p * p
  <2>1. St \in Int
    BY SumType
  <2>2. p * p = (-p) * (-p)
    BY SMT
  <2> QED BY <2>1, <2>2
<1>7. R > 0
  <2> HIDE DEF n, St, Stt, R
  <2>1. p * p > 0 /\ p * p \in Int
    BY SMT
  <2>2. n * Stt >= 3 * Stt
    <3>1. ASSUME NEW a \in Int, NEW s \in Int, a >= 3, s >= 0
          PROVE  a * s >= 3 * s
      BY <3>1, SMT
    <3>2. Stt >= 0
      BY <1>5, <2>1
    <3> QED BY <1>2, <1>5, <3>1, <3>2
  <2>3. n * Stt \in Int
    BY <1>2, <1>5
  <2> QED BY <1>4, <1>5, <1>6, <2>1, <2>2, <2>3
<1>8. Rise(t, u) \in Int /\ Rise(t, u) >= 0
  <2>1. Rise(t, u) >= 0
    BY <1>3, GrowTogether DEF Rise
  <2>2. Product(t, u) \in [D -> Int]
    BY DEF Product
  <2>3. Stu \in Int /\ Su \in Int
    BY <2>2, SumType
  <2>4. Rise(t, u) = n * Stu - St * Su
    BY <1>3 DEF Rise
  <2> QED BY <1>2, <1>6, <2>1, <2>3, <2>4
<1>9. ASSUME lo = hi PROVE Rise(t, u) = 0
  <2>1. \A x \in D : u[x] = lo
    <3> TAKE x \in D
    <3>1. u[x] \in Int /\ lo <= u[x] /\ u[x] <= hi
      BY <1>0
    <3> QED BY <1>9, <3>1
  <2> QED BY <2>1, ConstantLag
<1>10. X \in Int /\ X <= hi * R /\ lo * R <= X
  <2>1. Product(t, u) \in [D -> Int]
    BY DEF Product
  <2>2. Stu \in Int /\ Su \in Int
    BY <2>1, SumType
  <2>3. X \in Int
    BY <1>5, <1>6, <2>2
  <2>4. 1 * X <= hi * (n * Stt - St * St)
    <3>1. \A x \in D : 1 * u[x] <= hi
      OBVIOUS
    <3>2. 1 \in Int /\ -1 \in Int
      OBVIOUS
    <3> QED BY <3>1, <3>2, WeighedSum
  <2>5. (-1) * X <= (-lo) * (n * Stt - St * St)
    <3>1. \A x \in D : (-1) * u[x] <= -lo
      OBVIOUS
    <3>2. -1 \in Int /\ -lo \in Int
      OBVIOUS
    <3> QED BY <3>1, <3>2, WeighedSum
  <2>6. 1 * X <= hi * R /\ (-1) * X <= (-lo) * R
    BY <1>4, <2>4, <2>5
  <2> HIDE DEF X, R
  <2>7. (-lo) * R = -(lo * R) /\ lo * R \in Int
    BY <1>1, SMT
  <2> QED BY <2>3, <2>6, <2>7
<1> HIDE DEF n, X, R
<1>11. n * X <= n * (hi * R) /\ n * (lo * R) <= n * X
  <2> DEFINE y == hi * R
             z == lo * R
  <2>1. y \in Int /\ z \in Int /\ X <= y /\ z <= X
    BY <1>1, <1>10
  <2> HIDE DEF y, z
  <2>2. n * X <= n * y /\ n * z <= n * X
    BY <1>2, <1>10, <2>1, SMT
  <2> QED BY <2>2 DEF y, z
<1>12. n * (hi * R) = hi * (n * R) /\ n * (lo * R) = lo * (n * R)
  BY <1>1, <1>2, SMT
<1>13. Foot(t, e) + c0 * (n * R) = n * X
  <2>1. c0 * (n * R) \in Int /\ n * X \in Int
    BY <1>1, <1>2, <1>10
  <2> QED BY <1>1, <2>1
<1>14. Rise(t, e) + c * R = Rise(t, u)
  <2>1. c * R \in Int
    BY <1>1
  <2> QED BY <1>1, <1>8, <2>1
<1>15. lo = hi => Rise(t, e) + c * R = 0
  BY <1>9, <1>14
<1>16. Rise(t, e) + c * R >= 0
  BY <1>8, <1>14
<1>17. lo * (n * R) <= Foot(t, e) + c0 * (n * R) /\ Foot(t, e) + c0 * (n * R) <= hi * (n * R)
  BY <1>11, <1>12, <1>13
<1> QED BY <1>1, <1>7, <1>15, <1>16, <1>17 DEF n, R

\* The line with this rise, run, foot and number of points is no steeper than a spring
\* of compliance c, and off it by no more than b.
InBand(i, r, f, n, c, c0, b) ==
  /\ i \in Int /\ r \in Int /\ f \in Int /\ n \in Int /\ r > 0 /\ n > 0
  /\ c \in Int /\ c0 \in Int /\ b \in Nat
  /\ i + c * r >= 0
  /\ (-b) * (n * r) <= f + c0 * (n * r) /\ f + c0 * (n * r) <= b * (n * r)

\* The fit of two such branches is the spring's, as far as they are off it.
LEMMA TwoLines ==
  ASSUME NEW iu, NEW ru, NEW fu, NEW nu, NEW id, NEW rd, NEW fd, NEW nd, NEW c, NEW c0, NEW b,
         InBand(iu, ru, fu, nu, c, c0, b), InBand(id, rd, fd, nd, c, c0, b)
  PROVE  /\ -(iu * rd + id * ru) <= c * (2 * ru * rd)
         /\ Size(fu * rd * nd - fd * ru * nu) <= b * (2 * ru * nu * rd * nd)
         /\ iu + c * ru = 0 /\ id + c * rd = 0
              => /\ -(iu * rd + id * ru) = c * (2 * ru * rd)
                 /\ iu * rd - id * ru = 0
         /\ fu + c0 * (nu * ru) = b * (nu * ru) /\ fd + c0 * (nd * rd) = (-b) * (nd * rd)
              => Size(fu * rd * nd - fd * ru * nu) = b * (2 * ru * nu * rd * nd)
<1>0. /\ iu \in Int /\ ru \in Int /\ fu \in Int /\ nu \in Int /\ ru > 0 /\ nu > 0
      /\ id \in Int /\ rd \in Int /\ fd \in Int /\ nd \in Int /\ rd > 0 /\ nd > 0
      /\ c \in Int /\ c0 \in Int /\ b \in Nat
      /\ iu + c * ru >= 0 /\ id + c * rd >= 0
      /\ (-b) * (nu * ru) <= fu + c0 * (nu * ru) /\ fu + c0 * (nu * ru) <= b * (nu * ru)
      /\ (-b) * (nd * rd) <= fd + c0 * (nd * rd) /\ fd + c0 * (nd * rd) <= b * (nd * rd)
  BY DEF InBand
<1> USE <1>0
<1> DEFINE P == nu * ru
           Q == nd * rd
           x == fu + c0 * P
           y == fd + c0 * Q
           v == iu + c * ru
           w == id + c * rd
<1>1. P \in Int /\ Q \in Int /\ P > 0 /\ Q > 0
  BY SMT
<1>2. x \in Int /\ y \in Int /\ v \in Int /\ w \in Int /\ v >= 0 /\ w >= 0
  BY <1>1
<1>3. /\ (-b) * P <= x /\ x <= b * P
      /\ (-b) * Q <= y /\ y <= b * Q
  OBVIOUS
<1>4. iu = v - c * ru /\ id = w - c * rd
  OBVIOUS
<1>5. fu = x - c0 * P /\ fd = y - c0 * Q
  BY <1>1
<1>6. fu * rd * nd = fu * Q /\ fd * ru * nu = fd * P /\ 2 * ru * nu * rd * nd = 2 * (P * Q)
  BY SMT
<1> HIDE DEF x, y, v, w, P, Q
<1>7. fu * Q - fd * P = x * Q - y * P
  BY <1>1, <1>2, <1>5, SMT
<1>8. iu * rd + id * ru = v * rd + w * ru - c * (2 * ru * rd)
  BY <1>2, <1>4, SMT
<1>9. iu * rd - id * ru = v * rd - w * ru
  BY <1>2, <1>4, SMT
<1>10. /\ v * rd >= 0 /\ w * ru >= 0
       /\ v * rd \in Int /\ w * ru \in Int /\ c * (2 * ru * rd) \in Int
  BY <1>2, SMT
<1>11. -(iu * rd + id * ru) <= c * (2 * ru * rd)
  BY <1>8, <1>10
<1>12. ASSUME v = 0, w = 0
       PROVE  -(iu * rd + id * ru) = c * (2 * ru * rd) /\ iu * rd - id * ru = 0
  <2>1. v * rd = 0 /\ w * ru = 0
    BY <1>12, SMT
  <2> DEFINE g == iu * rd
             h == id * ru
             k == c * (2 * ru * rd)
  <2>2. g \in Int /\ h \in Int /\ k \in Int
    OBVIOUS
  <2>3. g + h = 0 + 0 - k /\ g - h = 0 - 0
    BY <1>8, <1>9, <2>1, Zenon
  <2> HIDE DEF g, h, k
  <2>4. -(g + h) = k /\ g - h = 0
    BY <2>2, <2>3
  <2> QED BY <2>4 DEF g, h, k
<1>13. /\ x * Q <= (b * P) * Q /\ ((-b) * P) * Q <= x * Q
       /\ y * P <= (b * Q) * P /\ ((-b) * Q) * P <= y * P
  <2>1. ASSUME NEW k \in Int, NEW l \in Int, NEW z \in Int, k <= l, z > 0
        PROVE  k * z <= l * z
    BY <2>1, SMT
  <2>2. b * P \in Int /\ (-b) * P \in Int /\ b * Q \in Int /\ (-b) * Q \in Int
    BY <1>1
  <2> QED BY <1>1, <1>2, <1>3, <2>1, <2>2
<1>14. /\ (b * P) * Q = b * (P * Q) /\ ((-b) * P) * Q = -(b * (P * Q))
       /\ (b * Q) * P = b * (P * Q) /\ ((-b) * Q) * P = -(b * (P * Q))
       /\ b * (2 * (P * Q)) = 2 * (b * (P * Q))
  BY <1>1, SMT
<1>15. x * Q \in Int /\ y * P \in Int /\ b * (P * Q) \in Int /\ b * (P * Q) >= 0
  BY <1>1, <1>2, SMT
<1> DEFINE s == x * Q
           t == y * P
           z == b * (P * Q)
<1>16. s \in Int /\ t \in Int /\ z \in Int /\ z >= 0 /\ s <= z /\ -z <= s /\ t <= z /\ -z <= t
  BY <1>13, <1>14, <1>15
<1>17. ASSUME x = b * P, y = (-b) * Q
       PROVE  s = z /\ t = -z
  BY <1>14, <1>17
<1>18. fu * rd * nd - fd * ru * nu = s - t
  BY <1>6, <1>7
<1>19. b * (2 * ru * nu * rd * nd) = 2 * z
  BY <1>6, <1>14
<1> HIDE DEF s, t, z
<1>20. Size(s - t) <= 2 * z
  BY <1>16 DEF Size
<1>21. ASSUME x = b * P, y = (-b) * Q
       PROVE  Size(s - t) = 2 * z
  BY <1>16, <1>17, <1>21 DEF Size
<1> QED BY <1>11, <1>12, <1>18, <1>19, <1>20, <1>21 DEF x, y, v, w, P, Q

-----------------------------------------------------------------------------
(***************************************************************************)
(* The rounds of one joint, and the branches the fit makes of them.        *)
(***************************************************************************)
\* A peak that is a multiple of the rungs makes every torque of the staircase one.
LEMMA StairExact ==
  ASSUME NEW q \in Nat, peak = (Steps - 1) * q, NEW n \in 0..Last
  PROVE  Stair(n) = q * (2 * Rung(n) - (Steps - 1))
<1> DEFINE m == Steps - 1
           r == Rung(n)
<1>1. m \in Nat \ {0} /\ n \in Nat /\ r \in Nat
  BY StaircaseAssumption, RungBounded DEF Last
<1>2. Stair(n) = -peak + (2 * peak * r) \div m
  BY <1>1, StairIsARung
<1>3. peak = m * q
  OBVIOUS
<1> HIDE DEF m, r
<1>4. 2 * peak * r = m * (2 * q * r)
  <2>1. ASSUME NEW x \in Int, NEW y \in Int, NEW z \in Int
        PROVE  2 * (x * y) * z = x * (2 * y * z)
    BY SMT
  <2>2. 2 * (m * q) * r = m * (2 * q * r)
    BY <1>1, <2>1
  <2> QED BY <1>3, <2>2, Zenon
<1>5. 2 * q * r \in Nat
  BY <1>1, SMT
<1> DEFINE a == 2 * q * r
<1>6. (m * a) \div m = a
  <2> HIDE DEF a
  <2>1. a \in Nat
    BY <1>5 DEF a
  <2> QED BY <1>1, <2>1, ExactQuotient
<1>7. Stair(n) = -(m * q) + 2 * q * r
  BY <1>2, <1>3, <1>4, <1>6
<1>8. -(m * q) + 2 * q * r = q * (2 * r - m)
  BY <1>1, SMT
<1> QED BY <1>7, <1>8 DEF m, r

\* The torques of the way up.
LEMMA StairsUp ==
  ASSUME NEW q \in Nat \ {0}, peak = (Steps - 1) * q, NEW k \in 1..(Steps - 1)
  PROVE  /\ Stair(k) = q * (2 * k - (Steps - 1))
         /\ k = Steps - 1 => Stair(k) = peak
         /\ k < Steps - 1 => Stair(k) < peak
         /\ k = 1 => Stair(k) # 0
<1> DEFINE m == Steps - 1
<1>1. m \in Nat /\ m >= 3 /\ k \in Nat /\ k <= m /\ k \in 0..Last /\ Rung(k) = k /\ peak = m * q
  BY StaircaseAssumption DEF Last, Rung
<1>2. Stair(k) = q * (2 * k - m)
  BY <1>1, StairExact
<1> HIDE DEF m
<1>3. ASSUME k = m PROVE q * (2 * k - m) = peak
  BY <1>1, <1>3, SMT
<1>4. ASSUME k < m PROVE q * (2 * k - m) < peak
  <2>1. 2 * k - m \in Int /\ 2 * k - m < m
    BY <1>1, <1>4
  <2>2. ASSUME NEW x \in Int, x < m PROVE q * x < m * q
    BY <1>1, <2>2, SMT
  <2> QED BY <1>1, <2>1, <2>2
<1>5. ASSUME k = 1 PROVE q * (2 * k - m) # 0
  <2>1. 2 * k - m \in Int /\ 2 * k - m < 0
    BY <1>1, <1>5
  <2>2. ASSUME NEW x \in Int, x < 0 PROVE q * x < 0
    BY <2>2, SMT
  <2> QED BY <2>1, <2>2
<1> QED BY <1>2, <1>3, <1>4, <1>5 DEF m

\* And of the way down.
LEMMA StairsDown ==
  ASSUME NEW q \in Nat \ {0}, peak = (Steps - 1) * q, NEW k \in 1..(Steps - 1)
  PROVE  /\ Stair((Steps - 1) + k) = (-q) * (2 * k - (Steps - 1))
         /\ k = Steps - 1 => Stair((Steps - 1) + k) = -peak
<1> DEFINE m == Steps - 1
<1>1. /\ m \in Nat /\ m >= 3 /\ k \in Nat /\ k <= m /\ m + k \in 0..Last
      /\ Rung(m + k) = m - k /\ peak = m * q
  BY StaircaseAssumption DEF Last, Rung
<1>2. Stair(m + k) = q * (2 * (m - k) - m)
  BY <1>1, StairExact
<1> HIDE DEF m
<1>3. q * (2 * (m - k) - m) = (-q) * (2 * k - m)
  BY <1>1, SMT
<1>4. ASSUME k = m PROVE (-q) * (2 * k - m) = -peak
  BY <1>1, <1>4, SMT
<1> QED BY <1>2, <1>3, <1>4 DEF m

\* The rounds of joint j come after Begin(j) others.
Begin(j) == Last * (j - 1)

Rungs == Steps - 1
Entry == [1..Joints -> [model : Int, applied : Int, error : Int]]

\* A joint carries no torque before its own rounds.
Quiet == \A n \in DOMAIN sweep : \A j \in 1..Joints : n <= Begin(j) => sweep[n][j].applied = 0

\* The torque of a round of joint j, and how far the joint lags behind where the
\* torque would have it without friction.
Carried(j, k) == sweep[Begin(j) + k][j].applied
Lag(j, k) == Equilibrium[curve][Stair(k)] + sweep[Begin(j) + k][j].error

\* How many rounds a joint has, and how many came before it.
LEMMA StairsCount ==
  /\ Rungs \in Nat /\ Rungs >= 3 /\ Steps \in Nat /\ Steps = Rungs + 1
  /\ Last = 2 * Rungs /\ Last \in Nat
  /\ \A j \in Nat \ {0} : Begin(j) \in Nat /\ Begin(j + 1) = Begin(j) + Last
  /\ Begin(1) = 0
<1>1. /\ Rungs \in Nat /\ Rungs >= 3 /\ Steps \in Nat /\ Steps = Rungs + 1
      /\ Last = 2 * Rungs /\ Last \in Nat
  BY StaircaseAssumption DEF Rungs, Last
<1> HIDE DEF Last
<1>2. ASSUME NEW j \in Nat \ {0}
      PROVE  Begin(j) \in Nat /\ Begin(j + 1) = Begin(j) + Last
  <2>1. j - 1 \in Nat /\ Last * (j - 1) \in Nat
    BY <1>1, SMT
  <2>2. Last * ((j + 1) - 1) = Last * (j - 1) + Last
    BY <1>1, SMT
  <2> QED BY <2>1, <2>2 DEF Begin
<1>3. Begin(1) = 0
  BY <1>1 DEF Begin
<1> QED BY <1>1, <1>2, <1>3

\* What the fit reads of a joint are its own rounds, and the turn is at the top.
LEMMA DrivenRounds ==
  ASSUME NEW j \in 1..Joints, sweep \in Seq(Entry), Quiet, Len(sweep) = Begin(j) + Last,
         \A k \in 1..Last : Carried(j, k) = Stair(k),
         NEW q \in Nat \ {0}, peak = Rungs * q
  PROVE  /\ Driven(sweep, j) = Begin(j) + 1..Begin(j) + Last
         /\ Peak(sweep, j) = Begin(j) + Rungs
         /\ Varied(sweep, j)
<1> DEFINE m == Rungs
           base == Begin(j)
           D == Driven(sweep, j)
<1>0. j \in Nat \ {0}
  BY StaircaseAssumption
<1>1. m \in Nat /\ m >= 3 /\ Last = 2 * m /\ Last \in Nat /\ base \in Nat
  BY <1>0, StairsCount
<1>2. DOMAIN sweep = 1..base + Last
  OBVIOUS
<1>3. \A k \in 1..m : /\ Stair(k) \in Int
                      /\ k = m => Stair(k) = peak
                      /\ k < m => Stair(k) < peak
                      /\ k = 1 => Stair(k) # 0
  <2> TAKE k \in 1..m
  <2>1. Stair(k) = q * (2 * k - m) /\ (k = m => Stair(k) = peak) /\ (k < m => Stair(k) < peak)
          /\ (k = 1 => Stair(k) # 0)
    BY StairsUp DEF Rungs
  <2>2. q * (2 * k - m) \in Int
    BY <1>1
  <2> QED BY <2>1, <2>2
<1>4. Stair(Last) = -peak /\ peak \in Nat \ {0}
  <2>1. m \in 1..m /\ m + m = Last
    BY <1>1
  <2>2. Stair(m + m) = -peak
    BY <2>1, StairsDown DEF Rungs
  <2>3. m * q \in Nat \ {0}
    BY <1>1, SMT
  <2> QED BY <2>1, <2>2, <2>3
<1>5. \A k \in 0..Last : Stair(k) \in -peak..peak
  BY <1>4, StairBounded
<1> HIDE DEF Stair, m, base
<1>6. ASSUME NEW k \in 1..Last
      PROVE  Applied(sweep, j, base + k) = Stair(k) /\ base + k \in DOMAIN sweep
  BY <1>1, <1>2, <1>6 DEF Applied, Carried, base
<1>7. ASSUME NEW n \in DOMAIN sweep, Applied(sweep, j, n) # 0
      PROVE  base + 1 <= n /\ n <= base + Last
  <2>1. ~(n <= base)
    BY <1>7 DEF Quiet, Applied, base
  <2> QED BY <1>1, <1>2, <2>1
<1>8. D = base + 1..base + Last
  <2> DEFINE pushed == {n \in DOMAIN sweep : Applied(sweep, j, n) # 0}
  <2>1. base + 1 \in pushed
    <3>1. 1 \in 1..Last /\ 1 \in 1..m
      BY <1>1
    <3> QED BY <3>1, <1>3, <1>6
  <2>2. base + Last \in pushed
    <3>1. Last \in 1..Last /\ -peak # 0
      BY <1>1, <1>4
    <3> QED BY <3>1, <1>4, <1>6
  <2>3. pushed \subseteq Int /\ \A n \in pushed : base + 1 <= n /\ base + Last >= n
    BY <1>1, <1>2, <1>7
  <2>4. D = IF pushed = {} THEN {} ELSE Min(pushed)..Max(pushed)
    BY DEF Driven
  <2> HIDE DEF pushed, D
  <2>5. Min(pushed) = base + 1 /\ Max(pushed) = base + Last
    BY <2>1, <2>2, <2>3, MinIs, MaxIs
  <2> QED BY <2>1, <2>4, <2>5
<1> HIDE DEF D
<1>9. ASSUME NEW n \in D
      PROVE  /\ n - base \in 1..Last /\ n = base + (n - base)
             /\ Applied(sweep, j, n) = Stair(n - base)
  <2>1. n - base \in 1..Last /\ n = base + (n - base)
    BY <1>1, <1>8, <1>9
  <2> QED BY <2>1, <1>6
<1>10. base + m \in D /\ Applied(sweep, j, base + m) = peak
  <2>1. m \in 1..Last /\ m \in 1..m /\ base + m \in base + 1..base + Last
    BY <1>1
  <2> QED BY <2>1, <1>3, <1>6, <1>8
<1>11. Max({Applied(sweep, j, n) : n \in D}) = peak
  <2> DEFINE torques == {Applied(sweep, j, n) : n \in D}
  <2>1. torques \subseteq Int /\ \A x \in torques : peak >= x
    <3>1. \A k \in 1..Last : Stair(k) \in Int /\ peak >= Stair(k)
      BY <1>1, <1>4, <1>5
    <3> QED BY <1>9, <3>1
  <2>2. peak \in torques
    BY <1>10
  <2> HIDE DEF torques
  <2>3. Max(torques) = peak
    BY <2>1, <2>2, MaxIs
  <2> QED BY <2>3 DEF torques
<1>12. Min({n \in D : Applied(sweep, j, n) = peak}) = base + m
  <2> DEFINE tops == {n \in D : Applied(sweep, j, n) = peak}
  <2>1. tops \subseteq Int
    BY <1>1, <1>8
  <2>2. base + m \in tops
    BY <1>10
  <2>3. ASSUME NEW n \in tops
        PROVE  base + m <= n
    <3> SUFFICES ASSUME ~(base + m <= n) PROVE FALSE
      OBVIOUS
    <3>1. n \in D /\ Applied(sweep, j, n) = peak /\ n \in Int
      BY <1>1, <1>8
    <3>2. n - base \in 1..m /\ n - base < m
      BY <1>1, <1>9, <3>1
    <3>3. Stair(n - base) < peak /\ Stair(n - base) \in Int
      BY <1>3, <3>2
    <3>4. Stair(n - base) = peak
      BY <1>9, <3>1
    <3> QED BY <1>4, <3>3, <3>4
  <2> HIDE DEF tops
  <2>4. Min(tops) = base + m
    BY <2>1, <2>2, <2>3, MinIs
  <2> QED BY <2>4 DEF tops
<1>13. Peak(sweep, j) = base + m
  BY <1>11, <1>12 DEF Peak, D
<1>14. Varied(sweep, j)
  <2>1. base + Last \in D /\ Applied(sweep, j, base + Last) = -peak
    <3>1. Last \in 1..Last /\ base + Last \in base + 1..base + Last
      BY <1>1
    <3> QED BY <3>1, <1>4, <1>6, <1>8
  <2>2. peak # -peak
    BY <1>4
  <2> QED BY <1>10, <2>1, <2>2 DEF Varied, D
<1> QED BY <1>8, <1>13, <1>14 DEF D, base, m

\* The staircase of joint j has been climbed, and descended, this many rounds: each
\* carries its torque and the joint lags behind it by no more than its band, never
\* less on the way; where the steps clear the band it lags by the whole of it.
Climbed(j, rounds) ==
  /\ Len(sweep) = Begin(j) + rounds
  /\ \A k \in 1..rounds : Carried(j, k) = Stair(k)
  /\ \A k \in 1..rounds : Lag(j, k) \in -band..band
  /\ \A k, l \in 1..rounds : k < l /\ l < Steps => Lag(j, k) <= Lag(j, l)
  /\ \A k, l \in 1..rounds : k < l /\ Steps <= k => Lag(j, l) <= Lag(j, k)
  /\ StepsClearTheBand => \A k \in 1..rounds : Lag(j, k) = IF k < Steps THEN band ELSE -band

\* Its torques are multiples of one, q.
Whole(q) == q \in Nat \ {0} /\ peak = Rungs * q

\* The branches of the fit are the two ways of the staircase.
LEMMA BranchesAreWays ==
  ASSUME NEW j \in 1..Joints, sweep \in Seq(Entry), Quiet, Climbed(j, Last), NEW q, Whole(q)
  PROVE  /\ BranchOf(<<sweep>>, j, "rising") = Rows(Begin(j), Rungs)
         /\ BranchOf(<<sweep>>, j, "falling") = Rows(Begin(j) + Rungs, Rungs)
<1> DEFINE D == Driven(sweep, j)
           top == Peak(sweep, j)
           base == Begin(j)
<1>1. /\ D = base + 1..base + Last /\ top = base + Rungs /\ Varied(sweep, j)
  BY DrivenRounds DEF Climbed, Whole
<1>2. j \in Nat \ {0}
  BY StaircaseAssumption
<1>3. base \in Nat /\ Rungs \in Nat /\ Last = 2 * Rungs
  BY <1>2, StairsCount
<1>4. DOMAIN <<sweep>> = {1} /\ <<sweep>>[1] = sweep
  OBVIOUS
<1>5. ASSUME NEW way
      PROVE  BranchOf(<<sweep>>, j, way)
               = {<<1, n>> : n \in {m \in D : (m <= top) = (way = "rising")}}
  <2>1. {t \in DOMAIN <<sweep>> : Varied(<<sweep>>[t], j)} = {1}
    BY <1>1, <1>4
  <2>2. BranchOf(<<sweep>>, j, way)
          = UNION {{<<s, n>> : n \in {m \in Driven(<<sweep>>[s], j) :
                       (m <= Peak(<<sweep>>[s], j)) = (way = "rising")}} : s \in {1}}
    BY <2>1, Zenon DEF BranchOf
  <2> QED BY <1>4, <2>2
<1> HIDE DEF D, top, base
<1>6. {m \in D : (m <= top) = ("rising" = "rising")} = base + 1..base + Rungs
  BY <1>1, <1>3
<1>7. {m \in D : (m <= top) = ("falling" = "rising")}
        = (base + Rungs) + 1..(base + Rungs) + Rungs
  BY <1>1, <1>3
<1> QED BY <1>5, <1>6, <1>7 DEF Rows, base

\* A line of a spring of compliance c that lags by lo at least and hi at most.
LiesOn(line, c, c0, lo, hi) ==
  LET weight == line.points * line.run
  IN /\ line.rise \in Int /\ line.run \in Int /\ line.foot \in Int /\ line.points = Rungs
     /\ line.run > 0
     /\ line.rise + c * line.run >= 0
     /\ lo = hi => line.rise + c * line.run = 0
     /\ lo * weight <= line.foot + c0 * weight /\ line.foot + c0 * weight <= hi * weight

\* What the spring's rounds read.
LEMMA RoundOfSpring ==
  ASSUME TypeInv, phase = "round", sweep \in Seq(Entry), Spring,
         NEW j \in 1..Joints, Climbed(j, Last), NEW k \in 1..Last
  PROVE  /\ Begin(j) + k \in DOMAIN sweep
         /\ sweep[Begin(j) + k][j].applied = Stair(k) /\ Stair(k) \in Int
         /\ sweep[Begin(j) + k][j].error \in Int /\ Lag(j, k) \in Int
         /\ Compliance \in Int /\ Equilibrium[curve][0] \in Int
         /\ sweep[Begin(j) + k][j].error
              = Lag(j, k) - Compliance * Stair(k) - Equilibrium[curve][0]
<1>1. j \in Nat \ {0} /\ k \in Nat /\ k \in 0..Last /\ Last \in Nat
  BY StaircaseAssumption, StairsCount
<1>2. Begin(j) \in Nat
  BY <1>1, StairsCount
<1> DEFINE n == Begin(j) + k
           s == Stair(k)
           at == Equilibrium[curve][s]
           er == sweep[n][j].error
           c == Compliance
           c0 == Equilibrium[curve][0]
<1>3. n \in DOMAIN sweep
  BY <1>1, <1>2 DEF Climbed
<1>4. sweep[n] \in Entry
  BY <1>3
<1>5. er \in Int /\ sweep[n][j].applied = s
  <2>1. er \in Int
    BY <1>4 DEF Entry
  <2> QED BY <2>1 DEF Climbed, Carried
<1>6. s \in Torques /\ at \in Int
  BY <1>1, StairEquilibrium
<1>7. s \in Int
  BY <1>6, LineAssumption DEF Torques
<1>8. 0 \in Torques /\ 1 \in Torques
  BY StaircaseAssumption, LineAssumption, RatingBounded DEF Torques, TypeInv
<1>9. curve \in Curves
  BY DEF TypeInv, TypeOK, StaircaseTypeOK
<1>10. c \in Int /\ c0 \in Int
  BY <1>8, <1>9, StaircaseAssumption DEF Compliance
<1>11. at = c * s + c0
  BY <1>6 DEF Spring
<1>12. Lag(j, k) = at + er
  BY DEF Lag
<1> HIDE DEF n, s, at, er, c, c0
<1>13. c * s \in Int /\ Lag(j, k) \in Int
  BY <1>5, <1>6, <1>7, <1>10, <1>12
<1>14. er = Lag(j, k) - c * s - c0
  BY <1>5, <1>10, <1>11, <1>12, <1>13
<1> QED BY <1>3, <1>5, <1>7, <1>10, <1>13, <1>14 DEF n, s, at, er, c, c0

\* One way of the staircase of a spring, its torques s apart.
LEMMA WayOfSpring ==
  ASSUME TypeInv, phase = "round", sweep \in Seq(Entry), Spring,
         NEW j \in 1..Joints, Climbed(j, Last), NEW q, Whole(q),
         NEW off \in {0, Rungs}, NEW s \in {q, -q},
         \A k \in 1..Rungs : Stair(off + k) = s * (2 * k - Rungs),
         NEW lo \in Int, NEW hi \in Int,
         \A k \in 1..Rungs : lo <= Lag(j, off + k) /\ Lag(j, off + k) <= hi,
         \A k, l \in 1..Rungs :
           (Stair(off + k) - Stair(off + l)) * (Lag(j, off + k) - Lag(j, off + l)) >= 0
  PROVE  LiesOn(Line(<<sweep>>, j, Rows(Begin(j) + off, Rungs)),
                Compliance, Equilibrium[curve][0], lo, hi)
<1> DEFINE m == Rungs
           from == Begin(j) + off
           D == Rows(from, m)
           t == [r \in D |-> <<sweep>>[r[1]][r[2]][j].applied]
           e == [r \in D |-> <<sweep>>[r[1]][r[2]][j].error]
           u == [r \in D |-> Lag(j, off + (r[2] - from))]
           c == Compliance
           c0 == Equilibrium[curve][0]
           Of(r) == r[2] - from
<1>1. /\ m \in Nat /\ m >= 3 /\ Last = 2 * m
      /\ off \in Nat /\ j \in Nat \ {0} /\ Begin(j) \in Nat
  <2>1. j \in Nat \ {0}
    BY StaircaseAssumption
  <2> QED BY <2>1, StairsCount
<1>2. from \in Nat /\ q \in Nat \ {0} /\ peak = m * q /\ s \in Int
  BY <1>1 DEF Whole
<1>3. IsFiniteSet(D) /\ Cardinality(D) = m
  BY <1>1, <1>2, RowsCounted
<1>4. ASSUME NEW k \in 1..m
      PROVE  off + k \in 1..Last /\ Begin(j) + (off + k) = from + k
  BY <1>1
<1> HIDE DEF m, from
<1>5. ASSUME NEW r \in D
      PROVE  Of(r) \in 1..m /\ r = <<1, from + Of(r)>>
  <2>1. PICK n \in from + 1..from + m : r = <<1, n>>
    BY DEF Rows
  <2>2. n - from \in 1..m /\ n = from + (n - from)
    BY <1>1, <1>2
  <2> QED BY <2>1, <2>2
<1> HIDE DEF D
<1>6. ASSUME NEW k \in 1..m
      PROVE  /\ sweep[from + k][j].applied = Stair(off + k) /\ Stair(off + k) \in Int
             /\ sweep[from + k][j].error \in Int /\ Lag(j, off + k) \in Int
             /\ c \in Int /\ c0 \in Int
             /\ sweep[from + k][j].error = Lag(j, off + k) - c * Stair(off + k) - c0
  <2>1. off + k \in 1..Last /\ Begin(j) + (off + k) = from + k
    BY <1>4
  <2> HIDE DEF c, c0
  <2> QED BY <2>1, RoundOfSpring DEF c, c0
<1> HIDE DEF c, c0, Of
<1>7. ASSUME NEW r \in D
      PROVE  /\ t[r] = Stair(off + Of(r)) /\ t[r] \in Int
             /\ u[r] = Lag(j, off + Of(r)) /\ u[r] \in Int
             /\ e[r] \in Int /\ e[r] = u[r] - c * t[r] - c0
  <2>1. Of(r) \in 1..m /\ r = <<1, from + Of(r)>>
    BY <1>5
  <2>2. r[1] = 1 /\ r[2] = from + Of(r)
    BY <2>1
  <2>3. <<sweep>>[1] = sweep
    OBVIOUS
  <2>4. t[r] = sweep[from + Of(r)][j].applied /\ e[r] = sweep[from + Of(r)][j].error
    BY <2>2, <2>3
  <2>5. u[r] = Lag(j, off + Of(r))
    BY DEF Of
  <2> HIDE DEF t, e, u
  <2> QED BY <1>6, <2>1, <2>4, <2>5
<1> DEFINE tt == t
           uu == u
           ee == e
<1>8. /\ tt \in [D -> Int] /\ uu \in [D -> Int] /\ ee \in [D -> Int]
  BY <1>7
<1>9. Line(<<sweep>>, j, D)
        = [rise |-> Rise(tt, ee), run |-> Run(tt), points |-> Cardinality(D),
           foot |-> Foot(tt, ee)]
  <2>1. Reads(tt, ee, <<sweep>>, j, D)
    BY Zenon DEF Reads
  <2> HIDE DEF tt, ee, uu
  <2> QED BY <2>1, LineThrough
<1>10. ASSUME NEW r \in D
       PROVE  /\ tt[r] = Stair(off + Of(r)) /\ uu[r] = Lag(j, off + Of(r))
              /\ ee[r] = uu[r] - c * tt[r] - c0
  BY <1>7
<1> HIDE DEF tt, ee, uu, t, e, u
<1>11. c \in Int /\ c0 \in Int /\ 1 \in 1..m /\ m \in 1..m
  BY <1>1, <1>6
<1>12. OfSpring(ee, D, tt, uu, c, c0)
  BY <1>8, <1>10, <1>11, Zenon DEF OfSpring
<1>13. Grows(D, tt, uu)
  BY <1>5, <1>10 DEF Grows, m
<1>14. \A r \in D : lo <= uu[r] /\ uu[r] <= hi
  BY <1>5, <1>10 DEF m
<1>15. peak \in Nat \ {0} /\ (s * m = peak \/ s * m = -peak)
  BY <1>1, <1>2, SMT
<1>16. \A r \in D : -peak <= tt[r] /\ tt[r] <= peak
  <2>1. \A k \in 0..Last : Stair(k) \in -peak..peak
    BY <1>15, StairBounded
  <2>2. ASSUME NEW r \in D PROVE off + Of(r) \in 0..Last
    <3>1. Of(r) \in 1..m
      BY <1>5
    <3>2. off + Of(r) \in 1..Last
      BY <1>4, <3>1
    <3> QED BY <3>2
  <2> HIDE DEF Stair
  <2> QED BY <1>10, <1>15, <2>1, <2>2
<1>17. SumFunction(tt) = peak \/ SumFunction(tt) = -peak
  <2>1. ASSUME NEW k \in 1..m
        PROVE  tt[<<1, from + k>>] = s * (2 * k - m)
    <3> DEFINE r == <<1, from + k>>
    <3>1. r \in D /\ Of(r) = k
      BY <1>1, <1>2 DEF D, Rows, Of
    <3> HIDE DEF r
    <3> QED BY <1>10, <3>1 DEF r, m
  <2>2. SumFunction(tt) = s * (m * (m + 1 - m))
    <3>1. tt \in [Rows(from, m) -> Int]
      BY <1>8 DEF D
    <3>2. from \in Int /\ m \in Int
      BY <1>1, <1>2
    <3>3. Progresses(tt, from, m, s, m)
      BY <2>1, <3>1, Zenon DEF Progresses
    <3> QED BY <1>1, <1>2, <3>2, <3>3, SumProgression
  <2>3. s * (m * (m + 1 - m)) = s * m
    <3>1. m + 1 - m = 1 /\ m * 1 = m
      BY <1>1
    <3> QED BY <3>1
  <2> QED BY <1>15, <2>2, <2>3
<1>18. \E r \in D : tt[r] * tt[r] = peak * peak
  <2> DEFINE r == <<1, from + m>>
  <2>1. r \in D /\ Of(r) = m
    BY <1>1, <1>2 DEF D, Rows, Of
  <2> HIDE DEF r
  <2>2. tt[r] = s * (2 * m - m)
    BY <1>10, <1>11, <2>1 DEF m
  <2>3. 2 * m - m = m
    BY <1>1
  <2>4. tt[r] = s * m
    BY <2>2, <2>3
  <2>5. peak * peak = (-peak) * (-peak)
    BY <1>15, SMT
  <2> QED BY <1>15, <2>1, <2>4, <2>5
<1> DEFINE run == Run(tt)
           rise == Rise(tt, ee)
           foot == Foot(tt, ee)
<1> DEFINE size == Cardinality(D)
<1>19. /\ run \in Int /\ rise \in Int /\ foot \in Int
       /\ run > 0
       /\ rise + c * run >= 0
       /\ lo = hi => rise + c * run = 0
       /\ lo * (size * run) <= foot + c0 * (size * run)
       /\ foot + c0 * (size * run) <= hi * (size * run)
  <2>1. Cardinality(D) >= 3
    BY <1>1, <1>3
  <2> QED BY <1>3, <1>8, <1>12, <1>13, <1>14, <1>15, <1>16, <1>17, <1>18, <2>1,
             BranchOfSpring, Zenon
<1> DEFINE line == [rise |-> rise, run |-> run, points |-> m, foot |-> foot]
<1> HIDE DEF run, rise, foot
<1>20. line.rise = rise /\ line.run = run /\ line.points = m /\ line.foot = foot
  OBVIOUS
<1>21. Line(<<sweep>>, j, D) = line
  BY <1>3, <1>9 DEF run, rise, foot
<1> HIDE DEF line
<1>22. LiesOn(line, c, c0, lo, hi)
  BY <1>3, <1>19, <1>20, Zenon DEF LiesOn, m
<1> QED BY <1>21, <1>22 DEF D, from, m, c, c0

\* Two differences of the same sign.
LEMMA SameWay ==
  ASSUME NEW x \in Int, NEW y \in Int, (x >= 0 /\ y >= 0) \/ (x <= 0 /\ y <= 0)
  PROVE  x * y >= 0
  BY SMT

\* The lag grows with the torque on both ways of the staircase.
LEMMA LagGrows ==
  ASSUME TypeInv, phase = "round", sweep \in Seq(Entry), Spring,
         NEW j \in 1..Joints, Climbed(j, Last), NEW q, Whole(q)
  PROVE  /\ \A k \in 1..Rungs : Stair(0 + k) = q * (2 * k - Rungs)
         /\ \A k \in 1..Rungs : Stair(Rungs + k) = (-q) * (2 * k - Rungs)
         /\ \A off \in {0, Rungs}, k, l \in 1..Rungs :
              (Stair(off + k) - Stair(off + l)) * (Lag(j, off + k) - Lag(j, off + l)) >= 0
<1> DEFINE m == Rungs
<1>1. /\ m \in Nat /\ m >= 3 /\ Last = 2 * m /\ Steps = m + 1 /\ Last \in Nat
      /\ q \in Nat \ {0} /\ peak = (Steps - 1) * q /\ m = Steps - 1
  BY StairsCount DEF Whole, Rungs
<1>2. ASSUME NEW k \in 1..m
      PROVE  /\ 0 + k = k /\ k \in 1..Last /\ m + k \in 1..Last
             /\ Stair(k) = q * (2 * k - m) /\ Stair(m + k) = (-q) * (2 * k - m)
  <2>1. 0 + k = k /\ k \in 1..Last /\ m + k \in 1..Last /\ k \in 1..(Steps - 1)
    BY <1>1
  <2>2. /\ Stair(k) = q * (2 * k - (Steps - 1))
        /\ Stair((Steps - 1) + k) = (-q) * (2 * k - (Steps - 1))
    BY <1>1, <2>1, StairsUp, StairsDown, Zenon
  <2> QED BY <2>1, <2>2 DEF Rungs
<1>3. ASSUME NEW k \in 1..Last
      PROVE  Stair(k) \in Int /\ Lag(j, k) \in Int
  BY RoundOfSpring
<1> HIDE DEF m, Stair
<1>4. ASSUME NEW k \in 1..m, NEW l \in 1..m, k < l
      PROVE  /\ Stair(k) <= Stair(l) /\ Lag(j, k) <= Lag(j, l)
             /\ Stair(m + l) <= Stair(m + k) /\ Lag(j, m + l) <= Lag(j, m + k)
  <2>1. q * (2 * k - m) <= q * (2 * l - m) /\ (-q) * (2 * l - m) <= (-q) * (2 * k - m)
    <3>1. ASSUME NEW x \in Int, NEW y \in Int, x <= y
          PROVE  q * x <= q * y /\ (-q) * y <= (-q) * x
      BY <1>1, <3>1, SMT
    <3>2. 2 * k - m \in Int /\ 2 * l - m \in Int /\ 2 * k - m <= 2 * l - m
      BY <1>1, <1>4
    <3> QED BY <3>1, <3>2
  <2>2. k < l /\ l < Steps /\ m + k < m + l /\ Steps <= m + k
    BY <1>1, <1>4
  <2>3. Lag(j, k) <= Lag(j, l) /\ Lag(j, m + l) <= Lag(j, m + k)
    BY <1>2, <2>2 DEF Climbed
  <2> QED BY <1>2, <2>1, <2>3
<1>5. ASSUME NEW off \in {0, m}, NEW k \in 1..m, NEW l \in 1..m
      PROVE  (Stair(off + k) - Stair(off + l)) * (Lag(j, off + k) - Lag(j, off + l)) >= 0
  <2> DEFINE x == Stair(off + k) - Stair(off + l)
             y == Lag(j, off + k) - Lag(j, off + l)
  <2>1. off + k \in 1..Last /\ off + l \in 1..Last
    BY <1>2
  <2>2. x \in Int /\ y \in Int
    BY <1>3, <2>1
  <2>3. (x >= 0 /\ y >= 0) \/ (x <= 0 /\ y <= 0)
    <3>1. /\ Stair(off + k) \in Int /\ Stair(off + l) \in Int
          /\ Lag(j, off + k) \in Int /\ Lag(j, off + l) \in Int
      BY <1>3, <2>1
    <3>2. CASE k = l
      BY <3>1, <3>2
    <3>3. CASE k < l
      <4>1. /\ Stair(0 + k) <= Stair(0 + l) /\ Lag(j, 0 + k) <= Lag(j, 0 + l)
            /\ Stair(m + l) <= Stair(m + k) /\ Lag(j, m + l) <= Lag(j, m + k)
        BY <1>2, <1>4, <3>3, Zenon
      <4> QED BY <3>1, <4>1
    <3>4. CASE l < k
      <4>1. /\ Stair(0 + l) <= Stair(0 + k) /\ Lag(j, 0 + l) <= Lag(j, 0 + k)
            /\ Stair(m + k) <= Stair(m + l) /\ Lag(j, m + k) <= Lag(j, m + l)
        BY <1>2, <1>4, <3>4, Zenon
      <4> QED BY <3>1, <4>1
    <3> QED BY <1>1, <3>2, <3>3, <3>4
  <2> HIDE DEF x, y
  <2>4. x * y >= 0
    BY <2>2, <2>3, SameWay
  <2> QED BY <2>4 DEF x, y
<1> QED BY <1>2, <1>5 DEF m

\* A spring whose steps clear the band gives way to the torque.
LEMMA SpringGives ==
  ASSUME TypeInv, phase = "round", Spring, StepsClearTheBand
  PROVE  Compliance \in Int /\ Compliance > 0
<1> DEFINE c == Compliance
           c0 == Equilibrium[curve][0]
           s == Stair(0)
           t == Stair(1)
<1>1. curve \in Curves /\ band \in Nat
  BY StaircaseAssumption DEF TypeInv, TypeOK, StaircaseTypeOK
<1>2. 0 \in Torques /\ 1 \in Torques
  BY StaircaseAssumption, LineAssumption, RatingBounded DEF Torques, TypeInv
<1>3. c \in Int /\ c >= 0 /\ c0 \in Int
  BY <1>1, <1>2, StaircaseAssumption DEF Compliance
<1>4. 0 \in 0..Last /\ 1 \in 1..Last /\ 1 \in 0..Last
  BY StaircaseAssumption DEF Last
<1>5. s \in Torques /\ t \in Torques
  BY <1>4, StairEquilibrium
<1>6. s \in Int /\ t \in Int
  BY <1>5, LineAssumption DEF Torques
<1>7. Equilibrium[curve][s] = c * s + c0 /\ Equilibrium[curve][t] = c * t + c0
  BY <1>5 DEF Spring
<1>8. Magnitude(Equilibrium[curve][t] - Equilibrium[curve][s]) > 2 * band
  <2>1. 1 - 1 = 0
    OBVIOUS
  <2> QED BY <1>4, <2>1 DEF StepsClearTheBand
<1> HIDE DEF c, c0, s, t
<1>9. ASSUME c = 0 PROVE FALSE
  <2>1. c * s = 0 /\ c * t = 0
    BY <1>6, <1>9
  <2>2. Magnitude(c0 - c0) > 2 * band
    BY <1>3, <1>7, <1>8, <2>1
  <2> QED BY <1>1, <1>3, <2>2 DEF Magnitude
<1> QED BY <1>3, <1>9 DEF c

\* The fit of the rounds of a spring is the spring, as far as they tell.
LEMMA FitOfSpring ==
  ASSUME TypeInv, phase = "round", sweep \in Seq(Entry), Quiet, Spring,
         NEW j \in 1..Joints, Climbed(j, Last), NEW q, Whole(q)
  PROVE  LET fit == StaircaseFit(<<sweep>>, j)
         IN /\ fit.compliance <= Compliance * fit.per /\ fit.friction <= band * fit.cost
            /\ StepsClearTheBand =>
                 /\ StaircaseMeasures(<<sweep>>, j)
                 /\ fit.compliance = Compliance * fit.per /\ fit.friction = band * fit.cost
<1> DEFINE rising == BranchOf(<<sweep>>, j, "rising")
           falling == BranchOf(<<sweep>>, j, "falling")
           up == Line(<<sweep>>, j, rising)
           down == Line(<<sweep>>, j, falling)
           c == Compliance
           c0 == Equilibrium[curve][0]
           m == Rungs
<1>1. /\ m \in Nat /\ m >= 3 /\ Last = 2 * m /\ Steps = m + 1
      /\ j \in Nat \ {0} /\ Begin(j) \in Nat
  <2>1. j \in Nat \ {0}
    BY StaircaseAssumption
  <2> QED BY <2>1, StairsCount
<1>2. band \in Nat
  BY StaircaseAssumption DEF TypeInv, TypeOK, StaircaseTypeOK
<1>3. rising = Rows(Begin(j), m) /\ falling = Rows(Begin(j) + m, m)
  BY BranchesAreWays
<1>4. Cardinality(rising) = m /\ Cardinality(falling) = m
  BY <1>1, <1>3, RowsCounted
<1>5. c \in Int /\ c0 \in Int
  <2>1. 1 \in 1..Last
    BY <1>1
  <2> QED BY <2>1, RoundOfSpring
<1> HIDE DEF Stair
<1>6. ASSUME NEW k \in 1..m
      PROVE  /\ 0 + k = k /\ k < Steps /\ k \in 1..Last
             /\ m + k \in 1..Last /\ ~(m + k < Steps)
  BY <1>1
<1>7. ASSUME NEW lo \in Int, NEW hi \in Int, \A k \in 1..m : lo <= Lag(j, k) /\ Lag(j, k) <= hi
      PROVE  LiesOn(up, c, c0, lo, hi)
  <2>1. 0 \in {0, Rungs} /\ q \in {q, -q} /\ Begin(j) + 0 = Begin(j)
    BY <1>1
  <2>2. \A k \in 1..Rungs : lo <= Lag(j, 0 + k) /\ Lag(j, 0 + k) <= hi
    BY <1>6, <1>7
  <2>3. LiesOn(Line(<<sweep>>, j, Rows(Begin(j) + 0, Rungs)), Compliance,
               Equilibrium[curve][0], lo, hi)
    BY <2>1, <2>2, LagGrows, WayOfSpring
  <2> QED BY <1>3, <2>1, <2>3
<1>8. ASSUME NEW lo \in Int, NEW hi \in Int,
             \A k \in 1..m : lo <= Lag(j, m + k) /\ Lag(j, m + k) <= hi
      PROVE  LiesOn(down, c, c0, lo, hi)
  <2>1. Rungs \in {0, Rungs} /\ -q \in {q, -q}
    OBVIOUS
  <2>2. \A k \in 1..Rungs : lo <= Lag(j, Rungs + k) /\ Lag(j, Rungs + k) <= hi
    BY <1>8
  <2>3. LiesOn(Line(<<sweep>>, j, Rows(Begin(j) + Rungs, Rungs)), Compliance,
               Equilibrium[curve][0], lo, hi)
    BY <2>1, <2>2, LagGrows, WayOfSpring
  <2> QED BY <1>3, <2>3
<1>9. LiesOn(up, c, c0, -band, band) /\ LiesOn(down, c, c0, -band, band)
  <2>1. \A k \in 1..Last : -band <= Lag(j, k) /\ Lag(j, k) <= band
    BY <1>2 DEF Climbed
  <2>2. -band \in Int /\ band \in Int
    BY <1>2
  <2> QED BY <1>6, <1>7, <1>8, <2>1, <2>2
<1>10. ASSUME StepsClearTheBand
       PROVE  LiesOn(up, c, c0, band, band) /\ LiesOn(down, c, c0, -band, -band)
  <2>1. \A k \in 1..Last : Lag(j, k) = IF k < Steps THEN band ELSE -band
    BY <1>10 DEF Climbed
  <2>2. -band \in Int /\ band \in Int
    BY <1>2
  <2>3. \A k \in 1..m : band <= Lag(j, k) /\ Lag(j, k) <= band
    BY <1>2, <1>6, <2>1
  <2>4. \A k \in 1..m : -band <= Lag(j, m + k) /\ Lag(j, m + k) <= -band
    BY <1>2, <1>6, <2>1
  <2> QED BY <1>7, <1>8, <2>2, <2>3, <2>4
<1> DEFINE fit == StaircaseFit(<<sweep>>, j)
<1>11. /\ fit.compliance = -(up.rise * down.run + down.rise * up.run)
       /\ fit.per = 2 * up.run * down.run
       /\ fit.friction = Size(up.foot * down.run * down.points - down.foot * up.run * up.points)
       /\ fit.cost = 2 * up.run * up.points * down.run * down.points
  BY DEF StaircaseFit
<1>12. StaircaseMeasures(<<sweep>>, j)
         <=> /\ Cardinality(rising) >= 2 /\ Cardinality(falling) >= 2
             /\ up.run > 0 /\ down.run > 0
             /\ OneSpring(up, down)
  BY DEF StaircaseMeasures
<1> HIDE DEF fit, up, down, rising, falling, c, c0
<1>13. /\ up.rise \in Int /\ up.run \in Int /\ up.foot \in Int /\ up.points = m
       /\ down.rise \in Int /\ down.run \in Int /\ down.foot \in Int /\ down.points = m
       /\ up.run > 0 /\ down.run > 0 /\ m \in Int /\ m > 0
  BY <1>1, <1>9 DEF LiesOn
<1>14. /\ up.rise + c * up.run >= 0 /\ down.rise + c * down.run >= 0
       /\ (-band) * (up.points * up.run) <= up.foot + c0 * (up.points * up.run)
       /\ up.foot + c0 * (up.points * up.run) <= band * (up.points * up.run)
       /\ (-band) * (down.points * down.run) <= down.foot + c0 * (down.points * down.run)
       /\ down.foot + c0 * (down.points * down.run) <= band * (down.points * down.run)
  BY <1>9 DEF LiesOn
<1>15. ASSUME StepsClearTheBand
       PROVE  /\ up.rise + c * up.run = 0 /\ down.rise + c * down.run = 0
              /\ up.foot + c0 * (up.points * up.run) = band * (up.points * up.run)
              /\ down.foot + c0 * (down.points * down.run) = (-band) * (down.points * down.run)
  <2> DEFINE P == up.points * up.run
             Q == down.points * down.run
  <2>1. up.rise + c * up.run = 0 /\ down.rise + c * down.run = 0
    BY <1>10, <1>15 DEF LiesOn
  <2>2. /\ band * P <= up.foot + c0 * P /\ up.foot + c0 * P <= band * P
        /\ (-band) * Q <= down.foot + c0 * Q /\ down.foot + c0 * Q <= (-band) * Q
    BY <1>10, <1>15 DEF LiesOn
  <2>3. P \in Int /\ Q \in Int
    BY <1>13
  <2> HIDE DEF P, Q
  <2>4. /\ band * P \in Int /\ up.foot + c0 * P \in Int
        /\ (-band) * Q \in Int /\ down.foot + c0 * Q \in Int
    <3>1. ASSUME NEW x \in Int, NEW y \in Int PROVE x * y \in Int /\ x + y \in Int
      OBVIOUS
    <3>2. band \in Int /\ -band \in Int /\ c0 \in Int /\ up.foot \in Int /\ down.foot \in Int
      BY <1>2, <1>5, <1>13 DEF c0
    <3> QED BY <2>3, <3>1, <3>2
  <2>5. up.foot + c0 * P = band * P /\ down.foot + c0 * Q = (-band) * Q
    BY <2>2, <2>4
  <2> QED BY <2>1, <2>5 DEF P, Q
<1> DEFINE iu == up.rise    ru == up.run    fu == up.foot    nu == up.points
           id == down.rise  rd == down.run  fd == down.foot  nd == down.points
<1>16. /\ iu \in Int /\ ru \in Int /\ fu \in Int /\ nu \in Int /\ ru > 0 /\ nu > 0
       /\ id \in Int /\ rd \in Int /\ fd \in Int /\ nd \in Int /\ rd > 0 /\ nd > 0
       /\ c \in Int /\ c0 \in Int /\ band \in Nat
  BY <1>2, <1>5, <1>13 DEF c, c0
<1>17. /\ iu + c * ru >= 0 /\ id + c * rd >= 0
       /\ (-band) * (nu * ru) <= fu + c0 * (nu * ru) /\ fu + c0 * (nu * ru) <= band * (nu * ru)
       /\ (-band) * (nd * rd) <= fd + c0 * (nd * rd) /\ fd + c0 * (nd * rd) <= band * (nd * rd)
  BY <1>14
<1>18. ASSUME StepsClearTheBand
       PROVE  /\ iu + c * ru = 0 /\ id + c * rd = 0
              /\ fu + c0 * (nu * ru) = band * (nu * ru)
              /\ fd + c0 * (nd * rd) = (-band) * (nd * rd)
  BY <1>15, <1>18
<1>19. /\ fit.compliance = -(iu * rd + id * ru) /\ fit.per = 2 * ru * rd
       /\ fit.friction = Size(fu * rd * nd - fd * ru * nu) /\ fit.cost = 2 * ru * nu * rd * nd
  BY <1>11
<1> HIDE DEF iu, ru, fu, nu, id, rd, fd, nd
<1>20. /\ -(iu * rd + id * ru) <= c * (2 * ru * rd)
       /\ Size(fu * rd * nd - fd * ru * nu) <= band * (2 * ru * nu * rd * nd)
       /\ StepsClearTheBand =>
            /\ -(iu * rd + id * ru) = c * (2 * ru * rd)
            /\ iu * rd - id * ru = 0
            /\ Size(fu * rd * nd - fd * ru * nu) = band * (2 * ru * nu * rd * nd)
  <2>1. InBand(iu, ru, fu, nu, c, c0, band) /\ InBand(id, rd, fd, nd, c, c0, band)
    BY <1>16, <1>17, Zenon DEF InBand
  <2>2. /\ -(iu * rd + id * ru) <= c * (2 * ru * rd)
        /\ Size(fu * rd * nd - fd * ru * nu) <= band * (2 * ru * nu * rd * nd)
        /\ iu + c * ru = 0 /\ id + c * rd = 0
             => /\ -(iu * rd + id * ru) = c * (2 * ru * rd)
                /\ iu * rd - id * ru = 0
        /\ fu + c0 * (nu * ru) = band * (nu * ru) /\ fd + c0 * (nd * rd) = (-band) * (nd * rd)
             => Size(fu * rd * nd - fd * ru * nu) = band * (2 * ru * nu * rd * nd)
    BY <2>1, TwoLines
  <2> QED BY <1>18, <2>2, Zenon
<1>21. ASSUME StepsClearTheBand
       PROVE  StaircaseMeasures(<<sweep>>, j)
  <2>1. c > 0
    BY <1>21, SpringGives DEF c
  <2>2. iu < 0 /\ id < 0
    <3>1. ASSUME NEW x \in Int, x > 0 PROVE c * x > 0 /\ c * x \in Int
      BY <1>16, <2>1, <3>1, SMT
    <3>2. c * ru > 0 /\ c * ru \in Int /\ c * rd > 0 /\ c * rd \in Int
      BY <1>16, <3>1
    <3> QED BY <1>16, <1>18, <1>21, <3>2
  <2>3. 8 * Size(iu * rd - id * ru) <= Size(iu * rd + id * ru)
    <3>1. iu * rd + id * ru \in Int /\ iu * rd - id * ru = 0
      BY <1>16, <1>20, <1>21
    <3> HIDE DEF StepsClearTheBand
    <3> QED BY <3>1 DEF Size
  <2>4. OneSpring(up, down)
    BY <2>2, <2>3 DEF OneSpring, iu, id, ru, rd
  <2> QED BY <1>1, <1>4, <1>12, <1>13, <2>4
<1> QED BY <1>19, <1>20, <1>21 DEF fit, c

-----------------------------------------------------------------------------
(***************************************************************************)
(* What is recorded.                                                       *)
(***************************************************************************)
\* What is recorded of the joint under test.
Climbing == IF phase = "round" THEN step - 1 ELSE 0
Here == Equilibrium[curve][Stair(step)] - held

\* The reading of joint j says what the round to be recorded may say.
Reaches(j) ==
  /\ wire = Stair(step)
  /\ Here \in -band..band
  /\ \A k \in 1..(step - 1) : IF step < Steps THEN Lag(j, k) <= Here
                                              ELSE Steps <= k => Here <= Lag(j, k)
  /\ StepsClearTheBand => Here = IF step < Steps THEN band ELSE -band

Recording ==
  /\ pc = "starting" => sweep = <<>> /\ joint = 0
  /\ pc \in {"push", "read"} => Climbed(joint + 1, Climbing)
  /\ pc = "push" /\ phase = "round" /\ step > 1
       => Lag(joint + 1, step - 1) = Equilibrium[curve][Stair(step - 1)] - held
  /\ pc = "read" /\ phase = "round" => Reaches(joint + 1)
  /\ pc = "joint" => /\ Len(sweep) = Last * joint
                     /\ joint > 0 => phase = "round" /\ Climbed(joint, Last)

RecordInv ==
  /\ sweep \in Seq(Entry) /\ Quiet
  /\ phase \in {"probe", "arrive", "round"} => \E q : Whole(q)
  /\ Recording

\* What is recorded, and the joint it is of, stay as they are.
LEMMA ClimbedStays ==
  ASSUME UNCHANGED <<curve, band, peak, sweep>>, NEW j
  PROVE  /\ \A r : Climbed(j, r)' = Climbed(j, r)
         /\ \A k : Stair(k)' = Stair(k) /\ Lag(j, k)' = Lag(j, k)
         /\ StepsClearTheBand' = StepsClearTheBand
<1>1. ASSUME NEW k
      PROVE  Stair(k)' = Stair(k)
  BY DEF Stair, Last
<1>2. ASSUME NEW k
      PROVE  Lag(j, k)' = Lag(j, k) /\ Carried(j, k)' = Carried(j, k)
  BY <1>1 DEF Lag, Carried, Begin, Last
<1>3. StepsClearTheBand' = StepsClearTheBand
  BY <1>1 DEF StepsClearTheBand, Last
<1>4. Begin(j)' = Begin(j) /\ Last' = Last
  BY DEF Begin, Last
<1>5. ASSUME NEW r
      PROVE  Climbed(j, r)' = Climbed(j, r)
  BY <1>1, <1>2, <1>3, <1>4 DEF Climbed
<1> QED BY <1>1, <1>2, <1>3, <1>5

\* The push of a round.
LEMMA PushReaches ==
  ASSUME TypeInv, OnLadder, Recording, Push, phase = "round", UNCHANGED sweep,
         NEW j, j = joint + 1
  PROVE  Reaches(j)'
<1> DEFINE at(n) == Equilibrium[curve][Stair(n)]
           here == at(step)
           there == at(step - 1)
           lag == here - held'
<1>1. /\ step \in 1..Last /\ step \in 0..Last /\ step - 1 \in 0..Last
      /\ band \in Nat /\ held \in Int
      /\ Steps \in Nat /\ Last \in Nat /\ step \in Nat
  BY StaircaseAssumption DEF TypeInv, TypeOK, StaircaseTypeOK, Sized, Last
<1>2. here \in Int /\ there \in Int
  BY <1>1, StairEquilibrium
<1>3. /\ pc = "push" /\ Torque = Stair(step)
      /\ UNCHANGED <<curve, band, peak, sweep, step>> /\ wire' = Stair(step)
  BY DEF Push, Torque, Send, jointVars, sizing
<1>4. \/ held < here - band /\ held' = here - band
      \/ held > here + band /\ held' = here + band
      \/ here - band <= held /\ held <= here + band /\ held' = held
  BY <1>3 DEF Push, standing
<1>5. there - band <= held /\ held <= there + band
  BY <1>3 DEF OnLadder, AtStair
<1>6. IF step < Steps THEN there <= here ELSE here <= there
  <2>1. IF step < Steps THEN Stair(step - 1) <= Stair(step) ELSE Stair(step) <= Stair(step - 1)
    BY <1>1, StairClimbs DEF TypeInv, TypeOK, StaircaseTypeOK
  <2>2. Stair(step) \in Torques /\ Stair(step - 1) \in Torques
    BY <1>1, StairEquilibrium
  <2>3. curve \in Curves
    BY DEF TypeInv, TypeOK, StaircaseTypeOK
  <2> HIDE DEF Stair
  <2> QED BY <2>1, <2>2, <2>3, StaircaseAssumption
<1>7. StepsClearTheBand => IF step < Steps THEN there + band < here - band
                                           ELSE here + band < there - band
  BY BandsApart
<1>8. Climbed(j, step - 1)
  BY <1>3 DEF Recording, Climbing
<1>9. step > 1 => Lag(j, step - 1) = there - held
  BY <1>3 DEF Recording
<1> HIDE DEF here, there, Stair
<1>10. /\ lag \in Int /\ -band <= lag /\ lag <= band
       /\ StepsClearTheBand => lag = IF step < Steps THEN band ELSE -band
  BY <1>1, <1>2, <1>4, <1>5, <1>6, <1>7
<1>11. ASSUME NEW k \in 1..(step - 1)
       PROVE  IF step < Steps THEN Lag(j, k) <= lag ELSE Steps <= k => lag <= Lag(j, k)
  <2>1. Lag(j, k) \in -band..band /\ Lag(j, step - 1) \in -band..band /\ step > 1
    BY <1>1, <1>8 DEF Climbed
  <2>2. Lag(j, k) \in Int /\ -band <= Lag(j, k) /\ Lag(j, k) <= band /\ there - held \in Int
    BY <1>1, <1>2, <2>1
  <2>3. CASE step < Steps
    <3>1. Lag(j, k) <= there - held
      <4>1. CASE k = step - 1
        BY <1>9, <2>1, <2>2, <4>1
      <4>2. CASE k < step - 1
        BY <1>1, <1>8, <1>9, <2>1, <2>3, <4>2 DEF Climbed
      <4> QED BY <1>1, <4>1, <4>2
    <3>2. there <= here
      BY <1>6, <2>3
    <3> QED BY <1>1, <1>2, <1>4, <1>5, <1>10, <2>2, <2>3, <3>1, <3>2
  <2>4. CASE ~(step < Steps) /\ Steps <= k
    <3>1. there - held <= Lag(j, k)
      <4>1. CASE k = step - 1
        BY <1>9, <2>1, <2>2, <4>1
      <4>2. CASE k < step - 1
        BY <1>1, <1>8, <1>9, <2>1, <2>4, <4>2 DEF Climbed
      <4> QED BY <1>1, <4>1, <4>2
    <3>2. here <= there
      BY <1>6, <2>4
    <3> QED BY <1>1, <1>2, <1>4, <1>5, <1>10, <2>2, <2>4, <3>1, <3>2
  <2> QED BY <2>3, <2>4
<1>12. /\ \A k : Stair(k)' = Stair(k) /\ Lag(j, k)' = Lag(j, k)
       /\ StepsClearTheBand' = StepsClearTheBand
  BY <1>3, ClimbedStays
<1>13. Here' = lag
  <2>1. Here' = Equilibrium[curve'][Stair(step)'] - held'
    BY <1>3, <1>12 DEF Here, Stair, Last
  <2> QED BY <1>3, <1>12, <2>1 DEF here
<1> HIDE DEF lag
<1> QED BY <1>1, <1>3, <1>10, <1>11, <1>12, <1>13 DEF Reaches

\* A round that is recorded.
LEMMA RoundRecorded ==
  ASSUME TypeInv, RecordInv, pc = "read", phase = "round",
         sweep' = Append(sweep, Round), UNCHANGED <<curve, band, peak>>,
         NEW j \in 1..Joints, j = joint + 1, NEW n, n = step
  PROVE  /\ sweep' \in Seq(Entry) /\ Quiet'
         /\ Climbed(j, n)'
         /\ Lag(j, n)' = Here
<1>1. /\ n \in 1..Last /\ n - 1 \in Nat /\ n \in Nat /\ Last \in Nat /\ Steps \in Nat
      /\ j \in Nat \ {0} /\ Begin(j) \in Nat /\ wire \in Int /\ held \in Int /\ band \in Nat
  <2>1. /\ n \in 1..Last /\ Last \in Nat /\ Steps \in Nat /\ held \in Int /\ band \in Nat
    BY StaircaseAssumption DEF TypeInv, TypeOK, StaircaseTypeOK, Sized, Last
  <2>2. wire \in Int
    BY LineAssumption DEF TypeInv, TypeOK, LineTypeOK
  <2>3. j \in Nat \ {0}
    BY StaircaseAssumption
  <2> QED BY <2>1, <2>2, <2>3, StairsCount
<1>2. /\ sweep \in Seq(Entry) /\ Quiet /\ Climbed(j, n - 1) /\ Reaches(j)
  BY DEF RecordInv, Recording, Climbing
<1> DEFINE last == Begin(j) + n
<1>3. Len(sweep) = last - 1 /\ last \in Nat /\ last - 1 \in Nat
  BY <1>1, <1>2 DEF Climbed
<1>4. /\ Round \in Entry
      /\ Round[j].applied = wire /\ Round[j].error = -held
      /\ \A i \in 1..Joints : i # j => Round[i].applied = 0
  BY <1>1 DEF Round, Entry
<1> DEFINE longer == Append(sweep, Round)
<1> HIDE DEF Round
<1>5. /\ longer \in Seq(Entry) /\ Len(longer) = last /\ DOMAIN longer = 1..last
      /\ longer[last] = Round
      /\ \A i \in 1..(last - 1) : longer[i] = sweep[i]
  BY <1>2, <1>3, <1>4
<1> HIDE DEF longer, last
<1>6. sweep' = longer
  BY DEF longer
<1>7. Quiet'
  <2>1. ASSUME NEW i \in 1..last, NEW k \in 1..Joints, i <= Begin(k)
        PROVE  longer[i][k].applied = 0
    <3>1. CASE i <= last - 1
      <4>1. i \in 1..(last - 1) /\ i \in DOMAIN sweep
        BY <1>2, <1>3, <3>1
      <4> QED BY <1>2, <1>5, <2>1, <4>1 DEF Quiet
    <3>2. CASE i = last
      <4>1. k # j
        BY <1>1, <2>1, <3>2 DEF last
      <4> QED BY <1>4, <1>5, <3>2, <4>1
    <3> QED BY <1>3, <3>1, <3>2
  <2>2. \A k : Begin(k)' = Begin(k)
    BY DEF Begin, Last
  <2> QED BY <1>5, <1>6, <2>1, <2>2 DEF Quiet
<1>8. ASSUME NEW k
      PROVE  Stair(k)' = Stair(k)
  BY DEF Stair, Last
<1>9. StepsClearTheBand' = StepsClearTheBand /\ Begin(j)' = Begin(j) /\ Last' = Last
  BY <1>8 DEF StepsClearTheBand, Last, Begin
<1> HIDE DEF Stair
<1>10. ASSUME NEW k \in 1..(n - 1)
       PROVE  Lag(j, k)' = Lag(j, k) /\ Carried(j, k)' = Carried(j, k)
  <2>1. Begin(j) + k \in 1..(last - 1)
    BY <1>1 DEF last
  <2>2. sweep'[Begin(j) + k] = sweep[Begin(j) + k]
    BY <1>5, <1>6, <2>1
  <2> QED BY <1>8, <1>9, <2>2 DEF Lag, Carried
<1>11. Lag(j, n)' = Here /\ Carried(j, n)' = Stair(n)
  <2>1. sweep'[Begin(j) + n] = Round
    BY <1>5, <1>6 DEF last
  <2>2. Lag(j, n)' = Equilibrium[curve][Stair(n)] + (-held) /\ Carried(j, n)' = wire
    BY <1>4, <1>8, <1>9, <2>1 DEF Lag, Carried
  <2>3. Equilibrium[curve][Stair(n)] \in Int
    BY <1>1, StairEquilibrium
  <2>4. Equilibrium[curve][Stair(n)] + (-held) = Here
    BY <1>1, <2>3 DEF Here
  <2> QED BY <1>2, <2>2, <2>4 DEF Reaches
<1>12. Climbed(j, n)'
  <2> DEFINE lag(k) == IF k = n THEN Here ELSE Lag(j, k)
  <2>1. ASSUME NEW k \in 1..n
        PROVE  Lag(j, k)' = lag(k) /\ Carried(j, k)' = Stair(k) /\ (k # n => k \in 1..(n - 1))
    <3>1. k # n => k \in 1..(n - 1)
      BY <1>1
    <3> QED BY <1>2, <1>10, <1>11, <3>1 DEF Climbed
  <2>2. Here \in -band..band
    BY <1>2 DEF Reaches
  <2>3. \A k \in 1..n : lag(k) \in -band..band
    BY <1>2, <2>1, <2>2 DEF Climbed
  <2>4. \A k, l \in 1..n : k < l /\ l < Steps => lag(k) <= lag(l)
    <3> SUFFICES ASSUME NEW k \in 1..n, NEW l \in 1..n, k < l, l < Steps
                 PROVE  lag(k) <= lag(l)
      OBVIOUS
    <3>1. k \in 1..(n - 1) /\ k # n
      BY <1>1
    <3>2. CASE l = n
      BY <1>2, <3>1, <3>2 DEF Reaches
    <3>3. CASE l # n
      BY <1>2, <2>1, <3>1, <3>3 DEF Climbed
    <3> QED BY <3>2, <3>3
  <2>5. \A k, l \in 1..n : k < l /\ Steps <= k => lag(l) <= lag(k)
    <3> SUFFICES ASSUME NEW k \in 1..n, NEW l \in 1..n, k < l, Steps <= k
                 PROVE  lag(l) <= lag(k)
      OBVIOUS
    <3>1. k \in 1..(n - 1) /\ k # n
      BY <1>1
    <3>2. CASE l = n
      <4>1. ~(n < Steps)
        BY <1>1, <3>2
      <4> QED BY <1>2, <3>1, <3>2, <4>1 DEF Reaches
    <3>3. CASE l # n
      BY <1>2, <2>1, <3>1, <3>3 DEF Climbed
    <3> QED BY <3>2, <3>3
  <2>6. StepsClearTheBand => \A k \in 1..n : lag(k) = IF k < Steps THEN band ELSE -band
    BY <1>2, <2>1 DEF Climbed, Reaches
  <2> HIDE DEF lag
  <2> QED BY <1>5, <1>6, <1>8, <1>9, <2>1, <2>3, <2>4, <2>5, <2>6 DEF Climbed, last
<1> QED BY <1>5, <1>6, <1>7, <1>11, <1>12

\* Only a reading on the staircase is recorded.
LEMMA OnlyRoundsRecorded ==
  ASSUME Record, pc # "read" \/ phase # "round" \/ pc' \notin {"push", "joint"}
  PROVE  UNCHANGED sweep
  BY DEF Record, NextRound, LastRound, PushFor, Goto

\* A step that leaves the joint, or ends the command.
LEMMA RecordKept ==
  ASSUME RecordInv, UNCHANGED <<sweep, phase, peak>>,
         pc' \notin {"starting", "joint", "push", "read"}
  PROVE  RecordInv'
<1>1. Quiet' = Quiet
  BY DEF Quiet, Begin, Last
<1>2. \A q : Whole(q)' = Whole(q)
  BY DEF Whole, Rungs
<1>3. Entry' = Entry
  BY DEF Entry
<1> QED BY <1>1, <1>2, <1>3 DEF RecordInv, Recording

\* A reading that begins the next push of the same joint before the staircase.
LEMMA ProbingKeeps ==
  ASSUME RecordInv, UNCHANGED <<sweep, joint>>, pc = "read", pc' = "push", phase # "round",
         phase' # "round" \/ step' = 1,
         phase' \in {"probe", "arrive", "round"} => \E q : Whole(q)'
  PROVE  RecordInv'
<1>1. Quiet' = Quiet /\ Entry' = Entry
  BY DEF Quiet, Begin, Last, Entry
<1>2. Len(sweep) = Begin(joint + 1) + 0
  BY DEF RecordInv, Recording, Climbed, Climbing
<1>3. PICK j : j = joint + 1
  OBVIOUS
<1>4. (joint + 1)' = j /\ Begin(j)' = Begin(j)
  BY <1>3 DEF Begin, Last
<1>5. Climbing' = 0
  BY DEF Climbing
<1>6. Climbed(j, 0)'
  BY <1>2, <1>3, <1>4 DEF Climbed
<1>7. Recording'
  BY <1>4, <1>5, <1>6 DEF Recording
<1> QED BY <1>1, <1>7 DEF RecordInv

\* A push records nothing; what it makes of the joint may be recorded.
LEMMA PushRecords ==
  ASSUME TypeInv, OnLadder, RecordInv, Push, UNCHANGED sweep
  PROVE  RecordInv'
<1>1. /\ pc = "push" /\ pc' = "read"
      /\ UNCHANGED <<joint, phase, curve, band, peak, step, sweep>>
  BY DEF Push, Send, jointVars, sizing
<1>2. PICK j : j = joint + 1
  OBVIOUS
<1>3. (joint + 1)' = j /\ Climbing' = Climbing
  BY <1>1, <1>2 DEF Climbing
<1>4. PICK r : r = Climbing
  OBVIOUS
<1>5. Climbed(j, r)
  BY <1>1, <1>2, <1>4 DEF RecordInv, Recording
<1>6. Climbed(j, r)'
  BY <1>1, <1>5, ClimbedStays
<1>7. phase = "round" => Reaches(j)'
  BY <1>1, <1>2, PushReaches DEF RecordInv
<1>8. Recording'
  BY <1>1, <1>3, <1>4, <1>6, <1>7 DEF Recording
<1>9. Quiet' = Quiet /\ Entry' = Entry /\ \A q : Whole(q)' = Whole(q)
  BY <1>1 DEF Quiet, Begin, Last, Entry, Whole, Rungs
<1> QED BY <1>1, <1>8, <1>9 DEF RecordInv

\* The sizes of the probe and of the staircase.
LEMMA SizesAreWhole ==
  ASSUME TypeInv, RecordInv, SizeFromSeed \/ SizeFromProbe \/ ProbeHits \/ Arrive
  PROVE  \E q : Whole(q)'
<1>1. TypeOK /\ seed \in Nat \ {0} /\ peak \in Nat /\ Response \in Nat /\ Travelled \in Nat
  BY MagnitudeNat DEF TypeInv, TypeOK, StaircaseTypeOK, Response, Travelled
<1>2. \A q : Whole(q)' <=> q \in Nat \ {0} /\ peak' = (Steps - 1) * q
  BY DEF Whole, Rungs
<1>3. phase \in {"probe", "arrive"} => \E q : Whole(q)
  BY DEF RecordInv
<1>4. CASE SizeFromSeed
  <2>1. seed # 0 /\ Sizes(seed, Response) /\ peak' = Wanted(seed, Response)
    BY <1>1, <1>4 DEF SizeFromSeed
  <2> QED BY <1>1, <1>2, <2>1, WantedBounded
<1>5. CASE SizeFromProbe
  <2>1. phase = "probe" /\ Sizes(peak, Travelled) /\ peak' = Wanted(peak, Travelled)
    BY <1>5 DEF SizeFromProbe
  <2>2. PICK q : q \in Nat \ {0} /\ peak = Rungs * q
    BY <1>3, <2>1 DEF Whole
  <2>3. Rungs \in Nat \ {0}
    BY StairsCount
  <2>4. Rungs * q # 0
    BY <2>2, <2>3, SMT
  <2>5. peak # 0
    BY <2>2, <2>4
  <2> QED BY <1>1, <1>2, <2>1, <2>5, WantedBounded
<1>6. CASE ProbeHits \/ Arrive
  <2>1. phase \in {"probe", "arrive"} /\ peak' = peak
    BY <1>6 DEF ProbeHits, Arrive, PushFor
  <2> QED BY <1>2, <1>3, <2>1 DEF Whole, Rungs
<1> QED BY <1>4, <1>5, <1>6

\* A round is recorded, and the next one begun.
LEMMA NextRoundRecords ==
  ASSUME TypeInv, RecordInv, NextRound, Record
  PROVE  RecordInv'
<1> USE DEF PushFor, Goto, jointVars, standing
<1>1. /\ pc = "read" /\ pc' = "push" /\ phase = "round" /\ phase' = "round" /\ step' = step + 1
      /\ UNCHANGED <<joint, curve, band, held, peak>> /\ sweep' = Append(sweep, Round)
  BY DEF NextRound, Record
<1>2. step \in Nat /\ joint + 1 \in 1..Joints
  BY <1>1, StaircaseAssumption
     DEF TypeInv, TypeOK, StaircaseTypeOK, Counted, Last
<1>3. PICK j \in 1..Joints, n \in Nat : j = joint + 1 /\ n = step
  BY <1>2
<1>4. sweep' \in Seq(Entry) /\ Quiet' /\ Climbed(j, n)' /\ Lag(j, n)' = Here
  BY <1>1, <1>3, RoundRecorded
<1>5. (joint + 1)' = j /\ Climbing' = n /\ (step - 1)' = n
  BY <1>1, <1>2, <1>3 DEF Climbing
<1>6. Here = (Equilibrium[curve][Stair(n)] - held)'
  BY <1>1, <1>3 DEF Here, Stair, Last
<1>7. Recording'
  BY <1>1, <1>4, <1>5, <1>6 DEF Recording
<1>8. Entry' = Entry /\ \A q : Whole(q)' = Whole(q)
  BY <1>1 DEF Entry, Whole, Rungs
<1> QED BY <1>1, <1>4, <1>7, <1>8 DEF RecordInv

\* The last round of a joint is recorded.
LEMMA LastRoundRecords ==
  ASSUME TypeInv, RecordInv, LastRound, Record
  PROVE  RecordInv'
<1> USE DEF Goto, jointVars, standing, sizing
<1>1. /\ pc = "read" /\ pc' = "joint" /\ phase = "round" /\ phase' = "round" /\ step = Last
      /\ joint' = joint + 1
      /\ UNCHANGED <<curve, band, held, peak, step>> /\ sweep' = Append(sweep, Round)
  BY DEF LastRound, Record
<1>2. step \in Nat /\ joint + 1 \in 1..Joints
  BY <1>1, StaircaseAssumption DEF TypeInv, TypeOK, StaircaseTypeOK, Counted
<1>3. PICK j \in 1..Joints, n \in Nat : j = joint + 1 /\ n = step
  BY <1>2
<1>4. sweep' \in Seq(Entry) /\ Quiet' /\ Climbed(j, n)'
  BY <1>1, <1>3, RoundRecorded
<1>5. joint' = j /\ n = Last /\ Last' = Last /\ Begin(j)' = Begin(j)
  BY <1>1, <1>3 DEF Last, Begin
<1>6. Len(sweep)' = Last * j
  <2>1. Len(sweep)' = Begin(j) + Last
    BY <1>4, <1>5 DEF Climbed
  <2>2. j \in Int /\ Last \in Int
    BY StairsCount
  <2>3. Last * (j - 1) + Last = Last * j
    <3> DEFINE l == Last
    <3> HIDE DEF l
    <3>1. l \in Int
      BY <2>2 DEF l
    <3>2. l * (j - 1) + l = l * j
      BY <2>2, <3>1, SMT
    <3> QED BY <3>2 DEF l
  <2> QED BY <2>1, <2>3 DEF Begin
<1>7. Recording'
  BY <1>1, <1>4, <1>5, <1>6 DEF Recording
<1>8. Entry' = Entry /\ \A q : Whole(q)' = Whole(q)
  BY <1>1 DEF Entry, Whole, Rungs
<1> QED BY <1>1, <1>4, <1>7, <1>8 DEF RecordInv

\* The command begins, or the next joint.
LEMMA BeginRecords ==
  ASSUME TypeInv, RecordInv, BeginTorque \/ BeginJoint, UNCHANGED sweep
  PROVE  RecordInv'
<1>1. Quiet' = Quiet /\ Entry' = Entry
  BY DEF Quiet, Begin, Last, Entry
<1>2. CASE BeginTorque
  <2>1. pc = "starting" /\ pc' = "joint" /\ UNCHANGED <<joint, phase, peak>>
    BY <1>2 DEF BeginTorque, Goto, staircaseVars, sizing
  <2>2. sweep = <<>> /\ joint = 0
    BY <2>1 DEF RecordInv, Recording
  <2>3. Len(sweep)' = 0 /\ joint' = 0 /\ Last' * 0 = 0
    BY <2>1, <2>2, StairsCount DEF Last
  <2>4. Recording'
    BY <2>1, <2>3 DEF Recording
  <2>5. \A q : Whole(q)' = Whole(q)
    BY <2>1 DEF Whole, Rungs
  <2> QED BY <1>1, <2>1, <2>4, <2>5 DEF RecordInv
<1>3. CASE BeginJoint
  <2>1. pc = "joint" /\ pc' = "push" /\ phase' = "baseline" /\ UNCHANGED joint
    BY <1>3 DEF BeginJoint, Goto
  <2>2. Len(sweep) = Last * joint /\ joint \in Nat
    BY <2>1 DEF RecordInv, Recording, TypeInv, TypeOK, StaircaseTypeOK
  <2>3. PICK j : j = joint + 1
    OBVIOUS
  <2>4. Len(sweep)' = Begin(j)' + 0
    <3>1. j - 1 = joint /\ Last \in Nat
      BY <2>2, <2>3, StairsCount
    <3>2. Last * joint \in Int /\ Last * joint + 0 = Last * joint
      BY <2>2, <3>1, SMT
    <3> QED BY <2>2, <3>1, <3>2 DEF Begin, Last
  <2>5. (joint + 1)' = j /\ Climbing' = 0
    BY <2>1, <2>3 DEF Climbing
  <2>6. Climbed(j, 0)'
    BY <2>4 DEF Climbed
  <2>7. Recording'
    BY <2>1, <2>5, <2>6 DEF Recording
  <2> QED BY <1>1, <2>1, <2>7 DEF RecordInv
<1> QED BY <1>2, <1>3

\* A step of the staircase.
LEMMA StaircaseRecords ==
  ASSUME TypeInv, OnLadder, RecordInv, StaircaseStep, Record
  PROVE  RecordInv'
<1> USE DEF Goto, Raise, PushFor, RefuseAt, staircaseVars, jointVars, standing, sizing
<1>1. CASE AllMeasured \/ TorqueCallFails \/ SeedTooFar \/ SeedAtCeiling \/ SeedUnheard
           \/ OutsideRoom \/ CannotSize
  <2>1. pc' = "releasing" /\ UNCHANGED <<phase, peak>>
    BY <1>1 DEF AllMeasured, TorqueCallFails, SeedTooFar, SeedAtCeiling, SeedUnheard,
                OutsideRoom, CannotSize
  <2> QED BY <2>1, OnlyRoundsRecorded, RecordKept
<1>2. CASE BeginTorque \/ BeginJoint
  <2>1. pc # "read"
    BY <1>2 DEF BeginTorque, BeginJoint
  <2> QED BY <1>2, <2>1, OnlyRoundsRecorded, BeginRecords
<1>3. CASE Push
  <2>1. pc # "read"
    BY <1>3 DEF Push
  <2> QED BY <1>3, <2>1, OnlyRoundsRecorded, PushRecords
<1>4. CASE ReadBaseline \/ SeedMoves \/ SeedDoubles
  <2>1. /\ pc = "read" /\ pc' = "push" /\ phase # "round" /\ phase' \in {"seed", "confirm"}
        /\ UNCHANGED joint
    BY <1>4 DEF ReadBaseline, SeedMoves, SeedDoubles, SeedStays
  <2> QED BY <2>1, OnlyRoundsRecorded, ProbingKeeps
<1>5. CASE SizeFromSeed \/ ProbeHits \/ SizeFromProbe \/ Arrive
  <2>1. /\ pc = "read" /\ pc' = "push" /\ phase # "round" /\ UNCHANGED joint
        /\ phase' # "round" \/ step' = 1
    BY <1>5 DEF SizeFromSeed, ProbeHits, SizeFromProbe, Arrive
  <2>2. \E q : Whole(q)'
    BY <1>5, SizesAreWhole
  <2> QED BY <2>1, <2>2, OnlyRoundsRecorded, ProbingKeeps
<1>6. CASE NextRound
  BY <1>6, NextRoundRecords
<1>7. CASE LastRound
  BY <1>7, LastRoundRecords
<1> QED BY <1>1, <1>2, <1>3, <1>4, <1>5, <1>6, <1>7 DEF StaircaseStep

\* The other commands record nothing, and never come to the staircase.
LEMMA OthersRecord ==
  ASSUME RecordInv, LineStep \/ SweepStep \/ ReadyStep, UNCHANGED staircaseVars, Record
  PROVE  RecordInv'
<1>1. pc' \notin {"starting", "joint", "push", "read"}
  BY DEF LineStep, StartFails, Review, WriteFails, Finish, ReleaseSent, ReleaseFails,
         Interrupt, SweepStep, BeginGravity, BeginPoses, Move, MoveFails, PublishLoad,
         LoadRefused, SweepCallFails, Measure, NextPose, ReadyStep, BeginReady, Check,
         CycleTorque, StreamPoint, SettleOn, SettlePasses, SettleTimesOut, Settle,
         Tracked, TimeoutHold, ReadyCallFails, ExceptionHold, ExceptionHoldFails,
         Hold, Leave, Raise, Goto, Send
<1>2. UNCHANGED <<phase, peak>>
  BY DEF staircaseVars, sizing
<1> QED BY <1>1, <1>2, OnlyRoundsRecorded, RecordKept

\* A stuttering step changes nothing.
LEMMA RecordStutters ==
  ASSUME RecordInv, UNCHANGED recordedVars
  PROVE  RecordInv'
<1>1. /\ UNCHANGED <<pc, wire, joint, phase, curve, band, held, peak, step, sweep>>
  BY DEF recordedVars, vars, lineVars, staircaseVars, jointVars, standing, sizing
<1>2. PICK j, r, l : j = joint + 1 /\ r = Climbing /\ l = joint
  OBVIOUS
<1>3. (joint + 1)' = j /\ Climbing' = r /\ joint' = l /\ Last' = Last
  BY <1>1, <1>2 DEF Climbing, Last
<1>4. /\ Climbed(j, r)' = Climbed(j, r) /\ Climbed(l, Last)' = Climbed(l, Last)
      /\ \A k : Stair(k)' = Stair(k) /\ Lag(j, k)' = Lag(j, k)
      /\ StepsClearTheBand' = StepsClearTheBand
  BY <1>1, <1>3, ClimbedStays
<1>5. Here' = Here /\ Equilibrium[curve][Stair(step - 1)]' = Equilibrium[curve][Stair(step - 1)]
        /\ Stair(step)' = Stair(step)
  BY <1>1 DEF Here, Stair, Last
<1>6. Lag(j, step - 1)' = Lag(j, step - 1)
  BY <1>1 DEF Lag, Begin, Stair, Last
<1>7. Reaches(j)' = Reaches(j)
  BY <1>1, <1>4, <1>5 DEF Reaches
<1>8. Recording'
  BY <1>1, <1>2, <1>3, <1>4, <1>5, <1>6, <1>7 DEF RecordInv, Recording
<1>9. Quiet' = Quiet /\ Entry' = Entry /\ \A q : Whole(q)' = Whole(q)
  BY <1>1 DEF Quiet, Begin, Last, Entry, Whole, Rungs
<1> QED BY <1>1, <1>8, <1>9 DEF RecordInv

\* At first nothing is recorded.
LEMMA RecordInit == RecordedInit => RecordInv
<1> SUFFICES ASSUME RecordedInit PROVE RecordInv
  OBVIOUS
<1>1. sweep = <<>> /\ joint = 0 /\ phase = "baseline" /\ pc = "starting"
  BY DEF RecordedInit, Init, LineInit, StaircaseInit
<1>2. sweep \in Seq(Entry) /\ Quiet
  BY <1>1 DEF Quiet
<1> QED BY <1>1, <1>2 DEF RecordInv, Recording

\* The invariant behind the fit.
THEOREM RecordInvariant == RecordedSpec => [](TypeInv /\ RecordInv)
<1>1. TypeInv /\ OnLadder /\ RecordInv /\ [Next /\ Record]_recordedVars => RecordInv'
  <2>1. SUFFICES ASSUME TypeInv, OnLadder, RecordInv, [Next /\ Record]_recordedVars
                 PROVE  RecordInv'
    OBVIOUS
  <2>2. CASE UNCHANGED recordedVars
    BY <2>1, <2>2, RecordStutters
  <2>3. CASE Next /\ Record
    <3>1. CASE StaircaseStep
      BY <2>1, <2>3, <3>1, StaircaseRecords
    <3>2. CASE (LineStep \/ SweepStep \/ ReadyStep) /\ UNCHANGED staircaseVars
      BY <2>1, <2>3, <3>2, OthersRecord
    <3> QED BY <2>3, <3>1, <3>2 DEF Next, LineStep
  <2> QED BY <2>1, <2>2, <2>3
<1>2. RecordedSpec => [](TypeInv /\ OnLadder)
  BY RecordedIsACommand, TypeInvariant, LadderInvariant, PTL
<1> QED BY <1>1, <1>2, RecordInit, PTL DEF RecordedSpec

\* Of a joint that is a spring with dry friction, `r2s identify` reports the stiffness
\* and the friction it has, from the rounds `pose torque` recorded of it, wherever the
\* torques clear the friction band; and never a softer joint or more friction where
\* they do not, whatever other joints are in the same file (fit_staircase of what
\* measure_staircase returned; excitation.py:504-506).
THEOREM FitsTheJoint == RecordedSpec => []FitIsTheJoint
<1>1. TypeInv /\ RecordInv => FitIsTheJoint
  <2> SUFFICES ASSUME TypeInv, RecordInv, Measured, Spring
               PROVE  LET fit == StaircaseFit(<<sweep>>, joint)
                      IN /\ fit.compliance <= Compliance * fit.per
                         /\ fit.friction <= band * fit.cost
                         /\ StepsClearTheBand =>
                              /\ StaircaseMeasures(<<sweep>>, joint)
                              /\ fit.compliance = Compliance * fit.per
                              /\ fit.friction = band * fit.cost
    BY Zenon DEF FitIsTheJoint
  <2>1. pc = "joint" /\ joint \in 1..Joints
    BY StaircaseAssumption DEF Measured, TypeInv, TypeOK, StaircaseTypeOK
  <2>2. phase = "round" /\ Climbed(joint, Last)
    BY <2>1 DEF RecordInv, Recording
  <2>3. PICK q : Whole(q)
    BY <2>2 DEF RecordInv
  <2> QED BY <2>1, <2>2, <2>3, FitOfSpring DEF RecordInv
<1> QED BY <1>1, RecordInvariant, PTL
=============================================================================
