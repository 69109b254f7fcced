----------------------------- MODULE Staircase -----------------------------
(***************************************************************************)
(* `pose torque` (src/robot_control/cli.py, excitation.py): each joint is  *)
(* pushed with a seed torque that doubles until it moves, the staircase is *)
(* sized from what it moved, and climbed and descended once.  Every push   *)
(* is published, held and followed by a reading.                           *)
(*                                                                         *)
(* The joint is the environment.  It stands where it was left until the    *)
(* torque moves its equilibrium further than its friction band; how far a  *)
(* torque carries the equilibrium is any monotone curve.  Positions are    *)
(* deflections from where the joint stands without torque, integers with   *)
(* one unit below what counts as noise; quotients are rounded up, to a     *)
(* torque whose staircase has whole torques.                               *)
(***************************************************************************)
EXTENDS EffortLine

CONSTANTS
  Joints,        \* joints to measure
  Seed,          \* SEED_TORQUE_NM
  MaxDoublings,  \* MAX_SEED_DOUBLINGS
  Moved,         \* the reading that counts as motion
  Deflection,    \* --deflection
  Steps,         \* --steps
  Equilibrium,   \* by curve, where a torque moves the equilibrium
  Bands,         \* Fc/kp
  Rooms,         \* how far a pose may let the joint travel
  Ratings        \* effort bounds of the joints

Torques == -EffortLimit..EffortLimit
Curves == DOMAIN Equilibrium

ASSUME StaircaseAssumption ==
  /\ Joints \in Nat \ {0} /\ Seed \in Nat \ {0} /\ MaxDoublings \in Nat
  /\ Moved \in Nat \ {0} /\ Deflection \in Nat \ {0}
  /\ Steps \in Nat /\ Steps >= 4
  /\ Equilibrium \in [Curves -> [Torques -> Int]]
  /\ \A c \in Curves : \A s, t \in Torques : s <= t => Equilibrium[c][s] <= Equilibrium[c][t]
  /\ Bands \subseteq Nat /\ Rooms \subseteq Int
  /\ Ratings \subseteq Seed..EffortLimit

VARIABLES
  joint,      \* joints measured so far
  phase,      \* what the next push, or the next reading, is for
  curve,      \* the joint under test
  band,
  room,       \* _room_to_stop
  rating,     \* limit.effort
  held,       \* where it stands
  direction,  \* the way it last moved
  baseline,   \* the reading at zero torque
  seed,       \* seed_nm
  doublings,  \* times it was doubled
  first,      \* the reading that showed motion
  peak,       \* peak_nm
  step        \* the torque of the staircase being held

jointVars == <<curve, band, room, rating>>
standing == <<held, direction>>
sizing == <<baseline, seed, doublings, first, peak, step>>
staircaseVars == <<joint, phase, jointVars, standing, sizing>>

Phases == {"baseline", "seed", "confirm", "probe", "arrive", "round"}

StaircaseInit ==
  /\ joint = 0 /\ phase = "baseline"
  /\ curve \in Curves /\ band \in Bands /\ room \in Rooms /\ rating \in Ratings
  /\ held = 0 /\ direction = "none"
  /\ baseline = 0 /\ seed = Seed /\ doublings = 0 /\ first = 0 /\ peak = 0 /\ step = 0

-----------------------------------------------------------------------------
\* MAX_PROBE_FRACTION of the rating.
Ceiling == rating \div 4

Magnitude(x) == IF x < 0 THEN -x ELSE x
Travelled == Magnitude(held - baseline)
LeftRoom == Travelled > room

\* How much further the next seed carries the joint, at least.
Reach == IF doublings > 0 THEN 3 ELSE 2

\* probe_torque: what should deflect the joint by Deflection, when torque
\* deflected it by response.
Wanted(torque, response) ==
  LET rungs == Steps - 1
  IN rungs * ((Deflection * torque + rungs * response - 1) \div (rungs * response))
Sizes(torque, response) ==
  response # 0 /\ Deflection <= room /\ Wanted(torque, response) <= Ceiling

\* staircase: from -peak to peak in Steps torques, and back.
Last == 2 * Steps - 2
Stair(n) ==
  LET rung == IF n < Steps THEN n ELSE Last - n
  IN -peak + (2 * peak * rung) \div (Steps - 1)
Branch == IF step < Steps THEN "up" ELSE "down"

Torque ==
  CASE phase = "baseline" -> 0
    [] phase = "seed" -> seed
    [] phase = "confirm" -> 2 * seed
    [] phase = "probe" -> peak
    [] OTHER -> Stair(step)

-----------------------------------------------------------------------------
BeginTorque == pc = "starting" /\ command = "torque" /\ Goto("joint") /\ UNCHANGED staircaseVars

\* The next joint, standing somewhere in its band.
BeginJoint ==
  /\ pc = "joint" /\ joint < Joints
  /\ curve' \in Curves /\ band' \in Bands /\ room' \in Rooms /\ rating' \in Ratings
  /\ held' \in (Equilibrium[curve'][0] - band')..(Equilibrium[curve'][0] + band') /\ direction' = "none"
  /\ phase' = "baseline"
  /\ Goto("push")
  /\ UNCHANGED <<joint, sizing>>

AllMeasured ==
  /\ pc = "joint" /\ joint = Joints
  /\ Goto("releasing") /\ UNCHANGED staircaseVars

\* The torque passes the gate, the probe's ceiling being a quarter of the bound.
\* It is published and held until the joint has come to rest: where it stood, or
\* at the near edge of the new band.
Push ==
  /\ pc = "push"
  /\ LET low == Equilibrium[curve][Torque] - band
         high == Equilibrium[curve][Torque] + band
     IN \/ held < low /\ held' = low /\ direction' = "up"
        \/ held > high /\ held' = high /\ direction' = "down"
        \/ low <= held /\ held <= high /\ UNCHANGED standing
  /\ Send(Torque, "read")
  /\ UNCHANGED <<joint, phase, jointVars, sizing>>

TorqueCallFails == pc \in {"push", "read"} /\ Raise("unusable") /\ UNCHANGED staircaseVars

\* ExcitationRefused.
RefuseAt(phases) == pc = "read" /\ phase \in phases /\ Raise("unusable") /\ UNCHANGED staircaseVars

\* The reading was taken, and the next push is for this.
PushFor(next) ==
  /\ pc = "read" /\ phase' = next
  /\ Goto("push")
  /\ UNCHANGED <<joint, jointVars, standing>>

ReadBaseline ==
  /\ phase = "baseline" /\ PushFor("seed")
  /\ baseline' = held /\ seed' = Seed /\ doublings' = 0
  /\ UNCHANGED <<first, peak, step>>

-----------------------------------------------------------------------------
(* _seed_response, in the order of its checks.                             *)

\* The joint left its room, or the next seed would carry it out.
SeedTooFar == (LeftRoom \/ Reach * Travelled > room) /\ RefuseAt({"seed"})

SeedStays == pc = "read" /\ phase = "seed" /\ ~LeftRoom /\ Reach * Travelled <= room

\* Stuck or not, twice this seed is more than the probe may publish.
SeedAtCeiling == SeedStays /\ 2 * seed > Ceiling /\ RefuseAt({"seed"})

SeedMoves ==
  /\ SeedStays /\ 2 * seed <= Ceiling /\ Travelled >= Moved
  /\ PushFor("confirm") /\ first' = held
  /\ UNCHANGED <<baseline, seed, doublings, peak, step>>

SeedDoubles ==
  /\ SeedStays /\ 2 * seed <= Ceiling /\ Travelled < Moved
  /\ doublings < MaxDoublings
  /\ PushFor("seed") /\ seed' = 2 * seed /\ doublings' = doublings + 1
  /\ UNCHANGED <<baseline, first, peak, step>>

SeedUnheard ==
  /\ SeedStays /\ 2 * seed <= Ceiling /\ Travelled < Moved
  /\ doublings = MaxDoublings
  /\ RefuseAt({"seed"})

-----------------------------------------------------------------------------
(* _probe_peak.                                                            *)

\* Out of its room after the confirming seed, the probe, or a torque of the
\* staircase, its first one included.
OutsideRoom == LeftRoom /\ RefuseAt({"confirm", "probe", "arrive", "round"})

Response == Magnitude(held - first)

SizeFromSeed ==
  /\ phase = "confirm" /\ ~LeftRoom /\ Sizes(seed, Response)
  /\ PushFor("probe") /\ peak' = Wanted(seed, Response)
  /\ UNCHANGED <<baseline, seed, doublings, first, step>>

OnTarget == 10 * Magnitude(Travelled - Deflection) <= Deflection

Bug_ArrivalIsARound ==
  /\ phase = "probe" /\ ~LeftRoom /\ OnTarget
  /\ PushFor("round") /\ step' = 0
  /\ UNCHANGED <<baseline, seed, doublings, first, peak>>

ProbeHits ==
  /\ phase = "probe" /\ ~LeftRoom /\ OnTarget
  /\ PushFor("arrive") /\ step' = 0
  /\ UNCHANGED <<baseline, seed, doublings, first, peak>>

\* Sized once more, from the deflection of the probe.
SizeFromProbe ==
  /\ phase = "probe" /\ ~LeftRoom /\ ~OnTarget /\ Sizes(peak, Travelled)
  /\ PushFor("arrive") /\ step' = 0 /\ peak' = Wanted(peak, Travelled)
  /\ UNCHANGED <<baseline, seed, doublings, first>>

CannotSize ==
  /\ ~LeftRoom
  /\ \/ phase = "confirm" /\ ~Sizes(seed, Response)
     \/ phase = "probe" /\ ~OnTarget /\ ~Sizes(peak, Travelled)
  /\ RefuseAt({"confirm", "probe"})

-----------------------------------------------------------------------------
(* measure_staircase.  The torque the joint arrives at is not a round.     *)

Bug_ArrivalUnread ==
  /\ phase = "arrive"
  /\ PushFor("round") /\ step' = 1
  /\ UNCHANGED <<baseline, seed, doublings, first, peak>>

Arrive ==
  /\ phase = "arrive" /\ ~LeftRoom
  /\ PushFor("round") /\ step' = 1
  /\ UNCHANGED <<baseline, seed, doublings, first, peak>>

NextRound ==
  /\ phase = "round" /\ ~LeftRoom /\ step < Last
  /\ PushFor("round") /\ step' = step + 1
  /\ UNCHANGED <<baseline, seed, doublings, first, peak>>

LastRound ==
  /\ pc = "read" /\ phase = "round" /\ ~LeftRoom /\ step = Last
  /\ joint' = joint + 1
  /\ Goto("joint")
  /\ UNCHANGED <<phase, jointVars, standing, sizing>>

StaircaseStep ==
  \/ BeginTorque \/ BeginJoint \/ AllMeasured \/ Push \/ TorqueCallFails
  \/ ReadBaseline
  \/ SeedTooFar \/ SeedAtCeiling \/ SeedMoves \/ SeedDoubles \/ SeedUnheard
  \/ OutsideRoom \/ SizeFromSeed \/ ProbeHits \/ SizeFromProbe \/ CannotSize
  \/ Arrive \/ NextRound \/ LastRound

StaircaseTypeOK ==
  /\ joint \in 0..Joints /\ phase \in Phases
  /\ curve \in Curves /\ band \in Bands /\ room \in Rooms /\ rating \in Ratings
  /\ held \in Int /\ direction \in {"none", "up", "down"}
  /\ baseline \in Int /\ seed \in Nat \ {0} /\ doublings \in 0..MaxDoublings
  /\ first \in Int /\ peak \in Nat /\ step \in 0..Last
=============================================================================
