------------------------- MODULE DiagnosticProfile -------------------------
(***************************************************************************)
(* The deterministic target of a diagnostic follow run                     *)
(* (src/robot_control/diagnostic_profile.py): round trips from the pose    *)
(* the handoff ended in, as a function of the time since the profile was   *)
(* started.  Translation and rotation are measured along their one axis,   *)
(* from the origin; times, lengths and angles are counted in units in      *)
(* which every target at a whole time is a whole number.                   *)
(***************************************************************************)
EXTENDS Naturals

CONSTANT Maximum  \* MAX_DISTANCE_M and the other bounds of the module

ASSUME MaximumAssumption ==
  Maximum \in [{"distance", "angle", "linear", "angular", "hold", "repetitions"} -> Nat]

Kinds == {"translation", "rotation", "combined"}
Part(phase) == phase[2]

Phases ==
  {<<"origin", "hold">>, <<"complete", "complete">>}
    \cup (Kinds \X {"ramp_out", "hold", "ramp_back"})
Targets == [phase : Phases, complete : BOOLEAN, translation : Nat, rotation : Nat]

\* What the constructor accepts.
Constructible(p) ==
  /\ p.kind \in Kinds
  /\ \A name \in DOMAIN Maximum : p[name] \in 1..Maximum[name]

Span(p) == [translation |-> IF p.kind = "rotation" THEN 0 ELSE p.distance,
            rotation |-> IF p.kind = "translation" THEN 0 ELSE p.angle]

\* A motion takes as long as the slower of its two parts.
Ramp(p) ==
  LET there == p.distance \div p.linear
      round == p.angle \div p.angular
  IN CASE p.kind = "translation" -> there
       [] p.kind = "rotation" -> round
       [] p.kind = "combined" -> IF there < round THEN round ELSE there

\* Whether the units are fine enough for a profile.
Whole(p) ==
  /\ p.distance % p.linear = 0 /\ p.angle % p.angular = 0
  /\ Ramp(p) > 0 /\ Span(p).translation % Ramp(p) = 0 /\ Span(p).rotation % Ramp(p) = 0

\* Mutant: the way back is left out.
Bug_Trip(p) ==
  <<[phase |-> <<p.kind, "ramp_out">>, lasts |-> Ramp(p), from |-> 0, to |-> 1],
    [phase |-> <<p.kind, "hold">>, lasts |-> p.hold, from |-> 1, to |-> 1],
    [phase |-> <<p.kind, "ramp_back">>, lasts |-> Ramp(p), from |-> 1, to |-> 1],
    [phase |-> <<"origin", "hold">>, lasts |-> p.hold, from |-> 0, to |-> 0]>>

\* Out, hold, back the same way, hold at the origin.
Trip(p) ==
  <<[phase |-> <<p.kind, "ramp_out">>, lasts |-> Ramp(p), from |-> 0, to |-> 1],
    [phase |-> <<p.kind, "hold">>, lasts |-> p.hold, from |-> 1, to |-> 1],
    [phase |-> <<p.kind, "ramp_back">>, lasts |-> Ramp(p), from |-> 1, to |-> 0],
    [phase |-> <<"origin", "hold">>, lasts |-> p.hold, from |-> 0, to |-> 0]>>

Stages(p) == [n \in 1..(4 * p.repetitions) |-> Trip(p)[((n - 1) % 4) + 1]]

\* When a stage is over, from the start of the profile.
EndOf(p) ==
  LET end[n \in 0..(4 * p.repetitions)] == IF n = 0 THEN 0 ELSE end[n - 1] + Stages(p)[n].lasts
  IN end

Duration(p) == EndOf(p)[4 * p.repetitions]

At(p, progress, over, phase, complete) ==
  [phase |-> phase, complete |-> complete,
   translation |-> (Span(p).translation * progress) \div over,
   rotation |-> (Span(p).rotation * progress) \div over]

Completed(p) == At(p, 0, 1, <<"complete", "complete">>, TRUE)

\* Within a stage the target moves evenly; the moment a stage ends is its own.
Within(p, n, elapsed) ==
  LET stage == Stages(p)[n]
      gone == elapsed - EndOf(p)[n - 1]
      there == stage.lasts * stage.from
  IN At(p, IF stage.to < stage.from THEN there - gone ELSE there + (stage.to - stage.from) * gone,
        stage.lasts, stage.phase, FALSE)

\* Mutant: the profile counts as complete from the moment its end is reached.
Bug_Sample(p, elapsed) ==
  IF elapsed >= Duration(p) - p.hold THEN Completed(p)
  ELSE Within(p, CHOOSE n \in DOMAIN Stages(p) :
                   EndOf(p)[n - 1] < elapsed /\ elapsed <= EndOf(p)[n], elapsed)

\* The target after some time, which is positive whenever the loop asks.
Sample(p, elapsed) ==
  IF elapsed > Duration(p) THEN Completed(p)
  ELSE Within(p, CHOOSE n \in DOMAIN Stages(p) :
                   EndOf(p)[n - 1] < elapsed /\ elapsed <= EndOf(p)[n], elapsed)

\* canonical_profile_phase: the window of a phase, whatever the profile's kind.
Canonical(phase) ==
  CASE Part(phase) = "ramp_out" -> "ramp"
    [] Part(phase) = "ramp_back" -> "return"
    [] Part(phase) = "hold" -> IF phase[1] = "origin" THEN "origin_hold" ELSE "hold"
    [] OTHER -> "none"
=============================================================================
