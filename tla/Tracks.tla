------------------------------ MODULE Tracks ------------------------------
(***************************************************************************)
(* A recording and the track made of it (src/robot_control/track.py): two  *)
(* streams, each on its own clock, are put on one grid of the command      *)
(* rate.  A stream is the sequence of its stamps, in command periods; the  *)
(* values are left out but for how far the command travelled.              *)
(***************************************************************************)
EXTENDS Integers, Sequences

CONSTANTS
  MinimumRange,   \* minimum_range_rad
  MaxGapPeriods   \* max_gap_periods

ASSUME TracksAssumption == MinimumRange \in Nat /\ MaxGapPeriods \in Nat \ {0}

Streams == Seq(Nat)

\* What collect writes of one run: Recording admits neither an empty stream nor
\* a value that is not a number, but any order of stamps.
Recordable(measured) == measured # <<>>

Stamped(stream) ==
  Len(stream) >= 2 /\ \A n \in 1..(Len(stream) - 1) : stream[n] < stream[n + 1]

\* A hole is not drawn across.
Gapless(stream) ==
  \A n \in 1..(Len(stream) - 1) : stream[n + 1] - stream[n] <= MaxGapPeriods

LaterOf(s, t) == IF s < t THEN t ELSE s
EarlierOf(s, t) == IF s < t THEN s ELSE t

\* Where the grid starts and stops: no further than both streams reach, since
\* interpolation repeats the end of a stream beyond it.
Start(command, measured) == LaterOf(command[1], measured[1])
Stop(command, measured) == EarlierOf(command[Len(command)], measured[Len(measured)])

Normalizable(command, measured, range) ==
  /\ Stamped(command) /\ Stamped(measured)
  /\ Gapless(command) /\ Gapless(measured)
  /\ range >= MinimumRange
  /\ Start(command, measured) + 1 <= Stop(command, measured)
=============================================================================
