---------------------------- MODULE JointStates ----------------------------
(***************************************************************************)
(* How the adapter (src/robot_control/ros_adapter.py) sees /joint_states:  *)
(* one subscription serves a read of the latest state and the recording of *)
(* a stream.  The publisher and the middleware are the environment: every  *)
(* reading of the hardware is published once and arrives in order, or is   *)
(* lost; a full history drops its oldest message (best effort, KEEP_LAST). *)
(* A message is the stamp of its reading.  Nothing is delivered unless the *)
(* executor spins, and one spin delivers at most one message.              *)
(***************************************************************************)
EXTENDS Naturals, Sequences

CONSTANTS
  Depth,    \* history depth of the sensor-data profile
  MaxStamp  \* bound: readings the hardware takes

ASSUME JointStatesAssumption == Depth \in Nat \ {0} /\ MaxStamp \in Nat

VARIABLES
  clock,       \* stamp of the newest reading of the hardware
  subscribed,  \* the subscription exists
  history,     \* messages received by the middleware and not taken yet
  latest,      \* _latest, or NoState
  recorder,    \* "on" from start_recording to stop_recording
  recorded     \* the stamps in _recorded that cover the group

jointStatesVars == <<clock, subscribed, history, latest, recorder, recorded>>

Stamps == 1..MaxStamp
NoState == 0

Unsubscribed ==
  /\ subscribed = "no" /\ history = <<>> /\ latest = NoState
  /\ recorder = "off" /\ recorded = <<>>

KeepLast(messages) == IF Len(messages) > Depth THEN Tail(messages) ELSE messages

\* The hardware is read and the reading published.  It may not arrive.
Publish ==
  /\ clock < MaxStamp
  /\ clock' = clock + 1
  /\ \/ subscribed = "yes" /\ history' = KeepLast(Append(history, clock + 1))
     \/ UNCHANGED history
  /\ UNCHANGED <<subscribed, latest, recorder, recorded>>

\* The callback of one message.  One that does not cover the group is counted,
\* not kept.
Record(stamp) ==
  /\ latest' = stamp
  /\ \/ recorder = "on" /\ recorded' = Append(recorded, stamp)
     \/ UNCHANGED recorded

\* spin_once: the oldest message waiting is delivered.
SpinOnce ==
  /\ history # <<>>
  /\ Record(Head(history))
  /\ history' = Tail(history)
  /\ UNCHANGED <<clock, subscribed, recorder>>

\* pump(0.0): deliver what is there, and never wait for it.
Pump ==
  \/ SpinOnce
  \/ history = <<>> /\ UNCHANGED jointStatesVars

\* joint_states: discard what was received earlier, then wait for a message.
Bug_KeepLatest ==
  /\ subscribed' = "yes"
  /\ UNCHANGED <<clock, history, latest, recorder, recorded>>

BeginRead ==
  /\ subscribed' = "yes"
  /\ latest' = NoState
  /\ UNCHANGED <<clock, history, recorder, recorded>>

ReadSpins == latest = NoState /\ SpinOnce

ReadStarves == latest = NoState /\ history = <<>>

StartRecording ==
  /\ subscribed' = "yes"
  /\ recorder' = "on" /\ recorded' = <<>>
  /\ UNCHANGED <<clock, history, latest>>

StopRecording ==
  /\ recorder' = "off" /\ recorded' = <<>>
  /\ UNCHANGED <<clock, subscribed, history, latest>>

\* The node is destroyed, or its process ends.
Close ==
  /\ subscribed' = "no" /\ history' = <<>> /\ latest' = NoState
  /\ recorder' = "off" /\ recorded' = <<>>
  /\ UNCHANGED clock

JointStatesTypeOK ==
  /\ clock \in 0..MaxStamp
  /\ subscribed \in {"no", "yes"}
  /\ history \in Seq(Stamps) /\ Len(history) <= Depth
  /\ latest \in 0..MaxStamp
  /\ recorder \in {"off", "on"}
  /\ recorded \in Seq(Stamps)
=============================================================================
