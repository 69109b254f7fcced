---------------------------- MODULE CollectTrack ----------------------------
(***************************************************************************)
(* `r2s collect` (src/robot_control/cli.py): an excitation is streamed to  *)
(* the arm one or three times while /joint_states is recorded, each        *)
(* recording is written to its own file, and a manifest names the three.   *)
(* Files outlive the process: a collection is repeated with the same       *)
(* --output after one that failed or was killed.  The trajectory           *)
(* controller is the environment; a goal the process gives up on is still  *)
(* executed.                                                               *)
(*                                                                         *)
(* Arguments are valid, and --output ends in .npz.  The excitation is the  *)
(* number of its samples; a pose is the stamp of the reading it came from. *)
(***************************************************************************)
EXTENDS JointStates

CONSTANTS
  Samples,     \* samples of the excitation
  MaxAttempts  \* bound: how often the command is started

ASSUME CollectAssumption == Samples \in Nat \ {0} /\ MaxAttempts \in Nat

VARIABLES
  pc,         \* where the collection is
  attempts,   \* collections started so far; the running one is the last
  asked,      \* --repetitions
  index,      \* the repetition being collected
  connected,  \* a subscriber matched the stream publisher
  stamped,    \* samples stamped and streamed in this repetition
  start,      \* reading behind the pose last returned by read_state
  rows,       \* the recording taken from the adapter
  goal,       \* the last goal sent, as its action server has it
  owner,      \* the collection that sent it
  rest,       \* the collection whose neutral pose the arm rests at, or 0
  disk,       \* the recordings on disk
  manifest,   \* the collection named by a readable manifest, or 0
  outcome     \* how the last collection ended

processVars == <<pc, attempts, asked, index, connected, stamped, start, rows>>
armVars == <<goal, owner, rest>>
diskVars == <<disk, manifest>>
vars == <<jointStatesVars, processVars, armVars, diskVars, outcome>>

-----------------------------------------------------------------------------
Attempts == 0..MaxAttempts
Repetitions == {1, 3}
Paths == {"run", "run0", "run1", "run2"}

\* A recording: who wrote it, how many commands it holds, and the first and
\* last of the readings in it.  A file that is missing or cut short holds none.
Recording == [by : Attempts, commands : 0..Samples, first : 0..MaxStamp, last : 0..MaxStamp]
Unreadable == [by |-> 0, commands |-> 0, first |-> 0, last |-> 0]

RepetitionPath(i, repetitions) ==
  IF repetitions = 1 THEN "run"
  ELSE IF i = 0 THEN "run0" ELSE IF i = 1 THEN "run1" ELSE "run2"

Streaming == {"streaming", "discovering", "stopping"}
Steps == {"idle", "reading", "authorize", "ramp", "accepting", "finishing",
          "writing", "saving", "manifest", "manifesting"} \cup Streaming

Init ==
  /\ clock = 0 /\ Unsubscribed
  /\ pc = "idle" /\ attempts = 0 /\ asked = 1 /\ index = 0
  /\ connected = "no" /\ stamped = 0 /\ start = 0 /\ rows = <<>>
  /\ goal = "none" /\ owner = 0 /\ rest = 0
  /\ disk = [path \in Paths |-> Unreadable] /\ manifest = 0
  /\ outcome = "none"

\* The process ends, however: the adapter closes and what it held is gone.
\* A goal it sent is not cancelled.
Exit(how) ==
  /\ pc' = "idle" /\ outcome' = how
  /\ Close
  /\ connected' = "no" /\ rows' = <<>> /\ stamped' = 0
  /\ UNCHANGED <<attempts, asked, index, start, armVars>>

Leave(how) == Exit(how) /\ UNCHANGED diskVars

Goto(step) ==
  /\ pc' = step
  /\ UNCHANGED <<attempts, asked, index, connected, stamped, start, rows, outcome>>

-----------------------------------------------------------------------------
(* Reading the pose a motion starts from.                                  *)

Invoke ==
  /\ pc = "idle" /\ attempts < MaxAttempts
  /\ attempts' = attempts + 1
  /\ asked' \in Repetitions /\ index' = 0
  /\ BeginRead /\ pc' = "reading"
  /\ outcome' = "none" /\ start' = 0
  /\ UNCHANGED <<connected, stamped, rows, armVars, diskVars>>

ReadSpin ==
  /\ pc = "reading" /\ ReadSpins
  /\ UNCHANGED <<processVars, armVars, diskVars, outcome>>

ReadTimesOut == pc = "reading" /\ ReadStarves /\ Leave("unusable")

\* The message read does not cover the group.
ReadIncomplete == pc = "reading" /\ latest # NoState /\ Leave("unusable")

ReadState ==
  /\ pc = "reading" /\ latest # NoState
  /\ start' = latest
  /\ pc' = IF index = 0 THEN "authorize" ELSE "ramp"
  /\ UNCHANGED <<jointStatesVars, attempts, asked, index, connected, stamped, rows,
                 armVars, diskVars, outcome>>

-----------------------------------------------------------------------------
(* Permission, and the return to the starting pose between repetitions.    *)

BeginStream ==
  /\ StartRecording
  /\ pc' = "streaming" /\ stamped' = 0
  /\ UNCHANGED <<attempts, asked, index, connected, start, rows, outcome, diskVars>>

\* The whole excitation passes the gate.
Authorize == pc = "authorize" /\ BeginStream /\ UNCHANGED armVars

\* The gate refuses the excitation, or the return ramp.
Refuse == pc \in {"authorize", "ramp"} /\ Leave("refused")

\* The excitation cannot be built: an amplitude too fast to slew.
BuildFails == pc = "authorize" /\ Leave("unusable")

DryRun == pc = "authorize" /\ Leave("planned")

NoServer == pc = "ramp" /\ Leave("unusable")

SendGoal ==
  /\ pc = "ramp"
  /\ goal' = "sent" /\ owner' = attempts
  /\ Goto("accepting")
  /\ UNCHANGED <<jointStatesVars, rest, diskVars>>

\* Waiting for a reply of the action server delivers messages too.
GoalSpin ==
  /\ pc \in {"accepting", "finishing"} /\ SpinOnce
  /\ UNCHANGED <<processVars, armVars, diskVars, outcome>>

HandleAccepted ==
  /\ pc = "accepting" /\ goal \in {"accepted", "succeeded", "aborted"}
  /\ Goto("finishing")
  /\ UNCHANGED <<jointStatesVars, armVars, diskVars>>

HandleRejected == pc = "accepting" /\ goal = "rejected" /\ Leave("unusable")

Bug_NoDeadline == pc = "finishing" /\ goal = "aborted" /\ Leave("unusable")

\* The reply did not come in time, whatever the server did since.
ReplyTimesOut == pc \in {"accepting", "finishing"} /\ Leave("unusable")

Bug_ResultUnchecked ==
  /\ pc = "finishing" /\ goal \in {"succeeded", "aborted"}
  /\ BeginStream /\ UNCHANGED armVars

GoalSucceeded ==
  /\ pc = "finishing" /\ goal = "succeeded"
  /\ BeginStream /\ UNCHANGED armVars

GoalFailed == pc = "finishing" /\ goal = "aborted" /\ Leave("unusable")

-----------------------------------------------------------------------------
(* Streaming and recording.                                                *)

\* A sample leaves.  It replaces whatever the controller was executing.
Stream ==
  /\ stamped' = stamped + 1
  /\ goal' = "none" /\ owner' = 0 /\ rest' = 0
  /\ UNCHANGED <<attempts, asked, index, start, rows, diskVars, outcome>>

\* One cycle of the loop: pump, stamp, publish.
StreamSample ==
  /\ pc = "streaming" /\ stamped < Samples /\ connected = "yes"
  /\ Pump /\ Stream
  /\ UNCHANGED <<pc, connected>>

\* The first sample of the process creates the publisher, and waits until a
\* subscriber matched it.
BeginDiscovery ==
  /\ pc = "streaming" /\ stamped < Samples /\ connected = "no"
  /\ Pump /\ Goto("discovering")
  /\ UNCHANGED <<armVars, diskVars>>

DiscoverySpin ==
  /\ pc = "discovering" /\ SpinOnce
  /\ UNCHANGED <<processVars, armVars, diskVars, outcome>>

Discovered ==
  /\ pc = "discovering"
  /\ connected' = "yes" /\ pc' = "streaming"
  /\ Stream
  /\ UNCHANGED jointStatesVars

NothingSubscribed == pc = "discovering" /\ Leave("unusable")

FinalPump ==
  /\ pc = "streaming" /\ stamped = Samples
  /\ Pump /\ Goto("stopping")
  /\ UNCHANGED <<armVars, diskVars>>

\* No message covered the group.
NothingRecorded == pc = "stopping" /\ recorded = <<>> /\ Leave("unusable")

TakeRecording ==
  /\ pc = "stopping" /\ recorded # <<>>
  /\ rows' = recorded /\ StopRecording
  /\ pc' = "writing"
  /\ UNCHANGED <<attempts, asked, index, connected, stamped, start, armVars, diskVars, outcome>>

-----------------------------------------------------------------------------
(* The files.  Each is truncated when it is opened.                        *)

Path == RepetitionPath(index, asked)

OpenRecording ==
  /\ pc = "writing"
  /\ disk' = [disk EXCEPT ![Path] = Unreadable]
  /\ Goto("saving")
  /\ UNCHANGED <<jointStatesVars, armVars, manifest>>

Save ==
  /\ pc = "saving"
  /\ disk' = [disk EXCEPT ![Path] =
       [by |-> attempts, commands |-> stamped, first |-> rows[1], last |-> rows[Len(rows)]]]
  /\ UNCHANGED manifest

Bug_OneRepetitionMore ==
  /\ Save
  /\ index' = index + 1 /\ rows' = <<>> /\ stamped' = 0
  /\ BeginRead /\ pc' = "reading"
  /\ UNCHANGED <<attempts, asked, connected, start, armVars, outcome>>

\* On to the next repetition: where is the arm now?
SaveRecording ==
  /\ Save
  /\ index + 1 < asked
  /\ index' = index + 1 /\ rows' = <<>> /\ stamped' = 0
  /\ BeginRead /\ pc' = "reading"
  /\ UNCHANGED <<attempts, asked, connected, start, armVars, outcome>>

\* The last one.  The adapter is closed before the manifest is written.
SaveLast ==
  /\ Save
  /\ index + 1 = asked
  /\ IF asked = 1 THEN Exit("done")
     ELSE /\ Close /\ pc' = "manifest"
          /\ connected' = "no" /\ rows' = <<>> /\ stamped' = 0
          /\ UNCHANGED <<attempts, asked, index, start, armVars, outcome>>

Bug_WriteFailureSkipped ==
  \/ pc = "saving" /\ index + 1 = asked /\ Goto("manifest")
     /\ UNCHANGED <<jointStatesVars, armVars, diskVars>>
  \/ pc \in {"writing", "saving", "manifest", "manifesting"} /\ Leave("unusable")

\* An OSError: before the file was opened, or while it is written.
WriteFails == pc \in {"writing", "saving", "manifest", "manifesting"} /\ Leave("unusable")

OpenManifest ==
  /\ pc = "manifest"
  /\ manifest' = 0
  /\ Goto("manifesting")
  /\ UNCHANGED <<jointStatesVars, armVars, disk>>

WriteManifest ==
  /\ pc = "manifesting"
  /\ manifest' = attempts
  /\ Exit("done")
  /\ UNCHANGED disk

\* Ctrl-C or the end of the process, before any step.
Kill == pc # "idle" /\ Leave("killed")

-----------------------------------------------------------------------------
(* The trajectory controller.  A goal outlives the process that sent it.   *)

ControllerReplies ==
  /\ \/ goal = "sent" /\ goal' = "rejected" /\ UNCHANGED rest
     \/ goal = "sent" /\ goal' = "accepted" /\ rest' = 0
  /\ UNCHANGED <<jointStatesVars, processVars, owner, diskVars, outcome>>

ControllerEnds ==
  /\ goal = "accepted"
  /\ \/ goal' = "succeeded" /\ rest' = owner
     \/ goal' = "aborted" /\ UNCHANGED rest
  /\ UNCHANGED <<jointStatesVars, processVars, owner, diskVars, outcome>>

HardwareReads == Publish /\ UNCHANGED <<processVars, armVars, diskVars, outcome>>

-----------------------------------------------------------------------------
Collect ==
  \/ ReadSpin \/ ReadTimesOut \/ ReadIncomplete \/ ReadState
  \/ Authorize \/ Refuse \/ BuildFails \/ DryRun
  \/ NoServer \/ SendGoal \/ GoalSpin
  \/ HandleAccepted \/ HandleRejected \/ ReplyTimesOut \/ GoalSucceeded \/ GoalFailed
  \/ StreamSample \/ BeginDiscovery \/ DiscoverySpin \/ Discovered \/ NothingSubscribed
  \/ FinalPump \/ NothingRecorded \/ TakeRecording
  \/ OpenRecording \/ SaveRecording \/ SaveLast \/ WriteFails
  \/ OpenManifest \/ WriteManifest

Environment == ControllerReplies \/ ControllerEnds \/ HardwareReads

Next == Invoke \/ Collect \/ Kill \/ Environment

Spec == Init /\ [][Next]_vars /\ WF_vars(Collect)

-----------------------------------------------------------------------------
TypeOK ==
  /\ JointStatesTypeOK
  /\ pc \in Steps /\ attempts \in Attempts
  /\ asked \in Repetitions /\ index \in 0..2 /\ index < asked
  /\ connected \in {"no", "yes"} /\ stamped \in 0..Samples
  /\ start \in 0..MaxStamp /\ rows \in Seq(Stamps)
  /\ goal \in {"none", "sent", "rejected", "accepted", "succeeded", "aborted"}
  /\ owner \in Attempts /\ rest \in Attempts
  /\ disk \in [Paths -> Recording] /\ manifest \in Attempts
  /\ outcome \in {"none", "planned", "done", "unusable", "refused", "killed"}

\* The pose a return ramp starts from was read after everything recorded in
\* the repetition before it: a read never answers with a state this process
\* has been given already (joint_states, _collect_track_run).
RampReadsNewState ==
  pc = "ramp" => start > disk[RepetitionPath(index - 1, asked)].last

\* Every repetition after the first is streamed from the starting pose: the
\* goal of this collection reached it, and nothing moved the arm since
\* (_collect_track_run: "or these are not repetitions of the same experiment").
RepetitionsStartAtNeutral ==
  index > 0 /\ pc \in Streaming /\ stamped = 0 => rest = attempts

\* Repetitions are of one experiment: each starts where the first did, on a ramp
\* planned from what the arm did after the one before it.
RepetitionsStartAlike == RampReadsNewState /\ RepetitionsStartAtNeutral

\* When a manifest is written, every file it names holds the whole excitation
\* and a response, recorded by the collection that writes it, one repetition
\* after the other - whatever an earlier collection left under those names.
WholeRun(by) ==
  /\ \A i \in 0..2 : LET recording == disk[RepetitionPath(i, 3)] IN
       /\ recording.by = by /\ recording.commands = Samples
       /\ 0 < recording.first /\ recording.first <= recording.last
  /\ \A i \in 1..2 : disk[RepetitionPath(i - 1, 3)].last < disk[RepetitionPath(i, 3)].first

ManifestNamesAWholeRun == [][manifest' \notin {0, manifest} => WholeRun(manifest')]_vars

\* A collection ends, whatever the controller and /joint_states do: every wait
\* on them has a deadline.
CollectionEnds == pc # "idle" ~> pc = "idle"
=============================================================================
