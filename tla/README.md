# robot_control: a TLA+ verification project

`robot_control` (`src/src/robot_control`, one Python package and its command
line) moves OpenArm arms and the DG5F hand through ROS 2 controllers. Three
things about it are hard: a command must never reach a controller without having
passed the safety gate, a session that holds an arm up with feedforward torque must
give that torque back, in the right order, however it ends, and a recording must be
of the experiment it is filed under. This directory models the parts of the program
that decide them, checks them with TLC and proves the
main results with TLAPS.

## The system

| Component | State it keeps | Operations | Where | Module |
|---|---|---|---|---|
| Safety gate | `_last`, `_last_time`, `_estopped`, last follow report | authorize, authorize_trajectory, follow, authorize_effort, estop, hold_pose | `safety.py` | `CommandGate` |
| IK worker | pending request, sequence, latched target, counts, refusal, closing | submit, snapshot, close; a thread that waits, takes, solves candidates, selects | `ik_follow.py` | `LatestIkWorker`, abstractly `LatestIk` |
| pose follow session | gravity, reacquisition and cleanup metadata, refusal, the stage reached, the report | acquire, activate, reacquire, sync, the loop, cleanup, report | `cli.py` 816-1697, 2808-3160, 3380-4560 | `PoseFollow` |
| Session record | `diagnostic_metadata`, trace, stage trace, event times, counts | a row per cycle, the timeline, the windows, the partial or complete report | `cli.py` 1276-1697, 3203-4528, `follow_observability.py` | `RecordedFollow` |
| Diagnostic profile | none: a function of time | construct, sample | `diagnostic_profile.py` | `DiagnosticProfile` |
| pose follow cycle | command, feedback, marker origin, IK target in use | sense, aim, align, act | `cli.py` 3203-4528 | `FollowLoop` |
| Outer target hold | held joints and the target of each | request, observe_published_command | `follow_outer.py` | `FollowLoop` |
| Handoff convergence | start, stable window | update | `follow_observability.py` | `FollowLoop`, and as one of its answers `RecordedFollow` |
| Ready posture | controller reference, samples, the settle loop, safe hold | check, stream under gravity torque, settle, hold, release | `cli.py` 1202-1273, 1398-1403, 1827-2042, `ready.py` | `ReadyMotion` |
| Gravity sweeps | the torque published, rounds, poses | gravity, `r2s identify --collect` | `cli.py` 2302-2413, 6174-6266 | `GravitySweep` |
| Torque staircase | seed, peak, step, baseline of the joint under test | seed, confirm, probe, arrive, round | `excitation.py`, `cli.py` 2426-2598 | `Staircase`; with the fit of its rounds `FittedStaircase` |
| Discrete pose commands | targets left, last command, residual | joints, rest, ee, settle | `cli.py` 890-936, 1073-1130, 2044-2246 | `PoseMoves` |
| ROS adapter | cached joint state, recording, publishers, marker | reads, recording, streams, goals; services | `ros_adapter.py` | `JointStates` and, for streams and goals, `CollectTrack`; services not modelled |
| Excitation collection | recordings and a manifest on disk | collect | `cli.py` 5821-6036 | `CollectTrack` |
| Tracks | none: files on disk | normalize, split, cite | `track.py`, `cli.py` 5308-5356 | `Tracks` |
| Identification | none: files on disk | `fit_static_gravity`, `fit_staircase`, `fit_dynamics` and their refusals | `identification.py` | `StaticFit`, `DynamicFit` |
| Artifacts, calibration | none: files on disk | the reader, the refusals and the hash of every format; verdict; translation to the environment | `artifacts.py`, `calibration.py`, `hdgp_export.py` | `Artifacts`, `Calibration` |
| The r2s chain | what its commands leave on disk for each other | collect, normalize, identify, fit, bundle, validate, export | `cli.py` 5308-6174, 6371-6517 | `Toolchain` |
| Kinematics, Cartesian servo | none | forward kinematics, gravity torques, PI | `kinematics.py`, `servo.py` | not modelled: float arithmetic, a choice wherever it is used |
| Profiles, interfaces, layout | none at run time | load and validate | `profile.py`, `interface.py`, `srdf.py`, `layout.py` | not modelled: they are the models' constants |
| Argument parsing | none | argparse, printing | `cli.py` 267-815 | not modelled: no state |
| Tools, vendored packages, MATLAB | none | offline scripts, drivers | `src/tools`, `src/ros_ws`, `src/matlab` | not modelled: third-party, or scripts that only read reports |

How they interact. One thread runs a command: it reads `/joint_states` through the
adapter, asks the gate for every position and torque, and publishes what the gate
returns. A message of a subscription is delivered only when the command spins the
adapter's executor, one per spin; action goals are sent and waited for, and given up
after a deadline without being cancelled. In `pose follow` a second thread, the IK worker, solves the marker's pose
through a ROS node of its own; the loop submits requests and polls the latched
target, the two meeting only under the worker's condition variable. The controllers
keep doing what they were last told, which is why the last message a command
publishes matters more than any other. The commands of the r2s chain are programs of
their own that meet only in the files of one directory; each decides from what it
reads there whether it may go on.

What is hard: the order of three limits in a servo step; a trajectory that must be
accepted whole; two threads over one mailbox; exceptions from any ROS call in any
phase; Ctrl-C between any two statements; messages queued before a motion and read
after it; a goal that outlives the process that sent it; files of a collection that
failed, under the names of the next; two holds and two cleanups reached by
different handlers; timeouts of the quiet window and the convergence gate; torques
sized on a joint whose stiffness and friction are what is being measured;
corrections wound up against an arm that does not follow; two records of one run, by
rows and by events, written at different statements of a cycle; what could not be
measured, which is NaN and compares false with every threshold; files of another
collection, robot or revision under the name the next program expects.

## Modules

Module by module, definitions carry the names of the code and `PROJECT.json` maps
each of them to its lines. A definition called `Bug_...` is a bug the code does not
have: put in the place of the definition after it, it must break the property
`PROJECT.json` pairs it with.

### CommandGate (`safety.py`)

One gate and a caller that may call any operation at any instant, with well-formed
inputs or with arrays of the wrong shape or holding NaN (`Malformed`). `config` is
how the gate was built: with `--execute` or not, with a lead bound or not, with a
torque bound or not. `last`, `lastTime`, `estopped` and `followLimits` are the
gate's fields. `wire` is a history variable: the last command any call let through.
Angles and times are integers, so products are exact and the code's 1e-12 slack is
zero. `call` is the last call and its answer.

### LatestIk and LatestIkWorker (`ik_follow.py`)

`LatestIk` is the promise: a mailbox whose requests are each open, accepted, failed
or superseded; at most one latched target; nothing accepted after close.
`LatestIkWorker` is the code: every region under the condition variable is one
action, what runs outside it interleaves. The worker waits, takes, solves up to
`MaxCandidates` candidates, compares its sequence after each, and records the batch.
A solution is a configuration out of `Configs`, `None` when MoveIt fails or the
result is unusable; the batch latency may end a batch after any candidate. A joint
vector is one integer, the distance a plain difference: the rules only compare
distances. `notify` wakes a waiting worker and is lost on one that is not waiting.

### PoseFollow (`cli.py`)

One `pose follow --execute` session. `pc` names the place in the code; every ROS
call may raise SafetyError, one of the unusable-environment errors or anything
else; Ctrl-C may come before every step. `wire` is the last torque published,
`position` what the last position published was for. The numbers are gone: where the
measured joints stand is one of three places, a cycle's geometry is a choice, the
report is absent, partial or complete.

### DiagnosticProfile and RecordedFollow (`diagnostic_profile.py`, `cli.py`, `follow_observability.py`)

`DiagnosticProfile` is `DiagnosticTrajectory`: which profiles can be constructed, the
stages of each kind, and the target, phase and end at every time since its start.
Translation and rotation are numbers along their axis.

`RecordedFollow` composes it with `PoseFollow`. Each of its actions is an action of
the session together with what the code records at that statement: `rows` are the
entries of `stage_trace` (and of `trace`, when `traced`), `marks` the event times of
the timeline, `samples` and `published` the counters of the summary, `termination`
and `reason` how the report says the run ended. A cycle has a time of its own, which
may be late, and a running profile is sampled at it. Of a row what matters is when it
was made, what it is filed under and what was asked for; poses and errors are left
out. Without `--output` nothing is recorded, and the session runs as in `PoseFollow`
(`Unkept`).

### FollowLoop (`cli.py`, `follow_outer.py`, `follow_observability.py`)

The cycles inside the loop that `PoseFollow` enters and leaves. It composes two of
the modules above by instance: the rules of a servo step are `CommandGate`'s
(`Gate!Stepped`, `Gate!Led`, `Gate!Bounded`), the other thread is the abstract
mailbox `LatestIk` (which `LatestIkWorker` implements), so that a target may be
latched between any two steps of the loop. A cycle is two actions: `Aim` or `Align`
(clock, feedback, IK request) and then `Idle` (no target yet) or one way through
`Act`: the clamp is refused, the step is streamed, or the convergence gate gives up.
`hold` and `heldTarget` are the fields of `PostCrossingTargetHold`, `stableSince`
that of `HandoffConvergenceGate`. Forward kinematics is external: whether the arm is
at the marker, and which fraction of the step the Cartesian speed limits leave, are
choices. `restless` is a history variable: the last instant at which the arm was not
seen stable.

### JointStates and CollectTrack (`ros_adapter.py`, `cli.py`)

`JointStates` is the adapter's only subscription to `/joint_states`, shared by a
read of the latest state and by the recording of a stream. `history` is the queue of
the middleware, which drops its oldest message when it is full; `SpinOnce` delivers
one message to the callback `Record`. A message is the stamp of its reading. A
reading may be lost; the ones that arrive come in order (the code handles
out-of-order stamps by warning, `cli.py:6017`, and the model leaves them out).

`CollectTrack` extends it with `r2s collect --execute`, started up to `MaxAttempts`
times over the same files. Each `pc` is a place between two calls; every call that
can fail has an action that leaves, and `Kill` (Ctrl-C, the end of the process) may
come before every step. `goal` is the last action goal as the controller has it and
lives on when the process is gone; `rest` says which collection's starting pose the
arm rests at, until the next command. `disk` holds what each recording file is:
opening one truncates it, so an error or a kill leaves it unreadable. The numbers of
the excitation are gone, it is a count of samples; the gate's rules are in
`CommandGate`, here it passes or refuses the whole trajectory. Arguments are valid
and `--output` ends in `.npz`.

### EffortLine, Staircase, GravitySweep, ReadyMotion and ArmCommands (`cli.py`, `excitation.py`)

Four commands put torque on the arm in the same way: a `try` publishes to the effort
controller, a `finally` publishes zero. `EffortLine` is what they share: the `wire`
(the torque the controller holds), the exception in flight, the release, the exit.
`Raise` takes any exception of the body to the release; `ReleaseFails` is the release
that cannot be published, which some commands send more than once.

`Staircase` is `measure_staircase` of one joint after another. The joint is a
response curve (where it comes to rest under each torque), a friction band it
stays in, the room its pose leaves it and its motor's rating, all chosen when the
joint's turn comes. The seed torque is doubled until the joint moves, confirmed at
twice the seed, a probe is sized from it and sized again from what the probe did, and the staircase
climbs and descends through its torques, the first of them a second time. Each is a
publish and a read, and the refusals in between are actions of their own.
`Equilibrium` may be any monotone curve; nothing is assumed linear.

`GravitySweep` publishes and measures rounds of torque, at one pose or at one pose
after another with a move in between. `ReadyMotion` is `pose ready`: each cycle
publishes a torque, then a position; the settle loop has a number of cycles; a failure
after the first sample is held where the arm was measured, by the timeout's handler
or by the exception's. `ArmCommands` is one of these commands from its start to its
end.

`FittedStaircase` composes `ArmCommands` with the fit: every round of the staircase
is recorded, joint by joint, as `pose torque` writes it, and `StaircaseFit` reads it as
`r2s identify` does. A joint with a straight response and dry friction (`Spring`) has a
stiffness and a friction the fit can be compared with. The code computes torques in
floats; here a probe is rounded up to a torque whose staircase has whole torques
(`Wanted`), so that no step of it is uneven by rounding. Where the steps do not clear the
friction band the joint may stand still on a whole branch, and then the fit has no
slope to report: that it reports anything is claimed only where they do.

### PoseMoves (`cli.py`)

The commands that move the arm by position alone: `pose joints`, `pose rest` for one or more
arms, and `pose ee` with and without `--settle`. A move has a gate of its own,
seeded with its start; the limits are convex and the ramp straight, so its two ends
and its speed decide. `landing` is where the arm comes to rest for a command, joint
by joint; the tool moves along one line, which is enough for a residual that
improves, stalls or falls back. `trail` is a history variable: the residuals a settle
measured.

### Tracks, StaticFit, DynamicFit, Artifacts and Calibration (`track.py`, `identification.py`, `artifacts.py`, `calibration.py`, `hdgp_export.py`)

The rules of the chain, as operators without state. `Tracks` decides which recordings
can be resampled onto one clock. `StaticFit` finds the rounds in which the joint did not
move, the driven rounds of each branch, and the least squares of both fits over
integers: a coefficient is a numerator and a denominator. `DynamicFit` takes what a
regression returns of a joint (`Evidence`: its variation against its friction,
its coefficient and error) and applies the code's rules to it: which joints have a
number, which of two routes to an inertia is used, how far they disagree, and how a
prediction on the run held out is scored. NaN is a value of its own; comparisons with
it are false, as they are in the code. `Artifacts` is what each reader refuses, and
tells a refusal from an exception nobody handles; `Calibration` what a block of the
environment's file is made of. Lists of joint names, hashes and units are not spelled out: a
file is `sealed` when its hash fits, `timed` when its time stamps can be read, `covers` when it
names the joints it has to.

### Toolchain (`cli.py`)

The state is the disk: every file is absent, cut short (`Torn`), or holds what its
stage writes. Any command may run at any time, as often as its scenario's budget says, and
die once while it writes; the robot's description may be revised in between. A
recording carries what the file itself does not say, which arm, collection and run it is
(`of`), and a fit carries the recordings it was made from (`used`); no guard reads
either, except that `--manifest` reads the group of its first run, which is in the
file. A static estimate names its sweeps (`sources`), as the code does by their hashes.

`ReleasedIsTheArm` follows a block from the environment's file, or from the bundle, back to
the robot: unless it was in the base file already, its arm's sweeps are its only sources and
have measured every joint, its Coulomb friction is the one these sweeps show, and its
recordings are of that arm. The last holds until a collection is cut short (`cut`): then the
runs of one arm may lie beside the manifest of another. A static estimate's
Coulomb column may have holes: they stay holes in the bundle, and the translation takes
such a joint's friction from the recordings (`track`) instead of a staircase. What
`Sound` leaves to the data are the signs of scale, friction and inertia and the presence
of a recording's hash. Assumed: one command at a time, one output directory, required flags given, one
fit to a bundle, and the groups of one robot (its arms) with joints of the same names. Stiffness and
damping are in units in which a joint's inertia is one. Dry runs leave no file and are left
out; the sweeps `identify --collect` makes are `GravitySweep`'s, here they are given.

## Runs

| Run | Checks | Bounds, and why they are enough |
|---|---|---|
| `command_gate` | type, limits, lead, report of clamps; watchdog and atomic refusals as action properties | two joints with different limits and velocities, poses inside, at and beyond the limits, trajectories of up to two waypoints (a prefix exists), three instants (watchdog alive, at its edge and expired), four builds |
| `latest_ik` | every request is accounted for, its reference stays latched and close settles all (`RequestsAccounted`); no branch jump; implements `LatestIk`; every request resolves and close returns (`WorkerProgress`) | three submissions (one in hand, one pending, one replacing), two candidates, three configurations with a jump limit that separates the outer two |
| `latest_ik_newest` | violation: `OnlyNewestIsLatched` | two submissions |
| `pose_follow` | how a session ends and what it leaves on the wire; hold and gravity orderings; rows, events and counts agree, a late profile never jumps, a completed one was whole; the handoff ends | two points to stream, three observations, two Ctrl-C (one for the session and one for its cleanup); two profiles (a combined one whose rotation is the slower part, and two round trips of a translation), cycles of one and two periods, ten seconds (both profiles fit with every cycle late), two cycles before the profile starts and otherwise none until the time is up (`MaxWait`); with a record one failure or Ctrl-C (`MaxTroubles`), without one as many as the session meets |
| `pose_follow_interrupt` | violation: `InterruptReleases` | one Ctrl-C |
| `follow_loop` | a hold follows its target and never overshoots, loop and gate agree, a profile starts out of a quiet window, the convergence gate decides | two joints, one with a target beyond its limit, one that may not lead; three configurations on both sides of each other; two IK requests (a target and its replacement); four cycles, one more than the convergence timeout |
| `follow_loop_timeout` | violation: `ConvergenceTimesOut` | the same |
| `collect_track` | reads move past what was recorded and repetitions start from the starting pose (`RepetitionsStartAlike`), a manifest names one whole run; a collection ends | two collections over the same files (one to fail, one to follow it), a queue of two messages (a message kept over a read and one dropped), two samples (the one that creates the publisher and one after it), eight readings: two for each of three recordings, and a read before each |
| `arm_commands` | torque is released and a failed motion held, a joint out of its room gets no further torque, rounds are reached on their branch, the fit of the rounds is the joint that was there | two joints, one of the same kind as the other or not; a seed that doubles twice (reached at once, on the way and not at all); five responses (straight and stiff, straight and soft, softening early and late, pressed into an obstacle), bands of none, one, two and more than any seed crosses; no room, too little, just enough, plenty; ratings at and below the profile's bound of 48; four steps (two inner torques on each branch); two rounds, two poses, two path points, two settle cycles (the last one and one before it) |
| `pose_moves` | corrections go on only while they gain, an elbow is lowered by a move of its own | the code's four corrections; arms that land exactly, droop by the half or three quarters, are stopped or give way; one arm and two; found lying, at work with the elbow up, on a stop and beyond the slack; targets inside and beyond the limits |
| `toolchain` | what was held out is never fitted, a fit is of one collection, what is bundled, released and translated for an arm rests on sweeps and recordings of that arm (`ReleasedIsTheArm`), a gap known to be wide and a held-out prediction that ran away do not pass, every identified group is translated under a name of its own | two arms of two joints, one with a joint whose load hides and one whose two inertias are far apart; seven scenarios with a budget for each stage: two collections and a revision (`again`), the same with the inertia of the wrong sign (`flipped`), up to the verdict over a new and an old base (`judged`, `old`), up to the release over a base that has the other arm (`released`), and translations whose names clash or are missing (`clashing`, `unnamed`); sweeps of one arm, of two, of another robot, too few, torn, and without a scale; an even recording and one with a hole; one death. Two of everything that can be confused are there, and one stage run more often only repeats it |
| `toolchain_exported` | violation: `ExportedWasValidated` | the same |

Deadlock is not checked where the system stops by design: the worker after `close`,
a session after its exit, a loop after the last cycle of its bound, collections
after the last attempt and reading of their bounds, the chain when its budgets are spent, and
any command that has ended. The gate never stops: its run checks deadlock.

### Fairness

`LatestIkWorker`: weak fairness of the worker thread's steps and of `join`. A Python
thread that can run does, and `solve_ik` has a timeout. Submitting and closing are
the caller's choice and not fair. `PoseFollow`: weak fairness of the session's own
steps: one thread, every call of which has a timeout. Ctrl-C is not fair.
`RecordedFollow` has the same, of its steps that are not Ctrl-C.
`CollectTrack`: weak fairness of the process's steps. Its waits are on the hardware
and on the controller, neither of which is fair; each has a deadline in the code,
which is an action of the process (`ReadTimesOut`, `ReplyTimesOut`,
`NothingSubscribed`). A spin that delivers a message is a step too, and there are
only finitely many readings in the model; in the code the deadline bounds them. The
gate, `ArmCommands`, `PoseMoves` and `Toolchain` state no liveness and assume no fairness: their
loops count (doublings, rounds, cycles, corrections), and the type invariants bound the counts.

## What the code does differently from its documents

* `OnlyNewestIsLatched`: "latest-wins" (`ik_follow.py:1`) does not hold between the
  last candidate's sequence check and the section that records the batch.
* `InterruptReleases`: Ctrl-C during the handoff leaves the gravity torque on the
  wire; `docs/cli.md:877-879` says it is always set back to zero.
* `ConvergenceTimesOut`: the convergence gate is consulted only in cycles with an IK
  target (`cli.py:3634`), so that without a first solution its 5 s timeout
  (`docs/cli.md:671-673`) is never noticed.
* `ExportedWasValidated`: `r2s export` "refuses anything not already validated"
  (`docs/cli.md:1498`), but compares only the verdict's status (`cli.py:6490`): a
  bundle made after the verdict is released.

Seen while modelling, and not the subject of a run:

* `follow` is documented as rate-limited from the previous command
  (`safety.py:132`, `docs/cli.md:782`). The lead bound comes after the rate limit and
  clamps to the measured pose, so that an arm that is dragged away drags the command
  with it by more than a step.
* `measure_staircase` says every recorded round is reached moving the way its branch
  says (`excitation.py:504-506`). A joint whose friction band is wider than the distance between two
  torques does not move at all; `RoundsOnTheirBranch` therefore asks for
  `StepsClearTheBand`.
* `_park_targets` says the wrist is only ever commanded while the elbow is raised
  (`cli.py:2060-2061`). A rest that begins with the elbow down raises elbow and wrist
  in one move. What holds is `ElbowLowersLast`. The second move is planned from the
  target of the first (`cli.py:2123`), whatever the arm made of it.
* A failure of the last handoff step is released without a hold (`cli.py:2951-2954`);
  `docs/pose-follow.md:273-276` says every failure after the arm is ready is held.
* A read says it never returns a pose from before the motion just commanded
  (`ros_adapter.py:697-699`), but only the cached message is discarded. What waits in
  the subscription is delivered first, so that a return ramp may start from a pose
  measured before the last sample was sent. What holds is that it is newer than
  everything recorded (part of `RepetitionsStartAlike`).
* The record of `pose follow`: the phase `complete` of the last cycle's IK request is in
  no window (`cli.py:4858-4880`), while its row counts as `origin_hold`. A Ctrl-C
  between a row and its publication leaves means over one row more than they are
  divided by. A target is counted as published before it is streamed, so a failed
  stream counts. An error after the loop makes a partial report with the reason
  `startup_alignment_failed` and no trace, whose events still name trace rows. The phase
  `profile_start` of a request is never reached.
* `_frozen_rounds` compares each round with its neighbour in the order of torques, not
  with the round before it in time as `docs/cli.md:1315` has it
  (`identification.py:348-368`).
* `r2s fit --manifest` says every run shares the joints and reads them from the first
  (`cli.py:5461`); nothing compares the others. `r2s fit --track` on the run that was
  held out is not refused, and a verdict lists the runs of the manifest as the ones
  fitted, whatever the fit used: `HoldoutNeverFitted` therefore asks for a fit made from a
  manifest.
* `_score_manifest` predicts with the unscaled gravity torque and, for columns that
  were dropped, with one over the inertia (`identification.py:1076-1080`).
* A disagreement that could not be computed becomes 0.0 in the bundle, and the largest of
  disagreements none of which could be computed never refuses a fit. `fitted_against` is
  the revision at the time of the bundle, not of the fit.
* `write_bundle` writes before the bundle is loaded and may be refused, and `r2s export`
  copies the bundle before the translation may be; both leave the file behind.
* `_read_manifest` compares the revision of the description; the readers of static
  estimates and bundles do not.
* `docs/cli.md` gives 0.25 as the default of `--hdgp-max-spread`, the code has 0.5
  (`DEFAULT_MAX_SPREAD`). A bundle's `track_sha256` is of the first track alone.
  `r2s validate --metrics` takes an improvement of NaN for no improvement asked for.

## Proofs

Every proof is for all values of the constants under the named assumptions of the
module (`LimitsAssumption`, `InputAssumption`, `WorkerAssumption`,
`FollowAssumption`, `LoopAssumption`, `JointStatesAssumption`, `CollectAssumption`,
`LineAssumption`, `StaircaseAssumption`, `SweepAssumption`, `ReadyAssumption`,
`MovesAssumption`, `TracksAssumption`, `StaticFitAssumption`, `DynamicFitAssumption`,
`ArtifactsAssumption`, `CalibrationAssumption`, `ToolchainAssumption`, and for records
`MaximumAssumption` and `RecordAssumption`): limits in order, natural velocities and bounds, `None` and
`Malformed` unlike the data, response curves that do not fall as the torque grows, arms a regression can return, and
a base bundle whose gaps, where there are any, were accepted.

* `CommandGateProofs`: the inductive invariant is `GateInv`, the checked invariants
  with `LastInBounds`: a command kept by the gate is inside the limits. Without it
  the hold pose could not be shown to be in bounds. A servo step is the one hard
  case: three lemmas follow the command through the rate limit, the lead bound and
  the position limits. The action properties follow from `TypeOK` by cases over the
  operations.
* `LatestIkWorkerProofs`: `IkInv` adds to the checked invariants that sequence
  numbers are ordered (`InOrder`), that a batch's best solution is near the reference
  (`GoodIsNear`), and that closing precedes closed. The refinement maps the request
  counters to per-request outcomes; each worker step implements one step of the
  mailbox or none.
* `PoseFollowProofs`: `SessionInv` says, for each region of the code, what is on the
  wire and what was recorded: before torque, in the handoff, after losing it, in the
  loop, while zeroing, ended, and after a hold. It is the argument a reader would
  make about the nested try blocks, one conjunct per block. The recorded session
  implements the session (`RecordedIsASession`, `RecordedSessionsToo`): each of its steps
  is a step of `PoseFollow` or leaves it alone, so that every theorem holds of it too.
  What the record says is proved from `RecordInv`: a row is filed under a stage that has
  begun and whose end is not before it (`RowsOK`), the timeline has the events of the
  stage the loop is in and no later one (`TimelineOK`), the last row is that of the cycle
  at hand (`CycleOK`), the counts differ from the number of rows by that row at most
  (`TallyOK`), and what was said of a loop that is over stays true (`VerdictOK`). It holds
  of sessions with `--output`; without it nothing is filed. That a profile does not jump
  follows from its path: one unit of time moves an axis by its rate at most
  (`OneStep`), hence any lateness by no more than that many (`NoJump`). The ends of the
  stages are a recursive sum; what holds of each is shown without induction, of the least
  one it could fail in (`Least`). `RecordAssumption` asks that the units of time and
  length are fine enough for every target to be a whole number (`Whole`), which chooses the
  units, not the profile.
* `FollowLoopProofs`: `LoopInv` adds what carries the properties from one cycle to
  the next: before the first target nothing is held or observed, what was streamed is
  inside the limits, a window opened no earlier than the last disturbance. The
  overshoot theorem follows one joint through the outer loop's request, the Cartesian
  fraction (an integer division), the rate limit and the position limits.
* `CollectTrackProofs`: `Inv` follows the stamps. Messages are taken in order, so what
  waits in the queue is newer than what was recorded, what is recorded newer than
  what the previous repetition left on disk (`HistoryInv`, `RecordedInv`, `RowsInv`,
  `PreviousInv`). `DiskInv` says that the files of the repetitions done are whole and
  this collection's, `RestInv` that a goal reported as reached was sent by it. The
  adapter's steps are proved once, over `JointStates`, and the collection's steps cite
  them.
* `ArmCommandsProofs`: `TypeInv` adds to the types what each torque was checked
  against (`Sized`) and what is left to do (`Counted`); without them neither the bound
  on the torque nor that of the counters is inductive. `Released` says at which
  places a torque may be left and what is then reported; `Tracking` that only `pose
  ready` publishes positions, counts them, and has no exception before one is caught;
  `BaselineAtRest` that a room is judged by a reading at zero torque. `OnLadder` says
  which torque of the staircase the joint comes from; with `StairClimbs` (the
  next torque lies on the side its branch names) and `BandsApart` (the friction
  bands of two neighbouring torques do not overlap) the joint moves that way. A command
  whose rounds are recorded is a command (`RecordedIsACommand`).

  `FitsTheJoint` is in three parts. What is recorded (`RecordInv`): before its own rounds
  a joint carries no torque (`Quiet`), a peak is a whole number of rungs (`Whole`), and
  the rounds so far have climbed the staircase (`Climbed`): each carries its torque, the
  joint lags behind where the torque would have it (`Lag`) by no more than its band, and
  the lag never shrinks on the way up nor grows on the way down; where the steps clear
  the band it is the whole band. `Reaches` says the same of the reading about to be
  recorded. The branches: what the fit takes for a joint's rounds are its own, and the
  two branches are the two ways of the staircase (`DrivenRounds`, `BranchesAreWays`).
  The line: the errors of a spring are its line and the lag (`OfSpring`), and a
  regression is linear in them (`LineOfSpring`), so what is left is the line through the
  lags. A lag that grows with the torque has a slope that is not negative
  (`GrowTogether`, Chebyshev's sum inequality), so the joint looks stiffer, never softer;
  and since the torques of a branch sum to the last of them (`SumProgression`), every
  round weighs in the foot with a weight that is not negative, and the foot is within
  the band (`WeighedSum`). `TwoLines` puts the branches together. Sums over finite sets
  (`SumIs`, `SumLinear`) are taken apart without induction: a set in which a statement
  about sums fails has a smallest subset in which it does (`Smallest`).
* `PoseMovesProofs`: `Trailed` ties the residual kept to the last one measured;
  `Parking` says what is left of a rest after any of its moves, or none, was skipped.
* `ToolchainProofs`: one lemma for each stage says which file it may change and what
  it writes there; from these, each invariant is a case per stage. `TypeInv` adds the runs
  and tracks to the types, without which a fit's sources have none. `HoldoutInv`: a numbered
  file holds the run of its number, every manifest splits the runs as `split_repetitions`
  does, a fit from one is over the first two runs and a verdict is on the last; so a
  recording scored and fitted would be of two numbers. `CollectionInv`: the runs that lie
  beside a manifest are of its own collection, arm and revision, until a collection is
  cut short. `EarnedInv`: a gap is in the fit, in the block made from it and in the bundle
  with the same leave. `TranslatedInv`: a translation that succeeded had a name of its own
  for every group. `MeasuredInv` goes from stage to stage: a recording is of one run, a
  static estimate rests on sweeps that measured its joints, a fit on a static estimate and
  recordings of one arm (`FitOfOneCollection`, from `CollectionInv`), a block on such a
  fit, and the bundle, the release and the translation hold blocks of that kind or of the base.

Some theorems state facts the runs check as part of a larger property or not at
all: `HoldIsLastReleased` and `ClosedIsFinal` of the gate, `NothingAfterRelease` and
`ReportComesLast` of a `pose follow` session, `StairClimbs` of a staircase.

Only model-checked: liveness (`WorkerProgress`, `HandoffEnds`, `CollectionEnds`), which
TLAPS cannot prove. Every invariant and every action property the runs check is a theorem.

## Not covered

Hazards without a property, each with its reason in `PROJECT.json`: targets that overtake each
other for ever (`ik_follow.py:276`, true of the code, whose caller chooses its rate), the first sample's stamp
before the publisher is discovered (`cli.py:5964`), the plan of the second move of a
rest (`cli.py:2123`).

Not modelled: the adapter's services, its marker and the discovery of controllers
(`PoseFollow` and `ArmCommands` let their calls fail wherever they can); the table that
pairs IK results with the requests they answer, and with it the per-request events of the
report; everything that is arithmetic over floats (kinematics, servo, least squares, the
design of poses and excitations, splines, the statistics inside a window); parsing and
printing; scripts that only read reports.

What would come next: the adapter's services, the request table, and one abstract torque
session that both `PoseFollow` and `ArmCommands` implement.
