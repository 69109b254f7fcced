--------------------------- MODULE RecordedFollow ---------------------------
(***************************************************************************)
(* What a pose follow session records of itself: PoseFollow composed with  *)
(* the deterministic profile it is asked to follow (DiagnosticProfile) and *)
(* with the trace, the stages, the clock and the result of its diagnostics *)
(* file (src/robot_control/cli.py, follow_observability.py).               *)
(*                                                                         *)
(* A row stands for an entry of stage_trace; one that is `traced` has its  *)
(* entry of trace as well.  Errors, poses and joint values are left out:   *)
(* what is modelled is which moment each row is filed under, and whether   *)
(* the two records of it, by rows and by events, can be trusted.           *)
(***************************************************************************)
EXTENDS PoseFollow, DiagnosticProfile, Sequences, FiniteSets

CONSTANTS
  Profiles,   \* deterministic profiles asked for
  Period,     \* the control period, and how long each step of the handoff takes
  Elapsed,    \* how long a cycle of a running profile may take
  Seconds,    \* --seconds
  MaxWait,    \* bound: for how long the loop runs without a profile, if not to the end
  MaxTroubles \* bound: failures and interrupts in a session with --output

\* Profiles that can be constructed, in units in which every target and every stage
\* is a whole number.
ASSUME RecordAssumption ==
  /\ \A p \in Profiles : Constructible(p) /\ Whole(p)
  /\ Period \in Nat \ {0} /\ Seconds \in Nat \ {0} /\ MaxWait \in Nat /\ MaxTroubles \in Nat
  /\ \A e \in Elapsed : e \in Nat /\ e >= Period
  /\ None \notin Nat /\ None \notin Targets
  /\ None \notin {"interrupted", "diagnostic_profile_completed", "handoff_convergence_timeout"}

VARIABLES
  profile,      \* diagnostic_profile, None in a manual run
  clock,        \* the time since run_started, in the cycle or step at hand
  sample,       \* diagnostic_sample, or None
  rows,         \* stage_trace and trace
  marks,        \* when each event of the timeline happened, or None
  samples,      \* counted samples
  published,    \* diagnostic_position_publish_count
  termination,  \* the loop's termination
  reason,       \* the refusal's reason
  troubles      \* failures and interrupts so far

recordVars == <<profile, clock, sample, rows, marks, samples, published, termination, reason>>
recordedVars == <<vars, recordVars, troubles>>

Events == {"ready_reacquisition_start", "ready_reacquisition_end", "handoff_sync",
           "alignment_start", "alignment_end", "convergence_gate_start",
           "convergence_gate_end", "profile_start", "cleanup_start", "cleanup_end"}

RecordedInit ==
  /\ Init
  /\ profile \in IF Diagnostic /\ Output THEN Profiles ELSE {None}
  /\ clock = 0 /\ sample = None /\ rows = <<>>
  /\ marks = [event \in Events |-> None]
  /\ samples = 0 /\ published = 0
  /\ termination = None /\ reason = None
  /\ troubles = 0

Happened(event) == marks[event] # None
Stamp(events) == marks' = [event \in Events |-> IF event \in events THEN clock' ELSE marks[event]]

\* A call fails, a file is not written, or Ctrl-C is pressed.
Trouble ==
  \/ interrupts' # interrupts
  \/ error = None /\ error' # None /\ pc # "report"
  \/ pc \in {"acquireFailed", "handoffReport", "entryReport", "report"} /\ report' = report
  \/ refused' # refused
  \/ cleanup' # cleanup /\ cleanup' = "failed"

Tolerated ==
  /\ troubles' = IF Trouble THEN troubles + 1 ELSE troubles
  /\ troubles' <= MaxTroubles

-----------------------------------------------------------------------------
(* The handoff.                                                            *)

HandoffRow(stage_) == [at |-> clock', stage |-> stage_, traced |-> FALSE, asked |-> None, target |-> None]
LoopUntouched == UNCHANGED <<profile, sample, samples, published, termination, reason>>

RecordReacquire ==
  /\ Output
  /\ Reacquire
  /\ clock' = clock /\ Stamp({"ready_reacquisition_start"})
  /\ rows' = rows /\ LoopUntouched
  /\ Tolerated

\* record_sample, after every point streamed and every observation.
RecordReady ==
  /\ Output
  /\ ReadyStream \/ (Settle /\ pc' \in {"settle", "sync"})
  /\ clock' = clock + Period
  /\ rows' = Append(rows, HandoffRow("ready_reacquisition"))
  /\ Stamp(IF pc' = "sync" THEN {"ready_reacquisition_end"} ELSE {})
  /\ LoopUntouched
  /\ Tolerated

RecordSync ==
  /\ Output
  /\ Sync /\ pc' = "enter"
  /\ clock' = clock + Period
  /\ rows' = Append(rows, HandoffRow("handoff_sync"))
  /\ Stamp({"handoff_sync"})
  /\ LoopUntouched
  /\ Tolerated

RecordEnter ==
  /\ Output
  /\ Enter
  /\ clock' = clock /\ Stamp({"alignment_start"})
  /\ rows' = rows /\ LoopUntouched
  /\ Tolerated

-----------------------------------------------------------------------------
(* The loop.                                                               *)

Deadline == marks["alignment_start"] + Seconds
Aligned(at) == at # "aligning"

Waited == ~Happened("profile_start") /\ clock >= marks["alignment_start"] + MaxWait

\* A cycle starts at a time of its own; a running profile is sampled at it.
\* Bound: only the cycles of a running profile are late.
RecordFeedback ==
  /\ Output
  /\ Feedback
  /\ ~Waited
  /\ \E e \in IF Happened("profile_start") THEN Elapsed ELSE {Period} : clock' = clock + e
  /\ clock' < Deadline
  /\ sample' = IF Happened("profile_start") THEN Sample(profile, clock' - marks["profile_start"])
               ELSE None
  /\ UNCHANGED <<profile, rows, marks, samples, published, termination, reason>>
  /\ Tolerated

\* --seconds are over.  Bound: the rest of a wait that goes on is skipped.
RecordTimeUp ==
  /\ Output
  /\ TimeUp
  /\ clock' = IF Waited THEN Deadline ELSE clock + Period
  /\ clock' >= Deadline
  /\ termination' = "completed"
  /\ UNCHANGED <<profile, sample, rows, marks, samples, published, reason>>
  /\ Tolerated

\* Mutant: the row of a cycle is filed after its convergence gate was consulted.
Bug_StageOf(after) ==
  IF ~Aligned(after) THEN "startup_alignment"
  ELSE IF ~Diagnostic THEN "manual_follow"
  ELSE IF ~Happened("convergence_gate_end")' THEN "convergence_gate"
  ELSE IF sample = None \/ Canonical(sample.phase) = "none" THEN "origin_hold"
  ELSE Canonical(sample.phase)

\* stage_for_sample: what the row of a cycle is filed under.  The answer the
\* convergence gate gives in this very cycle comes too late for it.
StageOf(after) ==
  IF ~Aligned(after) THEN "startup_alignment"
  ELSE IF ~Diagnostic THEN "manual_follow"
  ELSE IF ~Happened("convergence_gate_end") THEN "convergence_gate"
  ELSE IF sample = None \/ Canonical(sample.phase) = "none" THEN "origin_hold"
  ELSE Canonical(sample.phase)

\* requested_profile_phases: what an IK request of this cycle is filed under.
PhaseOf(after) ==
  IF sample # None THEN sample.phase
  ELSE IF ~Aligned(after) THEN <<"startup_alignment", "">>
  ELSE IF ~Diagnostic THEN <<"manual_follow", "">>
  ELSE IF ~Happened("profile_start") THEN <<"convergence_gate", "">>
  ELSE <<"profile_start", "">>

\* Every cycle that has a target leaves a row, before anything is published.
Traced(after) ==
  rows' = Append(rows, [at |-> clock, stage |-> StageOf(after), traced |-> TRUE,
                        asked |-> PhaseOf(after), target |-> sample])

RecordCommand ==
  /\ Output
  /\ Command
  /\ clock' = clock
  /\ Stamp((IF stage = "aligning" /\ stage' # stage
            THEN {"alignment_end"} \cup (IF Diagnostic THEN {"convergence_gate_start"} ELSE {})
            ELSE {})
           \cup (IF stage' = "profiling" /\ stage' # stage
                 THEN {"convergence_gate_end", "profile_start"} ELSE {}))
  /\ IF latched' THEN Traced(stage') ELSE rows' = rows
  /\ LoopUntouched
  /\ Tolerated

RecordGateTimeout ==
  /\ Output
  /\ GateTimeout
  /\ Traced(stage')
  /\ UNCHANGED <<clock, marks>> /\ LoopUntouched
  /\ Tolerated

\* The refusal of the gate's timeout; its row is counted.
RecordGateHold ==
  /\ Output
  /\ GateHold
  /\ samples' = samples + 1
  /\ termination' = "safety_refused" /\ reason' = "handoff_convergence_timeout"
  /\ UNCHANGED <<profile, clock, sample, rows, marks, published>>
  /\ Tolerated

\* A profile's target is counted before it is streamed, and its last one ends the
\* loop.
RecordPublish ==
  /\ Output
  /\ Publish
  /\ samples' = samples + 1
  /\ published' = IF sample = None THEN published ELSE published + 1
  /\ (pc' = AfterLoop) <=> (sample # None /\ sample.complete)
  /\ termination' = IF pc' = AfterLoop THEN "diagnostic_profile_completed" ELSE termination
  /\ UNCHANGED <<profile, clock, sample, rows, marks, reason>>
  /\ Tolerated

\* What the loop says of an exception; a manual run that fails has no report.
RecordLoopRaises ==
  /\ Output
  /\ LoopRaises
  /\ published' = IF pc = "publish" /\ sample # None THEN published + 1 ELSE published
  /\ \/ /\ refused' /\ termination' = "safety_refused" /\ reason' = "safety_refusal"
     \/ /\ refused' /\ Diagnostic /\ termination' = "exception"
        /\ reason' = IF Happened("profile_start") THEN "diagnostic_exception"
                     ELSE "startup_alignment_failed"
     \/ ~refused' /\ UNCHANGED <<termination, reason>>
  /\ UNCHANGED <<profile, clock, sample, rows, marks, samples>>
  /\ Tolerated

RecordInterrupt ==
  /\ Output
  /\ Interrupt
  /\ termination' = IF pc \in LoopBody THEN "interrupted" ELSE termination
  /\ UNCHANGED <<profile, clock, sample, rows, marks, samples, published, reason>>
  /\ Tolerated

-----------------------------------------------------------------------------
(* The cleanup and the report.                                             *)

RecordCleanup ==
  /\ Output
  /\ SendZero \/ ZeroFails
  /\ clock' = clock
  /\ Stamp((IF cleanup = "none" THEN {"cleanup_start"} ELSE {})
           \cup (IF cleanup' # "attempted" THEN {"cleanup_end"} ELSE {}))
  /\ IF cleanup' = "failed" /\ pc = "loopZero"
     THEN /\ termination' = "exception"
          /\ reason' = IF reason = None THEN "gravity_cleanup_failed" ELSE reason
     ELSE UNCHANGED <<termination, reason>>
  /\ UNCHANGED <<profile, sample, rows, samples, published>>
  /\ Tolerated

\* _handoff_partial_diagnostics: a session that ends outside its loop is reported
\* by how far its handoff came.
PartialReasons ==
  IF pc = "acquireFailed"
  THEN {"initial_joint_state_acquisition_failed", "invalid_initial_joint_state_feedback"}
  ELSE IF ~activated THEN {"gravity_activation_failed"}
  ELSE IF stage = "reacquiring" THEN {"ready_reacquisition_failed"}
  ELSE IF stage = "reacquired" THEN {"handoff_sync_failed"}
  ELSE {"startup_alignment_failed"}

RecordPartial ==
  /\ Output
  /\ AcquireFailed \/ HandoffReport
  /\ \E why \in PartialReasons : termination' = why /\ reason' = why
  /\ UNCHANGED <<profile, clock, sample, rows, marks, samples, published>>
  /\ Tolerated

Unrecorded ==
  /\ Output
  /\ \/ Acquire \/ Prepare \/ CallRaises \/ Activate \/ ReadyTorque \/ SettleHold
     \/ (Settle \/ Sync) /\ pc' \in {"settleHold", "handoffFailed"}
     \/ HandoffFailed \/ Summary \/ CloseWorker \/ EntryFailed \/ Report \/ Leave
  /\ UNCHANGED recordVars
  /\ Tolerated

\* Without --output nobody reads the record, and it is not kept.
Unkept == ~Output /\ Next /\ UNCHANGED <<recordVars, troubles>>

RecordedNext ==
  \/ RecordReacquire \/ RecordReady \/ RecordSync \/ RecordEnter
  \/ RecordFeedback \/ RecordTimeUp \/ RecordCommand \/ RecordGateTimeout \/ RecordGateHold
  \/ RecordPublish \/ RecordLoopRaises \/ RecordInterrupt
  \/ RecordCleanup \/ RecordPartial
  \/ Unrecorded \/ Unkept

RecordedSpec ==
  /\ RecordedInit /\ [][RecordedNext]_recordedVars
  /\ WF_recordedVars(RecordedNext /\ interrupts' = interrupts)

-----------------------------------------------------------------------------
(* What the report makes of the rows.                                      *)

ProfileStages == {"ramp", "hold", "return", "origin_hold"}

\* window_statistics: the stages each window counts.
StagesOf ==
  [handoff_alignment |-> {"handoff_sync", "startup_alignment"},
   convergence_gate |-> {"convergence_gate"}, profile_only |-> ProfileStages,
   ramp |-> {"ramp"}, hold |-> {"hold"}, return |-> {"return"},
   origin_hold |-> {"origin_hold"}]

\* phase_sets: the IK requests each window counts.
PhasesOf ==
  LET part(name) == {<<kind, name>> : kind \in Kinds}
  IN [handoff_alignment |-> {<<"startup_alignment", "">>},
      convergence_gate |-> {<<"convergence_gate", "">>},
      profile_only |-> part("ramp_out") \cup part("hold") \cup part("ramp_back")
                         \cup {<<"origin", "hold">>},
      ramp |-> part("ramp_out"), hold |-> part("hold"), return |-> part("ramp_back"),
      origin_hold |-> {<<"origin", "hold">>}]

TracedRows == {n \in DOMAIN rows : rows[n].traced}
ProfileRows == {n \in TracedRows : rows[n].stage \in ProfileStages}

\* diagnostic_metadata["completed"].
ProfileCompleted == termination = "diagnostic_profile_completed"

-----------------------------------------------------------------------------
(* Properties.                                                             *)

\* Every row of a diagnostic run counts in one window of the statistics, in
\* profile_only exactly when that window is one of the profile's; and an IK request
\* of its cycle counts in the same ones, the request of the last cycle excepted,
\* whose phase `complete` no window names.
EveryRowHasItsWindow ==
  Diagnostic => \A n \in TracedRows :
    /\ \E only \in DOMAIN StagesOf \ {"profile_only"} :
         \A window \in DOMAIN StagesOf :
           rows[n].stage \in StagesOf[window] <=>
             window = only \/ (window = "profile_only" /\ only \in ProfileStages)
    /\ rows[n].asked # <<"complete", "complete">> =>
         \A window \in DOMAIN StagesOf :
           rows[n].asked \in PhasesOf[window] <=> rows[n].stage \in StagesOf[window]

\* Whether a moment belongs to a stage, told by the timeline's events.
During(stage_, at) ==
  \/ /\ stage_ = "ready_reacquisition"
     /\ marks["ready_reacquisition_start"] <= at
     /\ Happened("ready_reacquisition_end") => at <= marks["ready_reacquisition_end"]
  \/ stage_ = "handoff_sync" /\ at = marks["handoff_sync"]
  \/ /\ stage_ = "startup_alignment"
     /\ marks["alignment_start"] <= at
     /\ Happened("alignment_end") => at < marks["alignment_end"]
  \/ stage_ = "manual_follow" /\ marks["alignment_end"] <= at
  \/ /\ stage_ = "convergence_gate"
     /\ marks["convergence_gate_start"] <= at
     /\ Happened("convergence_gate_end") => at <= marks["convergence_gate_end"]
  \/ stage_ \in ProfileStages /\ marks["profile_start"] < at

\* The two records of a run agree: at the moment of every row the timeline's events
\* tell the stage the row is filed under, and no row is later than the cleanup.
StagesMatchTimeline ==
  \A n \in DOMAIN rows :
    /\ During(rows[n].stage, rows[n].at)
    /\ Happened("cleanup_start") => rows[n].at <= marks["cleanup_start"]
    /\ n > 1 => rows[n - 1].at < rows[n].at

RecordAgrees == EveryRowHasItsWindow /\ StagesMatchTimeline

\* However late the cycles are, two targets of a profile are never further apart than
\* the profile's speeds allow in the time between them, and neither is the first one
\* from the origin: no lateness turns into a jump (docs/cli.md:607-608, "hard maximum").
Gap(a, b) == IF a < b THEN b - a ELSE a - b
Reachable(from, to, lasting) ==
  /\ Gap(from.translation, to.translation) <= profile.linear * lasting
  /\ Gap(from.rotation, to.rotation) <= profile.angular * lasting
ProfileIsContinuous ==
  \A n \in ProfileRows :
    LET row == rows[n]
    IN IF rows[n - 1].target = None
       THEN Reachable([translation |-> 0, rotation |-> 0], row.target, row.at - marks["profile_start"])
       ELSE Reachable(rows[n - 1].target, row.target, row.at - rows[n - 1].at)

\* A run is reported as a completed profile only when the whole of it has passed, its
\* last target is the origin, and every target of it was streamed.
CompletedIsTheWholeProfile ==
  ProfileCompleted =>
    LET last == rows[Len(rows)]
    IN /\ last.at - marks["profile_start"] > Duration(profile)
       /\ last.target.translation = 0 /\ last.target.rotation = 0
       /\ published = Cardinality(ProfileRows)
       /\ position = "profile"

\* The sums over the rows of a complete report are divided by the number of its rows,
\* unless Ctrl-C came between a row and its publication.
SumsAreOverRows ==
  report = "complete" /\ termination # "interrupted" => samples = Cardinality(TracedRows)

\* A session that timed out in the convergence gate streamed no target of the profile
\* and tried to hold the measured pose (docs/cli.md:671-673).
TimedOutBeforeProfile ==
  reason = "handoff_convergence_timeout" =>
    published = 0 /\ ProfileRows = {} /\ hold # "none"

ReportIsTrue == CompletedIsTheWholeProfile /\ SumsAreOverRows /\ TimedOutBeforeProfile
=============================================================================
