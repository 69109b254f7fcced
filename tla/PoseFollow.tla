----------------------------- MODULE PoseFollow -----------------------------
(***************************************************************************)
(* One `pose follow --execute` session (src/robot_control/cli.py):         *)
(* acquiring the first feedback, the deterministic handoff under gravity   *)
(* torque, the follow loop, and every way out of them, down to the report  *)
(* and the exit code.  The arm keeps the last torque and the last position *)
(* it was sent, so what the session leaves on the wire when it ends is     *)
(* what matters.  Ctrl-C may arrive before every step.                     *)
(*                                                                         *)
(* A call to ROS may fail wherever the session makes one.  Poses are       *)
(* abstracted to where the measured joints stand; torques to on and zero.  *)
(***************************************************************************)
EXTENDS Naturals

CONSTANTS
  None,           \* no exception, no command
  ReadyPoints,    \* points of the minimum-jerk move to the ready posture
  SettleBeats,    \* observations that fit into READY_SETTLE_TIMEOUT_SEC
  MaxInterrupts   \* bound: how often Ctrl-C is pressed

ASSUME FollowAssumption ==
  /\ None \notin {"safety", "unusable", "unexpected", "interrupt",
                  "none", "ready", "follow", "profile", "hold"}
  /\ ReadyPoints \in Nat \ {0}
  /\ SettleBeats \in Nat \ {0}
  /\ MaxInterrupts \in Nat

VARIABLES
  setup,      \* the options of the command
  pc,         \* where the session is
  error,      \* the exception being propagated
  wire,       \* the last effort published: none but zero, or a gravity torque
  position,   \* what the last position published was for
  activated,  \* gravity_metadata["activated"]
  cleanup,    \* gravity_metadata["cleanup"]: none, attempted, done or failed
  zeros,      \* zero efforts published by the cleanup
  stage,      \* how far the session got
  hold,       \* the measured-position hold: none, applied or failed
  measured,   \* the last measured joints
  beats,      \* points streamed or observations made in the current phase
  latched,    \* the IK worker has latched a target
  outgoing,   \* the command approved in this cycle
  refused,    \* refusal is not None
  report,     \* the diagnostics file
  exit,       \* how the process ended
  interrupts  \* Ctrl-C pressed so far

handoffVars == <<activated, stage, hold, measured, beats>>
loopVars == <<latched, outgoing, refused>>
vars == <<setup, pc, error, wire, position, cleanup, zeros, report, exit,
          interrupts, handoffVars, loopVars>>

-----------------------------------------------------------------------------
\* What was asked for: a deterministic profile, which implies gravity torque;
\* gravity torque; a diagnostics file.
Options == {"diagnostic", "gravity", "output"}
Diagnostic == "diagnostic" \in setup
Gravity == "gravity" \in setup
Output == "output" \in setup

\* Where the measured joints stand: inside their limits and the A-prime
\* neighbourhood; off it, but close enough to the limits to be held; beyond
\* their limits by more than SEED_SLACK_RAD.
Measured == {"near", "away", "outside"}

\* What a call may raise: SafetyError; AdapterUnavailable, ValueError or
\* OSError; any other Exception.
Exceptions == {"safety", "unusable", "unexpected"}

Handoff == {"activate", "reacquire", "ready", "readyStream", "settle", "settleHold", "sync"}
LoopBody == {"feedback", "command", "gateHold", "publish"}
ZeroAt == {"handoffZero", "loopZero", "entryZero"}
Steps == Handoff \cup LoopBody \cup ZeroAt \cup
  {"acquire", "acquireFailed", "prepare", "handoffFailed", "handoffReport", "enter",
   "summary", "closeWorker", "entryFailed", "entryReport", "report", "leave", "done"}

Init ==
  /\ setup \in {s \in SUBSET Options : "diagnostic" \in s => "gravity" \in s}
  /\ pc = "acquire" /\ error = None
  /\ wire = "zero" /\ position = "none"
  /\ activated = FALSE /\ cleanup = "none" /\ zeros = 0
  /\ stage = "start" /\ hold = "none" /\ measured = "near" /\ beats = 0
  /\ latched = FALSE /\ outgoing = None /\ refused = FALSE
  /\ report = "none" /\ exit = "running" /\ interrupts = 0

\* Where an exception of a call outside the loop goes.
Handler(at) ==
  IF at = "acquire" THEN "acquireFailed"
  ELSE IF at = "prepare" THEN "leave"
  ELSE IF at = "enter" THEN "entryFailed"
  ELSE "handoffFailed"

\* A call raises before it had an effect.
CallRaises ==
  /\ pc \in {"acquire", "prepare", "activate", "ready", "readyStream", "settle", "sync", "enter"}
  /\ error' \in Exceptions /\ pc' = Handler(pc)
  /\ UNCHANGED <<setup, wire, position, cleanup, zeros, report, exit, interrupts,
                 handoffVars, loopVars>>

\* Writing the diagnostics file, when one was asked for.
Persist(kind, raising) ==
  \/ Output /\ report' = kind /\ error' = raising
  \/ Output /\ report' = report /\ error' = "unusable"
  \/ ~Output /\ report' = report /\ error' = raising

-----------------------------------------------------------------------------
(* Before anything is published.                                           *)

Acquire ==
  /\ pc = "acquire"
  /\ measured' \in Measured /\ pc' = "prepare"
  /\ UNCHANGED <<setup, error, wire, position, activated, cleanup, zeros, stage,
                 hold, beats, report, exit, interrupts, loopVars>>

AcquireFailed ==
  /\ pc = "acquireFailed"
  /\ Persist("partial", error)
  /\ pc' = "leave"
  /\ UNCHANGED <<setup, wire, position, cleanup, zeros, exit, interrupts,
                 handoffVars, loopVars>>

Prepare ==
  /\ pc = "prepare"
  /\ pc' = IF Diagnostic THEN "activate" ELSE "enter"
  /\ UNCHANGED <<setup, error, wire, position, cleanup, zeros, report, exit,
                 interrupts, handoffVars, loopVars>>

-----------------------------------------------------------------------------
(* The handoff of a diagnostic run: gravity on, the ready posture          *)
(* reacquired, a quiet window, a fresh measurement.                        *)

Activate ==
  /\ pc = "activate"
  /\ wire' = "on" /\ activated' = TRUE /\ pc' = "reacquire"
  /\ UNCHANGED <<setup, error, position, cleanup, zeros, stage, hold, measured,
                 beats, report, exit, interrupts, loopVars>>

\* Reacquisition starts; a pose off the posture but still legal is moved to it.
Reacquire ==
  /\ pc = "reacquire"
  /\ stage' = "reacquiring"
  /\ \/ measured = "near" /\ pc' = "settle" /\ error' = error
     \/ measured # "outside" /\ pc' = "ready" /\ error' = error
     \/ measured # "near" /\ pc' = "handoffFailed" /\ error' \in Exceptions
  /\ UNCHANGED <<setup, wire, position, activated, cleanup, zeros, hold, measured,
                 beats, report, exit, interrupts, loopVars>>

\* _ready_control_cycle, up to the torque.
ReadyTorque ==
  /\ pc = "ready"
  /\ measured' \in Measured /\ wire' = "on" /\ pc' = "readyStream"
  /\ UNCHANGED <<setup, error, position, activated, cleanup, zeros, stage, hold,
                 beats, report, exit, interrupts, loopVars>>

\* _ready_control_cycle, the position.
ReadyStream ==
  /\ pc = "readyStream"
  /\ position' = "ready"
  /\ beats' = IF beats + 1 < ReadyPoints THEN beats + 1 ELSE 0
  /\ pc' = IF beats + 1 < ReadyPoints THEN "ready" ELSE "settle"
  /\ UNCHANGED <<setup, error, wire, activated, cleanup, zeros, stage, hold,
                 measured, report, exit, interrupts, loopVars>>

\* Mutant: the quiet window's deadline is renewed when it is reached.
Bug_SettleForever ==
  /\ pc = "settle" /\ measured' = "near" /\ wire' = "on" /\ error' = error
  /\ beats' = IF beats < SettleBeats THEN beats + 1 ELSE 0
  /\ \/ pc' = "settle" /\ stage' = stage
     \/ pc' = "sync" /\ stage' = "reacquired"
  /\ UNCHANGED <<setup, position, activated, cleanup, zeros, hold,
                 report, exit, interrupts, loopVars>>

\* _wait_for_follow_ready_stationary: torque is refreshed, no position is sent.
\* The first quiet sample only opens the window.
Settle ==
  /\ pc = "settle"
  /\ \/ measured # "near" /\ error' = "safety" /\ pc' = "handoffFailed"
        /\ UNCHANGED <<wire, stage, measured, beats>>
     \/ /\ measured = "near" /\ beats < SettleBeats /\ measured' \in Measured
        /\ \/ measured' # "near" /\ error' = "safety" /\ pc' = "handoffFailed"
              /\ UNCHANGED <<wire, stage, beats>>
           \/ measured' = "near" /\ wire' = "on" /\ beats' = beats + 1
              /\ error' = error
              /\ \/ pc' = "settle" /\ stage' = stage
                 \/ beats > 0 /\ pc' = "sync" /\ stage' = "reacquired"
     \/ measured = "near" /\ beats = SettleBeats /\ pc' = "settleHold"
        /\ UNCHANGED <<error, wire, stage, measured, beats>>
  /\ UNCHANGED <<setup, position, activated, cleanup, zeros, hold, report, exit,
                 interrupts, loopVars>>

\* _attempt_follow_safe_hold: once, and best effort.
AttemptHold(at) ==
  IF hold # "none" THEN UNCHANGED <<hold, position>>
  ELSE \/ at # "outside" /\ hold' = "applied" /\ position' = "hold"
       \/ hold' = "failed" /\ position' = position

\* The arm did not come to rest in time.
SettleHold ==
  /\ pc = "settleHold"
  /\ AttemptHold(measured)
  /\ error' = "safety" /\ pc' = "handoffFailed"
  /\ UNCHANGED <<setup, wire, activated, cleanup, zeros, stage, measured, beats,
                 report, exit, interrupts, loopVars>>

\* _follow_handoff_sync: the measured pose becomes the anchor.
Sync ==
  /\ pc = "sync"
  /\ measured' \in Measured
  /\ IF measured' = "near" THEN stage' = "aligning" /\ pc' = "enter" /\ error' = error
     ELSE stage' = stage /\ pc' = "handoffFailed" /\ error' = "safety"
  /\ UNCHANGED <<setup, wire, position, activated, cleanup, zeros, hold, beats,
                 report, exit, interrupts, loopVars>>

\* Mutant: the handler's first zero goes out before the hold.
Bug_ZeroBeforeHold ==
  /\ pc = "handoffFailed"
  /\ wire' = "zero"
  /\ IF stage = "reacquiring" THEN AttemptHold(measured) ELSE UNCHANGED <<hold, position>>
  /\ pc' = IF activated THEN "handoffZero" ELSE "handoffReport"
  /\ UNCHANGED <<setup, error, activated, cleanup, zeros, stage, measured, beats,
                 report, exit, interrupts, loopVars>>

\* Mutant: the handler reports at once and leaves the torque on.
Bug_ReportWithoutZero ==
  /\ pc = "handoffFailed"
  /\ IF stage = "reacquiring" THEN AttemptHold(measured) ELSE UNCHANGED <<hold, position>>
  /\ pc' = "handoffReport"
  /\ UNCHANGED <<setup, error, wire, activated, cleanup, zeros, stage, measured, beats,
                 report, exit, interrupts, loopVars>>

\* The handler of the handoff: a failure during reacquisition holds the pose
\* read afresh, or the one known, before the torque is released.
HandoffFailed ==
  /\ pc = "handoffFailed"
  /\ IF stage = "reacquiring"
     THEN measured' \in Measured /\ AttemptHold(measured')
     ELSE UNCHANGED <<measured, hold, position>>
  /\ pc' = IF activated THEN "handoffZero" ELSE "handoffReport"
  /\ UNCHANGED <<setup, error, wire, activated, cleanup, zeros, stage, beats,
                 report, exit, interrupts, loopVars>>

\* The partial report; what was raised leaves as a SafetyError.
HandoffReport ==
  /\ pc \in {"handoffReport", "entryReport"}
  /\ Persist("partial", "safety")
  /\ pc' = "leave"
  /\ UNCHANGED <<setup, wire, position, cleanup, zeros, exit, interrupts,
                 handoffVars, loopVars>>

-----------------------------------------------------------------------------
(* The follow loop: a try whose finally releases the torque.               *)

\* The marker, the IK adapter and the worker.
Enter ==
  /\ pc = "enter"
  /\ stage' = "aligning" /\ pc' = "feedback"
  /\ UNCHANGED <<setup, error, wire, position, activated, cleanup, zeros, hold,
                 measured, beats, report, exit, interrupts, loopVars>>

\* Where the loop goes when it is over: its finally clause.
AfterLoop == IF Gravity THEN "loopZero" ELSE "summary"

\* The loop's except clauses.  A SafetyError becomes a refusal; so does
\* anything else in a diagnostic run, while a manual run lets it through.
Refuse(e) ==
  /\ IF e = "safety" \/ Diagnostic THEN refused' = TRUE /\ error' = error
     ELSE refused' = refused /\ error' = e
  /\ pc' = AfterLoop
LoopRaises ==
  /\ pc \in {"feedback", "command", "publish"}
  /\ \E e \in Exceptions : Refuse(e)
  /\ UNCHANGED <<setup, wire, position, cleanup, zeros, report, exit, interrupts,
                 handoffVars, latched, outgoing>>

\* --seconds is over.
TimeUp ==
  /\ pc = "feedback" /\ pc' = AfterLoop
  /\ UNCHANGED <<setup, error, wire, position, cleanup, zeros, report, exit,
                 interrupts, handoffVars, loopVars>>

\* A cycle begins: feedback, then torque.
Feedback ==
  /\ pc = "feedback" /\ pc' = "command"
  /\ measured' \in Measured
  /\ wire' = IF Gravity THEN "on" ELSE wire
  /\ UNCHANGED <<setup, error, position, activated, cleanup, zeros, stage, hold,
                 beats, report, exit, interrupts, loopVars>>

\* How alignment and the convergence gate may move on in a cycle.  The gate is
\* consulted only when there is a target, and cannot pass where it starts.
Advance ==
  \/ stage' = stage
  \/ stage = "aligning" /\ stage' = IF Diagnostic THEN "converging" ELSE "following"
  \/ stage = "converging" /\ latched' /\ stage' = "profiling"

\* The cycle's command: none before a target is latched.  A profile's first
\* sample is in the cycle after the one that started it.
Command ==
  /\ pc = "command"
  /\ latched' \in BOOLEAN /\ (latched => latched')
  /\ Advance
  /\ outgoing' = IF ~latched' THEN None
                 ELSE IF stage = "profiling" THEN "profile" ELSE "follow"
  /\ pc' = IF latched' THEN "publish" ELSE "feedback"
  /\ UNCHANGED <<setup, error, wire, position, activated, cleanup, zeros, hold,
                 measured, beats, refused, report, exit, interrupts>>

\* The convergence gate gives up in this cycle.
GateTimeout ==
  /\ pc = "command" /\ stage = "converging"
  /\ latched' = TRUE /\ pc' = "gateHold"
  /\ UNCHANGED <<setup, error, wire, position, cleanup, zeros, report, exit,
                 interrupts, handoffVars, outgoing, refused>>

\* Mutant: the convergence timeout is recorded but the cycle goes on.
Bug_GateTimeoutContinues ==
  /\ pc = "gateHold"
  /\ AttemptHold(measured)
  /\ refused' = TRUE /\ pc' = "publish" /\ outgoing' = "follow"
  /\ UNCHANGED <<setup, error, wire, activated, cleanup, zeros, stage, measured, beats,
                 latched, report, exit, interrupts>>

\* The timeout's measured-position hold, and its refusal.
GateHold ==
  /\ pc = "gateHold"
  /\ AttemptHold(measured)
  /\ refused' = TRUE /\ pc' = AfterLoop
  /\ UNCHANGED <<setup, error, wire, activated, cleanup, zeros, stage, measured, beats,
                 latched, outgoing, report, exit, interrupts>>

\* The command is streamed; a profile's last sample ends the loop.
Publish ==
  /\ pc = "publish"
  /\ position' = outgoing
  /\ pc' \in {"feedback"} \cup (IF outgoing = "profile" THEN {AfterLoop} ELSE {})
  /\ UNCHANGED <<setup, error, wire, cleanup, zeros, report, exit, interrupts,
                 handoffVars, loopVars>>

-----------------------------------------------------------------------------
(* Releasing the torque, and the way out.                                  *)

\* _zero_follow_gravity publishes zero this often.
ZeroSends == 3

\* Mutant: the loop's cleanup runs in every cycle.
Bug_ZeroEveryCycle(at) ==
  CASE at = "handoffZero" -> "handoffReport"
    [] at = "loopZero" -> "feedback"
    [] at = "entryZero" -> IF Diagnostic THEN "entryReport" ELSE "leave"

\* What follows a cleanup.
After(at) ==
  CASE at = "handoffZero" -> "handoffReport"
    [] at = "loopZero" -> "summary"
    [] at = "entryZero" -> IF Diagnostic THEN "entryReport" ELSE "leave"

\* One publication of zero.
SendZero ==
  /\ pc \in ZeroAt
  /\ wire' = "zero" /\ zeros' = zeros + 1
  /\ cleanup' = IF zeros + 1 < ZeroSends THEN "attempted" ELSE "done"
  /\ pc' = IF zeros + 1 < ZeroSends THEN pc ELSE After(pc)
  /\ UNCHANGED <<setup, error, position, report, exit, interrupts, handoffVars, loopVars>>

\* Mutant: a cleanup that failed is forgotten.
Bug_CleanupFailureForgotten ==
  /\ pc \in ZeroAt
  /\ cleanup' = "failed" /\ pc' = After(pc)
  /\ UNCHANGED <<setup, error, wire, position, zeros, report, exit, interrupts,
                 handoffVars, loopVars>>

\* Publishing zero fails: the loop makes a refusal of it, the handlers record it.
ZeroFails ==
  /\ pc \in ZeroAt
  /\ cleanup' = "failed" /\ pc' = After(pc)
  /\ refused' = (refused \/ pc = "loopZero")
  /\ UNCHANGED <<setup, error, wire, position, zeros, report, exit, interrupts,
                 handoffVars, latched, outgoing>>

\* The loop's summary and its diagnostics, which command nothing and refuse nothing.
Summary ==
  /\ pc = "summary" /\ pc' = "closeWorker"
  /\ error' \in {error, "unusable", "unexpected"}
  /\ UNCHANGED <<setup, wire, position, cleanup, zeros, report, exit, interrupts,
                 handoffVars, loopVars>>

\* The finally clause around the loop.
CloseWorker ==
  /\ pc = "closeWorker"
  /\ pc' = CASE error = None -> "report"
             [] error = "interrupt" -> "leave"
             [] OTHER -> "entryFailed"
  /\ UNCHANGED <<setup, error, wire, position, cleanup, zeros, report, exit,
                 interrupts, handoffVars, loopVars>>

\* The outer handler: it releases the torque if nobody tried.
EntryFailed ==
  /\ pc = "entryFailed"
  /\ \/ activated /\ cleanup = "none" /\ pc' = "entryZero"
     \/ ~(activated /\ cleanup = "none")
        /\ pc' = IF Diagnostic THEN "entryReport" ELSE "leave"
  /\ UNCHANGED <<setup, error, wire, position, cleanup, zeros, report, exit,
                 interrupts, handoffVars, loopVars>>

\* Mutant: the report of a refused run calls itself complete.
Bug_ReportIgnoresRefusal ==
  /\ pc = "report"
  /\ Persist("complete", IF refused THEN "safety" ELSE None)
  /\ pc' = "leave"
  /\ UNCHANGED <<setup, wire, position, cleanup, zeros, exit, interrupts,
                 handoffVars, loopVars>>

\* The report of a loop that returned, then its refusal as a SafetyError.
Report ==
  /\ pc = "report"
  /\ Persist(IF refused THEN "partial" ELSE "complete", IF refused THEN "safety" ELSE None)
  /\ pc' = "leave"
  /\ UNCHANGED <<setup, wire, position, cleanup, zeros, exit, interrupts,
                 handoffVars, loopVars>>

\* _pose maps what is raised onto the exit code.
Leave ==
  /\ pc = "leave" /\ pc' = "done"
  /\ exit' = CASE error = None -> "ok"
               [] error = "safety" -> "refused"
               [] error = "unusable" -> "unusable"
               [] error = "unexpected" -> "traceback"
               [] error = "interrupt" -> "interrupt"
  /\ UNCHANGED <<setup, error, wire, position, cleanup, zeros, report, interrupts,
                 handoffVars, loopVars>>

\* Ctrl-C.  Only the body of the loop catches it; everywhere else it passes the
\* handlers, which are for Exception, and runs the finally clauses alone.
Interrupt ==
  /\ pc # "done" /\ interrupts < MaxInterrupts
  /\ interrupts' = interrupts + 1
  /\ IF pc \in LoopBody THEN pc' = AfterLoop /\ error' = error
     ELSE /\ pc' = IF pc \in {"loopZero", "summary"} THEN "closeWorker" ELSE "leave"
          /\ error' = "interrupt"
  /\ UNCHANGED <<setup, wire, position, cleanup, zeros, report, exit, handoffVars, loopVars>>

-----------------------------------------------------------------------------
Next ==
  \/ Acquire \/ AcquireFailed \/ Prepare \/ CallRaises
  \/ Activate \/ Reacquire \/ ReadyTorque \/ ReadyStream \/ Settle \/ SettleHold \/ Sync
  \/ HandoffFailed \/ HandoffReport
  \/ Enter \/ TimeUp \/ Feedback \/ Command \/ GateTimeout \/ GateHold \/ Publish
  \/ LoopRaises
  \/ SendZero \/ ZeroFails
  \/ Summary \/ CloseWorker \/ EntryFailed \/ Report \/ Leave
  \/ Interrupt

\* The session is one thread that is never blocked for good: every call it
\* makes has a timeout.
Safety == Init /\ [][Next]_vars
Spec == Safety /\ WF_vars(Next /\ interrupts' = interrupts)

-----------------------------------------------------------------------------
(* Properties.                                                             *)

TypeOK ==
  /\ setup \subseteq Options /\ (Diagnostic => Gravity)
  /\ pc \in Steps
  /\ error \in Exceptions \cup {"interrupt", None}
  /\ wire \in {"zero", "on"}
  /\ position \in {"none", "ready", "follow", "profile", "hold"}
  /\ activated \in BOOLEAN
  /\ cleanup \in {"none", "attempted", "done", "failed"}
  /\ zeros \in 0..ZeroSends
  /\ stage \in {"start", "reacquiring", "reacquired", "aligning", "converging",
                "profiling", "following"}
  /\ hold \in {"none", "applied", "failed"}
  /\ measured \in Measured
  /\ beats \in 0..(ReadyPoints + SettleBeats)
  /\ latched \in BOOLEAN
  /\ outgoing \in {None, "follow", "profile"}
  /\ refused \in BOOLEAN
  /\ report \in {"none", "partial", "complete"}
  /\ exit \in {"running", "ok", "refused", "unusable", "traceback", "interrupt"}
  /\ interrupts \in 0..MaxInterrupts

\* However a session ends, by running out, by a refusal or by any failure of any
\* call, the effort left on the wire is zero and zero was published three times
\* once gravity was activated; unless publishing zero itself failed, or a Ctrl-C
\* outside the loop's body cut the session off.
ReleasedUnlessCutOff ==
  (exit \notin {"running", "interrupt"} /\ cleanup # "failed") =>
    wire = "zero" /\ (activated => zeros = ZeroSends)

\* Exit code 0 is given only to a session that left zero effort behind and
\* refused nothing: a cleanup that failed is never passed over in silence.
CleanExitIsReleased == exit = "ok" => wire = "zero" /\ ~refused

\* The report and the exit code agree: a complete report only where nothing was
\* refused, and a refusal after activation or out of the loop is on file.
ReportAgreesWithExit ==
  Output =>
    /\ exit = "ok" => report = "complete"
    /\ exit = "refused" => report # "complete"
    /\ exit = "refused" /\ (activated \/ refused) => report = "partial"

\* Torque, report and exit code tell one story of how a session ended.
EndsAsItSays == ReleasedUnlessCutOff /\ CleanExitIsReleased /\ ReportAgreesWithExit

\* Once the measured pose is held, no later position replaces the hold.
HoldIsFinal == [][position = "hold" => position' = "hold"]_vars

\* In a diagnostic run the arm is told to move, or to hold, only while its
\* weight is carried by the gravity torque.
MotionUnderGravity ==
  [][Diagnostic /\ position' # position => wire' = "on"]_vars

\* A cleanup that published its zeros is the last word: no torque and no
\* position goes out after it.
ReleaseIsFinal ==
  [][(cleanup \in {"done", "failed"}) => UNCHANGED <<wire, position>>]_vars

\* The report is written after the torque was released, so what it says of the
\* cleanup is what happened.
ReportFollowsRelease ==
  [][report' # report => wire = "zero" \/ cleanup = "failed"]_vars

\* Gravity torque does not carry a waiting arm for ever: once activated, the
\* session gets to following, or out with the torque released or its release cut
\* off.  (Following itself may be asked to last for ever.)
HandoffEnds ==
  (activated /\ stage \in {"start", "reacquiring", "reacquired"}) ~>
    (stage = "aligning" \/ pc = "done")

-----------------------------------------------------------------------------
(* What the documentation says, and the code does not do.                  *)

\* A session ended by one Ctrl-C has set the torque back to zero.
InterruptReleases ==
  exit = "interrupt" /\ interrupts = 1 /\ cleanup # "failed" => wire = "zero"
=============================================================================
