----------------------------- MODULE FollowLoop -----------------------------
(***************************************************************************)
(* The control loop of `pose follow` (src/robot_control/cli.py), cycle by  *)
(* cycle: the marker it aims at, the IK requests it submits, the outer     *)
(* loop that closes on the measured joints (follow_outer.py), the servo    *)
(* step of the safety gate, and the convergence gate that decides when a   *)
(* deterministic profile may start (follow_observability.py).              *)
(*                                                                         *)
(* It is composed of the gate's rules (CommandGate) and of what the IK     *)
(* worker promises (LatestIk), which runs in a thread of its own and may   *)
(* latch a target between any two steps of the loop.  Kinematics is        *)
(* external: what it decides (is the arm near the marker, how much of the  *)
(* step do the Cartesian speed limits allow) is a choice.  How a session   *)
(* begins, fails and ends is PoseFollow's subject.                         *)
(***************************************************************************)
EXTENDS Integers

CONSTANTS
  Joints, Lower, Upper, Velocity, MaxLead,  \* as in CommandGate
  Period,        \* the control period
  Gain,          \* --kp
  Elapsed,       \* how long a cycle may take
  Configs,       \* joint vectors measured, or found by IK
  Parts,         \* resolution of the Cartesian limiter's fraction
  JointBound,    \* HANDOFF_IK_TO_COMMAND and HANDOFF_COMMAND_TO_MEASURED
  QuietBound,    \* HANDOFF_MEASURED_SAMPLE_DELTA_RAD
  StableWindow,  \* HANDOFF_STABLE_WINDOW_SEC
  Timeout,       \* HANDOFF_TIMEOUT_SEC
  None,
  MaxSubmits,    \* bound: IK requests submitted
  MaxTime        \* bound: last instant a cycle starts at

Pose == [Joints -> Int]

ASSUME LoopAssumption ==
  /\ Lower \in Pose /\ Upper \in Pose /\ \A j \in Joints : Lower[j] <= Upper[j]
  /\ Velocity \in [Joints -> Nat] /\ MaxLead \in [Joints -> Nat]
  /\ Period \in Nat \ {0} /\ Gain \in Nat /\ Parts \in Nat \ {0}
  /\ \A d \in Elapsed : d \in Nat /\ d >= Period
  /\ \A q \in Configs : q \in Pose
  /\ JointBound \in Nat /\ QuietBound \in Nat
  /\ StableWindow \in Nat \ {0} /\ Timeout \in Nat /\ StableWindow <= Timeout
  /\ MaxSubmits \in Nat /\ MaxTime \in Nat
  /\ None \notin Int /\ None \notin Pose

VARIABLES
  pc,            \* aim, act, over or closed
  diagnostic,    \* a deterministic profile rather than a dragged marker
  now, elapsed,  \* this cycle's start, and the time since the last one's
  measured,      \* this cycle's feedback
  previous,      \* the last cycle's
  aligned,       \* marker_origin is set
  gateStart,     \* the convergence gate's start
  stableSince,   \* since when every observation was within its bound
  profileStart,  \* diagnostic_started_at
  command,       \* the loop's command
  gateLast,      \* the safety gate's _last
  limits,        \* the safety gate's report of the last step
  hold,          \* joints that crossed their IK target and are held to it
  heldTarget,    \* the target each held joint crossed
  accepted,      \* the IK target the loop used last
  published,     \* the last command streamed
  restless,      \* history: the last instant the handoff was not seen stable
  solution,      \* the worker's latched target
  submitted, outcome, latched, accepting  \* the worker's mailbox

ikVars == <<submitted, outcome, latched, accepting>>
aimVars == <<now, elapsed, measured, previous, aligned, gateStart>>
actVars == <<stableSince, profileStart, command, gateLast, limits, hold, heldTarget,
             accepted, published, restless>>
vars == <<pc, diagnostic, aimVars, actVars, solution, ikVars>>

Worker == INSTANCE LatestIk
Gate == INSTANCE CommandGate WITH
  Watchdog <- 0, EffortLimit <- [j \in Joints |-> 0], Malformed <- "malformed",
  Builds <- {}, Poses <- Configs, Efforts <- {}, Durations <- Elapsed, MaxWaypoints <- 0,
  config <- [execute |-> TRUE, lead |-> TRUE, effort |-> TRUE],
  last <- gateLast, lastTime <- None, estopped <- FALSE, followLimits <- limits,
  call <- None, wire <- published

-----------------------------------------------------------------------------
Init ==
  /\ pc = "aim" /\ diagnostic \in BOOLEAN
  /\ now = 0 /\ elapsed = Period
  /\ measured \in Configs /\ previous = measured
  /\ aligned = FALSE /\ gateStart = None
  /\ stableSince = None /\ profileStart = None
  /\ command = measured /\ gateLast = None /\ limits = Gate!NoLimits
  /\ hold = {} /\ heldTarget = [j \in Joints |-> None]
  /\ accepted = None /\ published = None /\ restless = 0
  /\ solution = None /\ Worker!Init

\* An IK request, when the intermediate goal has moved by the tolerance since the
\* last one; the first, and the first after alignment, are forced.
Request(forced) ==
  \/ Worker!Submit
  \/ ~forced /\ submitted > 0 /\ UNCHANGED ikVars

\* A cycle begins: its clock and its feedback.
Sense ==
  /\ pc = "aim" /\ now < MaxTime
  /\ elapsed' \in Elapsed /\ now' = now + elapsed'
  /\ measured' \in Configs /\ previous' = measured
  /\ pc' = "act"
  /\ UNCHANGED <<diagnostic, actVars, solution>>

\* The marker is aimed at, before alignment and after it.
Aim ==
  /\ Sense
  /\ Request(FALSE)
  /\ UNCHANGED <<aligned, gateStart>>

\* The arm is found at the marker: the origin is set, a convergence gate built.
Align ==
  /\ Sense
  /\ ~aligned /\ aligned' = TRUE
  /\ gateStart' = IF diagnostic THEN now' ELSE None
  /\ Request(TRUE)

\* The worker has nothing yet, so this cycle commands nothing.
Idle ==
  /\ pc = "act" /\ latched = 0
  /\ pc' = "aim" /\ restless' = now
  /\ UNCHANGED <<diagnostic, aimVars, stableSince, profileStart, command, gateLast, limits,
                 hold, heldTarget, accepted, published, solution, ikVars>>

-----------------------------------------------------------------------------
(* The outer loop (PostCrossingTargetHold).                                *)

\* Mutant: a hold is kept although its target has changed.
Bug_ReleaseNever(target) == {}

\* Held joints whose target has changed since they crossed it.
Released(target) == {j \in hold : target[j] # heldTarget[j]}

\* Mutant: a released joint keeps the target it was held to.
Bug_ForgottenKept(target) == heldTarget

Forgotten(target) ==
  [j \in Joints |-> IF j \in Released(target) THEN None ELSE heldTarget[j]]
Release(target) == hold' = hold \ Released(target) /\ heldTarget' = Forgotten(target)

\* Mutant: the hold is recorded, but the outer update goes on.
Bug_AskIgnoresHold(target) ==
  [j \in Joints |-> command[j] + Gain * (target[j] - measured[j]) * elapsed]

\* The joints asked for: a held joint's target, and the measured error added to
\* the command elsewhere.
Ask(target) ==
  [j \in Joints |-> IF j \in hold \ Released(target) THEN target[j]
                    ELSE command[j] + Gain * (target[j] - measured[j]) * elapsed]

\* The Cartesian speed limits take a fraction of the step, the same for all joints.
Shortened(ask, part) ==
  [j \in Joints |-> command[j] + (part * (ask[j] - command[j])) \div Parts]

\* crossing_mask: the joints whose command went past the target.
Crossed(new, target) ==
  {j \in Joints : \/ command[j] < target[j] /\ target[j] < new[j]
                  \/ new[j] < target[j] /\ target[j] < command[j]}

\* The servo step of the safety gate.
Step(ask) == Gate!Bounded(Gate!Led(Gate!Stepped(ask, measured, elapsed), measured))
StepLimits(ask) ==
  LET stepped == Gate!Stepped(ask, measured, elapsed)
  IN Gate!FollowLimits(ask, measured, elapsed, stepped, Gate!Led(stepped, measured))

\* What every cycle with a target does, up to the gate's answer.
Follow(ask, target) ==
  /\ pc = "act" /\ latched # 0
  /\ accepted' = target
  /\ gateLast' = Step(ask) /\ command' = Step(ask) /\ limits' = StepLimits(ask)
  /\ UNCHANGED <<diagnostic, aimVars, solution, ikVars>>

Clamped(ask) == StepLimits(ask).lower \cup StepLimits(ask).upper # {}

\* Mutant: a command the position limits changed is dropped, and the loop goes on.
Bug_DropClamped(ask, target) ==
  /\ Follow(ask, target)
  /\ diagnostic /\ Clamped(ask)
  /\ pc' = "aim" /\ Release(target)
  /\ UNCHANGED <<stableSince, profileStart, published, restless>>

\* A deterministic run refuses a command that the position limits changed.
RefuseClamped(ask, target) ==
  /\ Follow(ask, target)
  /\ diagnostic /\ Clamped(ask)
  /\ pc' = "over"
  /\ Release(target)
  /\ UNCHANGED <<stableSince, profileStart, published, restless>>

-----------------------------------------------------------------------------
(* The convergence gate (HandoffConvergenceGate.update).                   *)

Near(a, b, bound) == \A j \in Joints : Gate!Abs(a[j] - b[j]) <= bound

\* Every metric within its bound; the marker's two are the caller's choice.
Stable(atMarker, target) ==
  /\ atMarker
  /\ Near(target, command, JointBound)
  /\ Near(command, measured, JointBound)
  /\ Near(measured, previous, QuietBound)

\* Mutant: an unstable observation does not restart the window.
Bug_WindowNotRestarted(stable) == IF stableSince = None /\ stable THEN now ELSE stableSince

Window(stable) ==
  IF ~stable THEN None ELSE IF stableSince = None THEN now ELSE stableSince

Passed(stable) == Window(stable) # None /\ now - Window(stable) >= StableWindow

\* Mutant: the timeout runs from the last disturbance instead of the start.
Bug_TimeoutFromWindow(stable) == ~Passed(stable) /\ stable /\ now - Window(stable) >= Timeout

TimedOut(stable) == ~Passed(stable) /\ now - gateStart >= Timeout

Consulted == diagnostic /\ gateStart # None /\ profileStart = None

\* The joints the command takes past their target are held, and it is streamed,
\* unless streaming raises; a profile's last sample ends the loop.
Publish(new, target) ==
  /\ \/ /\ published' = new
        /\ pc' \in {"aim"} \cup (IF profileStart # None THEN {"over"} ELSE {})
     \/ published' = published /\ pc' = "over"
  /\ hold' = (hold \ Released(target)) \cup Crossed(new, target)
  /\ heldTarget' = [j \in Joints |-> IF j \in Crossed(new, target) THEN target[j]
                                     ELSE Forgotten(target)[j]]

\* A cycle in which the convergence gate has no say, because there is none or it
\* has passed.
ActFreely(ask, target) ==
  /\ Follow(ask, target)
  /\ ~(diagnostic /\ Clamped(ask)) /\ ~Consulted
  /\ Publish(Step(ask), target)
  /\ UNCHANGED <<stableSince, profileStart, restless>>

\* A cycle the convergence gate observes: it may pass, which starts the profile.
ActObserved(ask, target, stable) ==
  /\ Follow(ask, target)
  /\ ~Clamped(ask) /\ Consulted
  /\ ~TimedOut(stable)
  /\ stableSince' = Window(stable)
  /\ profileStart' = IF Passed(stable) THEN now ELSE None
  /\ restless' = IF stable THEN restless ELSE now
  /\ Publish(Step(ask), target)

\* The convergence gate gives up: the step just computed is not published.
GiveUp(ask, target, stable) ==
  /\ Follow(ask, target)
  /\ ~Clamped(ask) /\ Consulted
  /\ TimedOut(stable)
  /\ pc' = "over"
  /\ stableSince' = Window(stable) /\ restless' = IF stable THEN restless ELSE now
  /\ Release(target)
  /\ UNCHANGED <<profileStart, published>>

Act ==
  \E part \in 1..Parts :
    LET ask == Shortened(Ask(solution), part) IN
      \/ RefuseClamped(ask, solution)
      \/ ActFreely(ask, solution)
      \/ \E atMarker \in BOOLEAN :
           \/ ActObserved(ask, solution, Stable(atMarker, solution))
           \/ GiveUp(ask, solution, Stable(atMarker, solution))

-----------------------------------------------------------------------------
(* The end of the loop, and the other thread.                              *)

\* --seconds run out, Ctrl-C, or a call that raises.
Finish ==
  /\ pc \in {"aim", "act"} /\ pc' = "over"
  /\ UNCHANGED <<diagnostic, aimVars, actVars, solution, ikVars>>

\* worker.close() in the finally clause around the loop.
Close ==
  /\ pc = "over" /\ pc' = "closed"
  /\ Worker!Close
  /\ UNCHANGED <<diagnostic, aimVars, actVars, solution>>

\* The IK worker's thread.
Solve ==
  /\ \E n \in Worker!Requests :
       \/ Worker!Accept(n) /\ solution' \in Configs
       \/ (Worker!Fail(n) \/ Worker!Supersede(n)) /\ solution' = solution
  /\ UNCHANGED <<pc, diagnostic, aimVars, actVars>>

Next == Aim \/ Align \/ Idle \/ Act \/ Finish \/ Close \/ Solve

Spec == Init /\ [][Next]_vars

-----------------------------------------------------------------------------
(* Properties.                                                             *)
MaybePose == Pose \cup {None}
Limits == [velocity : SUBSET Joints, lead : SUBSET Joints,
           lower : SUBSET Joints, upper : SUBSET Joints]
Between(x, a, b) == (a <= x /\ x <= b) \/ (b <= x /\ x <= a)

\* The loop's variables keep their types; a held joint has a target, and no other
\* joint does.
TypeOK ==
  /\ pc \in {"aim", "act", "over", "closed"}
  /\ diagnostic \in BOOLEAN /\ aligned \in BOOLEAN
  /\ now \in Nat /\ elapsed \in Elapsed \cup {Period}
  /\ measured \in Configs /\ previous \in Configs
  /\ gateStart \in Nat \cup {None} /\ stableSince \in Nat \cup {None}
  /\ profileStart \in Nat \cup {None} /\ restless \in Nat
  /\ command \in Pose /\ gateLast \in MaybePose /\ limits \in Limits
  /\ hold \subseteq Joints /\ heldTarget \in [Joints -> Int \cup {None}]
  /\ \A j \in Joints : j \in hold <=> heldTarget[j] # None
  /\ accepted \in Configs \cup {None} /\ published \in MaybePose
  /\ solution \in Configs \cup {None} /\ (latched # 0 => solution # None)

\* A hold never outlives its target: at the end of a cycle every held joint is held
\* to the IK target that cycle used, whatever the worker latched in between, so that
\* a new target always gets its joints moving again.
HoldMatchesTarget ==
  pc = "aim" => \A j \in hold : accepted # None /\ heldTarget[j] = accepted[j]

\* While the loop runs, the command it works from, the one the safety gate budgets
\* the next step from and the one last streamed are the same: no step the gate
\* answered was dropped.
LoopAndGateAgree ==
  pc \in {"aim", "act"} => gateLast = published /\ (published # None => command = published)

\* A profile starts only after every observation of a whole stable window was
\* within its bounds.
ProfileNeedsQuiet ==
  profileStart # None => profileStart - restless >= StableWindow

\* Once there is a target to converge to, the convergence gate has decided by the
\* first cycle at its timeout.
ConvergenceDecides ==
  (pc = "aim" /\ gateStart # None /\ profileStart = None /\ accepted # None)
    => now - gateStart < Timeout

\* The convergence gate passes on a whole quiet window, and by its timeout or never.
ConvergenceIsEarned == ProfileNeedsQuiet /\ ConvergenceDecides

\* The outer loop does not wind up past a target it has crossed: a held joint's
\* command stays between where it was and the target, through the Cartesian
\* fraction, the rate limit and the position limits; only the lead bound, when the
\* arm is pushed away, may move it elsewhere.
HeldJointNeverOvershoots ==
  [][\A j \in hold \cap hold' :
       (heldTarget'[j] = heldTarget[j] /\ j \notin limits'.lead)
         => Between(command'[j], command[j], heldTarget[j])]_vars

-----------------------------------------------------------------------------
\* "A 5 s timeout preserves a measured-position safe hold, starts no profile" (docs/
\* cli.md): a convergence gate that has not passed does not let the loop run on past
\* its timeout.  This is NOT what the code does: without an IK target the gate is
\* never consulted.
ConvergenceTimesOut ==
  (pc = "aim" /\ gateStart # None /\ profileStart = None) => now - gateStart < Timeout
=============================================================================
