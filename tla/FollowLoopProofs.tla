-------------------------- MODULE FollowLoopProofs --------------------------
(***************************************************************************)
(* Proofs about the follow loop, for any joints, limits, gains, IK         *)
(* solutions and timing.                                                   *)
(*                                                                         *)
(* The properties speak of the end of a cycle.  What carries them from one *)
(* cycle to the next is LoopInv: before IK has latched a first target      *)
(* nothing is held, accepted or observed; a command that was streamed is   *)
(* inside the position limits; the instant a window opened is no earlier   *)
(* than the last disturbance.                                              *)
(***************************************************************************)
EXTENDS FollowLoop, TLAPS

\* Nothing but a latched target makes the loop hold, accept or observe.
BeforeTarget ==
  latched = 0 => /\ hold = {} /\ accepted = None
                 /\ stableSince = None /\ profileStart = None

\* A joint is held only after a command was streamed, which the gate bounded.
StreamedInLimits ==
  /\ hold # {} /\ pc \in {"aim", "act"} => published # None
  /\ published # None =>
       \A j \in Joints : Lower[j] <= published[j] /\ published[j] <= Upper[j]

\* Where the gate's window may have opened.
WindowAfterRest ==
  /\ restless <= now
  /\ stableSince # None => restless <= stableSince

\* Only a deterministic run has a convergence gate.
GateIsDiagnostic == gateStart # None => diagnostic

LoopInv ==
  /\ TypeOK /\ BeforeTarget /\ StreamedInLimits /\ WindowAfterRest /\ GateIsDiagnostic
  /\ HoldMatchesTarget /\ LoopAndGateAgree /\ ProfileNeedsQuiet /\ ConvergenceDecides

-----------------------------------------------------------------------------
(* The arithmetic of one cycle.                                            *)

\* A fraction of a step stays within the step (the Cartesian limiter).
LEMMA FractionOf ==
  ASSUME NEW d \in Int, NEW part \in 1..Parts
  PROVE  /\ (part * d) \div Parts \in Int
         /\ d >= 0 => 0 <= (part * d) \div Parts /\ (part * d) \div Parts <= d
         /\ d <= 0 => d <= (part * d) \div Parts /\ (part * d) \div Parts <= 0
<1>. DEFINE q == (part * d) \div Parts
<1>1. Parts \in Nat /\ Parts > 0 /\ part \in Nat /\ part >= 1 /\ part <= Parts
  BY LoopAssumption
<1>2. part * d \in Int
  BY <1>1
<1>3. q \in Int /\ Parts * q <= part * d /\ part * d < Parts * q + Parts
  BY <1>1, <1>2, Z3T(30)
<1>4. CASE d >= 0
  <2>1. 0 <= part * d /\ part * d <= Parts * d
    BY <1>1, <1>4, Z3T(30)
  <2>2. 0 <= q /\ q <= d
    BY <1>1, <1>2, <1>3, <2>1, Z3T(30)
  <2>. QED
    BY <1>3, <1>4, <2>2
<1>5. CASE d <= 0
  <2>1. Parts * d <= part * d /\ part * d <= 0
    BY <1>1, <1>5, Z3T(30)
  <2>2. d <= q /\ q <= 0
    BY <1>1, <1>2, <1>3, <2>1, Z3T(30)
  <2>. QED
    BY <1>3, <1>5, <2>2
<1>. QED
  BY <1>3, <1>4, <1>5

\* What the assumptions and the types give for one joint.
LEMMA JointFacts ==
  ASSUME TypeOK, NEW j \in Joints
  PROVE  /\ Lower[j] \in Int /\ Upper[j] \in Int /\ Lower[j] <= Upper[j]
         /\ Velocity[j] \in Nat /\ MaxLead[j] \in Nat
         /\ Period \in Nat /\ Gain \in Nat /\ elapsed \in Nat /\ now \in Nat
         /\ measured[j] \in Int /\ previous[j] \in Int /\ command[j] \in Int
         /\ gateLast # None => gateLast[j] \in Int
<1>1. measured \in Pose /\ previous \in Pose /\ elapsed \in Nat
  BY LoopAssumption DEF TypeOK
<1>. QED
  BY <1>1, LoopAssumption DEF TypeOK, MaybePose, Pose

\* The outer loop asks for integers (PostCrossingTargetHold.request).
LEMMA AskTyped ==
  ASSUME TypeOK, NEW target \in Pose
  PROVE  Ask(target) \in Pose
<1>1. ASSUME NEW j \in Joints
      PROVE  command[j] + Gain * (target[j] - measured[j]) * elapsed \in Int /\ target[j] \in Int
  <2>1. target[j] \in Int /\ target[j] - measured[j] \in Int
    BY JointFacts DEF Pose
  <2>2. Gain * (target[j] - measured[j]) \in Int
    BY <2>1, JointFacts
  <2>3. Gain * (target[j] - measured[j]) * elapsed \in Int
    BY <2>2, JointFacts
  <2>. QED
    BY <2>1, <2>3, JointFacts
<1>. QED
  BY <1>1 DEF Ask, Pose

\* The Cartesian limiter's fraction of a step lies between the command and what was
\* asked.
LEMMA ShortenedBetween ==
  ASSUME TypeOK, NEW ask \in Pose, NEW part \in 1..Parts
  PROVE  /\ Shortened(ask, part) \in Pose
         /\ \A j \in Joints : Between(Shortened(ask, part)[j], command[j], ask[j])
<1>1. ASSUME NEW j \in Joints
      PROVE  /\ Shortened(ask, part)[j] \in Int
             /\ Between(Shortened(ask, part)[j], command[j], ask[j])
  <2>. DEFINE d == ask[j] - command[j]
             q == (part * d) \div Parts
  <2>1. ask[j] \in Int /\ command[j] \in Int /\ d \in Int
    BY JointFacts DEF Pose
  <2>2. /\ q \in Int
        /\ d >= 0 => 0 <= q /\ q <= d
        /\ d <= 0 => d <= q /\ q <= 0
    BY <2>1, FractionOf
  <2>3. Shortened(ask, part)[j] = command[j] + q
    BY DEF Shortened
  <2>. HIDE DEF q
  <2>. QED
    BY <2>1, <2>2, <2>3 DEF Between
<1>. QED
  BY <1>1 DEF Shortened, Pose

\* The servo step of the gate is a vector of integers inside the position limits.
LEMMA StepTyped ==
  ASSUME TypeOK, NEW ask \in Pose
  PROVE  /\ Step(ask) \in Pose
         /\ \A j \in Joints : Lower[j] <= Step(ask)[j] /\ Step(ask)[j] <= Upper[j]
         /\ StepLimits(ask) \in Limits
<1>. DEFINE stepped == Gate!Stepped(ask, measured, elapsed)
           led == Gate!Led(stepped, measured)
<1>1. ASSUME NEW j \in Joints
      PROVE  stepped[j] \in Int
  <2>1. Gate!Base(measured)[j] \in Int /\ ask[j] \in Int
    BY JointFacts DEF Gate!Base, Pose
  <2>2. Gate!Budget(j, elapsed) \in Int
    BY JointFacts DEF Gate!Budget, Gate!AtLeast
  <2>. QED
    BY <2>1, <2>2 DEF Gate!Stepped, Gate!Clip
<1>. HIDE DEF stepped
<1>2. ASSUME NEW j \in Joints
      PROVE  led[j] \in Int
  BY <1>1, JointFacts DEF Gate!Led, Gate!Clip
<1>. HIDE DEF led
<1>3. ASSUME NEW j \in Joints
      PROVE  /\ Gate!Bounded(led)[j] \in Int
             /\ Lower[j] <= Gate!Bounded(led)[j] /\ Gate!Bounded(led)[j] <= Upper[j]
  BY <1>2, JointFacts DEF Gate!Bounded, Gate!Clip
<1>4. Gate!Bounded(led) \in Pose
  BY <1>3 DEF Gate!Bounded, Pose
<1>5. Step(ask) = Gate!Bounded(led)
  BY DEF Step, led, stepped
<1>6. StepLimits(ask) \in Limits
  BY DEF StepLimits, Gate!FollowLimits, Limits
<1>. QED
  BY <1>3, <1>4, <1>5, <1>6

-----------------------------------------------------------------------------
(* What a cycle does to the hold and to the command.                       *)

\* A released joint loses its target with its hold (PostCrossingTargetHold.request).
LEMMA ReleaseKeepsPairs ==
  ASSUME TypeOK, NEW target \in Pose, Release(target)
  PROVE  /\ hold' \subseteq hold /\ heldTarget' \in [Joints -> Int \cup {None}]
         /\ \A j \in Joints : j \in hold' <=> heldTarget'[j] # None
<1>1. heldTarget' \in [Joints -> Int \cup {None}]
  BY DEF Release, Forgotten, TypeOK
<1>2. ASSUME NEW j \in Joints
      PROVE  j \in hold' <=> heldTarget'[j] # None
  <2>1. j \in hold' <=> j \in hold /\ j \notin Released(target)
    BY DEF Release
  <2>2. heldTarget'[j] = IF j \in Released(target) THEN None ELSE heldTarget[j]
    BY DEF Release, Forgotten
  <2>. QED
    BY <2>1, <2>2 DEF TypeOK
<1>. QED
  BY <1>1, <1>2 DEF Release

\* After a command was streamed every held joint is held to the target of this
\* cycle (observe_published_command).
LEMMA PublishKeepsPairs ==
  ASSUME TypeOK, NEW target \in Pose, NEW new, Publish(new, target)
  PROVE  /\ hold' \subseteq Joints /\ heldTarget' \in [Joints -> Int \cup {None}]
         /\ \A j \in Joints : j \in hold' <=> heldTarget'[j] # None
         /\ \A j \in hold' : heldTarget'[j] = target[j]
<1>1. hold' = (hold \ Released(target)) \cup Crossed(new, target)
  BY DEF Publish
<1>2. heldTarget' = [j \in Joints |-> IF j \in Crossed(new, target) THEN target[j]
                                      ELSE Forgotten(target)[j]]
  BY DEF Publish
<1>3. hold' \subseteq Joints
  BY <1>1 DEF Crossed, TypeOK
<1>4. ASSUME NEW j \in Joints
      PROVE  /\ heldTarget'[j] \in Int \cup {None}
             /\ j \in hold' <=> heldTarget'[j] # None
             /\ j \in hold' => heldTarget'[j] = target[j]
  <2>1. target[j] \in Int /\ target[j] # None
    BY LoopAssumption DEF Pose
  <2>2. Forgotten(target)[j] = IF j \in Released(target) THEN None ELSE heldTarget[j]
    BY DEF Forgotten
  <2>3. CASE j \in Crossed(new, target)
    BY <2>1, <2>3, <1>1, <1>2
  <2>4. CASE j \notin Crossed(new, target)
    <3>1. heldTarget'[j] = Forgotten(target)[j]
      BY <1>2, <2>4
    <3>2. j \in hold' <=> j \in hold /\ j \notin Released(target)
      BY <1>1, <2>4
    <3>3. j \in hold' => heldTarget[j] = target[j]
      BY <3>2 DEF Released
    <3>. QED
      BY <3>1, <3>2, <3>3, <2>2 DEF TypeOK
  <2>. QED
    BY <2>3, <2>4
<1>5. heldTarget' \in [Joints -> Int \cup {None}]
  BY <1>2, <1>4
<1>. QED
  BY <1>3, <1>4, <1>5

\* A target the worker latched is a vector of integers.
LEMMA SolutionTyped ==
  ASSUME TypeOK, latched # 0, NEW part \in 1..Parts
  PROVE  /\ solution \in Configs /\ solution \in Pose /\ solution # None
         /\ Shortened(Ask(solution), part) \in Pose
<1>1. solution \in Configs /\ solution \in Pose /\ solution # None
  BY LoopAssumption DEF TypeOK
<1>. QED
  BY <1>1, AskTyped, ShortenedBetween

\* Up to the gate's answer every cycle keeps the types, and the loop and the gate
\* get the same command, inside the limits.
LEMMA FollowTyped ==
  ASSUME TypeOK, NEW ask \in Pose, NEW target \in Configs, Follow(ask, target)
  PROVE  /\ accepted' \in Configs /\ accepted' # None /\ accepted' = target
         /\ gateLast' = Step(ask) /\ command' = Step(ask) /\ Step(ask) # None
         /\ gateLast' \in MaybePose /\ command' \in Pose /\ limits' \in Limits
         /\ UNCHANGED <<diagnostic, now, elapsed, measured, previous, aligned, gateStart,
                        solution, latched>>
         /\ latched # 0 /\ pc = "act"
<1>1. Step(ask) \in Pose /\ StepLimits(ask) \in Limits
  BY StepTyped
<1>2. Step(ask) # None /\ target # None
  BY <1>1, LoopAssumption
<1>. QED
  BY <1>1, <1>2 DEF Follow, aimVars, ikVars, MaybePose

-----------------------------------------------------------------------------
(* LoopInv is inductive: one lemma per kind of step.                       *)

\* A window that opened no earlier than the last disturbance is as long as the time
\* since that disturbance at most.
LEMMA WindowLength ==
  ASSUME NEW rest \in Nat, NEW since \in Nat, NEW time \in Nat, NEW length \in Nat,
         rest <= since, time - since >= length
  PROVE  time - rest >= length
OBVIOUS

\* Time does not run backwards.
LEMMA Later ==
  ASSUME NEW a \in Nat, NEW b \in Nat, NEW c \in Nat, a <= b, b <= c
  PROVE  a <= c
OBVIOUS

\* The invariant holds when the loop is entered.
LEMMA InitInv == Init => LoopInv
<1>. SUFFICES ASSUME Init PROVE LoopInv
  OBVIOUS
<1>1. measured \in Configs /\ measured \in Pose
  BY LoopAssumption DEF Init
<1>2. TypeOK
  BY <1>1, LoopAssumption DEF Init, TypeOK, Worker!Init, MaybePose, Limits, Gate!NoLimits
<1>. QED
  BY <1>2 DEF Init, LoopInv, BeforeTarget, StreamedInLimits, WindowAfterRest, GateIsDiagnostic,
     HoldMatchesTarget, LoopAndGateAgree, ProfileNeedsQuiet, ConvergenceDecides, Worker!Init

\* The start of a cycle: the clock moves on, the arm is measured, a request may go
\* to the worker; nothing is commanded.
LEMMA SenseInv == ASSUME LoopInv, Aim \/ Align PROVE LoopInv'
<1>1. Sense /\ latched' = latched /\ (gateStart' = gateStart \/ gateStart' = None \/ (diagnostic /\ gateStart' = now'))
  BY DEF Aim, Align, Request, Worker!Submit, ikVars
<1>2. TypeOK /\ elapsed' \in Nat /\ now' = now + elapsed' /\ now' \in Nat /\ now <= now'
  BY <1>1, LoopAssumption DEF Sense, LoopInv, TypeOK
<1>3. aligned' \in BOOLEAN
  BY <1>2 DEF Aim, Align, TypeOK
<1>4. TypeOK'
  BY <1>1, <1>2, <1>3 DEF Sense, TypeOK, actVars
<1>5. WindowAfterRest'
  <2>1. restless \in Nat /\ now \in Nat /\ WindowAfterRest
    BY DEF LoopInv, TypeOK
  <2>2. restless' = restless /\ stableSince' = stableSince
    BY <1>1 DEF Sense, actVars
  <2>3. restless <= now'
    BY <1>2, <2>1, Later DEF WindowAfterRest
  <2>. QED
    BY <2>1, <2>2, <2>3 DEF WindowAfterRest
<1>6. BeforeTarget' /\ StreamedInLimits' /\ GateIsDiagnostic' /\ HoldMatchesTarget'
      /\ LoopAndGateAgree' /\ ProfileNeedsQuiet' /\ ConvergenceDecides'
  BY <1>1 DEF Sense, LoopInv, actVars, BeforeTarget, StreamedInLimits, GateIsDiagnostic,
     HoldMatchesTarget, LoopAndGateAgree, ProfileNeedsQuiet, ConvergenceDecides
<1>. QED
  BY <1>4, <1>5, <1>6 DEF LoopInv

\* A cycle without a target changes nothing but the record of unrest.
LEMMA IdleInv == ASSUME LoopInv, Idle PROVE LoopInv'
<1>1. TypeOK'
  BY DEF Idle, LoopInv, TypeOK, aimVars, ikVars
<1>2. hold = {} /\ accepted = None /\ stableSince = None /\ profileStart = None
  BY DEF Idle, LoopInv, BeforeTarget
<1>. QED
  BY <1>1, <1>2 DEF Idle, LoopInv, TypeOK, aimVars, ikVars, BeforeTarget, StreamedInLimits,
     WindowAfterRest, GateIsDiagnostic, HoldMatchesTarget, LoopAndGateAgree, ProfileNeedsQuiet,
     ConvergenceDecides

\* A refused clamp ends the loop.
LEMMA RefuseInv ==
  ASSUME LoopInv, NEW ask \in Pose, NEW target \in Configs, RefuseClamped(ask, target)
  PROVE  LoopInv'
<1>1. Follow(ask, target) /\ TypeOK /\ target \in Pose
  BY LoopAssumption DEF RefuseClamped, LoopInv
<1>2. pc' = "over" /\ Release(target) /\ UNCHANGED <<stableSince, profileStart, published, restless>>
  BY DEF RefuseClamped
<1>3. TypeOK'
  BY <1>1, <1>2, FollowTyped, ReleaseKeepsPairs DEF TypeOK
<1>. QED
  BY <1>1, <1>2, <1>3, FollowTyped DEF LoopInv, BeforeTarget, StreamedInLimits,
     WindowAfterRest, GateIsDiagnostic, HoldMatchesTarget, LoopAndGateAgree, ProfileNeedsQuiet,
     ConvergenceDecides

\* The parts every published cycle shares: the types, the hold and the command.
LEMMA PublishInv ==
  ASSUME LoopInv, NEW ask \in Pose, NEW target \in Configs,
         Follow(ask, target), Publish(Step(ask), target),
         stableSince' \in Nat \cup {None}, profileStart' \in Nat \cup {None}, restless' \in Nat
  PROVE  /\ TypeOK' /\ BeforeTarget' /\ StreamedInLimits' /\ GateIsDiagnostic'
         /\ HoldMatchesTarget' /\ LoopAndGateAgree'
<1>1. TypeOK /\ target \in Pose
  BY LoopAssumption DEF LoopInv
<1>2. pc' \in {"aim", "over"} /\ (pc' = "aim" => published' = Step(ask))
      /\ (published' = Step(ask) \/ published' = published)
  BY DEF Publish
<1>3. published' \in MaybePose
  BY <1>1, <1>2, FollowTyped DEF TypeOK
<1>4. TypeOK'
  BY <1>1, <1>2, <1>3, FollowTyped, PublishKeepsPairs DEF TypeOK
<1>5. BeforeTarget' /\ GateIsDiagnostic'
  BY <1>1, FollowTyped DEF BeforeTarget, GateIsDiagnostic, LoopInv
<1>6. StreamedInLimits'
  BY <1>1, <1>2, FollowTyped, StepTyped DEF StreamedInLimits, LoopInv
<1>7. HoldMatchesTarget'
  BY <1>1, FollowTyped, PublishKeepsPairs DEF HoldMatchesTarget
<1>8. LoopAndGateAgree'
  BY <1>1, <1>2, FollowTyped DEF LoopAndGateAgree
<1>. QED
  BY <1>4, <1>5, <1>6, <1>7, <1>8

\* A cycle without the convergence gate.
LEMMA FreeInv ==
  ASSUME LoopInv, NEW ask \in Pose, NEW target \in Configs, ActFreely(ask, target)
  PROVE  LoopInv'
<1>1. /\ Follow(ask, target) /\ Publish(Step(ask), target) /\ ~Consulted /\ TypeOK
      /\ UNCHANGED <<stableSince, profileStart, restless>>
  BY DEF ActFreely, LoopInv
<1>2. /\ TypeOK' /\ BeforeTarget' /\ StreamedInLimits' /\ GateIsDiagnostic'
      /\ HoldMatchesTarget' /\ LoopAndGateAgree'
  BY <1>1, PublishInv DEF TypeOK
<1>3. WindowAfterRest' /\ ProfileNeedsQuiet'
  BY <1>1, FollowTyped DEF WindowAfterRest, ProfileNeedsQuiet, LoopInv
<1>4. ConvergenceDecides'
  BY <1>1, FollowTyped DEF ConvergenceDecides, GateIsDiagnostic, Consulted, LoopInv
<1>. QED
  BY <1>2, <1>3, <1>4 DEF LoopInv

\* A cycle the convergence gate observes: it passes out of a quiet window, or its
\* timeout has not come.
LEMMA ObservedInv ==
  ASSUME LoopInv, NEW ask \in Pose, NEW target \in Configs, NEW stable \in BOOLEAN,
         ActObserved(ask, target, stable)
  PROVE  LoopInv'
<1>1. /\ Follow(ask, target) /\ Publish(Step(ask), target) /\ Consulted /\ TypeOK
      /\ ~TimedOut(stable) /\ stableSince' = Window(stable)
      /\ profileStart' = (IF Passed(stable) THEN now ELSE None)
      /\ restless' = (IF stable THEN restless ELSE now)
  BY DEF ActObserved, LoopInv
<1>2. /\ now \in Nat /\ restless \in Nat /\ stableSince \in Nat \cup {None}
      /\ gateStart \in Nat /\ restless <= now /\ None \notin Nat
      /\ stableSince # None => restless <= stableSince
      /\ Timeout \in Nat /\ StableWindow \in Nat
  BY <1>1, LoopAssumption DEF TypeOK, LoopInv, WindowAfterRest, Consulted
<1>3. stableSince' \in Nat \cup {None} /\ profileStart' \in Nat \cup {None} /\ restless' \in Nat
  BY <1>1, <1>2 DEF Window
<1>4. /\ TypeOK' /\ BeforeTarget' /\ StreamedInLimits' /\ GateIsDiagnostic'
      /\ HoldMatchesTarget' /\ LoopAndGateAgree'
  BY <1>1, <1>3, PublishInv
<1>5. restless' <= now /\ (stableSince' # None => restless' <= stableSince')
  BY <1>1, <1>2 DEF Window
<1>6. WindowAfterRest'
  BY <1>1, <1>5, FollowTyped DEF WindowAfterRest
<1>7. ProfileNeedsQuiet'
  <2>1. CASE Passed(stable)
    <3>1. stableSince' # None /\ now - stableSince' >= StableWindow /\ profileStart' = now
      BY <1>1, <2>1 DEF Passed
    <3>2. stableSince' \in Nat /\ restless' \in Nat /\ restless' <= stableSince'
      BY <3>1, <1>3, <1>5
    <3>3. now - restless' >= StableWindow
      BY <3>1, <3>2, <1>2, WindowLength
    <3>. QED
      BY <3>1, <3>3 DEF ProfileNeedsQuiet
  <2>2. CASE ~Passed(stable)
    BY <1>1, <2>2 DEF ProfileNeedsQuiet
  <2>. QED
    BY <2>1, <2>2
<1>8. ConvergenceDecides'
  <2>1. CASE Passed(stable)
    BY <1>1, <1>2, <2>1 DEF ConvergenceDecides
  <2>2. CASE ~Passed(stable)
    <3>1. now - gateStart < Timeout
      BY <1>1, <1>2, <2>2 DEF TimedOut
    <3>. QED
      BY <3>1, <1>1, FollowTyped DEF ConvergenceDecides
  <2>. QED
    BY <2>1, <2>2
<1>. QED
  BY <1>4, <1>6, <1>7, <1>8 DEF LoopInv

\* The convergence gate gives up, which ends the loop.
LEMMA GiveUpInv ==
  ASSUME LoopInv, NEW ask \in Pose, NEW target \in Configs, NEW stable \in BOOLEAN,
         GiveUp(ask, target, stable)
  PROVE  LoopInv'
<1>1. /\ Follow(ask, target) /\ Consulted /\ TypeOK /\ Release(target) /\ target \in Pose
      /\ pc' = "over" /\ stableSince' = Window(stable)
      /\ restless' = (IF stable THEN restless ELSE now) /\ UNCHANGED <<profileStart, published>>
  BY LoopAssumption DEF GiveUp, LoopInv
<1>2. /\ now \in Nat /\ restless \in Nat /\ stableSince \in Nat \cup {None}
      /\ restless <= now /\ (stableSince # None => restless <= stableSince) /\ None \notin Nat
      /\ profileStart = None
  BY <1>1, LoopAssumption DEF TypeOK, LoopInv, WindowAfterRest, Consulted
<1>3. /\ stableSince' \in Nat \cup {None} /\ restless' \in Nat /\ restless' <= now
      /\ stableSince' # None => restless' <= stableSince'
  BY <1>1, <1>2 DEF Window
<1>4. TypeOK'
  BY <1>1, <1>3, FollowTyped, ReleaseKeepsPairs DEF TypeOK
<1>. QED
  BY <1>1, <1>2, <1>3, <1>4, FollowTyped DEF LoopInv, BeforeTarget, StreamedInLimits,
     WindowAfterRest, GateIsDiagnostic, HoldMatchesTarget, LoopAndGateAgree, ProfileNeedsQuiet,
     ConvergenceDecides

\* Every way through a cycle with a target (Act) gives a step of one of the lemmas.
LEMMA ActInv == ASSUME LoopInv, Act, pc = "act", latched # 0 PROVE LoopInv'
<1>1. PICK part \in 1..Parts :
        LET ask == Shortened(Ask(solution), part) IN
          \/ RefuseClamped(ask, solution)
          \/ ActFreely(ask, solution)
          \/ \E atMarker \in BOOLEAN :
               \/ ActObserved(ask, solution, Stable(atMarker, solution))
               \/ GiveUp(ask, solution, Stable(atMarker, solution))
  BY DEF Act
<1>. DEFINE ask == Shortened(Ask(solution), part)
<1>2. solution \in Configs /\ ask \in Pose
  BY SolutionTyped DEF LoopInv
<1>. HIDE DEF ask
<1>3. CASE RefuseClamped(ask, solution)
  BY <1>2, <1>3, RefuseInv
<1>4. CASE ActFreely(ask, solution)
  BY <1>2, <1>4, FreeInv
<1>5. ASSUME NEW atMarker \in BOOLEAN, ActObserved(ask, solution, Stable(atMarker, solution))
      PROVE  LoopInv'
  BY <1>2, <1>5, ObservedInv DEF Stable
<1>6. ASSUME NEW atMarker \in BOOLEAN, GiveUp(ask, solution, Stable(atMarker, solution))
      PROVE  LoopInv'
  BY <1>2, <1>6, GiveUpInv DEF Stable
<1>. QED
  BY <1>1, <1>3, <1>4, <1>5, <1>6 DEF ask

\* A step of Act is one of a cycle under way with a target.
LEMMA ActReady == ASSUME Act PROVE pc = "act" /\ latched # 0
BY DEF Act, RefuseClamped, ActFreely, ActObserved, GiveUp, Follow

\* The end of the loop changes none of its data.
LEMMA EndInv == ASSUME LoopInv, Finish \/ Close PROVE LoopInv'
<1>1. /\ pc' \in {"over", "closed"} /\ latched' = latched
      /\ UNCHANGED <<diagnostic, aimVars, actVars, solution>>
  BY DEF Finish, Close, ikVars, Worker!Close
<1>. QED
  BY <1>1 DEF aimVars, actVars, LoopInv, TypeOK, BeforeTarget, StreamedInLimits, WindowAfterRest,
     GateIsDiagnostic, HoldMatchesTarget, LoopAndGateAgree, ProfileNeedsQuiet, ConvergenceDecides

\* The worker's thread latches a target and touches nothing of the loop's.
LEMMA SolveInv == ASSUME LoopInv, Solve PROVE LoopInv'
<1>1. UNCHANGED <<pc, diagnostic, aimVars, actVars>>
  BY DEF Solve
<1>2. (latched' = latched /\ solution' = solution) \/ (latched' # 0 /\ solution' \in Configs)
  BY DEF Solve, Worker!Accept, Worker!Fail, Worker!Supersede, Worker!Requests
<1>3. TypeOK'
  <2>1. solution' \in Configs => solution' # None
    BY LoopAssumption
  <2>. QED
    BY <1>1, <1>2, <2>1 DEF aimVars, actVars, LoopInv, TypeOK
<1>. QED
  BY <1>1, <1>2, <1>3 DEF aimVars, actVars, LoopInv, BeforeTarget, StreamedInLimits,
     WindowAfterRest, GateIsDiagnostic, HoldMatchesTarget, LoopAndGateAgree, ProfileNeedsQuiet,
     ConvergenceDecides

\* Nothing changes in a stuttering step.
LEMMA StutterInv == ASSUME LoopInv, UNCHANGED vars PROVE LoopInv'
BY DEF vars, aimVars, actVars, ikVars, LoopInv, TypeOK, BeforeTarget, StreamedInLimits,
   WindowAfterRest, GateIsDiagnostic, HoldMatchesTarget, LoopAndGateAgree, ProfileNeedsQuiet,
   ConvergenceDecides

\* LoopInv holds in every cycle of every session.
THEOREM Invariance == Spec => []LoopInv
<1>1. LoopInv /\ [Next]_vars => LoopInv'
  BY SenseInv, IdleInv, ActInv, ActReady, EndInv, SolveInv, StutterInv DEF Next
<1>. QED
  BY InitInv, <1>1, PTL DEF Spec

-----------------------------------------------------------------------------
(* The properties.                                                         *)

\* The variables of the loop, the gate and the hold keep their types, and a joint has
\* a target it is held to exactly while it is held.
THEOREM TypeCorrect == Spec => []TypeOK
<1>1. LoopInv => TypeOK
  BY DEF LoopInv
<1>. QED
  BY Invariance, <1>1, PTL

\* At the end of a cycle every held joint is held to the target of that cycle
\* (PostCrossingTargetHold), whenever the worker latches.
THEOREM HoldFollowsTarget == Spec => []HoldMatchesTarget
<1>1. LoopInv => HoldMatchesTarget
  BY DEF LoopInv
<1>. QED
  BY Invariance, <1>1, PTL

\* The loop never goes on from a command the gate answered and the wire never saw.
THEOREM NoStepIsDropped == Spec => []LoopAndGateAgree
<1>1. LoopInv => LoopAndGateAgree
  BY DEF LoopInv
<1>. QED
  BY Invariance, <1>1, PTL

\* A profile starts out of a whole stable window (HandoffConvergenceGate.update).
THEOREM ProfileStartsQuiet == Spec => []ProfileNeedsQuiet
<1>1. LoopInv => ProfileNeedsQuiet
  BY DEF LoopInv
<1>. QED
  BY Invariance, <1>1, PTL

\* With a target to converge to, the convergence gate decides by its timeout.
THEOREM GateDecides == Spec => []ConvergenceDecides
<1>1. LoopInv => ConvergenceDecides
  BY DEF LoopInv
<1>. QED
  BY Invariance, <1>1, PTL

\* The convergence gate passes on a whole quiet window, by its timeout or never.
THEOREM GatePassesWhenEarned == Spec => []ConvergenceIsEarned
BY ProfileStartsQuiet, GateDecides, PTL DEF ConvergenceIsEarned

-----------------------------------------------------------------------------
(* The outer loop does not wind up past a target it has crossed.           *)

\* Between, nested.
LEMMA BetweenNested ==
  ASSUME NEW x \in Int, NEW c \in Int, NEW a \in Int, NEW t \in Int,
         Between(x, c, a), Between(a, c, t)
  PROVE  Between(x, c, t)
BY DEF Between

\* From a command inside the limits, a step the lead bound does not touch stays
\* between that command and what was asked for.
LEMMA StepBetween ==
  ASSUME TypeOK, NEW ask \in Pose, NEW j \in Joints, gateLast # None, gateLast = command,
         Lower[j] <= command[j], command[j] <= Upper[j], j \notin StepLimits(ask).lead
  PROVE  Between(Step(ask)[j], command[j], ask[j])
<1>. DEFINE stepped == Gate!Stepped(ask, measured, elapsed)
           led == Gate!Led(stepped, measured)
<1>1. command[j] \in Int /\ ask[j] \in Int /\ Lower[j] \in Int /\ Upper[j] \in Int
  BY JointFacts DEF Pose
<1>2. Gate!Base(measured)[j] = command[j]
  BY DEF Gate!Base
<1>3. Gate!Budget(j, elapsed) \in Nat
  BY JointFacts DEF Gate!Budget, Gate!AtLeast
<1>4. stepped[j] \in Int /\ Between(stepped[j], command[j], ask[j])
  BY <1>1, <1>2, <1>3 DEF Gate!Stepped, Gate!Clip, Between
<1>5. led[j] = stepped[j]
  BY DEF StepLimits, Gate!FollowLimits
<1>6. Step(ask)[j] = Gate!Clip(led[j], Lower[j], Upper[j])
  BY DEF Step, Gate!Bounded
<1>. HIDE DEF stepped, led
<1>. QED
  BY <1>1, <1>4, <1>5, <1>6 DEF Gate!Clip, Between

\* One cycle of the outer loop keeps a joint it goes on holding between its command
\* and its target.
LEMMA HeldStep ==
  ASSUME LoopInv, NEW part \in 1..Parts, latched # 0, pc = "act",
         NEW j \in hold, solution[j] = heldTarget[j],
         j \notin StepLimits(Shortened(Ask(solution), part)).lead
  PROVE  Between(Step(Shortened(Ask(solution), part))[j], command[j], heldTarget[j])
<1>. DEFINE ask == Shortened(Ask(solution), part)
<1>1. /\ TypeOK /\ j \in Joints /\ published # None
      /\ gateLast = published /\ command = published
      /\ Lower[j] <= published[j] /\ published[j] <= Upper[j]
  BY DEF LoopInv, TypeOK, StreamedInLimits, LoopAndGateAgree
<1>2. solution \in Pose /\ ask \in Pose
  BY <1>1, SolutionTyped
<1>3. Ask(solution)[j] = solution[j]
  BY <1>1 DEF Ask, Released
<1>4. Between(ask[j], command[j], solution[j])
  BY <1>1, <1>2, <1>3, AskTyped, ShortenedBetween
<1>5. Step(ask)[j] \in Int /\ command[j] \in Int /\ ask[j] \in Int /\ solution[j] \in Int
  BY <1>1, <1>2, StepTyped, JointFacts DEF Pose
<1>. HIDE DEF ask
<1>6. Between(Step(ask)[j], command[j], ask[j])
  BY <1>1, <1>2, StepBetween DEF ask
<1>. QED
  BY <1>4, <1>5, <1>6, BetweenNested DEF ask

\* The other steps leave the command and the hold alone.
LEMMA NoCommand ==
  ASSUME [Next]_vars
  PROVE  Act \/ UNCHANGED <<command, hold, heldTarget>>
<1>1. ASSUME Aim \/ Align PROVE UNCHANGED <<command, hold, heldTarget>>
  BY <1>1 DEF Aim, Align, Sense, actVars
<1>2. ASSUME Idle PROVE UNCHANGED <<command, hold, heldTarget>>
  BY <1>2 DEF Idle
<1>3. ASSUME Finish \/ Close \/ Solve PROVE UNCHANGED <<command, hold, heldTarget>>
  BY <1>3 DEF Finish, Close, Solve, actVars
<1>4. ASSUME UNCHANGED vars PROVE UNCHANGED <<command, hold, heldTarget>>
  BY <1>4 DEF vars, actVars
<1>. QED
  BY <1>1, <1>2, <1>3, <1>4 DEF Next

\* A joint held before and after a step that is a cycle with a target was held to that
\* cycle's target.
LEMMA HeldToSolution ==
  ASSUME LoopInv, Act, NEW j \in hold \cap hold', heldTarget'[j] = heldTarget[j]
  PROVE  /\ solution[j] = heldTarget[j]
         /\ \E part \in 1..Parts :
              /\ command' = Step(Shortened(Ask(solution), part))
              /\ limits' = StepLimits(Shortened(Ask(solution), part))
<1>1. TypeOK /\ solution \in Pose /\ j \in Joints
  BY ActReady, LoopAssumption DEF LoopInv, TypeOK
<1>2. \E part \in 1..Parts :
         /\ command' = Step(Shortened(Ask(solution), part))
         /\ limits' = StepLimits(Shortened(Ask(solution), part))
  BY DEF Act, RefuseClamped, ActFreely, ActObserved, GiveUp, Follow
<1>3. Release(solution) \/ \E new : Publish(new, solution)
  BY DEF Act, RefuseClamped, ActFreely, ActObserved, GiveUp
<1>4. ASSUME Release(solution) PROVE solution[j] = heldTarget[j]
  BY <1>4 DEF Release, Released
<1>5. ASSUME NEW new, Publish(new, solution) PROVE solution[j] = heldTarget[j]
  BY <1>1, <1>5, PublishKeepsPairs
<1>. QED
  BY <1>2, <1>3, <1>4, <1>5

\* While a joint stays held, its command moves no further than its target, whatever
\* the gain, the Cartesian fraction and the limits; only the lead bound may move it
\* elsewhere.
THEOREM NoOvershootWhileHeld == Spec => HeldJointNeverOvershoots
<1>. DEFINE Kept == \A j \in hold \cap hold' :
              (heldTarget'[j] = heldTarget[j] /\ j \notin limits'.lead)
                => Between(command'[j], command[j], heldTarget[j])
<1>1. LoopInv /\ [Next]_vars => [Kept]_vars
  <2>. SUFFICES ASSUME LoopInv, [Next]_vars, NEW j \in hold \cap hold',
                       heldTarget'[j] = heldTarget[j], j \notin limits'.lead
                PROVE  Between(command'[j], command[j], heldTarget[j])
    OBVIOUS
  <2>1. CASE Act
    <3>1. pc = "act" /\ latched # 0
      BY <2>1, ActReady
    <3>. QED
      BY <2>1, <3>1, HeldToSolution, HeldStep
  <2>2. CASE UNCHANGED <<command, hold, heldTarget>>
    <3>1. TypeOK /\ j \in Joints /\ heldTarget[j] \in Int
      BY DEF LoopInv, TypeOK
    <3>. QED
      BY <2>2, <3>1, JointFacts DEF Between
  <2>. QED
    BY <2>1, <2>2, NoCommand
<1>. QED
  BY Invariance, <1>1, PTL DEF Spec, HeldJointNeverOvershoots
=============================================================================
