-------------------------- MODULE PoseFollowProofs --------------------------
(***************************************************************************)
(* Proofs about a pose follow session and its record, for any number of    *)
(* ready points and observations, however often Ctrl-C is pressed, and for *)
(* every profile that can be constructed, however late its cycles are.     *)
(*                                                                         *)
(* None of the properties of a session is inductive: each says what holds  *)
(* when the session is over, or in one step. What makes them true is what  *)
(* is known at every place the session can be (SessionInv): where the      *)
(* torque is on, where the cleanup has been tried, and which exception is  *)
(* on its way.                                                             *)
(*                                                                         *)
(* A recorded session is one of these. Its record stays true (RecordInv)   *)
(* because a row is filed once, with the time of its cycle, and the        *)
(* timeline is only added to: what a row says of its moment no later event *)
(* can change. A profile's target is a path over the stages of its round   *)
(* trips; their ends are a sum, and what is true of every stage is shown   *)
(* of the least one it could fail in (Least), for want of induction.       *)
(***************************************************************************)
EXTENDS RecordedFollow, WellFoundedInduction, FiniteSetTheorems, TLAPS

\* No torque was ever sent by this session's handoff.
Quiet == wire = "zero" /\ ~activated

\* The torque was released, or releasing it was tried, or there never was any.
Settled == cleanup \in {"done", "failed"} \/ Quiet

\* The cleanup has not begun.
Pristine == cleanup = "none" /\ zeros = 0

\* Places where no exception is on its way.
Running == {"acquire", "prepare", "enter"} \cup Handoff \cup LoopBody

\* Places after a cleanup.
Ending == {"handoffReport", "summary", "closeWorker", "entryFailed", "entryReport",
           "report", "leave", "done"}

\* Before activation nothing is on the wire.
BeforeTorque ==
  pc \in {"acquire", "acquireFailed", "prepare", "activate"} =>
    /\ Quiet /\ Pristine /\ stage = "start" /\ ~refused
    /\ pc = "activate" => Diagnostic

\* The handoff is under torque throughout.
InHandoff == pc \in Handoff \ {"activate"} => activated /\ wire = "on" /\ Pristine /\ ~refused

\* Its handler finds the torque on exactly when it was activated.
HandoffLost ==
  pc = "handoffFailed" =>
    Pristine /\ IF activated THEN wire = "on" ELSE wire = "zero" /\ stage = "start"

\* The loop of a diagnostic run is under torque; without gravity there is none.
InLoop ==
  pc \in {"enter"} \cup LoopBody =>
    /\ Pristine /\ ~refused
    /\ Diagnostic => activated /\ wire = "on"
    /\ ~Gravity => wire = "zero"
    /\ ~activated /\ pc = "enter" => wire = "zero"
    /\ pc = "publish" => outgoing # None

\* A cleanup in progress: after its first publication the wire is at zero.
Zeroing ==
  pc \in ZeroAt =>
    /\ \/ Pristine
       \/ cleanup = "attempted" /\ zeros \in 1..2 /\ wire = "zero"
    /\ pc = "loopZero" => Gravity
    /\ pc \in {"handoffZero", "entryZero"} => activated

\* After the cleanup nothing publishes, and only an interrupt gets past it.
Ended ==
  /\ cleanup = "done" => wire = "zero" /\ zeros = ZeroSends
  /\ cleanup \in {"done", "failed"} => pc \in Ending
  /\ pc \in {"handoffReport", "entryReport", "report", "summary"} => Settled
  /\ pc \in {"closeWorker", "leave", "done"} /\ error # "interrupt" => Settled
  /\ pc = "entryFailed" => Settled \/ (activated /\ Pristine)
  /\ pc \in {"summary", "closeWorker", "report"} /\ cleanup = "failed" => refused

\* Which exception may be pending where.
Errors ==
  /\ pc \in Running => error = None
  /\ pc \in {"acquireFailed", "handoffFailed", "handoffZero", "handoffReport", "entryFailed",
             "entryZero", "entryReport"} => error \in Exceptions
  /\ pc = "report" => error = None
  /\ error = "interrupt" => pc \in {"closeWorker", "leave", "done"}
  /\ pc \in {"loopZero", "summary", "closeWorker"} => error # "safety"
  /\ pc = "entryFailed" /\ error = "safety" => ~refused
  /\ activated => Diagnostic

\* What the file says on the way out.
Filed ==
  /\ pc \notin {"leave", "done"} => report = "none"
  /\ pc \in {"leave", "done"} /\ error = None =>
       ~refused /\ cleanup # "failed" /\ (Output => report = "complete")
  /\ pc \in {"leave", "done"} /\ error = "safety" =>
       report # "complete" /\ (Output /\ (activated \/ refused) => report = "partial")

\* The exit code is the pending exception's.
Exited ==
  /\ exit = "running" <=> pc # "done"
  /\ exit = "ok" => error = None
  /\ exit = "refused" => error = "safety"
  /\ exit = "interrupt" <=> pc = "done" /\ error = "interrupt"

\* A hold is followed by the way out.
HoldStays == position = "hold" => pc \in {"handoffFailed"} \cup ZeroAt \cup Ending

SessionInv ==
  /\ TypeOK /\ BeforeTorque /\ InHandoff /\ HandoffLost /\ InLoop /\ Zeroing
  /\ Ended /\ Errors /\ Filed /\ Exited /\ HoldStays

-----------------------------------------------------------------------------
\* Every step of a session keeps the types.
LEMMA TypeStep == ASSUME SessionInv, [Next]_vars PROVE TypeOK'
<1> USE FollowAssumption DEF SessionInv, TypeOK, handoffVars, loopVars, Exceptions,
        Options, Diagnostic, Gravity, Steps, LoopBody, Handoff, ZeroAt, Measured
<1>1. ASSUME Acquire PROVE TypeOK'
  BY <1>1 DEF Acquire
<1>2. ASSUME AcquireFailed PROVE TypeOK'
  BY <1>2 DEF AcquireFailed, Persist
<1>3. ASSUME Prepare PROVE TypeOK'
  BY <1>3 DEF Prepare
<1>4. ASSUME CallRaises PROVE TypeOK'
  BY <1>4 DEF CallRaises, Handler
<1>5. ASSUME Activate PROVE TypeOK'
  BY <1>5 DEF Activate
<1>6. ASSUME Reacquire PROVE TypeOK'
  BY <1>6 DEF Reacquire
<1>7. ASSUME ReadyTorque PROVE TypeOK'
  BY <1>7 DEF ReadyTorque
<1>8. ASSUME ReadyStream PROVE TypeOK'
  BY <1>8 DEF ReadyStream
<1>9. ASSUME Settle PROVE TypeOK'
  BY <1>9 DEF Settle
<1>10. ASSUME SettleHold PROVE TypeOK'
  BY <1>10 DEF SettleHold, AttemptHold
<1>11. ASSUME Sync PROVE TypeOK'
  BY <1>11 DEF Sync
<1>12. ASSUME HandoffFailed PROVE TypeOK'
  BY <1>12 DEF HandoffFailed, AttemptHold
<1>13. ASSUME HandoffReport PROVE TypeOK'
  BY <1>13 DEF HandoffReport, Persist
<1>14. ASSUME Enter PROVE TypeOK'
  BY <1>14 DEF Enter
<1>15. ASSUME TimeUp PROVE TypeOK'
  BY <1>15 DEF TimeUp, AfterLoop
<1>16. ASSUME Feedback PROVE TypeOK'
  BY <1>16 DEF Feedback
<1>17. ASSUME Command PROVE TypeOK'
  BY <1>17 DEF Command, Advance
<1>18. ASSUME GateTimeout PROVE TypeOK'
  BY <1>18 DEF GateTimeout
<1>19. ASSUME GateHold PROVE TypeOK'
  BY <1>19 DEF GateHold, AttemptHold, AfterLoop
<1>20. ASSUME Publish PROVE TypeOK'
  BY <1>20 DEF Publish, AfterLoop, InLoop
<1>21. ASSUME LoopRaises PROVE TypeOK'
  <2>1. PICK e \in Exceptions : Refuse(e)
    BY <1>21 DEF LoopRaises
  <2>2. CASE refused' = TRUE /\ error' = error
    BY <1>21, <2>1, <2>2 DEF LoopRaises, Refuse, AfterLoop
  <2>3. CASE refused' = refused /\ error' = e
    BY <1>21, <2>1, <2>3 DEF LoopRaises, Refuse, AfterLoop
  <2> QED
    BY <2>1, <2>2, <2>3 DEF Refuse
<1>22. ASSUME SendZero PROVE TypeOK'
  BY <1>22 DEF SendZero, After, ZeroSends, Zeroing, Pristine
<1>23. ASSUME ZeroFails PROVE TypeOK'
  BY <1>23 DEF ZeroFails, After
<1>24. ASSUME Summary PROVE TypeOK'
  BY <1>24 DEF Summary
<1>25. ASSUME CloseWorker PROVE TypeOK'
  BY <1>25 DEF CloseWorker
<1>26. ASSUME EntryFailed PROVE TypeOK'
  BY <1>26 DEF EntryFailed
<1>27. ASSUME Report PROVE TypeOK'
  BY <1>27 DEF Report, Persist
<1>28. ASSUME Leave PROVE TypeOK'
  BY <1>28 DEF Leave
<1>29. ASSUME Interrupt PROVE TypeOK'
  BY <1>29 DEF Interrupt, AfterLoop
<1>30. ASSUME UNCHANGED vars PROVE TypeOK'
  BY <1>30 DEF vars
<1> QED
  BY <1>1, <1>2, <1>3, <1>4, <1>5, <1>6, <1>7, <1>8, <1>9, <1>10, <1>11,
     <1>12, <1>13, <1>14, <1>15, <1>16, <1>17, <1>18, <1>19, <1>20, <1>21,
     <1>22, <1>23, <1>24, <1>25, <1>26, <1>27, <1>28, <1>29, <1>30 DEF Next

\* Every step of a session keeps the invariant.
LEMMA SessionStep == ASSUME SessionInv, [Next]_vars PROVE SessionInv'
<1>0. TypeOK'
  BY TypeStep
<1> USE FollowAssumption, <1>0 DEF SessionInv, TypeOK, BeforeTorque, InHandoff, HandoffLost,
        InLoop, Zeroing, Ended, Errors, Filed, Exited, HoldStays, Quiet, Settled, Pristine,
        Running, Ending, Steps, Handoff, LoopBody, ZeroAt, Measured, Exceptions, ZeroSends,
        handoffVars, loopVars, Options, Diagnostic, Gravity, Output
<1>1. ASSUME Acquire PROVE SessionInv'
  BY <1>1 DEF Acquire
<1>2. ASSUME AcquireFailed PROVE SessionInv'
  BY <1>2 DEF AcquireFailed, Persist
<1>3. ASSUME Prepare PROVE SessionInv'
  BY <1>3 DEF Prepare
<1>4. ASSUME CallRaises PROVE SessionInv'
  BY <1>4 DEF CallRaises, Handler
<1>5. ASSUME Activate PROVE SessionInv'
  BY <1>5 DEF Activate
<1>6. ASSUME Reacquire PROVE SessionInv'
  BY <1>6 DEF Reacquire
<1>7. ASSUME ReadyTorque PROVE SessionInv'
  BY <1>7 DEF ReadyTorque
<1>8. ASSUME ReadyStream PROVE SessionInv'
  BY <1>8 DEF ReadyStream
<1>9. ASSUME Settle PROVE SessionInv'
  BY <1>9 DEF Settle
<1>10. ASSUME SettleHold PROVE SessionInv'
  BY <1>10 DEF SettleHold, AttemptHold
<1>11. ASSUME Sync PROVE SessionInv'
  <2>0. Diagnostic /\ Gravity
    BY <1>11 DEF Sync
  <2>1. BeforeTorque'
    BY <1>11 DEF Sync
  <2>2. InHandoff'
    BY <1>11 DEF Sync
  <2>3. HandoffLost'
    BY <1>11 DEF Sync
  <2>4. InLoop'
    BY <1>11, <2>0 DEF Sync
  <2>5. Zeroing'
    BY <1>11 DEF Sync
  <2>6. Ended'
    BY <1>11 DEF Sync
  <2>7. Errors'
    BY <1>11 DEF Sync
  <2>8. Filed'
    BY <1>11 DEF Sync
  <2>9. Exited'
    BY <1>11 DEF Sync
  <2>10. HoldStays'
    BY <1>11 DEF Sync
  <2> QED
    BY <2>1, <2>2, <2>3, <2>4, <2>5, <2>6, <2>7, <2>8, <2>9, <2>10
<1>12. ASSUME HandoffFailed PROVE SessionInv'
  BY <1>12 DEF HandoffFailed, AttemptHold
<1>13. ASSUME HandoffReport PROVE SessionInv'
  BY <1>13 DEF HandoffReport, Persist
<1>14. ASSUME Enter PROVE SessionInv'
  BY <1>14 DEF Enter
<1>15. ASSUME TimeUp PROVE SessionInv'
  BY <1>15 DEF TimeUp, AfterLoop
<1>16. ASSUME Feedback PROVE SessionInv'
  BY <1>16 DEF Feedback
<1>17. ASSUME Command PROVE SessionInv'
  BY <1>17 DEF Command, Advance
<1>18. ASSUME GateTimeout PROVE SessionInv'
  BY <1>18 DEF GateTimeout
<1>19. ASSUME GateHold PROVE SessionInv'
  BY <1>19 DEF GateHold, AttemptHold, AfterLoop
<1>20. ASSUME Publish PROVE SessionInv'
  BY <1>20 DEF Publish, AfterLoop
<1>21. ASSUME LoopRaises PROVE SessionInv'
  BY <1>21 DEF LoopRaises, Refuse, AfterLoop
<1>22. ASSUME SendZero PROVE SessionInv'
  BY <1>22 DEF SendZero, After
<1>23. ASSUME ZeroFails PROVE SessionInv'
  <2>1. BeforeTorque'
    BY <1>23 DEF ZeroFails, After
  <2>2. InHandoff'
    BY <1>23 DEF ZeroFails, After
  <2>3. HandoffLost'
    BY <1>23 DEF ZeroFails, After
  <2>4. InLoop'
    BY <1>23 DEF ZeroFails, After
  <2>5. Zeroing'
    BY <1>23 DEF ZeroFails, After
  <2>6. Ended'
    BY <1>23 DEF ZeroFails, After
  <2>7. Errors'
    BY <1>23 DEF ZeroFails, After
  <2>8. Filed'
    BY <1>23 DEF ZeroFails, After
  <2>9. Exited'
    BY <1>23 DEF ZeroFails, After
  <2>10. HoldStays'
    BY <1>23 DEF ZeroFails, After
  <2> QED
    BY <2>1, <2>2, <2>3, <2>4, <2>5, <2>6, <2>7, <2>8, <2>9, <2>10
<1>24. ASSUME Summary PROVE SessionInv'
  BY <1>24 DEF Summary
<1>25. ASSUME CloseWorker PROVE SessionInv'
  BY <1>25 DEF CloseWorker
<1>26. ASSUME EntryFailed PROVE SessionInv'
  BY <1>26 DEF EntryFailed
<1>27. ASSUME Report PROVE SessionInv'
  BY <1>27 DEF Report, Persist
<1>28. ASSUME Leave PROVE SessionInv'
  BY <1>28 DEF Leave
<1>29. ASSUME Interrupt PROVE SessionInv'
  BY <1>29 DEF Interrupt, AfterLoop
<1>30. ASSUME UNCHANGED vars PROVE SessionInv'
  BY <1>30 DEF vars
<1> QED
  BY <1>1, <1>2, <1>3, <1>4, <1>5, <1>6, <1>7, <1>8, <1>9, <1>10, <1>11,
     <1>12, <1>13, <1>14, <1>15, <1>16, <1>17, <1>18, <1>19, <1>20, <1>21,
     <1>22, <1>23, <1>24, <1>25, <1>26, <1>27, <1>28, <1>29, <1>30 DEF Next

\* The invariant holds in every state a session can reach.
LEMMA SessionAlways == Safety => []SessionInv
<1>1. Init => SessionInv
  <2> SUFFICES ASSUME Init PROVE SessionInv
    OBVIOUS
  <2>1. setup \subseteq Options /\ (Diagnostic => Gravity)
    BY DEF Init, Diagnostic, Gravity
  <2>2. TypeOK
    <3>1. beats \in 0..(ReadyPoints + SettleBeats) /\ interrupts \in 0..MaxInterrupts
      BY FollowAssumption DEF Init
    <3>2. zeros \in 0..ZeroSends
      BY DEF Init, ZeroSends
    <3> QED
      BY <2>1, <3>1, <3>2 DEF Init, TypeOK, Steps, Measured
  <2>3. BeforeTorque /\ InHandoff /\ HandoffLost /\ InLoop /\ Zeroing
    BY DEF Init, BeforeTorque, InHandoff, HandoffLost, InLoop, Zeroing, Quiet, Pristine,
       Handoff, LoopBody, ZeroAt
  <2>4. Ended /\ Errors /\ Filed /\ Exited /\ HoldStays
    BY FollowAssumption
       DEF Init, Ended, Errors, Filed, Exited, HoldStays, Running, Ending, ZeroAt, Exceptions
  <2> QED
    BY <2>2, <2>3, <2>4 DEF SessionInv
<1>2. SessionInv /\ [Next]_vars => SessionInv'
  BY SessionStep
<1> QED
  BY <1>1, <1>2, PTL DEF Safety

-----------------------------------------------------------------------------
\* The state of a session is always well formed.
THEOREM TypeCorrect == Safety => []TypeOK
<1>1. SessionInv => TypeOK
  BY DEF SessionInv
<1> QED
  BY <1>1, SessionAlways, PTL

\* However a session ends, short of an interrupt outside the loop or a failing
\* publication of zero, it leaves zero effort on the wire.
THEOREM EverySessionReleases == Safety => []ReleasedUnlessCutOff
<1>1. SessionInv => ReleasedUnlessCutOff
  BY DEF SessionInv, ReleasedUnlessCutOff, Ended, Exited, Settled, Quiet, TypeOK
<1> QED
  BY <1>1, SessionAlways, PTL

\* Exit code 0 means the torque is off and nothing was refused.
THEOREM CleanExitIsClean == Safety => []CleanExitIsReleased
<1>1. SessionInv => CleanExitIsReleased
  BY FollowAssumption
     DEF SessionInv, CleanExitIsReleased, Ended, Exited, Filed, Settled, Quiet, TypeOK, Exceptions
<1> QED
  BY <1>1, SessionAlways, PTL

\* The diagnostics file and the exit code tell the same story.
THEOREM ReportIsTruthful == Safety => []ReportAgreesWithExit
<1>1. SessionInv => ReportAgreesWithExit
  BY DEF SessionInv, ReportAgreesWithExit, Exited, Filed, TypeOK
<1> QED
  BY <1>1, SessionAlways, PTL

\* Torque, report and exit code tell one story of how a session ended.
THEOREM SessionEndsAsItSays == Safety => []EndsAsItSays
BY EverySessionReleases, CleanExitIsClean, ReportIsTruthful, PTL DEF EndsAsItSays

\* The action properties, from the invariant, one action at a time.
LEMMA Wire ==
  ASSUME SessionInv, [Next]_vars
  PROVE  /\ position = "hold" => position' = "hold"
         /\ Diagnostic /\ position' # position => wire' = "on"
         /\ (cleanup \in {"done", "failed"}) => UNCHANGED <<wire, position>>
         /\ report' # report => wire = "zero" \/ cleanup = "failed"
<1> DEFINE Kept == /\ position = "hold" => position' = "hold"
                   /\ Diagnostic /\ position' # position => wire' = "on"
                   /\ (cleanup \in {"done", "failed"}) => UNCHANGED <<wire, position>>
                   /\ report' # report => wire = "zero" \/ cleanup = "failed"
<1> SUFFICES Kept
  OBVIOUS
<1> USE DEF SessionInv, TypeOK, BeforeTorque, InHandoff, HandoffLost, InLoop, Ended, HoldStays,
        Zeroing, Errors, Filed, Quiet, Settled, Pristine, Ending, Handoff, LoopBody, ZeroAt, handoffVars, loopVars
<1>1. ASSUME Acquire PROVE Kept
  BY <1>1 DEF Acquire
<1>2. ASSUME AcquireFailed PROVE Kept
  BY <1>2 DEF AcquireFailed, Persist
<1>3. ASSUME Prepare PROVE Kept
  BY <1>3 DEF Prepare
<1>4. ASSUME CallRaises PROVE Kept
  BY <1>4 DEF CallRaises, Handler
<1>5. ASSUME Activate PROVE Kept
  BY <1>5 DEF Activate
<1>6. ASSUME Reacquire PROVE Kept
  BY <1>6 DEF Reacquire
<1>7. ASSUME ReadyTorque PROVE Kept
  BY <1>7 DEF ReadyTorque
<1>8. ASSUME ReadyStream PROVE Kept
  BY <1>8 DEF ReadyStream
<1>9. ASSUME Settle PROVE Kept
  BY <1>9 DEF Settle
<1>10. ASSUME SettleHold PROVE Kept
  BY <1>10 DEF SettleHold, AttemptHold
<1>11. ASSUME Sync PROVE Kept
  BY <1>11 DEF Sync
<1>12. ASSUME HandoffFailed PROVE Kept
  BY <1>12 DEF HandoffFailed, AttemptHold
<1>13. ASSUME HandoffReport PROVE Kept
  BY <1>13 DEF HandoffReport, Persist
<1>14. ASSUME Enter PROVE Kept
  BY <1>14 DEF Enter
<1>15. ASSUME TimeUp PROVE Kept
  BY <1>15 DEF TimeUp, AfterLoop
<1>16. ASSUME Feedback PROVE Kept
  BY <1>16 DEF Feedback
<1>17. ASSUME Command PROVE Kept
  BY <1>17 DEF Command, Advance
<1>18. ASSUME GateTimeout PROVE Kept
  BY <1>18 DEF GateTimeout
<1>19. ASSUME GateHold PROVE Kept
  BY <1>19 DEF GateHold, AttemptHold, AfterLoop
<1>20. ASSUME Publish PROVE Kept
  BY <1>20 DEF Publish, AfterLoop
<1>21. ASSUME LoopRaises PROVE Kept
  BY <1>21 DEF LoopRaises, Refuse, AfterLoop
<1>22. ASSUME SendZero PROVE Kept
  BY <1>22 DEF SendZero, After
<1>23. ASSUME ZeroFails PROVE Kept
  BY <1>23 DEF ZeroFails, After
<1>24. ASSUME Summary PROVE Kept
  BY <1>24 DEF Summary
<1>25. ASSUME CloseWorker PROVE Kept
  BY <1>25 DEF CloseWorker
<1>26. ASSUME EntryFailed PROVE Kept
  BY <1>26 DEF EntryFailed
<1>27. ASSUME Report PROVE Kept
  BY <1>27 DEF Report, Persist
<1>28. ASSUME Leave PROVE Kept
  BY <1>28 DEF Leave
<1>29. ASSUME Interrupt PROVE Kept
  BY <1>29 DEF Interrupt, AfterLoop
<1>30. ASSUME UNCHANGED vars PROVE Kept
  BY <1>30 DEF vars
<1> QED
  BY <1>1, <1>2, <1>3, <1>4, <1>5, <1>6, <1>7, <1>8, <1>9, <1>10, <1>11,
     <1>12, <1>13, <1>14, <1>15, <1>16, <1>17, <1>18, <1>19, <1>20, <1>21,
     <1>22, <1>23, <1>24, <1>25, <1>26, <1>27, <1>28, <1>29, <1>30 DEF Next

\* A hold of the measured pose is never replaced by another command.
THEOREM HoldIsKept == Safety => HoldIsFinal
<1>1. SessionInv /\ [Next]_vars =>
       [position = "hold" => position' = "hold"]_vars
  BY Wire
<1> QED
  BY <1>1, SessionAlways, PTL DEF Safety, HoldIsFinal

\* A diagnostic run moves the arm only while gravity torque is on.
THEOREM NoMotionWithoutGravity == Safety => MotionUnderGravity
<1>1. SessionInv /\ [Next]_vars =>
       [Diagnostic /\ position' # position => wire' = "on"]_vars
  BY Wire
<1> QED
  BY <1>1, SessionAlways, PTL DEF Safety, MotionUnderGravity

\* Nothing is published after the cleanup.
THEOREM NothingAfterRelease == Safety => ReleaseIsFinal
<1>1. SessionInv /\ [Next]_vars =>
       [(cleanup \in {"done", "failed"}) => UNCHANGED <<wire, position>>]_vars
  BY Wire
<1> QED
  BY <1>1, SessionAlways, PTL DEF Safety, ReleaseIsFinal

\* The file is written once the torque is released, or its release failed.
THEOREM ReportComesLast == Safety => ReportFollowsRelease
<1>1. SessionInv /\ [Next]_vars =>
       [report' # report => wire = "zero" \/ cleanup = "failed"]_vars
  BY Wire
<1> QED
  BY <1>1, SessionAlways, PTL DEF Safety, ReportFollowsRelease

-----------------------------------------------------------------------------
(* The record.                                                             *)

\* A recorded step is a step of the session, or none.
LEMMA RecordedStepIsAStep == ASSUME [RecordedNext]_recordedVars PROVE [Next]_vars
<1>1. CASE UNCHANGED recordedVars
  BY <1>1 DEF recordedVars
<1>2. CASE RecordReacquire \/ RecordReady \/ RecordSync \/ RecordEnter
  BY <1>2 DEF RecordReacquire, RecordReady, RecordSync, RecordEnter, Next
<1>3. CASE RecordFeedback \/ RecordTimeUp \/ RecordCommand \/ RecordGateTimeout
  BY <1>3 DEF RecordFeedback, RecordTimeUp, RecordCommand, RecordGateTimeout, Next
<1>4. CASE RecordGateHold \/ RecordPublish \/ RecordLoopRaises \/ RecordInterrupt
  BY <1>4 DEF RecordGateHold, RecordPublish, RecordLoopRaises, RecordInterrupt, Next
<1>5. CASE RecordCleanup \/ RecordPartial
  BY <1>5 DEF RecordCleanup, RecordPartial, Next
<1>6. CASE Unrecorded \/ Unkept
  BY <1>6 DEF Unrecorded, Unkept, Next
<1> QED
  BY <1>1, <1>2, <1>3, <1>4, <1>5, <1>6 DEF RecordedNext

\* Keeping a record changes nothing of a session: what is proved of every session
\* holds of those that record themselves (_follow_loop, follow_observability).
THEOREM RecordedIsASession == RecordedSpec => Safety
<1>1. RecordedInit => Init
  BY DEF RecordedInit
<1>2. [RecordedNext]_recordedVars => [Next]_vars
  BY RecordedStepIsAStep
<1> QED
  BY <1>1, <1>2, PTL DEF RecordedSpec, Safety

\* In particular, of the sessions that follow a diagnostic profile and report on it.
THEOREM RecordedSessionsToo ==
  RecordedSpec => []TypeOK /\ []EndsAsItSays /\ HoldIsFinal /\ MotionUnderGravity
BY RecordedIsASession, TypeCorrect, SessionEndsAsItSays, HoldIsKept, NoMotionWithoutGravity, PTL

-----------------------------------------------------------------------------
(* The profile.                                                            *)

\* A set of naturals has a least element, which stands for induction.
LEMMA Least ==
  ASSUME NEW T, T \subseteq Nat, T # {}
  PROVE  \E m \in T : \A k \in T : m <= k
<1> DEFINE Below == OpToRel(<, Nat)
<1>1. \A x, y \in Nat : <<x, y>> \in Below <=> x < y
  BY DEF OpToRel
<1>2. IsWellFoundedOn(Below, Nat)
  BY NatLessThanWellFounded
<1> HIDE DEF Below
<1>3. PICK m \in T : \A k \in T : <<k, m>> \notin Below
  BY <1>2, WFMin
<1>4. \A k \in T : ~(k < m)
  BY <1>1, <1>3
<1>5. m \in Nat /\ \A k \in T : k \in Nat
  BY <1>3
<1> QED
  BY <1>3, <1>4, <1>5

\* Sums of a sequence of times exist.
LEMMA Sums ==
  ASSUME NEW N \in Nat, NEW d
  PROVE  \E f : f = [n \in 0..N |-> IF n = 0 THEN 0 ELSE f[n - 1] + d[n].lasts]
<1> DEFINE Sum(k, f) == f = [n \in 0..k |-> IF n = 0 THEN 0 ELSE f[n - 1] + d[n].lasts]
           Missing == {k \in Nat : ~\E f : Sum(k, f)}
<1> SUFFICES ASSUME Missing # {} PROVE FALSE
  OBVIOUS
<1>1. PICK m \in Missing : \A k \in Missing : m <= k
  BY Least
<1>2. Sum(0, [n \in 0..0 |-> 0])
  OBVIOUS
<1>3. m \in Nat \ {0}
  BY <1>2
<1>a. m - 1 \in Nat /\ ~(m <= m - 1)
  BY <1>3
<1>b. m - 1 \notin Missing
  <2> HIDE DEF Missing
  <2> QED
    BY <1>1, <1>a
<1>4. PICK f : Sum(m - 1, f)
  BY <1>a, <1>b, Zenon
<1> DEFINE g == [n \in 0..m |-> IF n < m THEN f[n] ELSE f[m - 1] + d[m].lasts]
<1>5. ASSUME NEW n \in 0..m
      PROVE  g[n] = IF n = 0 THEN 0 ELSE g[n - 1] + d[n].lasts
  <2>1. CASE n = 0
    BY <1>3, <1>4, <2>1
  <2>2. CASE n # 0 /\ n < m
    <3>1. n \in 0..(m - 1) /\ n - 1 \in 0..m /\ n - 1 < m
      BY <1>3, <2>2
    <3>2. f[n] = f[n - 1] + d[n].lasts
      BY <1>4, <3>1, <2>2
    <3> QED
      BY <3>1, <3>2, <2>2
  <2>3. CASE n = m
    BY <1>3, <2>3
  <2> QED
    BY <1>3, <2>1, <2>2, <2>3
<1>6. Sum(m, g)
  BY <1>5
<1> QED
  BY <1>1, <1>6

\* EndOf adds up the stages.
LEMMA EndUnfolds ==
  ASSUME NEW p, p.repetitions \in Nat
  PROVE  EndOf(p) = [n \in 0..(4 * p.repetitions) |->
                       IF n = 0 THEN 0 ELSE EndOf(p)[n - 1] + Stages(p)[n].lasts]
<1>1. 4 * p.repetitions \in Nat
  OBVIOUS
<1> DEFINE N == 4 * p.repetitions
           d == Stages(p)
<1> HIDE DEF d
<1>2. \E f : f = [n \in 0..N |-> IF n = 0 THEN 0 ELSE f[n - 1] + d[n].lasts]
  BY <1>1, Sums
<1> QED
  BY <1>2 DEF EndOf, d

-----------------------------------------------------------------------------
(* Profiles that can be constructed.                                       *)

\* Profiles the record is made of.
Sound(p) == Constructible(p) /\ Whole(p)

\* The parts of a profile are numbers, its speed what was asked for at most.
LEMMA ProfileNumbers ==
  ASSUME NEW p, Constructible(p)
  PROVE  /\ p.distance \in Nat \ {0} /\ p.angle \in Nat \ {0}
         /\ p.linear \in Nat \ {0} /\ p.angular \in Nat \ {0}
         /\ p.hold \in Nat \ {0} /\ p.repetitions \in Nat \ {0}
         /\ p.kind \in Kinds
         /\ Ramp(p) \in Nat
         /\ Span(p).translation \in Nat /\ Span(p).rotation \in Nat
<1>a. ASSUME NEW name \in {"distance", "angle", "linear", "angular", "hold", "repetitions"}
      PROVE  p[name] \in Nat \ {0}
  <2>1. name \in DOMAIN Maximum /\ Maximum[name] \in Nat
    BY MaximumAssumption
  <2>2. p[name] \in 1..Maximum[name]
    BY <2>1 DEF Constructible
  <2> QED
    BY <2>1, <2>2
<1>1. /\ p.distance \in Nat \ {0} /\ p.angle \in Nat \ {0}
      /\ p.linear \in Nat \ {0} /\ p.angular \in Nat \ {0}
      /\ p.hold \in Nat \ {0} /\ p.repetitions \in Nat \ {0}
  BY <1>a
<1>2. p.kind \in Kinds
  BY DEF Constructible
<1>3. p.distance \div p.linear \in Nat /\ p.angle \div p.angular \in Nat
  BY <1>1
<1>4. Ramp(p) \in Nat
  BY <1>2, <1>3 DEF Ramp, Kinds
<1> QED
  BY <1>1, <1>2, <1>4 DEF Span

\* A rate a span is covered at.
Rate(p, span, speed) == \E k \in Nat : k <= speed /\ span = k * Ramp(p)

\* What divides without remainder multiplies back.
LEMMA Quotient ==
  ASSUME NEW a \in Nat, NEW b \in Nat \ {0}, a % b = 0
  PROVE  a \div b \in Nat /\ a = (a \div b) * b
<1>1. a = (b * (a \div b)) + (a % b)
  OBVIOUS
<1> QED
  BY <1>1

\* Products are monotonic.
LEMMA Product ==
  ASSUME NEW a \in Nat, NEW b \in Nat, NEW c \in Nat, a <= b
  PROVE  a * c <= b * c /\ c * a <= c * b /\ a * c = c * a /\ a * c \in Nat
<1>1. b = a + (b - a) /\ b - a \in Nat
  OBVIOUS
<1>2. (b - a) * c \in Nat
  BY <1>1
<1>3. b * c = a * c + (b - a) * c
  BY <1>1
<1> QED
  BY <1>2, <1>3

\* A part that takes longer than its own speed needs is slower than it.
LEMMA Slower ==
  ASSUME NEW k \in Nat, NEW r \in Nat \ {0}, NEW v \in Nat, NEW t \in Nat, t <= r, k * r = v * t
  PROVE  k <= v
<1> SUFFICES ASSUME v < k PROVE FALSE
  OBVIOUS
<1>1. v * t <= v * r
  BY Product
<1>2. v + 1 <= k /\ (v + 1) * r <= k * r
  BY Product
<1>3. (v + 1) * r = v * r + r
  OBVIOUS
<1> QED
  BY <1>1, <1>2, <1>3

\* Either part of a motion has a whole rate, within the speed asked for.
LEMMA Rates ==
  ASSUME NEW p, Sound(p)
  PROVE  /\ Ramp(p) \in Nat \ {0}
         /\ Rate(p, Span(p).translation, p.linear)
         /\ Rate(p, Span(p).rotation, p.angular)
<1>1. Ramp(p) \in Nat \ {0}
  BY ProfileNumbers DEF Sound, Whole
<1> DEFINE r == Ramp(p)
           there == p.distance \div p.linear
           round == p.angle \div p.angular
<1>2. there \in Nat /\ p.distance = there * p.linear
  BY ProfileNumbers, Quotient DEF Sound, Whole
<1>3. round \in Nat /\ p.angle = round * p.angular
  BY ProfileNumbers, Quotient DEF Sound, Whole
<1>4. p.kind # "rotation" => there <= r
  BY <1>2, <1>3, ProfileNumbers DEF Ramp, Sound, Kinds
<1>5. p.kind # "translation" => round <= r
  BY <1>2, <1>3, ProfileNumbers DEF Ramp, Sound, Kinds
<1> DEFINE span == Span(p).translation
           turn == Span(p).rotation
<1>6. span \in Nat /\ turn \in Nat /\ p.linear \in Nat /\ p.angular \in Nat
  BY ProfileNumbers DEF Sound
<1>7. (span \div r) \in Nat /\ span = (span \div r) * r
  BY <1>1, <1>6, Quotient DEF Sound, Whole
<1>8. (turn \div r) \in Nat /\ turn = (turn \div r) * r
  BY <1>1, <1>6, Quotient DEF Sound, Whole
<1>9. span = IF p.kind = "rotation" THEN 0 ELSE p.distance
  BY DEF Span
<1>10. turn = IF p.kind = "translation" THEN 0 ELSE p.angle
  BY DEF Span
<1> HIDE DEF r, there, round, span, turn
<1>11. Rate(p, span, p.linear)
  <2>1. CASE p.kind = "rotation"
    <3>1. span = 0 * r /\ 0 <= p.linear
      BY <1>1, <1>6, <1>9, <2>1 DEF r
    <3> QED
      BY <3>1 DEF Rate, r
  <2>2. CASE p.kind # "rotation"
    <3>1. (span \div r) <= p.linear
      <4>1. (span \div r) * r = p.linear * there
        BY <1>2, <1>6, <1>7, <1>9, <2>2
      <4> HIDE DEF r
      <4>2. r \in Nat \ {0}
        BY <1>1 DEF r
      <4> DEFINE k == span \div r
      <4> HIDE DEF k
      <4>3. k \in Nat /\ k * r = p.linear * there /\ there <= r /\ there \in Nat
        BY <1>2, <1>4, <1>7, <2>2, <4>1 DEF k
      <4>4. k <= p.linear
        BY <1>6, <4>2, <4>3, Slower
      <4> QED
        BY <4>4 DEF k
    <3> QED
      BY <1>7, <3>1 DEF Rate, r
  <2> QED
    BY <2>1, <2>2
<1>12. Rate(p, turn, p.angular)
  <2>1. CASE p.kind = "translation"
    <3>1. turn = 0 * r /\ 0 <= p.angular
      BY <1>1, <1>6, <1>10, <2>1 DEF r
    <3> QED
      BY <3>1 DEF Rate, r
  <2>2. CASE p.kind # "translation"
    <3>1. (turn \div r) <= p.angular
      <4>1. (turn \div r) * r = p.angular * round
        BY <1>3, <1>6, <1>8, <1>10, <2>2
      <4>2. r \in Nat \ {0}
        BY <1>1 DEF r
      <4> DEFINE k == turn \div r
      <4> HIDE DEF k
      <4>3. k \in Nat /\ k * r = p.angular * round /\ round <= r /\ round \in Nat
        BY <1>3, <1>5, <1>8, <2>2, <4>1 DEF k
      <4>4. k <= p.angular
        BY <1>6, <4>2, <4>3, Slower
      <4> QED
        BY <4>4 DEF k
    <3> QED
      BY <1>8, <3>1 DEF Rate, r
  <2> QED
    BY <2>1, <2>2
<1> QED
  BY <1>1, <1>11, <1>12 DEF span, turn

Turn(n) == (n - 1) % 4

\* A profile's stages are those of its round trips.
LEMMA StageOfTrip ==
  ASSUME NEW p, Sound(p), NEW n \in 1..(4 * p.repetitions)
  PROVE  LET leg == Stages(p)[n]
         IN /\ DOMAIN Stages(p) = 1..(4 * p.repetitions)
            /\ Turn(n) \in 0..3
            /\ Turn(n) = 0 => leg.from = 0 /\ leg.to = 1 /\ leg.lasts = Ramp(p)
            /\ Turn(n) = 1 => leg.from = 1 /\ leg.to = 1 /\ leg.lasts = p.hold
            /\ Turn(n) = 2 => leg.from = 1 /\ leg.to = 0 /\ leg.lasts = Ramp(p)
            /\ Turn(n) = 3 => leg.from = 0 /\ leg.to = 0 /\ leg.lasts = p.hold
            /\ leg.lasts \in Nat \ {0}
            /\ leg.phase \in Phases \ {<<"complete", "complete">>}
<1> DEFINE leg == Stages(p)[n]
<1>1. leg = Trip(p)[Turn(n) + 1] /\ DOMAIN Stages(p) = 1..(4 * p.repetitions)
  BY DEF Stages, Turn
<1>2. Turn(n) \in 0..3
  BY ProfileNumbers DEF Turn, Sound
<1> HIDE DEF leg
<1>3. /\ Turn(n) = 0 => leg.from = 0 /\ leg.to = 1 /\ leg.lasts = Ramp(p)
                         /\ leg.phase = <<p.kind, "ramp_out">>
      /\ Turn(n) = 1 => leg.from = 1 /\ leg.to = 1 /\ leg.lasts = p.hold
                         /\ leg.phase = <<p.kind, "hold">>
      /\ Turn(n) = 2 => leg.from = 1 /\ leg.to = 0 /\ leg.lasts = Ramp(p)
                         /\ leg.phase = <<p.kind, "ramp_back">>
      /\ Turn(n) = 3 => leg.from = 0 /\ leg.to = 0 /\ leg.lasts = p.hold
                         /\ leg.phase = <<"origin", "hold">>
  BY <1>1 DEF Trip
<1>4. Ramp(p) \in Nat \ {0} /\ p.hold \in Nat \ {0} /\ p.kind \in Kinds
  BY Rates, ProfileNumbers DEF Sound
<1>5. leg.lasts \in Nat \ {0}
  BY <1>2, <1>3, <1>4
<1>6. \A part \in {"ramp_out", "hold", "ramp_back"} :
        <<p.kind, part>> \in Phases \ {<<"complete", "complete">>}
  BY <1>4 DEF Phases
<1>7. <<"origin", "hold">> \in Phases \ {<<"complete", "complete">>}
  BY DEF Phases
<1>8. leg.phase \in Phases \ {<<"complete", "complete">>}
  BY <1>2, <1>3, <1>6, <1>7
<1> QED
  BY <1>1, <1>2, <1>3, <1>5, <1>8 DEF leg

\* When each stage is over.
LEMMA Ends ==
  ASSUME NEW p, Sound(p)
  PROVE  /\ EndOf(p)[0] = 0
         /\ \A n \in 0..(4 * p.repetitions) : EndOf(p)[n] \in Nat
         /\ \A n \in 1..(4 * p.repetitions) : EndOf(p)[n] = EndOf(p)[n - 1] + Stages(p)[n].lasts
<1> DEFINE N == 4 * p.repetitions
           Bad == {n \in 0..N : EndOf(p)[n] \notin Nat}
<1>1. p.repetitions \in Nat \ {0} /\ N \in Nat
  BY ProfileNumbers DEF Sound
<1>2. EndOf(p)[0] = 0 /\ \A n \in 1..N : EndOf(p)[n] = EndOf(p)[n - 1] + Stages(p)[n].lasts
  BY <1>1, EndUnfolds
<1>3. ASSUME Bad # {} PROVE FALSE
  <2>1. Bad \subseteq Nat
    BY <1>1
  <2>2. PICK m \in Bad : \A k \in Bad : m <= k
    BY <1>3, <2>1, Least
  <2>3. m \in 1..N /\ EndOf(p)[m] \notin Nat
    BY <1>1, <1>2
  <2>4. m - 1 \in 0..N /\ ~(m <= m - 1)
    BY <1>1, <2>3
  <2>5. m - 1 \notin Bad
    <3> HIDE DEF Bad
    <3> QED
      BY <2>2, <2>4
  <2>6. Stages(p)[m].lasts \in Nat
    BY <2>3, StageOfTrip
  <2> QED
    BY <1>2, <2>3, <2>4, <2>5, <2>6
<1> QED
  BY <1>2, <1>3

\* Stages end one after the other.
LEMMA EndsRise ==
  ASSUME NEW p, Sound(p), NEW i \in 0..(4 * p.repetitions), NEW j \in 0..(4 * p.repetitions), i <= j
  PROVE  EndOf(p)[i] <= EndOf(p)[j]
<1> DEFINE N == 4 * p.repetitions
           Low == {n \in i..N : EndOf(p)[n] < EndOf(p)[i]}
<1>1. p.repetitions \in Nat \ {0} /\ N \in Nat
  BY ProfileNumbers DEF Sound
<1>2. \A n \in 0..N : EndOf(p)[n] \in Nat
  BY Ends
<1>3. ASSUME Low # {} PROVE FALSE
  <2>1. Low \subseteq Nat
    BY <1>1
  <2>2. PICK m \in Low : \A k \in Low : m <= k
    BY <1>3, <2>1, Least
  <2>3. m \in 1..N /\ i < m /\ EndOf(p)[m] < EndOf(p)[i]
    BY <1>1, <1>2
  <2>4. m - 1 \in i..N /\ ~(m <= m - 1)
    BY <1>1, <2>3
  <2>5. m - 1 \notin Low
    <3> HIDE DEF Low
    <3> QED
      BY <2>2, <2>4
  <2>6. EndOf(p)[m] = EndOf(p)[m - 1] + Stages(p)[m].lasts /\ Stages(p)[m].lasts \in Nat
    BY <2>3, Ends, StageOfTrip
  <2>7. EndOf(p)[m - 1] \in Nat /\ EndOf(p)[m] \in Nat /\ EndOf(p)[i] \in Nat
    BY <1>1, <1>2, <2>3, <2>4
  <2>8. ~(EndOf(p)[m - 1] < EndOf(p)[i])
    BY <2>4, <2>5
  <2> QED
    BY <2>3, <2>6, <2>7, <2>8
<1>4. EndOf(p)[i] \in Nat /\ EndOf(p)[j] \in Nat /\ j \in i..N
  BY <1>1, <1>2
<1> QED
  BY <1>3, <1>4

InStage(p, n, e) == EndOf(p)[n - 1] < e /\ e <= EndOf(p)[n]

\* Every moment of a profile lies in one of its stages.
LEMMA SomeStage ==
  ASSUME NEW p, Sound(p), NEW e \in Nat \ {0}, e <= Duration(p)
  PROVE  \E n \in 1..(4 * p.repetitions) : InStage(p, n, e)
<1> DEFINE N == 4 * p.repetitions
           Past == {n \in 0..N : e <= EndOf(p)[n]}
<1>1. p.repetitions \in Nat \ {0} /\ N \in Nat
  BY ProfileNumbers DEF Sound
<1>2. EndOf(p)[0] = 0 /\ \A n \in 0..N : EndOf(p)[n] \in Nat
  BY Ends
<1>3. N \in Past
  BY <1>1 DEF Duration
<1>4. PICK m \in Past : \A k \in Past : m <= k
  <2>1. Past \subseteq Nat /\ Past # {}
    BY <1>1, <1>3
  <2> HIDE DEF Past
  <2> QED
    BY <2>1, Least
<1>5. m \in 1..N /\ e <= EndOf(p)[m]
  BY <1>1, <1>2
<1>6. m - 1 \in 0..N /\ ~(m <= m - 1)
  BY <1>1, <1>5
<1>7. m - 1 \notin Past
  <2> HIDE DEF Past
  <2> QED
    BY <1>4, <1>6
<1>8. EndOf(p)[m - 1] < e
  BY <1>2, <1>6, <1>7
<1> QED
  BY <1>5, <1>8 DEF InStage

\* And in no other.
LEMMA OneStage ==
  ASSUME NEW p, Sound(p), NEW n \in 1..(4 * p.repetitions), NEW m \in 1..(4 * p.repetitions),
         NEW e \in Nat, InStage(p, n, e), InStage(p, m, e)
  PROVE  m = n
<1>1. p.repetitions \in Nat \ {0}
  BY ProfileNumbers DEF Sound
<1>2. /\ n - 1 \in 0..(4 * p.repetitions) /\ m - 1 \in 0..(4 * p.repetitions)
      /\ n \in 0..(4 * p.repetitions) /\ m \in 0..(4 * p.repetitions)
      /\ n \in Nat /\ m \in Nat
  BY <1>1
<1>3. /\ EndOf(p)[n - 1] \in Nat /\ EndOf(p)[m - 1] \in Nat
      /\ EndOf(p)[n] \in Nat /\ EndOf(p)[m] \in Nat
  BY <1>2, Ends
<1>4. ASSUME m < n PROVE FALSE
  <2>1. m <= n - 1
    BY <1>2, <1>4
  <2>2. EndOf(p)[m] <= EndOf(p)[n - 1]
    BY <1>2, <2>1, EndsRise
  <2> QED
    BY <1>3, <2>2 DEF InStage
<1>5. ASSUME n < m PROVE FALSE
  <2>1. n <= m - 1
    BY <1>2, <1>5
  <2>2. EndOf(p)[n] <= EndOf(p)[m - 1]
    BY <1>2, <2>1, EndsRise
  <2> QED
    BY <1>3, <2>2 DEF InStage
<1> QED
  BY <1>2, <1>4, <1>5

\* So a sample within a profile is its stage's.
LEMMA SampleOfStage ==
  ASSUME NEW p, Sound(p), NEW n \in 1..(4 * p.repetitions), NEW e \in Nat, InStage(p, n, e)
  PROVE  Sample(p, e) = Within(p, n, e) /\ e <= Duration(p) /\ Duration(p) \in Nat
<1>1. p.repetitions \in Nat \ {0}
  BY ProfileNumbers DEF Sound
<1>2. DOMAIN Stages(p) = 1..(4 * p.repetitions)
  BY StageOfTrip
<1> DEFINE Chosen == CHOOSE m \in DOMAIN Stages(p) : EndOf(p)[m - 1] < e /\ e <= EndOf(p)[m]
<1>3. Chosen \in 1..(4 * p.repetitions) /\ InStage(p, Chosen, e)
  BY <1>2 DEF InStage
<1>4. Chosen = n
  <2> HIDE DEF Chosen
  <2> QED
    BY <1>3, OneStage
<1>5. n \in 0..(4 * p.repetitions) /\ 4 * p.repetitions \in 0..(4 * p.repetitions) /\ n <= 4 * p.repetitions
  BY <1>1
<1>6. EndOf(p)[n] <= Duration(p) /\ Duration(p) \in Nat /\ EndOf(p)[n] \in Nat
  BY <1>5, EndsRise, Ends DEF Duration
<1>7. e <= Duration(p)
  BY <1>6 DEF InStage
<1>8. ~(e > Duration(p))
  BY <1>6, <1>7
<1> QED
  BY <1>4, <1>6, <1>7, <1>8 DEF Sample

\* Where an axis stands some time after a stage has begun.
Path(p, k, n, gone) ==
  IF Turn(n) = 0 THEN k * gone
  ELSE IF Turn(n) = 1 THEN k * Ramp(p)
  ELSE IF Turn(n) = 2 THEN k * (Ramp(p) - gone)
  ELSE 0

\* Dividing a multiple is exact.
LEMMA Exact ==
  ASSUME NEW a \in Nat, NEW b \in Nat \ {0}
  PROVE  (a * b) \div b = a /\ (b * a) \div b = a /\ ((a * 0) \div b) = 0
OBVIOUS

\* Within a stage an axis is where its path says: nothing is lost to rounding.
LEMMA Position ==
  ASSUME NEW p, Sound(p), NEW n \in 1..(4 * p.repetitions), NEW k \in Nat, NEW span, span = k * Ramp(p),
         NEW gone \in Nat, gone <= Stages(p)[n].lasts
  PROVE  LET leg == Stages(p)[n]
             there == leg.lasts * leg.from
         IN (span * (IF leg.to < leg.from THEN there - gone ELSE there + (leg.to - leg.from) * gone))
              \div leg.lasts = Path(p, k, n, gone)
<1> DEFINE leg == Stages(p)[n]
           there == leg.lasts * leg.from
           progress == IF leg.to < leg.from THEN there - gone ELSE there + (leg.to - leg.from) * gone
<1>1. Ramp(p) \in Nat \ {0} /\ p.hold \in Nat \ {0}
  BY Rates, ProfileNumbers DEF Sound
<1>2. CASE Turn(n) = 0
  <2>1. progress = gone /\ leg.lasts = Ramp(p)
    BY <1>1, <1>2, StageOfTrip
  <2>2. span * gone = (k * gone) * Ramp(p) /\ k * gone \in Nat
    BY <1>1
  <2>3. ((k * gone) * Ramp(p)) \div Ramp(p) = k * gone
    BY <1>1, <2>2, Exact
  <2> QED
    BY <1>2, <2>1, <2>2, <2>3 DEF Path
<1>3. CASE Turn(n) = 1
  <2>1. progress = p.hold /\ leg.lasts = p.hold
    BY <1>1, <1>3, StageOfTrip
  <2>2. (span * p.hold) \div p.hold = span
    BY <1>1, Exact
  <2> QED
    BY <1>3, <2>1, <2>2 DEF Path
<1>4. CASE Turn(n) = 2
  <2>1. progress = Ramp(p) - gone /\ leg.lasts = Ramp(p) /\ gone <= Ramp(p)
    BY <1>1, <1>4, StageOfTrip
  <2>a. Ramp(p) - gone \in Nat
    BY <1>1, <2>1
  <2> DEFINE left == Ramp(p) - gone
  <2> HIDE DEF left
  <2>2. span * left = (k * left) * Ramp(p) /\ k * left \in Nat
    BY <1>1, <2>a DEF left
  <2>3. ((k * left) * Ramp(p)) \div Ramp(p) = k * left
    BY <1>1, <2>2, Exact
  <2> QED
    BY <1>4, <2>1, <2>2, <2>3 DEF Path, left
<1>5. CASE Turn(n) = 3
  <2>a. leg.from = 0 /\ leg.to = 0 /\ leg.lasts = p.hold
    BY <1>5, StageOfTrip
  <2>b. p.hold * 0 = 0 /\ 0 * gone = 0
    BY <1>1
  <2>1. progress = 0 /\ leg.lasts = p.hold
    BY <2>a, <2>b
  <2>c. span \in Nat
    BY <1>1
  <2>2. (span * 0) \div p.hold = 0
    BY <1>1, <2>c, Exact
  <2> QED
    BY <1>5, <2>1, <2>2 DEF Path
<1> QED
  BY <1>2, <1>3, <1>4, <1>5, StageOfTrip

\* A stage begins where the one before it ends, and moves no faster than asked for.
LEMMA PathMoves ==
  ASSUME NEW p, Sound(p), NEW n \in 1..(4 * p.repetitions), NEW k \in Nat
  PROVE  /\ n = 1 => Path(p, k, n, 0) = 0
         /\ n > 1 => Path(p, k, n, 0) = Path(p, k, n - 1, Stages(p)[n - 1].lasts)
         /\ n = 4 * p.repetitions => Path(p, k, n, Stages(p)[n].lasts) = 0
         /\ \A g \in Nat : g < Stages(p)[n].lasts =>
              /\ Path(p, k, n, g) \in Nat /\ Path(p, k, n, g + 1) \in Nat
              /\ Gap(Path(p, k, n, g), Path(p, k, n, g + 1)) <= k
<1>1. Ramp(p) \in Nat \ {0} /\ p.repetitions \in Nat \ {0}
  BY Rates, ProfileNumbers DEF Sound
<1>2. k * 0 = 0 /\ Ramp(p) - Ramp(p) = 0 /\ k * (Ramp(p) - 0) = k * Ramp(p)
  BY <1>1
<1>3. n = 1 => Path(p, k, n, 0) = 0
  BY <1>2 DEF Path, Turn
<1>4. ASSUME n > 1 PROVE Path(p, k, n, 0) = Path(p, k, n - 1, Stages(p)[n - 1].lasts)
  <2>1. n - 1 \in 1..(4 * p.repetitions)
    BY <1>1, <1>4
  <2>2. Turn(n) = IF Turn(n - 1) = 3 THEN 0 ELSE Turn(n - 1) + 1
    BY <1>1, <2>1 DEF Turn
  <2>3. Turn(n - 1) \in 0..3
    BY <2>1, StageOfTrip
  <2>4. /\ Turn(n - 1) = 0 => Stages(p)[n - 1].lasts = Ramp(p)
        /\ Turn(n - 1) = 2 => Stages(p)[n - 1].lasts = Ramp(p)
    BY <2>1, StageOfTrip
  <2>5. CASE Turn(n - 1) = 0
    BY <2>2, <2>4, <2>5 DEF Path
  <2>6. CASE Turn(n - 1) = 1
    BY <1>2, <2>2, <2>6 DEF Path
  <2>7. CASE Turn(n - 1) = 2
    BY <1>2, <2>2, <2>4, <2>7 DEF Path
  <2>8. CASE Turn(n - 1) = 3
    BY <1>2, <2>2, <2>8 DEF Path
  <2> QED
    BY <2>3, <2>5, <2>6, <2>7, <2>8
<1>5. n = 4 * p.repetitions => Path(p, k, n, Stages(p)[n].lasts) = 0
  <2>1. n = 4 * p.repetitions => Turn(n) = 3
    BY <1>1 DEF Turn
  <2> QED
    BY <2>1 DEF Path
<1>6. ASSUME NEW g \in Nat, g < Stages(p)[n].lasts
      PROVE  /\ Path(p, k, n, g) \in Nat /\ Path(p, k, n, g + 1) \in Nat
             /\ Gap(Path(p, k, n, g), Path(p, k, n, g + 1)) <= k
  <2>1. CASE Turn(n) = 0
    <3>1. k * (g + 1) = (k * g) + k /\ k * g \in Nat
      OBVIOUS
    <3> QED
      BY <2>1, <3>1 DEF Path, Gap
  <2>2. CASE Turn(n) = 1
    <3>1. k * Ramp(p) \in Nat
      BY <1>1
    <3> QED
      BY <2>2, <3>1 DEF Path, Gap
  <2>3. CASE Turn(n) = 2
    <3>1. g < Ramp(p)
      BY <1>6, <2>3, StageOfTrip
    <3> DEFINE left == Ramp(p) - (g + 1)
    <3>2. left \in Nat /\ Ramp(p) - g = left + 1
      BY <1>1, <3>1
    <3> HIDE DEF left
    <3>3. k * (left + 1) = (k * left) + k /\ k * left \in Nat
      BY <3>2
    <3>4. Path(p, k, n, g) = (k * left) + k /\ Path(p, k, n, g + 1) = k * left
      BY <2>3, <3>2, <3>3 DEF Path, left
    <3> QED
      BY <3>3, <3>4 DEF Gap
  <2>4. CASE Turn(n) = 3
    BY <2>4 DEF Path, Gap
  <2> QED
    BY <2>1, <2>2, <2>3, <2>4, StageOfTrip
<1> QED
  BY <1>3, <1>4, <1>5, <1>6

\* Where an axis of a profile is at a moment, at rest in the origin before and after.
Place(p, k, e) ==
  IF e > 0 /\ e <= Duration(p)
  THEN LET n == CHOOSE m \in 1..(4 * p.repetitions) : InStage(p, m, e)
       IN Path(p, k, n, e - EndOf(p)[n - 1])
  ELSE 0

\* At a moment two stages share, both say the same place.
LEMMA PlaceInStage ==
  ASSUME NEW p, Sound(p), NEW n \in 1..(4 * p.repetitions), NEW k \in Nat, NEW e \in Nat,
         EndOf(p)[n - 1] <= e, e <= EndOf(p)[n]
  PROVE  Place(p, k, e) = Path(p, k, n, e - EndOf(p)[n - 1])
<1>1. p.repetitions \in Nat \ {0}
  BY ProfileNumbers DEF Sound
<1>2. n - 1 \in 0..(4 * p.repetitions) /\ n \in 0..(4 * p.repetitions)
  BY <1>1
<1>3. EndOf(p)[n - 1] \in Nat /\ EndOf(p)[n] \in Nat
  BY <1>2, Ends
<1>4. ASSUME NEW m \in 1..(4 * p.repetitions), InStage(p, m, e)
      PROVE  Place(p, k, e) = Path(p, k, m, e - EndOf(p)[m - 1])
  <2> DEFINE Chosen == CHOOSE l \in 1..(4 * p.repetitions) : InStage(p, l, e)
  <2>1. Chosen \in 1..(4 * p.repetitions) /\ InStage(p, Chosen, e)
    BY <1>4
  <2>2. Chosen = m
    <3> HIDE DEF Chosen
    <3> QED
      BY <1>4, <2>1, OneStage
  <2>3. e <= Duration(p)
    BY <1>4, SampleOfStage
  <2>4. m - 1 \in 0..(4 * p.repetitions)
    BY <1>1
  <2>5. EndOf(p)[m - 1] \in Nat
    BY <2>4, Ends
  <2>6. e > 0
    BY <1>4, <2>5 DEF InStage
  <2> QED
    BY <2>2, <2>3, <2>6 DEF Place
<1>5. CASE EndOf(p)[n - 1] < e
  BY <1>4, <1>5 DEF InStage
<1>6. CASE EndOf(p)[n - 1] = e /\ n = 1
  <2>1. e = 0 /\ e - EndOf(p)[n - 1] = 0
    BY <1>3, <1>6, Ends
  <2>2. Path(p, k, n, 0) = 0
    BY <1>6, PathMoves
  <2> QED
    BY <2>1, <2>2 DEF Place
<1>7. CASE EndOf(p)[n - 1] = e /\ n > 1
  <2> DEFINE m == n - 1
  <2>1. m \in 1..(4 * p.repetitions) /\ m - 1 \in 0..(4 * p.repetitions)
    BY <1>1, <1>7
  <2>2. /\ EndOf(p)[m] = EndOf(p)[m - 1] + Stages(p)[m].lasts
        /\ EndOf(p)[m - 1] \in Nat /\ Stages(p)[m].lasts \in Nat \ {0}
    BY <2>1, Ends, StageOfTrip
  <2>3. InStage(p, m, e) /\ e - EndOf(p)[m - 1] = Stages(p)[m].lasts
    BY <1>7, <2>2 DEF InStage
  <2>4. Place(p, k, e) = Path(p, k, m, e - EndOf(p)[m - 1])
    <3> HIDE DEF m
    <3> QED
      BY <1>4, <2>1, <2>3
  <2>5. Path(p, k, n, 0) = Path(p, k, m, Stages(p)[m].lasts)
    BY <1>7, PathMoves
  <2>6. e - EndOf(p)[n - 1] = 0
    BY <1>3, <1>7
  <2> QED
    BY <2>3, <2>4, <2>5, <2>6
<1> QED
  BY <1>3, <1>5, <1>6, <1>7

\* In one unit of time an axis moves by its rate at most.
LEMMA OneStep ==
  ASSUME NEW p, Sound(p), NEW k \in Nat, NEW e \in Nat
  PROVE  /\ Place(p, k, e) \in Nat /\ Place(p, k, e + 1) \in Nat
         /\ Gap(Place(p, k, e), Place(p, k, e + 1)) <= k
<1>1. p.repetitions \in Nat \ {0}
  BY ProfileNumbers DEF Sound
<1> DEFINE N == 4 * p.repetitions
<1>2. N \in 1..N /\ N \in 0..N /\ N - 1 \in 0..N
  BY <1>1
<1>3. Duration(p) \in Nat /\ Duration(p) = EndOf(p)[N - 1] + Stages(p)[N].lasts /\ EndOf(p)[N - 1] \in Nat
      /\ Stages(p)[N].lasts \in Nat
  BY <1>2, Ends, StageOfTrip DEF Duration
<1>4. CASE e + 1 <= Duration(p)
  <2>1. PICK n \in 1..N : InStage(p, n, e + 1)
    BY <1>4, SomeStage
  <2>2. n - 1 \in 0..N
    BY <1>1, <2>1
  <2>3. EndOf(p)[n - 1] \in Nat /\ EndOf(p)[n] = EndOf(p)[n - 1] + Stages(p)[n].lasts
        /\ Stages(p)[n].lasts \in Nat
    BY <2>2, Ends, StageOfTrip
  <2> DEFINE g == e - EndOf(p)[n - 1]
  <2>4. g \in Nat /\ g < Stages(p)[n].lasts /\ (e + 1) - EndOf(p)[n - 1] = g + 1
    BY <2>1, <2>3 DEF InStage
  <2>5. EndOf(p)[n - 1] <= e /\ e <= EndOf(p)[n] /\ EndOf(p)[n - 1] <= e + 1 /\ e + 1 <= EndOf(p)[n]
    BY <2>3, <2>4
  <2>6. Place(p, k, e) = Path(p, k, n, g) /\ Place(p, k, e + 1) = Path(p, k, n, g + 1)
    BY <2>4, <2>5, PlaceInStage
  <2> HIDE DEF g
  <2> QED
    BY <2>4, <2>6, PathMoves
<1>5. CASE e = Duration(p)
  <2>1. EndOf(p)[N - 1] <= e /\ e <= EndOf(p)[N] /\ e - EndOf(p)[N - 1] = Stages(p)[N].lasts
    BY <1>2, <1>3, <1>5, Ends
  <2>2. Place(p, k, e) = Path(p, k, N, Stages(p)[N].lasts)
    BY <1>2, <2>1, PlaceInStage
  <2>3. Place(p, k, e) = 0
    BY <1>2, <2>2, PathMoves
  <2>4. Place(p, k, e + 1) = 0
    BY <1>3, <1>5 DEF Place
  <2> QED
    BY <2>3, <2>4 DEF Gap
<1>6. CASE e > Duration(p)
  BY <1>3, <1>6 DEF Place, Gap
<1> QED
  BY <1>3, <1>4, <1>5, <1>6

\* However much time passes, an axis moves no further than its rate allows in it.
LEMMA NoJump ==
  ASSUME NEW p, Sound(p), NEW k \in Nat, NEW v \in Nat, k <= v, NEW a \in Nat, NEW b \in Nat, a <= b
  PROVE  Gap(Place(p, k, a), Place(p, k, b)) <= v * (b - a)
<1> DEFINE Jump == {d \in Nat : ~(Gap(Place(p, k, a), Place(p, k, a + d)) <= v * d)}
<1>1. ASSUME Jump # {} PROVE FALSE
  <2>1. PICK d \in Jump : \A l \in Jump : d <= l
    <3>1. Jump \subseteq Nat
      OBVIOUS
    <3> HIDE DEF Jump
    <3> QED
      BY <1>1, <3>1, Least
  <2>2. d # 0
    <3>1. Place(p, k, a) \in Nat /\ a + 0 = a /\ v * 0 = 0
      BY OneStep
    <3>2. Gap(Place(p, k, a), Place(p, k, a + 0)) <= v * 0
      BY <3>1 DEF Gap
    <3> QED
      BY <3>2
  <2>3. d - 1 \in Nat /\ ~(d <= d - 1) /\ d \in Nat
    BY <2>2
  <2>4. d - 1 \notin Jump
    <3> HIDE DEF Jump
    <3> QED
      BY <2>1, <2>3
  <2>5. Gap(Place(p, k, a), Place(p, k, a + (d - 1))) <= v * (d - 1)
    BY <2>3, <2>4
  <2> DEFINE e == a + (d - 1)
  <2>6. e \in Nat /\ e + 1 = a + d
    BY <2>3
  <2>7. /\ Place(p, k, e) \in Nat /\ Place(p, k, e + 1) \in Nat
        /\ Gap(Place(p, k, e), Place(p, k, e + 1)) <= k
    BY <2>6, OneStep
  <2>8. Place(p, k, a) \in Nat
    BY OneStep
  <2>9. v * d = (v * (d - 1)) + v /\ v * (d - 1) \in Nat
    BY <2>3
  <2>10. Gap(Place(p, k, a), Place(p, k, e + 1)) <= v * d
    <3> HIDE DEF e, Jump
    <3> QED
      BY <2>5, <2>7, <2>8, <2>9 DEF Gap, e
  <2> QED
    BY <2>1, <2>6, <2>10
<1>2. b - a \in Nat /\ a + (b - a) = b
  OBVIOUS
<1> QED
  BY <1>1, <1>2

\* A sample shows where both axes are.
LEMMA SampleShows ==
  ASSUME NEW p, Sound(p), NEW e \in Nat \ {0}
  PROVE  /\ Sample(p, e) \in Targets
         /\ Sample(p, e).complete <=> e > Duration(p)
         /\ Sample(p, e).complete <=> Sample(p, e).phase = <<"complete", "complete">>
         /\ \A k \in Nat : Span(p).translation = k * Ramp(p) => Sample(p, e).translation = Place(p, k, e)
         /\ \A k \in Nat : Span(p).rotation = k * Ramp(p) => Sample(p, e).rotation = Place(p, k, e)
<1>1. p.repetitions \in Nat \ {0} /\ Duration(p) \in Nat
  <2>1. p.repetitions \in Nat \ {0}
    BY ProfileNumbers DEF Sound
  <2>2. 4 * p.repetitions \in 0..(4 * p.repetitions)
    BY <2>1
  <2> QED
    BY <2>1, <2>2, Ends DEF Duration
<1>2. CASE e > Duration(p)
  <2>1. Sample(p, e) = Completed(p)
    BY <1>2 DEF Sample
  <2>2. (Span(p).translation * 0) \div 1 = 0 /\ (Span(p).rotation * 0) \div 1 = 0
    BY ProfileNumbers DEF Sound
  <2>3. Sample(p, e) = [phase |-> <<"complete", "complete">>, complete |-> TRUE,
                        translation |-> 0, rotation |-> 0]
    BY <2>1, <2>2 DEF Completed, At
  <2>4. \A k : Place(p, k, e) = 0
    BY <1>1, <1>2 DEF Place
  <2>5. <<"complete", "complete">> \in Phases
    BY DEF Phases
  <2> QED
    BY <1>2, <2>3, <2>4, <2>5 DEF Targets
<1>3. CASE e <= Duration(p)
  <2>1. PICK n \in 1..(4 * p.repetitions) : InStage(p, n, e)
    BY <1>3, SomeStage
  <2>2. Sample(p, e) = Within(p, n, e)
    BY <2>1, SampleOfStage
  <2>3. n - 1 \in 0..(4 * p.repetitions)
    BY <1>1
  <2>4. EndOf(p)[n - 1] \in Nat /\ EndOf(p)[n] = EndOf(p)[n - 1] + Stages(p)[n].lasts
        /\ Stages(p)[n].lasts \in Nat \ {0}
    BY <2>3, Ends, StageOfTrip
  <2> DEFINE gone == e - EndOf(p)[n - 1]
             leg == Stages(p)[n]
             there == leg.lasts * leg.from
             progress == IF leg.to < leg.from THEN there - gone ELSE there + (leg.to - leg.from) * gone
  <2>5. gone \in Nat /\ gone <= leg.lasts /\ EndOf(p)[n - 1] <= e /\ e <= EndOf(p)[n]
    BY <2>1, <2>4 DEF InStage
  <2>6. Sample(p, e) = [phase |-> leg.phase, complete |-> FALSE,
                        translation |-> (Span(p).translation * progress) \div leg.lasts,
                        rotation |-> (Span(p).rotation * progress) \div leg.lasts]
    BY <2>2 DEF Within, At
  <2>7. ASSUME NEW k \in Nat, NEW span, span = k * Ramp(p)
        PROVE  (span * progress) \div leg.lasts = Place(p, k, e)
    <3>1. (span * progress) \div leg.lasts = Path(p, k, n, gone)
      BY <2>5, <2>7, Position
    <3>2. Place(p, k, e) = Path(p, k, n, gone)
      BY <2>5, PlaceInStage
    <3> QED
      BY <3>1, <3>2
  <2> HIDE DEF progress
  <2>8. leg.phase \in Phases /\ leg.phase # <<"complete", "complete">>
    BY StageOfTrip
  <2>9. (Span(p).translation * progress) \div leg.lasts \in Nat
        /\ (Span(p).rotation * progress) \div leg.lasts \in Nat
    <3>1. PICK k \in Nat : Span(p).translation = k * Ramp(p)
      BY Rates DEF Rate
    <3>2. PICK l \in Nat : Span(p).rotation = l * Ramp(p)
      BY Rates DEF Rate
    <3>3. Place(p, k, e) \in Nat /\ Place(p, l, e) \in Nat
      BY OneStep
    <3> QED
      BY <2>7, <3>1, <3>2, <3>3
  <2> HIDE DEF leg
  <2>10. Sample(p, e) \in Targets
    BY <2>6, <2>8, <2>9 DEF Targets
  <2>11. ~(e > Duration(p))
    BY <1>1, <1>3
  <2> QED
    BY <2>6, <2>7, <2>8, <2>10, <2>11
<1> QED
  BY <1>1, <1>2, <1>3

-----------------------------------------------------------------------------
(* The inductive invariant of the record.                                  *)

\* What a row may be filed under, and what it holds.
RowStages == {"ready_reacquisition", "handoff_sync", "startup_alignment", "manual_follow",
              "convergence_gate"} \cup ProfileStages
Waits == {<<"startup_alignment", "">>, <<"manual_follow", "">>, <<"convergence_gate", "">>}
Row == [at : Nat, stage : RowStages, traced : BOOLEAN, asked : Phases \cup Waits \cup {None},
        target : Targets \cup {None}]

\* The profile stage a phase is filed under; nothing names the last one.
StageFor(phase) == IF Canonical(phase) = "none" THEN "origin_hold" ELSE Canonical(phase)

\* Types.
RecordTypeOK ==
  /\ profile \in IF Diagnostic THEN Profiles ELSE {None}
  /\ clock \in Nat /\ sample \in Targets \cup {None}
  /\ rows \in Seq(Row)
  /\ marks \in [Events -> Nat \cup {None}]
  /\ \A event \in Events : Happened(event) => marks[event] <= clock
  /\ samples \in Nat /\ published \in Nat

\* The event a stage begins with.
Begins ==
  [stage_ \in RowStages |->
     IF stage_ = "ready_reacquisition" THEN "ready_reacquisition_start"
     ELSE IF stage_ = "handoff_sync" THEN "handoff_sync"
     ELSE IF stage_ = "startup_alignment" THEN "alignment_start"
     ELSE IF stage_ = "manual_follow" THEN "alignment_end"
     ELSE IF stage_ = "convergence_gate" THEN "convergence_gate_start"
     ELSE "profile_start"]

\* A row and the request of its cycle are filed alike.
RowFiled(row) ==
  \/ row.stage = "startup_alignment" /\ row.asked = <<"startup_alignment", "">>
  \/ row.stage = "convergence_gate" /\ row.asked = <<"convergence_gate", "">>
  \/ row.target # None /\ row.asked = row.target.phase /\ row.stage = StageFor(row.asked)

\* What is true of a row from the moment it is filed.
RowOK(row) ==
  /\ row.at <= clock
  /\ Happened(Begins[row.stage]) /\ During(row.stage, row.at)
  /\ Happened("cleanup_start") => row.at <= marks["cleanup_start"]
  /\ row.traced /\ Diagnostic => RowFiled(row)
  /\ row.stage \in ProfileStages => row.target # None
  /\ row.target # None =>
       /\ Diagnostic /\ Happened("profile_start") /\ marks["profile_start"] < row.at
       /\ row.target = Sample(profile, row.at - marks["profile_start"])

\* Rows are filed in order, and a profile is never the first one.
RowsOK ==
  /\ \A n \in DOMAIN rows : RowOK(rows[n])
  /\ \A n \in DOMAIN rows : n > 1 => rows[n - 1].at < rows[n].at
  /\ \A n \in DOMAIN rows : rows[n].stage \in ProfileStages => n > 1

-----------------------------------------------------------------------------
(* How rows are filed.                                                     *)

\* What appending to a sequence does.
LEMMA Appended ==
  ASSUME NEW S, NEW s \in Seq(S), NEW e \in S
  PROVE  /\ Append(s, e) \in Seq(S)
         /\ Len(s) \in Nat /\ DOMAIN s = 1..Len(s)
         /\ DOMAIN Append(s, e) = 1..(Len(s) + 1) /\ Len(Append(s, e)) = Len(s) + 1
         /\ \A n \in 1..Len(s) : Append(s, e)[n] = s[n] /\ s[n] \in S
         /\ Append(s, e)[Len(s) + 1] = e
OBVIOUS

\* Events that happen once; the end of the cleanup may be stamped again.
Once == {"ready_reacquisition_start", "ready_reacquisition_end", "handoff_sync",
         "alignment_start", "alignment_end", "convergence_gate_start",
         "convergence_gate_end", "profile_start", "cleanup_start"}

\* What may be stamped without disturbing what is filed.
FirstTime(events) == events \subseteq Events /\ \A event \in events \cap Once : ~Happened(event)

\* A row that is filed stays true while the clock and the timeline move on.
LEMMA RowStays ==
  ASSUME NEW row \in Row, RowOK(row), RecordTypeOK, UNCHANGED <<setup, profile>>,
         clock' \in Nat, clock <= clock',
         NEW events, FirstTime(events), Stamp(events),
         "alignment_end" \in events => row.at < clock'
  PROVE  RowOK(row)'
<1>1. row.at \in Nat /\ row.stage \in RowStages /\ clock \in Nat
  BY DEF Row, RecordTypeOK
<1>2. \A event \in Events : marks'[event] = IF event \in events THEN clock' ELSE marks[event]
  BY DEF Stamp
<1>3. \A event \in Events :
        event \in Once /\ Happened(event) => marks'[event] = marks[event] /\ Happened(event)'
  BY <1>2 DEF FirstTime, Happened
<1>4. \A event \in Events : marks[event] \in Nat \cup {None}
  BY DEF RecordTypeOK
<1>5. None \notin Nat
  BY RecordAssumption
<1>6. Begins[row.stage] \in Events /\ Begins[row.stage] \in Once
  BY <1>1 DEF Begins, Events, Once, RowStages
<1>7. Happened(Begins[row.stage])'
  BY <1>3, <1>6 DEF RowOK
<1>8. \A event \in Events : Happened(event)' /\ ~Happened(event) => marks'[event] = clock' /\ event \in events
  BY <1>2 DEF Happened
<1>9. During(row.stage, row.at)'
  <2>1. CASE row.stage = "ready_reacquisition"
    BY <1>1, <1>3, <1>8, <2>1 DEF RowOK, During, Begins, Events, Once, RowStages, ProfileStages
  <2>2. CASE row.stage = "handoff_sync"
    BY <1>1, <1>3, <1>8, <2>2 DEF RowOK, During, Begins, Events, Once, RowStages, ProfileStages
  <2>3. CASE row.stage = "startup_alignment"
    BY <1>1, <1>3, <1>8, <2>3 DEF RowOK, During, Begins, Events, Once, RowStages, ProfileStages
  <2>4. CASE row.stage = "manual_follow"
    BY <1>1, <1>3, <1>8, <2>4 DEF RowOK, During, Begins, Events, Once, RowStages, ProfileStages
  <2>5. CASE row.stage = "convergence_gate"
    BY <1>1, <1>3, <1>8, <2>5 DEF RowOK, During, Begins, Events, Once, RowStages, ProfileStages
  <2>6. CASE row.stage \in ProfileStages
    BY <1>1, <1>3, <1>8, <2>6 DEF RowOK, During, Begins, Events, Once, RowStages, ProfileStages
  <2> QED
    BY <1>1, <2>1, <2>2, <2>3, <2>4, <2>5, <2>6 DEF RowStages
<1>10. Happened("cleanup_start")' => row.at <= marks'["cleanup_start"]
  BY <1>1, <1>3, <1>8 DEF RowOK, Events, Once
<1>11. row.target # None => Happened("profile_start")' /\ marks'["profile_start"] = marks["profile_start"]
  BY <1>3 DEF RowOK, Events, Once
<1>12. row.at <= clock'
  BY <1>1 DEF RowOK
<1> QED
  BY <1>7, <1>9, <1>10, <1>11, <1>12 DEF RowOK, Diagnostic

\* The rows filed stay in order when only the clock and the timeline move on.
LEMMA RowsStay ==
  ASSUME RowsOK, RecordTypeOK, UNCHANGED <<setup, profile, rows>>,
         clock' \in Nat, clock <= clock',
         NEW events, FirstTime(events), Stamp(events),
         "alignment_end" \in events => \A n \in DOMAIN rows : rows[n].at < clock'
  PROVE  RowsOK'
<1>1. ASSUME NEW n \in DOMAIN rows PROVE RowOK(rows[n])'
  <2>1. rows[n] \in Row
    BY <1>1 DEF RecordTypeOK
  <2>2. RowOK(rows[n])
    BY <1>1 DEF RowsOK
  <2>3. "alignment_end" \in events => rows[n].at < clock'
    BY <1>1
  <2>4. PICK row : row = rows[n]
    OBVIOUS
  <2>5. RowOK(row)'
    BY <2>1, <2>2, <2>3, <2>4, RowStays
  <2> QED
    BY <2>4, <2>5
<1> QED
  BY <1>1 DEF RowsOK

\* And when a row is added.
LEMMA RowsGrow ==
  ASSUME RowsOK, RecordTypeOK, UNCHANGED <<setup, profile>>,
         clock' \in Nat, clock <= clock',
         NEW row \in Row, rows' = Append(rows, row), RowOK(row)',
         NEW events, FirstTime(events), Stamp(events),
         "alignment_end" \in events => \A n \in DOMAIN rows : rows[n].at < clock',
         \A n \in DOMAIN rows : rows[n].at < row.at,
         row.stage \in ProfileStages => rows # <<>>
  PROVE  RowsOK'
<1>1. rows \in Seq(Row)
  BY DEF RecordTypeOK
<1> DEFINE last == Len(rows) + 1
<1>2. /\ last \in Nat \ {0} /\ DOMAIN rows = 1..(last - 1) /\ DOMAIN rows' = 1..last
      /\ \A n \in 1..(last - 1) : rows'[n] = rows[n] /\ rows[n] \in Row
      /\ rows'[last] = row
  BY <1>1, Appended
<1>3. rows # <<>> => last > 1
  BY <1>1
<1> HIDE DEF last
<1>4. ASSUME NEW n \in DOMAIN rows' PROVE RowOK(rows[n])'
  <2>1. CASE n = last
    BY <1>2, <2>1
  <2>2. CASE n # last
    <3>1. n \in DOMAIN rows /\ rows'[n] = rows[n] /\ rows[n] \in Row
      BY <1>2, <1>4, <2>2
    <3>2. RowOK(rows[n])
      BY <3>1 DEF RowsOK
    <3>3. "alignment_end" \in events => rows[n].at < clock'
      BY <3>1
    <3>4. PICK old : old = rows[n]
      OBVIOUS
    <3>5. RowOK(old)'
      BY <3>1, <3>2, <3>3, <3>4, RowStays
    <3>6. old = rows'[n]
      BY <3>1, <3>4
    <3> QED
      BY <3>5, <3>6
  <2> QED
    BY <2>1, <2>2
<1>5. ASSUME NEW n \in DOMAIN rows', n > 1 PROVE rows'[n - 1].at < rows'[n].at
  <2>1. n - 1 \in DOMAIN rows /\ rows'[n - 1] = rows[n - 1]
    BY <1>2, <1>5
  <2>2. CASE n = last
    BY <1>2, <2>1, <2>2
  <2>3. CASE n # last
    <3>1. n \in DOMAIN rows /\ rows'[n] = rows[n]
      BY <1>2, <1>5, <2>3
    <3> QED
      BY <1>5, <2>1, <3>1 DEF RowsOK
  <2> QED
    BY <2>2, <2>3
<1>6. ASSUME NEW n \in DOMAIN rows', rows'[n].stage \in ProfileStages PROVE n > 1
  <2>1. CASE n = last
    BY <1>2, <1>3, <1>6, <2>1
  <2>2. CASE n # last
    <3>1. n \in DOMAIN rows /\ rows'[n] = rows[n]
      BY <1>2, <1>6, <2>2
    <3> QED
      BY <1>6, <3>1 DEF RowsOK
  <2> QED
    BY <2>1, <2>2
<1> QED
  BY <1>4, <1>5, <1>6 DEF RowsOK

\* How the counts of rows grow.
LEMMA RowsCount ==
  ASSUME rows \in Seq(Row), NEW row \in Row, rows' = Append(rows, row)
  PROVE  /\ Cardinality(TracedRows) \in Nat /\ Cardinality(ProfileRows) \in Nat
         /\ Cardinality(TracedRows)' = Cardinality(TracedRows) + (IF row.traced THEN 1 ELSE 0)
         /\ Cardinality(ProfileRows)' =
              Cardinality(ProfileRows) + (IF row.traced /\ row.stage \in ProfileStages THEN 1 ELSE 0)
<1> DEFINE last == Len(rows) + 1
<1>1. /\ last \in Nat \ {0} /\ DOMAIN rows = 1..(last - 1) /\ DOMAIN rows' = 1..last
      /\ \A n \in 1..(last - 1) : rows'[n] = rows[n]
      /\ rows'[last] = row
  BY Appended
<1> HIDE DEF last
<1>2. IsFiniteSet(TracedRows) /\ IsFiniteSet(ProfileRows)
  <2>1. IsFiniteSet(1..(last - 1))
    BY <1>1, FS_Interval
  <2>2. TracedRows \subseteq 1..(last - 1) /\ ProfileRows \subseteq TracedRows
    BY <1>1 DEF TracedRows, ProfileRows
  <2> QED
    BY <2>1, <2>2, FS_Subset
<1>3. last \notin TracedRows /\ last \notin ProfileRows
  BY <1>1 DEF TracedRows, ProfileRows
<1>4. TracedRows' = IF row.traced THEN TracedRows \cup {last} ELSE TracedRows
  BY <1>1 DEF TracedRows
<1>5. ProfileRows' = IF row.traced /\ row.stage \in ProfileStages THEN ProfileRows \cup {last}
                     ELSE ProfileRows
  BY <1>1 DEF ProfileRows, TracedRows
<1>6. Cardinality(TracedRows) \in Nat /\ Cardinality(ProfileRows) \in Nat
  BY <1>2, FS_CardinalityType
<1>7. /\ Cardinality(TracedRows \cup {last}) = Cardinality(TracedRows) + 1
      /\ Cardinality(ProfileRows \cup {last}) = Cardinality(ProfileRows) + 1
  BY <1>2, <1>3, FS_AddElement
<1> QED
  BY <1>4, <1>5, <1>6, <1>7

\* Places before the loop, and the events of the handoff.
Before == {"acquire", "prepare", "enter"} \cup Handoff
Early == {"ready_reacquisition_start", "ready_reacquisition_end", "handoff_sync"}
Blank == \A event \in Events : ~Happened(event)

\* The timeline of the loop.
LoopTimeline ==
  /\ Happened("alignment_start") /\ clock < Deadline
  /\ Happened("alignment_end") <=> stage # "aligning"
  /\ Happened("convergence_gate_start") <=> stage \in {"converging", "profiling"}
  /\ Happened("convergence_gate_end") <=> stage = "profiling"
  /\ Happened("profile_start") <=> stage = "profiling"
  /\ stage \in {"aligning", "converging", "profiling", "following"}
  /\ stage \in {"converging", "profiling"} => Diagnostic
  /\ stage = "following" => ~Diagnostic

\* What has happened where the session is, and what cannot have.
TimelineOK ==
  /\ pc \in Before => \A n \in DOMAIN rows : ~rows[n].traced /\ rows[n].stage \notin ProfileStages
  /\ pc \in {"acquire", "prepare", "activate", "reacquire"} => rows = <<>> /\ Blank
  /\ pc \in {"ready", "readyStream", "settle"} =>
       /\ Happened("ready_reacquisition_start")
       /\ \A event \in Events \ {"ready_reacquisition_start"} : ~Happened(event)
  /\ pc = "sync" =>
       \A event \in Events \ {"ready_reacquisition_start", "ready_reacquisition_end"} : ~Happened(event)
  /\ pc = "enter" => \A event \in Events \ Early : ~Happened(event)
  /\ pc \in LoopBody => LoopTimeline
  /\ Happened("cleanup_start") => cleanup # "none"

\* The sample and the last row are those of the cycle at hand.
CycleOK ==
  /\ pc \in LoopBody /\ stage = "profiling" => rows # <<>>
  /\ pc = "command" =>
       /\ \A n \in DOMAIN rows : rows[n].at < clock
       /\ Happened("profile_start") =>
            /\ marks["profile_start"] < clock
            /\ sample = Sample(profile, clock - marks["profile_start"])
       /\ ~Happened("profile_start") => sample = None
  /\ pc = "publish" =>
       /\ rows # <<>> /\ rows[Len(rows)].at = clock /\ rows[Len(rows)].target = sample
       /\ sample # None => outgoing = "profile"
  /\ pc = "gateHold" => stage = "converging"

\* A complete report is written, or still to be expected.
TallyDue ==
  \/ pc \in {"loopZero", "summary", "closeWorker", "report"} /\ error = None /\ ~refused
  \/ report = "complete"

\* The counts, of which the row at hand may not be part yet.
TallyOK ==
  /\ pc \in Before => samples = 0 /\ published = 0
  /\ pc \in {"feedback", "command"} =>
       samples = Cardinality(TracedRows) /\ published = Cardinality(ProfileRows)
  /\ pc = "publish" =>
       /\ samples + 1 = Cardinality(TracedRows)
       /\ published + (IF sample = None THEN 0 ELSE 1) = Cardinality(ProfileRows)
  /\ pc = "gateHold" => samples + 1 = Cardinality(TracedRows) /\ published = Cardinality(ProfileRows)
  /\ TallyDue => samples = Cardinality(TracedRows) \/ termination = "interrupted"

\* Places after the loop.
Over == {"loopZero", "summary", "closeWorker", "entryFailed", "entryZero", "entryReport",
         "report", "leave", "done"}

\* How the loop ended, which nothing after it changes.
VerdictOK ==
  /\ ProfileCompleted => pc \in Over /\ CompletedIsTheWholeProfile
  /\ reason = "handoff_convergence_timeout" => pc \in Over /\ TimedOutBeforeProfile

\* The inductive invariant of a session with --output.
RecordInv == RecordTypeOK /\ RowsOK /\ TimelineOK /\ CycleOK /\ TallyOK /\ VerdictOK

-----------------------------------------------------------------------------
(* Every step keeps the invariant.                                         *)

\* A session starts without a record.
LEMMA RecordInitially == ASSUME RecordedInit, Output PROVE RecordInv
<1>1. \A event \in Events : marks[event] = None
  BY DEF RecordedInit
<1>2. profile \in IF Diagnostic THEN Profiles ELSE {None}
  BY DEF RecordedInit
<1>3. rows = <<>> /\ DOMAIN rows = {} /\ rows \in Seq(Row)
  BY DEF RecordedInit
<1>4. RecordTypeOK
  <2>1. marks \in [Events -> Nat \cup {None}]
    BY DEF RecordedInit
  <2> QED
    BY <1>1, <1>2, <1>3, <2>1 DEF RecordedInit, RecordTypeOK, Happened
<1>5. RowsOK
  BY <1>3 DEF RowsOK
<1>6. TimelineOK
  BY <1>1, <1>3 DEF RecordedInit, Init, TimelineOK, LoopTimeline, Blank, Happened, LoopBody, Events
<1>7. CycleOK
  BY DEF RecordedInit, Init, CycleOK, LoopBody
<1>8. TallyOK
  BY DEF RecordedInit, Init, TallyOK, TallyDue
<1>9. VerdictOK
  BY RecordAssumption DEF RecordedInit, VerdictOK, ProfileCompleted
<1> QED
  BY <1>4, <1>5, <1>6, <1>7, <1>8, <1>9 DEF RecordInv

\* Steps outside the loop that leave the rows alone.
LEMMA TypesStay ==
  ASSUME RecordTypeOK, UNCHANGED <<setup, profile, rows>>,
         clock' \in Nat, clock <= clock', sample' \in Targets \cup {None},
         samples' \in Nat, published' \in Nat,
         NEW events, events \subseteq Events, Stamp(events)
  PROVE  RecordTypeOK'
<1>1. marks' \in [Events -> Nat \cup {None}]
  BY DEF Stamp, RecordTypeOK
<1>2. ASSUME NEW event \in Events, Happened(event)' PROVE marks'[event] <= clock'
  <2>1. CASE event \in events
    BY <2>1 DEF Stamp
  <2>2. CASE event \notin events
    <3>1. marks'[event] = marks[event] /\ Happened(event)
      BY <1>2, <2>2 DEF Stamp, Happened
    <3>2. marks[event] \in Nat
      BY <3>1 DEF Happened, RecordTypeOK
    <3> QED
      BY <3>1, <3>2 DEF RecordTypeOK
  <2> QED
    BY <2>1, <2>2
<1> QED
  BY <1>1, <1>2 DEF RecordTypeOK, Diagnostic

\* Steps that file a row.
LEMMA TypesGrow ==
  ASSUME RecordTypeOK, UNCHANGED <<setup, profile>>, NEW row \in Row, rows' = Append(rows, row),
         clock' \in Nat, clock <= clock', sample' \in Targets \cup {None},
         samples' \in Nat, published' \in Nat,
         NEW events, events \subseteq Events, Stamp(events)
  PROVE  RecordTypeOK'
<1>1. marks' \in [Events -> Nat \cup {None}]
  BY DEF Stamp, RecordTypeOK
<1>2. ASSUME NEW event \in Events, Happened(event)' PROVE marks'[event] <= clock'
  <2>1. CASE event \in events
    BY <2>1 DEF Stamp
  <2>2. CASE event \notin events
    <3>1. marks'[event] = marks[event] /\ Happened(event)
      BY <1>2, <2>2 DEF Stamp, Happened
    <3>2. marks[event] \in Nat
      BY <3>1 DEF Happened, RecordTypeOK
    <3> QED
      BY <3>1, <3>2 DEF RecordTypeOK
  <2> QED
    BY <2>1, <2>2
<1>3. rows' \in Seq(Row)
  BY Appended DEF RecordTypeOK
<1> QED
  BY <1>1, <1>2, <1>3 DEF RecordTypeOK, Diagnostic

\* A step without an event stamps none.
LEMMA NothingStamped ==
  ASSUME RecordTypeOK, marks' = marks
  PROVE  Stamp({}) /\ FirstTime({})
BY DEF Stamp, FirstTime, RecordTypeOK

\* Steps that file no row leave the counts of rows alone.
LEMMA CountsStay ==
  ASSUME rows' = rows
  PROVE  TracedRows' = TracedRows /\ ProfileRows' = ProfileRows
BY DEF TracedRows, ProfileRows

\* Up to the end of the loop nothing is cleaned up and nothing reported.
LEMMA Untouched ==
  ASSUME SessionInv, pc \in Before \cup LoopBody
  PROVE  cleanup = "none" /\ report = "none"
BY DEF SessionInv, BeforeTorque, InHandoff, InLoop, Filed, Pristine, Before, Handoff, LoopBody

\* What was said of a loop that is over stays true.
LEMMA VerdictStays ==
  ASSUME VerdictOK, UNCHANGED <<rows, profile, published, hold, position>>,
         marks'["profile_start"] = marks["profile_start"], pc \in Over => pc' \in Over,
         termination' = "diagnostic_profile_completed" => termination = termination',
         reason' = "handoff_convergence_timeout" => reason = reason'
  PROVE  VerdictOK'
BY CountsStay DEF VerdictOK, ProfileCompleted, CompletedIsTheWholeProfile, TimedOutBeforeProfile

\* A step before the loop that files nothing.
LEMMA ReacquireRecords ==
  ASSUME RecordInv, SessionInv, RecordReacquire
  PROVE  RecordInv'
<1> USE DEF RecordInv
<1>1. /\ pc = "reacquire" /\ rows = <<>> /\ Blank
      /\ clock' = clock /\ clock \in Nat /\ UNCHANGED <<setup, profile, rows, sample, samples, published>>
      /\ Stamp({"ready_reacquisition_start"}) /\ cleanup' = cleanup
  BY DEF RecordReacquire, Reacquire, TimelineOK, LoopTimeline, RecordTypeOK, LoopUntouched,
     handoffVars, loopVars
<1>2. FirstTime({"ready_reacquisition_start"})
  BY <1>1 DEF FirstTime, Blank, Events
<1>3. RecordTypeOK'
  BY <1>1, <1>2, TypesStay DEF FirstTime, RecordTypeOK
<1>4. RowsOK'
  BY <1>1, <1>2, RowsStay
<1>5. \A event \in Events : Happened(event)' <=> event = "ready_reacquisition_start"
  <2>1. None \notin Nat
    BY RecordAssumption
  <2> QED
    BY <1>1, <2>1 DEF Stamp, Happened, Blank
<1>6. pc' \in {"ready", "settle", "handoffFailed"}
  BY DEF RecordReacquire, Reacquire
<1>7. TimelineOK'
  BY <1>1, <1>5, <1>6 DEF TimelineOK, LoopTimeline, LoopBody, Events
<1>8. CycleOK'
  BY <1>6 DEF CycleOK, LoopBody
<1>9. TallyOK'
  <2>1. report = "none" /\ report' = report
    BY <1>1, Untouched DEF RecordReacquire, Reacquire, Before, Handoff
  <2> QED
    BY <1>1, <1>6, <2>1 DEF TallyOK, TallyDue, Before, Handoff
<1>10. VerdictOK'
  <2>1. pc \notin Over
    BY <1>1 DEF Over
  <2>2. termination' = termination /\ reason' = reason
    BY DEF RecordReacquire, LoopUntouched
  <2> QED
    BY <2>1, <2>2 DEF VerdictOK, ProfileCompleted
<1> QED
  BY <1>3, <1>4, <1>7, <1>8, <1>9, <1>10

\* A point streamed, or an observation, of the ready reacquisition.
LEMMA ReadyRecords ==
  ASSUME RecordInv, SessionInv, RecordReady
  PROVE  RecordInv'
<1>a. PICK row : row = HandoffRow("ready_reacquisition")
  OBVIOUS
<1>b. PICK events : events = IF pc' = "sync" THEN {"ready_reacquisition_end"} ELSE {}
  OBVIOUS
<1> USE DEF RecordInv
<1>1. /\ pc \in {"readyStream", "settle"} /\ pc' \in {"ready", "settle", "sync"}
      /\ clock' = clock + Period /\ clock \in Nat /\ clock' \in Nat /\ clock < clock' /\ clock <= clock'
      /\ UNCHANGED <<setup, profile, sample, samples, published>>
      /\ rows' = Append(rows, row) /\ Stamp(events) /\ cleanup' = cleanup /\ report' = report
  BY <1>a, <1>b, RecordAssumption
     DEF RecordReady, ReadyStream, Settle, RecordTypeOK, LoopUntouched, handoffVars, loopVars
<1>2. /\ Happened("ready_reacquisition_start")
      /\ \A event \in Events \ {"ready_reacquisition_start"} : ~Happened(event)
      /\ \A n \in DOMAIN rows : ~rows[n].traced /\ rows[n].stage \notin ProfileStages
  BY <1>1 DEF TimelineOK, LoopTimeline, Before, Handoff
<1>3. FirstTime(events)
  BY <1>b, <1>2 DEF FirstTime, Events
<1>4. row = [at |-> clock', stage |-> "ready_reacquisition", traced |-> FALSE, asked |-> None,
             target |-> None]
  BY <1>a DEF HandoffRow
<1>5. /\ row.at = clock' /\ row.stage = "ready_reacquisition" /\ row.traced = FALSE /\ row.target = None
      /\ row \in Row
  <2>1. "ready_reacquisition" \in RowStages
    BY DEF RowStages
  <2>2. row \in Row
    BY <1>1, <1>4, <2>1 DEF Row
  <2> QED
    BY <1>4, <2>2
<1>6. \A event \in Events : marks'[event] = IF event \in events THEN clock' ELSE marks[event]
  BY <1>1 DEF Stamp
<1>7. /\ Happened("ready_reacquisition_start")'
      /\ \A event \in Events \ {"ready_reacquisition_start", "ready_reacquisition_end"} : ~Happened(event)'
      /\ pc' # "sync" => ~Happened("ready_reacquisition_end")'
      /\ marks'["ready_reacquisition_start"] <= clock'
      /\ Happened("ready_reacquisition_end")' => marks'["ready_reacquisition_end"] = clock'
  <2>1. marks["ready_reacquisition_start"] <= clock /\ marks["ready_reacquisition_start"] \in Nat
    BY <1>2 DEF RecordTypeOK, Events, Happened
  <2> QED
    BY <1>b, <1>1, <1>2, <1>6, <2>1 DEF Happened, Events
<1>8. RowOK(row)'
  <2>1. "ready_reacquisition" \in RowStages /\ "ready_reacquisition" \notin ProfileStages
    BY DEF RowStages, ProfileStages
  <2>2. Begins["ready_reacquisition"] = "ready_reacquisition_start"
    BY <2>1 DEF Begins
  <2> QED
    BY <1>1, <1>5, <1>7, <2>1, <2>2 DEF RowOK, During, Events
<1>9. RecordTypeOK'
  BY <1>1, <1>3, <1>5, TypesGrow DEF FirstTime, RecordTypeOK
<1>10. \A n \in DOMAIN rows : rows[n].at < clock'
  <2>1. \A n \in DOMAIN rows : rows[n] \in Row
    BY DEF RecordTypeOK
  <2>2. \A n \in DOMAIN rows : rows[n].at \in Nat /\ rows[n].at <= clock
    BY <2>1 DEF RowsOK, RowOK, Row
  <2> QED
    BY <1>1, <2>2
<1>11. RowsOK'
  <2>1. row.stage \notin ProfileStages
    BY <1>5 DEF ProfileStages
  <2>2. rows' = Append(rows, row) /\ UNCHANGED <<setup, profile>>
    BY <1>1
  <2> QED
    BY <1>1, <1>3, <1>5, <1>8, <1>10, <2>1, <2>2, RowsGrow
<1>12. \A n \in DOMAIN rows' : ~rows'[n].traced /\ rows'[n].stage \notin ProfileStages
  <2>1. rows \in Seq(Row)
    BY DEF RecordTypeOK
  <2> QED
    BY <1>1, <1>2, <1>5, <2>1, Appended DEF ProfileStages
<1>13. TimelineOK'
  <2>1. ~Happened("cleanup_start")'
    BY <1>7 DEF Events
  <2> QED
    BY <1>1, <1>7, <1>12, <2>1 DEF TimelineOK, LoopTimeline, LoopBody
<1>14. CycleOK'
  BY <1>1 DEF CycleOK, LoopBody
<1>15. TallyOK'
  <2>1. report = "none"
    BY <1>1, Untouched DEF Before, Handoff
  <2> QED
    BY <1>1, <2>1 DEF TallyOK, TallyDue, Before, Handoff
<1>16. VerdictOK'
  <2>1. pc \notin Over
    BY <1>1 DEF Over
  <2>2. termination' = termination /\ reason' = reason
    BY DEF RecordReady, LoopUntouched
  <2> QED
    BY <2>1, <2>2 DEF VerdictOK, ProfileCompleted
<1> QED
  BY <1>9, <1>11, <1>13, <1>14, <1>15, <1>16

\* The observation that becomes the anchor.
LEMMA SyncRecords ==
  ASSUME RecordInv, SessionInv, RecordSync
  PROVE  RecordInv'
<1>a. PICK row : row = HandoffRow("handoff_sync")
  OBVIOUS
<1> DEFINE events == {"handoff_sync"}
<1> USE DEF RecordInv
<1>1. /\ pc = "sync" /\ pc' = "enter"
      /\ clock' = clock + Period /\ clock \in Nat /\ clock' \in Nat /\ clock < clock' /\ clock <= clock'
      /\ UNCHANGED <<setup, profile, sample, samples, published>>
      /\ rows' = Append(rows, row) /\ Stamp(events) /\ cleanup' = cleanup /\ report' = report
  BY <1>a, RecordAssumption
     DEF RecordSync, Sync, RecordTypeOK, LoopUntouched, handoffVars, loopVars
<1>2. /\ \A event \in Events \ {"ready_reacquisition_start", "ready_reacquisition_end"} : ~Happened(event)
      /\ \A n \in DOMAIN rows : ~rows[n].traced /\ rows[n].stage \notin ProfileStages
  BY <1>1 DEF TimelineOK, LoopTimeline, Before, Handoff
<1>3. FirstTime(events)
  BY <1>2 DEF FirstTime, Events
<1>4. row = [at |-> clock', stage |-> "handoff_sync", traced |-> FALSE, asked |-> None, target |-> None]
  BY <1>a DEF HandoffRow
<1>5. /\ row.at = clock' /\ row.stage = "handoff_sync" /\ row.traced = FALSE /\ row.target = None
      /\ row \in Row
  <2>1. "handoff_sync" \in RowStages
    BY DEF RowStages
  <2>2. row \in Row
    BY <1>1, <1>4, <2>1 DEF Row
  <2> QED
    BY <1>4, <2>2
<1>6. \A event \in Events : marks'[event] = IF event \in events THEN clock' ELSE marks[event]
  BY <1>1 DEF Stamp
<1>7. /\ \A event \in Events \ Early : ~Happened(event)'
      /\ Happened("handoff_sync")' /\ marks'["handoff_sync"] = clock'
  <2>1. None \notin Nat
    BY RecordAssumption
  <2> QED
    BY <1>1, <1>2, <1>6, <2>1 DEF Happened, Events, Early
<1>8. RowOK(row)'
  <2>1. "handoff_sync" \in RowStages /\ "handoff_sync" \notin ProfileStages
    BY DEF RowStages, ProfileStages
  <2>2. Begins["handoff_sync"] = "handoff_sync"
    BY <2>1 DEF Begins
  <2> HIDE DEF events
  <2> QED
    BY <1>1, <1>5, <1>7, <2>1, <2>2 DEF RowOK, During, Events, Early
<1>9. RecordTypeOK'
  BY <1>1, <1>3, <1>5, TypesGrow DEF FirstTime, RecordTypeOK
<1>10. \A n \in DOMAIN rows : rows[n].at < clock'
  <2>1. \A n \in DOMAIN rows : rows[n] \in Row
    BY DEF RecordTypeOK
  <2>2. \A n \in DOMAIN rows : rows[n].at \in Nat /\ rows[n].at <= clock
    BY <2>1 DEF RowsOK, RowOK, Row
  <2> QED
    BY <1>1, <2>2
<1>11. RowsOK'
  <2>1. row.stage \notin ProfileStages
    BY <1>5 DEF ProfileStages
  <2>2. rows' = Append(rows, row) /\ UNCHANGED <<setup, profile>>
    BY <1>1
  <2> HIDE DEF events
  <2> QED
    BY <1>1, <1>3, <1>5, <1>8, <1>10, <2>1, <2>2, RowsGrow
<1>12. \A n \in DOMAIN rows' : ~rows'[n].traced /\ rows'[n].stage \notin ProfileStages
  <2>1. rows \in Seq(Row)
    BY DEF RecordTypeOK
  <2> QED
    BY <1>1, <1>2, <1>5, <2>1, Appended DEF ProfileStages
<1>13. TimelineOK'
  <2>1. ~Happened("cleanup_start")'
    BY <1>7 DEF Events, Early
  <2> HIDE DEF events
  <2> QED
    BY <1>1, <1>7, <1>12, <2>1 DEF TimelineOK, LoopTimeline, LoopBody
<1>14. CycleOK'
  BY <1>1 DEF CycleOK, LoopBody
<1>15. TallyOK'
  <2>1. report = "none"
    BY <1>1, Untouched DEF Before, Handoff
  <2> QED
    BY <1>1, <2>1 DEF TallyOK, TallyDue, Before, Handoff
<1>16. VerdictOK'
  <2>1. pc \notin Over
    BY <1>1 DEF Over
  <2>2. termination' = termination /\ reason' = reason
    BY DEF RecordSync, LoopUntouched
  <2> QED
    BY <2>1, <2>2 DEF VerdictOK, ProfileCompleted
<1> QED
  BY <1>9, <1>11, <1>13, <1>14, <1>15, <1>16

\* The alignment starts.
LEMMA EnterRecords ==
  ASSUME RecordInv, SessionInv, RecordEnter
  PROVE  RecordInv'
<1> USE DEF RecordInv
<1>1. /\ pc = "enter" /\ pc' = "feedback" /\ stage' = "aligning"
      /\ clock' = clock /\ clock \in Nat /\ UNCHANGED <<setup, profile, rows, sample, samples, published>>
      /\ Stamp({"alignment_start"}) /\ cleanup' = cleanup /\ report' = report
  BY DEF RecordEnter, Enter, RecordTypeOK, LoopUntouched, handoffVars, loopVars
<1>2. /\ \A event \in Events \ Early : ~Happened(event)
      /\ \A n \in DOMAIN rows : ~rows[n].traced
  BY <1>1 DEF TimelineOK, LoopTimeline, Before
<1>3. FirstTime({"alignment_start"})
  BY <1>2 DEF FirstTime, Events, Early
<1>4. RecordTypeOK'
  BY <1>1, <1>3, TypesStay DEF FirstTime, RecordTypeOK
<1>5. RowsOK'
  BY <1>1, <1>3, RowsStay
<1>6. /\ Happened("alignment_start")'
      /\ \A event \in Events \ (Early \cup {"alignment_start"}) : ~Happened(event)'
  <2>1. None \notin Nat
    BY RecordAssumption
  <2> QED
    BY <1>1, <1>2, <2>1 DEF Stamp, Happened, Events, Early
<1>a. (clock < Deadline)'
  <2>1. marks'["alignment_start"] = clock
    BY <1>1 DEF Stamp, Events
  <2> QED
    BY <1>1, <2>1, RecordAssumption DEF Deadline
<1>7. TimelineOK'
  BY <1>1, <1>6, <1>a DEF TimelineOK, LoopTimeline, LoopBody, Events, Early, Before, Handoff
<1>8. CycleOK'
  BY <1>1 DEF CycleOK, LoopBody
<1>9. TallyOK'
  <2>1. report = "none"
    BY <1>1, Untouched DEF Before
  <2>2. TracedRows = {} /\ ProfileRows = {}
    BY <1>2 DEF TracedRows, ProfileRows
  <2>3. Cardinality(TracedRows)' = 0 /\ Cardinality(ProfileRows)' = 0
    BY <1>1, <2>2, CountsStay, FS_EmptySet
  <2>4. samples' = 0 /\ published' = 0
    BY <1>1 DEF TallyOK, TallyDue, Before
  <2> QED
    BY <1>1, <2>1, <2>3, <2>4 DEF TallyOK, TallyDue, Before, Handoff
<1>10. VerdictOK'
  <2>1. pc \notin Over
    BY <1>1 DEF Over
  <2>2. termination' = termination /\ reason' = reason
    BY DEF RecordEnter, LoopUntouched
  <2> QED
    BY <2>1, <2>2 DEF VerdictOK, ProfileCompleted
<1> QED
  BY <1>4, <1>5, <1>7, <1>8, <1>9, <1>10

\* A cycle starts, and a running profile is sampled.
LEMMA FeedbackRecords ==
  ASSUME RecordInv, SessionInv, RecordFeedback
  PROVE  RecordInv'
<1> USE DEF RecordInv
<1>1. /\ pc = "feedback" /\ pc' = "command"
      /\ UNCHANGED <<setup, profile, rows, marks, samples, published, termination, reason>>
      /\ stage' = stage /\ cleanup' = cleanup /\ report' = report
      /\ sample' = IF Happened("profile_start") THEN Sample(profile, clock' - marks["profile_start"])
                   ELSE None
  BY DEF RecordFeedback, Feedback, handoffVars, loopVars
<1>2. clock \in Nat /\ clock' \in Nat /\ clock < clock' /\ clock <= clock'
  <2>1. PICK e \in IF Happened("profile_start") THEN Elapsed ELSE {Period} : clock' = clock + e
    BY DEF RecordFeedback
  <2>2. e \in Nat \ {0}
    BY <2>1, RecordAssumption
  <2> QED
    BY <2>1, <2>2 DEF RecordTypeOK
<1>3. ASSUME Happened("profile_start")
      PROVE  /\ marks["profile_start"] \in Nat /\ marks["profile_start"] < clock' /\ Diagnostic
             /\ clock' - marks["profile_start"] \in Nat \ {0}
             /\ profile \in Profiles /\ Sound(profile)
  <2>1. "profile_start" \in Events
    BY DEF Events
  <2>2. marks["profile_start"] \in Nat /\ marks["profile_start"] <= clock
    BY <1>3, <2>1 DEF RecordTypeOK, Happened
  <2>3. Diagnostic
    BY <1>1, <1>3 DEF TimelineOK, LoopTimeline, LoopBody
  <2>4. profile \in Profiles
    BY <2>3 DEF RecordTypeOK
  <2>5. Sound(profile)
    BY <2>4, RecordAssumption DEF Sound
  <2> QED
    BY <1>2, <2>2, <2>3, <2>4, <2>5
<1>4. sample' \in Targets \cup {None}
  BY <1>1, <1>3, SampleShows
<1>5. Stamp({}) /\ FirstTime({})
  BY <1>1, NothingStamped
<1>6. RecordTypeOK'
  BY <1>1, <1>2, <1>4, <1>5, TypesStay DEF RecordTypeOK
<1>7. RowsOK'
  BY <1>1, <1>2, <1>5, RowsStay
<1>8. TimelineOK'
  <2>1. (clock < Deadline)'
    BY <1>1 DEF RecordFeedback, Deadline
  <2> QED
    BY <1>1, <2>1 DEF TimelineOK, LoopTimeline, Happened, LoopBody, Before, Handoff, Diagnostic
<1>9. CycleOK'
  <2>1. \A n \in DOMAIN rows : rows[n] \in Row
    BY DEF RecordTypeOK
  <2>2. \A n \in DOMAIN rows : rows[n].at \in Nat /\ rows[n].at <= clock
    BY <2>1 DEF RowsOK, RowOK, Row
  <2>3. \A n \in DOMAIN rows' : rows'[n].at < clock'
    BY <1>1, <1>2, <2>2
  <2>4. Happened("profile_start")' <=> Happened("profile_start")
    BY <1>1 DEF Happened
  <2> QED
    BY <1>1, <1>3, <2>3, <2>4 DEF CycleOK, LoopBody
<1>10. TallyOK'
  <2>1. report = "none"
    BY <1>1, Untouched DEF LoopBody
  <2> QED
    BY <1>1, <2>1, CountsStay DEF TallyOK, TallyDue, Before, Handoff
<1>11. VerdictOK'
  <2>1. pc \notin Over
    BY <1>1 DEF Over
  <2> QED
    BY <1>1, <2>1 DEF VerdictOK, ProfileCompleted
<1> QED
  BY <1>6, <1>7, <1>8, <1>9, <1>10, <1>11

\* --seconds are over.
LEMMA TimeUpRecords ==
  ASSUME RecordInv, SessionInv, RecordTimeUp
  PROVE  RecordInv'
<1> USE DEF RecordInv
<1>1. /\ pc = "feedback" /\ pc' = AfterLoop
      /\ UNCHANGED <<setup, profile, rows, marks, sample, samples, published, reason>>
      /\ cleanup' = cleanup /\ report' = report /\ termination' = "completed"
      /\ clock' = IF Waited THEN Deadline ELSE clock + Period
      /\ clock' >= Deadline
  BY DEF RecordTimeUp, TimeUp, handoffVars, loopVars
<1>2. clock \in Nat /\ clock' \in Nat /\ clock <= clock'
  <2>1. clock \in Nat /\ Period \in Nat /\ Seconds \in Nat
    BY RecordAssumption DEF RecordTypeOK
  <2>2. Happened("alignment_start") /\ clock < Deadline
    BY <1>1 DEF TimelineOK, LoopTimeline, LoopBody
  <2>3. Deadline \in Nat
    BY <2>1, <2>2 DEF Deadline, RecordTypeOK, Happened, Events
  <2> QED
    BY <1>1, <2>1, <2>2, <2>3
<1>3. pc' \in {"loopZero", "summary"}
  BY <1>1 DEF AfterLoop
<1>4. Stamp({}) /\ FirstTime({})
  BY <1>1, NothingStamped
<1>5. RecordTypeOK'
  BY <1>1, <1>2, <1>4, TypesStay DEF RecordTypeOK
<1>6. RowsOK'
  BY <1>1, <1>2, <1>4, RowsStay
<1>7. TimelineOK'
  BY <1>1, <1>3 DEF TimelineOK, LoopTimeline, Happened, LoopBody, Before, Handoff
<1>8. CycleOK'
  BY <1>3 DEF CycleOK, LoopBody
<1>9. TallyOK'
  <2>1. report = "none" /\ samples = Cardinality(TracedRows)
    BY <1>1, Untouched DEF LoopBody, TallyOK
  <2> QED
    BY <1>1, <1>3, <2>1, CountsStay DEF TallyOK, TallyDue, Before, Handoff
<1>10. VerdictOK'
  <2>1. pc \notin Over
    BY <1>1 DEF Over
  <2> QED
    BY <1>1, <2>1 DEF VerdictOK, ProfileCompleted
<1> QED
  BY <1>5, <1>6, <1>7, <1>8, <1>9, <1>10

\* A loop that is left without a verdict on the profile.
LEMMA LoopLeft ==
  ASSUME RecordInv, SessionInv, pc \in LoopBody, pc' \in {"loopZero", "summary"},
         UNCHANGED <<setup, profile, clock, rows, marks, sample, samples, cleanup, report>>,
         published' \in Nat,
         \/ samples = Cardinality(TracedRows)
         \/ refused' \/ error' # None \/ termination' = "interrupted"
  PROVE  RecordTypeOK' /\ RowsOK' /\ TimelineOK' /\ CycleOK' /\ TallyOK'
<1> USE DEF RecordInv
<1>1. Stamp({}) /\ FirstTime({}) /\ clock \in Nat
  BY NothingStamped DEF RecordTypeOK
<1>2. RecordTypeOK'
  BY <1>1, TypesStay DEF RecordTypeOK
<1>3. RowsOK'
  BY <1>1, RowsStay
<1>4. TimelineOK'
  BY DEF TimelineOK, LoopTimeline, Happened, LoopBody, Before, Handoff
<1>5. CycleOK'
  BY DEF CycleOK, LoopBody
<1>6. TallyOK'
  <2>1. report = "none"
    BY Untouched
  <2> QED
    BY <2>1, CountsStay DEF TallyOK, TallyDue, Before, Handoff
<1> QED
  BY <1>2, <1>3, <1>4, <1>5, <1>6

\* The hold after the timeout of the convergence gate.
LEMMA GateHoldRecords ==
  ASSUME RecordInv, SessionInv, RecordGateHold
  PROVE  RecordInv'
<1> USE DEF RecordInv
<1>1. /\ pc = "gateHold" /\ pc' = AfterLoop /\ refused' = TRUE /\ AttemptHold(measured)
      /\ UNCHANGED <<setup, profile, clock, rows, marks, sample, published>>
      /\ cleanup' = cleanup /\ report' = report /\ samples' = samples + 1
      /\ termination' = "safety_refused" /\ reason' = "handoff_convergence_timeout"
  BY DEF RecordGateHold, GateHold, handoffVars, loopVars
<1>2. pc' \in {"loopZero", "summary"} /\ samples' \in Nat /\ published' \in Nat
  BY <1>1 DEF AfterLoop, RecordTypeOK
<1>3. Stamp({}) /\ FirstTime({}) /\ clock \in Nat
  BY <1>1, NothingStamped DEF RecordTypeOK
<1>4. RecordTypeOK'
  BY <1>1, <1>2, <1>3, TypesStay DEF RecordTypeOK
<1>5. RowsOK'
  BY <1>1, <1>3, RowsStay
<1>6. TimelineOK'
  BY <1>1, <1>2 DEF TimelineOK, LoopTimeline, Happened, LoopBody, Before, Handoff
<1>7. CycleOK'
  BY <1>2 DEF CycleOK, LoopBody
<1>8. TallyOK'
  <2>1. report = "none"
    BY <1>1, Untouched DEF LoopBody
  <2> QED
    BY <1>1, <1>2, <2>1, CountsStay DEF TallyOK, TallyDue, Before, Handoff
<1>9. VerdictOK'
  <2>1. ~Happened("profile_start")
    BY <1>1 DEF TimelineOK, LoopTimeline, CycleOK, LoopBody
  <2>2. ProfileRows = {}
    BY <2>1 DEF ProfileRows, TracedRows, RowsOK, RowOK
  <2>3. published = 0
    BY <1>1, <2>2, FS_EmptySet DEF TallyOK
  <2>4. hold' # "none"
    BY <1>1 DEF AttemptHold
  <2> QED
    BY <1>1, <1>2, <2>2, <2>3, <2>4, CountsStay
       DEF VerdictOK, ProfileCompleted, TimedOutBeforeProfile, Over
<1> QED
  BY <1>4, <1>5, <1>6, <1>7, <1>8, <1>9

\* An exception leaves the loop.
LEMMA LoopRaisesRecords ==
  ASSUME RecordInv, SessionInv, RecordLoopRaises
  PROVE  RecordInv'
<1> USE DEF RecordInv
<1>1. /\ pc \in {"feedback", "command", "publish"}
      /\ UNCHANGED <<setup, profile, clock, rows, marks, sample, samples, cleanup, report>>
      /\ published' = IF pc = "publish" /\ sample # None THEN published + 1 ELSE published
  BY DEF RecordLoopRaises, LoopRaises, handoffVars
<1>2. PICK e \in Exceptions : Refuse(e)
  BY DEF RecordLoopRaises, LoopRaises
<1>3. pc' \in {"loopZero", "summary"} /\ (refused' \/ error' # None)
  BY <1>2, FollowAssumption DEF Refuse, AfterLoop, Exceptions
<1>4. published' \in Nat
  BY <1>1 DEF RecordTypeOK
<1>5. RecordTypeOK' /\ RowsOK' /\ TimelineOK' /\ CycleOK' /\ TallyOK'
  BY <1>1, <1>3, <1>4, LoopLeft DEF LoopBody
<1>6. VerdictOK'
  <2>1. pc \notin Over
    BY <1>1 DEF Over
  <2>2. ~ProfileCompleted /\ reason # "handoff_convergence_timeout"
    BY <2>1 DEF VerdictOK
  <2>3. termination' # "diagnostic_profile_completed" /\ reason' # "handoff_convergence_timeout"
    BY <2>2 DEF RecordLoopRaises, ProfileCompleted
  <2> QED
    BY <2>3 DEF VerdictOK, ProfileCompleted
<1> QED
  BY <1>5, <1>6

\* A publication, the last one of a profile included.
LEMMA PublishRecords ==
  ASSUME RecordInv, SessionInv, RecordPublish
  PROVE  RecordInv'
<1> USE DEF RecordInv
<1>1. /\ pc = "publish" /\ pc' \in {"feedback", AfterLoop} /\ position' = outgoing
      /\ UNCHANGED <<setup, profile, clock, rows, marks, sample, reason, stage, hold>>
      /\ cleanup' = cleanup /\ report' = report /\ samples' = samples + 1
      /\ published' = IF sample = None THEN published ELSE published + 1
      /\ (pc' = AfterLoop) <=> (sample # None /\ sample.complete)
      /\ termination' = IF pc' = AfterLoop THEN "diagnostic_profile_completed" ELSE termination
  BY DEF RecordPublish, Publish, handoffVars, loopVars
<1>2. /\ AfterLoop \in {"loopZero", "summary"} /\ pc' \in {"feedback", "loopZero", "summary"}
      /\ samples' \in Nat /\ published' \in Nat
  BY <1>1 DEF AfterLoop, RecordTypeOK
<1>3. Stamp({}) /\ FirstTime({}) /\ clock \in Nat
  BY <1>1, NothingStamped DEF RecordTypeOK
<1>4. RecordTypeOK'
  BY <1>1, <1>2, <1>3, TypesStay DEF RecordTypeOK
<1>5. RowsOK'
  BY <1>1, <1>3, RowsStay
<1>6. TimelineOK'
  BY <1>1, <1>2 DEF TimelineOK, LoopTimeline, Happened, Deadline, LoopBody, Before, Handoff, Diagnostic
<1>7. CycleOK'
  BY <1>1, <1>2 DEF CycleOK, LoopBody
<1>8. samples' = Cardinality(TracedRows)' /\ published' = Cardinality(ProfileRows)'
  BY <1>1, CountsStay DEF TallyOK, RecordTypeOK
<1>9. TallyOK'
  BY <1>2, <1>8 DEF TallyOK, TallyDue, Before, Handoff
<1>10. VerdictOK'
  <2>1. pc \notin Over
    BY <1>1 DEF Over
  <2>2. ~ProfileCompleted /\ reason # "handoff_convergence_timeout"
    BY <2>1 DEF VerdictOK
  <2>3. ASSUME pc' = AfterLoop PROVE CompletedIsTheWholeProfile'
    <3> DEFINE last == rows[Len(rows)]
               start == marks["profile_start"]
    <3>1. sample # None /\ sample.complete /\ outgoing = "profile" /\ rows # <<>>
          /\ last.at = clock /\ last.target = sample
      BY <1>1, <2>3 DEF CycleOK, LoopBody
    <3>2. Len(rows) \in DOMAIN rows /\ last \in Row
      BY <3>1 DEF RecordTypeOK
    <3>3. /\ Diagnostic /\ Happened("profile_start") /\ start < last.at
          /\ sample = Sample(profile, last.at - start)
      BY <3>1, <3>2 DEF RowsOK, RowOK
    <3>4. start \in Nat /\ profile \in Profiles /\ clock - start \in Nat \ {0}
      BY <3>1, <3>3 DEF RecordTypeOK, Happened, Events
    <3>5. Sound(profile)
      BY <3>4, RecordAssumption DEF Sound
    <3>6. clock - start > Duration(profile)
      BY <3>1, <3>3, <3>4, <3>5, SampleShows
    <3>7. sample.translation = 0 /\ sample.rotation = 0
      <4>1. sample = Completed(profile)
        BY <3>1, <3>3, <3>6 DEF Sample
      <4>2. (Span(profile).translation * 0) \div 1 = 0 /\ (Span(profile).rotation * 0) \div 1 = 0
        BY <3>5, ProfileNumbers DEF Sound
      <4> QED
        BY <4>1, <4>2 DEF Completed, At
    <3> QED
      BY <1>1, <1>8, <3>1, <3>6, <3>7 DEF CompletedIsTheWholeProfile
  <2>4. ProfileCompleted' => pc' = AfterLoop
    BY <1>1, <2>2 DEF ProfileCompleted
  <2> QED
    BY <1>1, <1>2, <2>2, <2>3, <2>4 DEF VerdictOK, Over
<1> QED
  BY <1>4, <1>5, <1>6, <1>7, <1>9, <1>10

\* What a cycle's command stamps.
CommandEvents(before, after) ==
  (IF before = "aligning" /\ after # before
   THEN {"alignment_end"} \cup (IF Diagnostic THEN {"convergence_gate_start"} ELSE {})
   ELSE {})
  \cup (IF after = "profiling" /\ after # before THEN {"convergence_gate_end", "profile_start"} ELSE {})

\* The events a command stamps are those of the stage it moves to.
LEMMA TimelineAdvances ==
  ASSUME RecordTypeOK, LoopTimeline, ~Happened("cleanup_start"), Advance, UNCHANGED <<setup, clock>>,
         NEW events, events = CommandEvents(stage, stage'), Stamp(events)
  PROVE  /\ FirstTime(events) /\ LoopTimeline' /\ ~Happened("cleanup_start")'
         /\ "alignment_end" \in events => stage = "aligning" /\ stage' \in {"converging", "following"}
<1>1. None \notin Nat /\ clock \in Nat
  BY RecordAssumption DEF RecordTypeOK
<1>2. \A event \in Events : marks'[event] = IF event \in events THEN clock ELSE marks[event]
  BY DEF Stamp
<1>3. CASE stage' = stage
  <2>1. events = {}
    BY <1>3 DEF CommandEvents
  <2>2. \A event \in Events : marks'[event] = marks[event]
    BY <1>2, <2>1
  <2> QED
    BY <1>3, <2>1, <2>2 DEF LoopTimeline, Happened, Deadline, Diagnostic, FirstTime, Events
<1>4. CASE stage = "aligning" /\ stage' = "converging" /\ Diagnostic
  <2>1. events = {"alignment_end", "convergence_gate_start"}
    BY <1>4 DEF CommandEvents
  <2> QED
    BY <1>1, <1>2, <1>4, <2>1 DEF LoopTimeline, Happened, Deadline, Diagnostic, FirstTime, Events
<1>5. CASE stage = "aligning" /\ stage' = "following" /\ ~Diagnostic
  <2>1. events = {"alignment_end"}
    BY <1>5 DEF CommandEvents
  <2> QED
    BY <1>1, <1>2, <1>5, <2>1 DEF LoopTimeline, Happened, Deadline, Diagnostic, FirstTime, Events
<1>6. CASE stage = "converging" /\ stage' = "profiling"
  <2>1. events = {"convergence_gate_end", "profile_start"}
    BY <1>6 DEF CommandEvents
  <2> QED
    BY <1>1, <1>2, <1>6, <2>1 DEF LoopTimeline, Happened, Deadline, Diagnostic, FirstTime, Events
<1> QED
  BY <1>3, <1>4, <1>5, <1>6 DEF Advance

\* Every phase but the last one's names its stage, and that one is filed with the hold.
LEMMA StageForIs ==
  ASSUME NEW phase \in Phases
  PROVE  /\ StageFor(phase) \in ProfileStages
         /\ StageFor(phase) = IF Canonical(phase) = "none" THEN "origin_hold" ELSE Canonical(phase)
         /\ \A kind \in Kinds :
              /\ phase = <<kind, "ramp_out">> => StageFor(phase) = "ramp"
              /\ phase = <<kind, "ramp_back">> => StageFor(phase) = "return"
              /\ phase = <<kind, "hold">> => StageFor(phase) = "hold"
         /\ phase = <<"origin", "hold">> => StageFor(phase) = "origin_hold"
         /\ phase = <<"complete", "complete">> => StageFor(phase) = "origin_hold"
<1>1. CASE phase = <<"origin", "hold">>
  <2>1. Canonical(phase) = "origin_hold"
    BY <1>1 DEF Canonical, Part
  <2> QED
    BY <1>1, <2>1 DEF StageFor, ProfileStages, Kinds
<1>2. CASE phase = <<"complete", "complete">>
  <2>1. Canonical(phase) = "none"
    BY <1>2 DEF Canonical, Part
  <2> QED
    BY <1>2, <2>1 DEF StageFor, ProfileStages, Kinds
<1>3. CASE phase \in Kinds \X {"ramp_out", "hold", "ramp_back"}
  <2>1. PICK kind \in Kinds, part \in {"ramp_out", "hold", "ramp_back"} : phase = <<kind, part>>
    BY <1>3
  <2>2. CASE part = "ramp_out"
    <3>1. Canonical(phase) = "ramp"
      BY <2>1, <2>2 DEF Canonical, Part
    <3> QED
      BY <2>1, <2>2, <3>1 DEF StageFor, ProfileStages, Kinds
  <2>3. CASE part = "hold"
    <3>1. Canonical(phase) = "hold"
      BY <2>1, <2>3 DEF Canonical, Part, Kinds
    <3> QED
      BY <2>1, <2>3, <3>1 DEF StageFor, ProfileStages, Kinds
  <2>4. CASE part = "ramp_back"
    <3>1. Canonical(phase) = "return"
      BY <2>1, <2>4 DEF Canonical, Part
    <3> QED
      BY <2>1, <2>4, <3>1 DEF StageFor, ProfileStages, Kinds
  <2> QED
    BY <2>1, <2>2, <2>3, <2>4
<1> QED
  BY <1>1, <1>2, <1>3 DEF Phases

\* The row a cycle with a target leaves.
LEMMA CycleFiles ==
  ASSUME RecordInv, SessionInv, pc = "command", pc' \in {"publish", "gateHold"}, Advance,
         UNCHANGED <<setup, profile, clock, sample, samples, published, cleanup, report>>,
         Stamp(CommandEvents(stage, stage')), Traced(stage'),
         pc' = "gateHold" => stage' = "converging",
         sample # None => outgoing' = "profile" \/ pc' = "gateHold"
  PROVE  RecordTypeOK' /\ RowsOK' /\ TimelineOK' /\ CycleOK' /\ TallyOK'
<1> USE DEF RecordInv
<1>1. PICK row : row = [at |-> clock, stage |-> StageOf(stage'), traced |-> TRUE,
                        asked |-> PhaseOf(stage'), target |-> sample]
  OBVIOUS
<1>2. /\ row.at = clock /\ row.stage = StageOf(stage') /\ row.traced = TRUE
      /\ row.asked = PhaseOf(stage') /\ row.target = sample /\ rows' = Append(rows, row)
  BY <1>1 DEF Traced
<1>3. PICK events : events = CommandEvents(stage, stage')
  OBVIOUS
<1>4. Stamp(events) /\ LoopTimeline /\ ~Happened("cleanup_start") /\ clock \in Nat
  BY <1>3, Untouched DEF TimelineOK, LoopBody, RecordTypeOK
<1>5. /\ FirstTime(events) /\ LoopTimeline' /\ ~Happened("cleanup_start")'
      /\ "alignment_end" \in events => stage = "aligning" /\ stage' \in {"converging", "following"}
  BY <1>3, <1>4, TimelineAdvances
<1>6. \A n \in DOMAIN rows : rows[n].at < clock
  BY DEF CycleOK
<1>7. None \notin Nat /\ None \notin Targets /\ Diagnostic' = Diagnostic
  BY RecordAssumption DEF Diagnostic
<1>8. ASSUME stage = "profiling"
      PROVE  /\ Diagnostic /\ stage' = "profiling" /\ events = {}
             /\ marks["profile_start"] \in Nat /\ marks["profile_start"] < clock
             /\ sample = Sample(profile, clock - marks["profile_start"]) /\ sample \in Targets
             /\ sample.phase \in Phases
             /\ row.asked = sample.phase /\ row.stage = StageFor(row.asked)
  <2>1. Diagnostic /\ Happened("profile_start") /\ Happened("convergence_gate_end")
    BY <1>4, <1>8 DEF LoopTimeline
  <2>2. stage' = "profiling"
    BY <1>8 DEF Advance
  <2>3. events = {}
    BY <1>3, <1>8, <2>2 DEF CommandEvents
  <2>4. marks["profile_start"] \in Nat
    BY <2>1 DEF RecordTypeOK, Happened, Events
  <2>5. marks["profile_start"] < clock /\ sample = Sample(profile, clock - marks["profile_start"])
    BY <2>1 DEF CycleOK
  <2>6. profile \in Profiles
    BY <2>1 DEF RecordTypeOK
  <2>7. Sound(profile) /\ clock - marks["profile_start"] \in Nat \ {0}
    BY <1>4, <2>4, <2>5, <2>6, RecordAssumption DEF Sound
  <2>8. sample \in Targets
    BY <2>5, <2>7, SampleShows
  <2>9. sample.phase \in Phases /\ sample # None
    BY <1>7, <2>8 DEF Targets
  <2>10. row.asked = sample.phase
    BY <1>2, <2>9 DEF PhaseOf
  <2>11. row.stage = StageFor(sample.phase)
    BY <1>2, <2>1, <2>2, <2>9 DEF StageOf, StageFor, Aligned
  <2> QED
    BY <2>1, <2>2, <2>3, <2>4, <2>5, <2>8, <2>9, <2>10, <2>11
<1>9. ASSUME stage # "profiling" PROVE sample = None
  BY <1>4, <1>9 DEF CycleOK, LoopTimeline
<1>10. /\ stage' = "aligning" => /\ row.stage = "startup_alignment"
                                 /\ row.asked = <<"startup_alignment", "">> /\ stage # "profiling"
       /\ stage' = "following" => /\ row.stage = "manual_follow"
                                  /\ row.asked = <<"manual_follow", "">> /\ stage # "profiling"
       /\ stage' \in {"converging", "profiling"} /\ stage # "profiling" =>
            row.stage = "convergence_gate" /\ row.asked = <<"convergence_gate", "">>
  <2>1. stage' \in {"aligning", "following", "converging"} => stage # "profiling"
    BY DEF Advance
  <2>2. stage # "profiling" => ~Happened("convergence_gate_end") /\ ~Happened("profile_start")
    BY <1>4 DEF LoopTimeline
  <2>3. /\ stage' \in {"converging", "profiling"} => Diagnostic
        /\ stage' = "following" => ~Diagnostic
    BY <1>5, <1>7 DEF LoopTimeline
  <2> QED
    BY <1>2, <1>9, <2>1, <2>2, <2>3 DEF StageOf, PhaseOf, Aligned
<1>11. stage' \in {"aligning", "following", "converging", "profiling"}
  BY <1>5 DEF LoopTimeline
<1>12. /\ stage = "profiling" <=> row.stage \in ProfileStages
       /\ row.stage \in RowStages /\ row.asked \in Phases \cup Waits
  <2>1. CASE stage = "profiling"
    BY <1>8, <2>1, StageForIs DEF RowStages
  <2>2. CASE stage # "profiling"
    BY <1>10, <1>11, <2>2 DEF RowStages, Waits, ProfileStages
  <2> QED
    BY <2>1, <2>2
<1>13. row \in Row
  BY <1>1, <1>2, <1>4, <1>12 DEF Row, RecordTypeOK
<1>14. \A event \in Events : /\ Happened(event)' => marks'[event] \in Nat /\ marks'[event] <= clock
                             /\ event \in events => marks'[event] = clock
                             /\ event \notin events => marks'[event] = marks[event]
  <2>1. \A event \in Events : marks'[event] = IF event \in events THEN clock ELSE marks[event]
    BY <1>4 DEF Stamp
  <2> QED
    BY <1>4, <2>1 DEF Happened, RecordTypeOK
<1>15. Happened(Begins[row.stage])' /\ During(row.stage, row.at)'
  <2> USE DEF During, Begins, RowStages, ProfileStages, Events
  <2>1. CASE stage' = "aligning"
    BY <1>2, <1>5, <1>10, <1>14, <2>1 DEF LoopTimeline
  <2>2. CASE stage' = "following"
    BY <1>2, <1>5, <1>10, <1>14, <2>2 DEF LoopTimeline
  <2>3. CASE stage' = "converging"
    BY <1>2, <1>5, <1>8, <1>10, <1>14, <2>3 DEF LoopTimeline
  <2>4. CASE stage' = "profiling" /\ stage # "profiling"
    <3>1. stage = "converging"
      BY <2>4 DEF Advance
    <3>2. events = {"convergence_gate_end", "profile_start"}
      BY <1>3, <2>4, <3>1 DEF CommandEvents
    <3> QED
      BY <1>2, <1>5, <1>10, <1>14, <2>4, <3>2 DEF LoopTimeline
  <2>5. CASE stage = "profiling"
    <3>1. row.stage \in ProfileStages
      BY <1>12, <2>5
    <3>2. Begins[row.stage] = "profile_start"
      BY <3>1
    <3>3. Happened("profile_start")' /\ marks'["profile_start"] = marks["profile_start"]
      BY <1>5, <1>8, <1>14, <2>5 DEF LoopTimeline
    <3> HIDE DEF Begins, RowStages, ProfileStages
    <3> QED
      BY <1>2, <1>8, <2>5, <3>1, <3>2, <3>3
  <2> QED
    BY <1>11, <2>1, <2>2, <2>3, <2>4, <2>5
<1>16. RowOK(row)'
  <2>1. row.traced /\ Diagnostic => RowFiled(row)
    BY <1>2, <1>5, <1>7, <1>8, <1>10, <1>11 DEF RowFiled, LoopTimeline
  <2>2. row.stage \in ProfileStages => row.target # None
    BY <1>2, <1>7, <1>8, <1>12
  <2>3. ASSUME row.target # None
        PROVE  /\ Diagnostic' /\ Happened("profile_start")' /\ marks'["profile_start"] < row.at
               /\ row.target = Sample(profile', row.at - marks'["profile_start"])
    <3>1. stage = "profiling"
      BY <1>2, <1>9, <2>3
    <3>2. Happened("profile_start")' /\ marks'["profile_start"] = marks["profile_start"]
      BY <1>5, <1>8, <1>14, <3>1 DEF LoopTimeline, Events
    <3> QED
      BY <1>2, <1>7, <1>8, <3>1, <3>2
  <2>4. row.at <= clock'
    BY <1>2, <1>4
  <2> QED
    BY <1>5, <1>7, <1>15, <2>1, <2>2, <2>3, <2>4 DEF RowOK
<1>17. RecordTypeOK'
  BY <1>2, <1>4, <1>5, <1>13, TypesGrow DEF FirstTime, RecordTypeOK
<1>18. row.stage \in ProfileStages => rows # <<>>
  BY <1>12 DEF CycleOK, LoopBody
<1>19. RowsOK'
  BY <1>2, <1>4, <1>5, <1>6, <1>13, <1>16, <1>18, RowsGrow
<1>20. TimelineOK'
  BY <1>5 DEF TimelineOK, Before, Handoff, LoopBody
<1>21. rows' # <<>> /\ rows'[Len(rows')] = row
  <2>1. rows \in Seq(Row)
    BY DEF RecordTypeOK
  <2> QED
    BY <1>2, <1>13, <2>1, Appended
<1>22. CycleOK'
  BY <1>2, <1>21 DEF CycleOK, LoopBody
<1>23. /\ Cardinality(TracedRows)' = samples + 1
       /\ Cardinality(ProfileRows)' = published + (IF sample = None THEN 0 ELSE 1)
  <2>1. rows \in Seq(Row) /\ samples = Cardinality(TracedRows) /\ published = Cardinality(ProfileRows)
    BY DEF RecordTypeOK, TallyOK
  <2>2. sample = None <=> row.stage \notin ProfileStages
    BY <1>7, <1>8, <1>9, <1>12
  <2> QED
    BY <1>2, <1>13, <2>1, <2>2, RowsCount
<1>24. TallyOK'
  <2>1. report = "none"
    BY Untouched DEF LoopBody
  <2>2. pc' = "gateHold" => sample = None
    <3>1. pc' = "gateHold" => stage # "profiling"
      BY DEF Advance
    <3> QED
      BY <1>9, <3>1
  <2>3. samples \in Nat /\ published \in Nat
    BY DEF RecordTypeOK
  <2> QED
    BY <1>23, <2>1, <2>2, <2>3 DEF TallyOK, TallyDue, Before, Handoff
<1> QED
  BY <1>17, <1>19, <1>20, <1>22, <1>24

\* A cycle's command: a row when there is a target, and otherwise none.
LEMMA CommandRecords ==
  ASSUME RecordInv, SessionInv, RecordCommand
  PROVE  RecordInv'
<1> USE DEF RecordInv
<1>1. /\ pc = "command" /\ Advance /\ (latched => latched') /\ latched' \in BOOLEAN
      /\ UNCHANGED <<setup, profile, clock, sample, samples, published, cleanup, report, termination, reason>>
      /\ outgoing' = IF ~latched' THEN None ELSE IF stage = "profiling" THEN "profile" ELSE "follow"
      /\ pc' = IF latched' THEN "publish" ELSE "feedback"
      /\ IF latched' THEN Traced(stage') ELSE rows' = rows
      /\ Stamp(CommandEvents(stage, stage'))
  BY DEF RecordCommand, Command, LoopUntouched, CommandEvents
<1>2. LoopTimeline /\ ~Happened("cleanup_start") /\ clock \in Nat
  BY <1>1, Untouched DEF TimelineOK, LoopBody, RecordTypeOK
<1>3. VerdictOK'
  <2>1. pc \notin Over
    BY <1>1 DEF Over
  <2> QED
    BY <1>1, <2>1 DEF VerdictOK, ProfileCompleted
<1>4. CASE latched'
  <2>1. sample # None => stage = "profiling"
    BY <1>1, <1>2 DEF CycleOK, LoopTimeline
  <2> QED
    BY <1>1, <1>3, <1>4, <2>1, CycleFiles
<1>5. CASE ~latched'
  <2>1. PICK events : events = CommandEvents(stage, stage')
    OBVIOUS
  <2>2. /\ FirstTime(events) /\ LoopTimeline' /\ ~Happened("cleanup_start")' /\ Stamp(events)
    BY <1>1, <1>2, <2>1, TimelineAdvances
  <2>3. RecordTypeOK'
    BY <1>1, <1>2, <1>5, <2>2, TypesStay DEF FirstTime, RecordTypeOK
  <2>4. RowsOK'
    BY <1>1, <1>2, <1>5, <2>2, RowsStay DEF CycleOK
  <2>5. TimelineOK'
    BY <1>1, <1>5, <2>2 DEF TimelineOK, Before, Handoff
  <2>6. CycleOK'
    BY <1>1, <1>5 DEF CycleOK, LoopBody, Advance
  <2>7. TallyOK'
    <3>1. report = "none"
      BY <1>1, Untouched DEF LoopBody
    <3> QED
      BY <1>1, <1>5, <3>1, CountsStay DEF TallyOK, TallyDue, Before, Handoff
  <2> QED
    BY <1>3, <2>3, <2>4, <2>5, <2>6, <2>7
<1> QED
  BY <1>1, <1>4, <1>5

\* The cycle in which the gate gives up.
LEMMA GateTimeoutRecords ==
  ASSUME RecordInv, SessionInv, RecordGateTimeout
  PROVE  RecordInv'
<1> USE DEF RecordInv
<1>1. /\ pc = "command" /\ pc' = "gateHold" /\ stage = "converging" /\ stage' = stage
      /\ UNCHANGED <<setup, profile, clock, marks, sample, samples, published, cleanup, report,
                     termination, reason>>
      /\ Traced(stage')
  BY DEF RecordGateTimeout, GateTimeout, LoopUntouched, handoffVars
<1>2. Advance /\ CommandEvents(stage, stage') = {} /\ Stamp({})
  BY <1>1, NothingStamped DEF Advance, CommandEvents
<1>3. RecordTypeOK' /\ RowsOK' /\ TimelineOK' /\ CycleOK' /\ TallyOK'
  BY <1>1, <1>2, CycleFiles
<1>4. VerdictOK'
  <2>1. pc \notin Over
    BY <1>1 DEF Over
  <2> QED
    BY <1>1, <2>1 DEF VerdictOK, ProfileCompleted
<1> QED
  BY <1>3, <1>4

\* Steps that record nothing.
LEMMA NothingRecorded ==
  ASSUME RecordInv, SessionInv, UNCHANGED recordVars, UNCHANGED <<setup, cleanup>>,
         pc' \notin LoopBody, pc' \in Before => pc \in Before, TimelineOK', TallyDue' => TallyDue,
         pc \in Over => pc' \in Over /\ UNCHANGED <<hold, position>>
  PROVE  RecordInv'
<1> USE DEF RecordInv
<1>1. UNCHANGED <<profile, clock, sample, rows, marks, samples, published, termination, reason>>
  BY DEF recordVars
<1>2. Stamp({}) /\ FirstTime({}) /\ clock \in Nat
  BY <1>1, NothingStamped DEF RecordTypeOK
<1>3. RecordTypeOK'
  BY <1>1, <1>2, TypesStay DEF RecordTypeOK
<1>4. RowsOK'
  BY <1>1, <1>2, RowsStay
<1>5. CycleOK'
  BY DEF CycleOK, LoopBody
<1>6. TallyOK'
  BY <1>1, CountsStay DEF TallyOK, LoopBody
<1>7. VerdictOK'
  <2>1. CASE pc \in Over
    BY <1>1, <2>1, VerdictStays
  <2>2. CASE pc \notin Over
    BY <1>1, <2>2 DEF VerdictOK, ProfileCompleted
  <2> QED
    BY <2>1, <2>2
<1> QED
  BY <1>3, <1>4, <1>5, <1>6, <1>7

\* Ctrl-C leaves the loop, or what comes around it.
LEMMA InterruptRecords ==
  ASSUME RecordInv, SessionInv, RecordInterrupt
  PROVE  RecordInv'
<1> USE DEF RecordInv
<1>1. /\ UNCHANGED <<profile, clock, sample, rows, marks, samples, published, reason>>
      /\ UNCHANGED <<setup, position, cleanup, report, hold, refused>> /\ pc # "done"
      /\ termination' = IF pc \in LoopBody THEN "interrupted" ELSE termination
  BY DEF RecordInterrupt, Interrupt, handoffVars, loopVars
<1>2. CASE pc \in LoopBody
  <2>1. pc' \in {"loopZero", "summary"} /\ termination' = "interrupted"
    BY <1>1, <1>2 DEF RecordInterrupt, Interrupt, AfterLoop
  <2>2. published' \in Nat
    BY <1>1 DEF RecordTypeOK
  <2>3. RecordTypeOK' /\ RowsOK' /\ TimelineOK' /\ CycleOK' /\ TallyOK'
    BY <1>1, <1>2, <2>1, <2>2, LoopLeft
  <2>4. VerdictOK'
    <3>1. pc \notin Over
      BY <1>2 DEF Over, LoopBody
    <3> QED
      BY <1>1, <2>1, <3>1 DEF VerdictOK, ProfileCompleted
  <2> QED
    BY <2>3, <2>4
<1>3. CASE pc \notin LoopBody
  <2>1. pc' \in {"closeWorker", "leave"} /\ error' = "interrupt" /\ error' # None
    <3>1. error' = "interrupt"
      BY <1>3 DEF RecordInterrupt, Interrupt
    <3> QED
      BY <1>3, <3>1, FollowAssumption DEF RecordInterrupt, Interrupt
  <2>2. UNCHANGED recordVars
    BY <1>1, <1>3 DEF recordVars
  <2>3. TimelineOK'
    BY <1>1, <2>1 DEF TimelineOK, Happened, LoopBody, Before, Handoff
  <2>4. TallyDue' => TallyDue
    BY <1>1, <2>1 DEF TallyDue
  <2>5. pc' \notin LoopBody /\ pc' \notin Before /\ pc' \in Over
    BY <2>1 DEF LoopBody, Before, Handoff, Over
  <2> QED
    BY <1>1, <2>2, <2>3, <2>4, <2>5, NothingRecorded
<1> QED
  BY <1>2, <1>3

\* A zero of the cleanup, sent or refused.
LEMMA CleanupRecords ==
  ASSUME RecordInv, SessionInv, RecordCleanup
  PROVE  RecordInv'
<1> USE DEF RecordInv
<1>1. PICK events : events = (IF cleanup = "none" THEN {"cleanup_start"} ELSE {})
                               \cup (IF cleanup' # "attempted" THEN {"cleanup_end"} ELSE {})
  OBVIOUS
<1>2. /\ pc \in ZeroAt /\ Stamp(events)
      /\ UNCHANGED <<profile, clock, sample, rows, samples, published>>
      /\ UNCHANGED <<setup, position, report, hold, error>>
      /\ cleanup' \in {"attempted", "done", "failed"}
      /\ pc' \in {pc, After(pc)}
      /\ \/ UNCHANGED <<termination, reason>>
         \/ /\ pc = "loopZero" /\ termination' = "exception" /\ cleanup' = "failed"
            /\ reason' = IF reason = None THEN "gravity_cleanup_failed" ELSE reason
      /\ refused' = (refused \/ (pc = "loopZero" /\ cleanup' = "failed"))
  <2>1. CASE SendZero
    <3>1. cleanup' \in {"attempted", "done"} /\ refused' = refused
      BY <2>1 DEF SendZero, loopVars
    <3>2. refused \in BOOLEAN
      BY DEF SessionInv, TypeOK
    <3> QED
      BY <1>1, <2>1, <3>1, <3>2 DEF RecordCleanup, SendZero, handoffVars, loopVars
  <2>2. CASE ZeroFails
    <3>1. cleanup' = "failed" /\ refused' = (refused \/ pc = "loopZero")
      BY <2>2 DEF ZeroFails
    <3> QED
      BY <1>1, <2>2, <3>1 DEF RecordCleanup, ZeroFails, handoffVars
  <2> QED
    BY <2>1, <2>2 DEF RecordCleanup
<1>3. FirstTime(events)
  BY <1>1 DEF TimelineOK, FirstTime, Events, Once
<1>4. clock \in Nat
  BY DEF RecordTypeOK
<1>5. RecordTypeOK'
  BY <1>2, <1>3, <1>4, TypesStay DEF FirstTime, RecordTypeOK
<1>6. RowsOK'
  <2>1. "alignment_end" \notin events
    BY <1>1
  <2> QED
    BY <1>2, <1>3, <1>4, <2>1, RowsStay
<1>7. pc' \notin LoopBody /\ pc' \notin Before /\ (pc \in Over => pc' \in Over)
  BY <1>2 DEF After, ZeroAt, LoopBody, Before, Handoff, Over
<1>8. TimelineOK'
  BY <1>2, <1>7 DEF TimelineOK, LoopBody, Before, Handoff
<1>9. CycleOK'
  BY <1>7 DEF CycleOK, LoopBody
<1>10. TallyOK'
  <2>1. report = "none"
    BY <1>2 DEF SessionInv, Filed, ZeroAt
  <2>2. ASSUME TallyDue' PROVE TallyDue /\ termination' = termination
    <3>1. pc' \in {"loopZero", "summary", "closeWorker", "report"} /\ error' = None /\ ~refused'
      BY <1>2, <2>1, <2>2 DEF TallyDue
    <3>2. pc = "loopZero"
      BY <1>2, <3>1 DEF After, ZeroAt
    <3> QED
      BY <1>2, <3>1, <3>2 DEF TallyDue
  <2> QED
    BY <1>2, <1>7, <2>2, CountsStay DEF TallyOK, LoopBody
<1>11. VerdictOK'
  <2>1. CASE pc \in Over
    <3>1. marks'["profile_start"] = marks["profile_start"]
      BY <1>1, <1>2 DEF Stamp, Events
    <3>2. /\ termination' = "diagnostic_profile_completed" => termination = termination'
          /\ reason' = "handoff_convergence_timeout" => reason = reason'
      BY <1>2
    <3> QED
      BY <1>2, <1>7, <2>1, <3>1, <3>2, VerdictStays
  <2>2. CASE pc \notin Over
    <3>1. pc # "loopZero"
      BY <2>2 DEF Over
    <3> QED
      BY <1>2, <2>2, <3>1 DEF VerdictOK, ProfileCompleted
  <2> QED
    BY <2>1, <2>2
<1> QED
  BY <1>5, <1>6, <1>8, <1>9, <1>10, <1>11

\* The report of a session that never came to its loop.
LEMMA PartialRecords ==
  ASSUME RecordInv, SessionInv, RecordPartial
  PROVE  RecordInv'
<1> USE DEF RecordInv
<1>1. /\ UNCHANGED <<profile, clock, sample, rows, marks, samples, published>>
      /\ UNCHANGED <<setup, cleanup>> /\ pc \in {"acquireFailed", "handoffReport", "entryReport"}
      /\ pc' = "leave" /\ report' \in {"partial", report}
  BY DEF RecordPartial, AcquireFailed, HandoffReport, Persist
<1>2. Stamp({}) /\ FirstTime({}) /\ clock \in Nat
  BY <1>1, NothingStamped DEF RecordTypeOK
<1>3. RecordTypeOK'
  BY <1>1, <1>2, TypesStay DEF RecordTypeOK
<1>4. RowsOK'
  BY <1>1, <1>2, RowsStay
<1>5. TimelineOK'
  BY <1>1 DEF TimelineOK, Happened, LoopBody, Before, Handoff
<1>6. CycleOK'
  BY <1>1 DEF CycleOK, LoopBody
<1>7. TallyOK'
  <2>1. report = "none"
    BY <1>1 DEF SessionInv, Filed
  <2> QED
    BY <1>1, <2>1 DEF TallyOK, TallyDue, Before, Handoff
<1>8. VerdictOK'
  <2>1. PICK why \in PartialReasons : termination' = why /\ reason' = why
    BY DEF RecordPartial
  <2>2. why # "diagnostic_profile_completed" /\ why # "handoff_convergence_timeout"
    BY <2>1 DEF PartialReasons
  <2> QED
    BY <2>1, <2>2 DEF VerdictOK, ProfileCompleted
<1> QED
  BY <1>3, <1>4, <1>5, <1>6, <1>7, <1>8

\* The steps around the loop that file nothing.
LEMMA UnrecordedKeeps ==
  ASSUME RecordInv, SessionInv, Unrecorded
  PROVE  RecordInv'
<1> DEFINE Moved == /\ pc' \notin LoopBody
                    /\ pc' \in Before =>
                         \/ pc \in {"acquire", "prepare", "activate"}
                            /\ pc' \in {"prepare", "activate", "enter", "reacquire"}
                         \/ pc = "ready" /\ pc' = "readyStream"
                         \/ pc = "settle" /\ pc' = "settleHold"
                    /\ pc \in Over => pc' \in Over
           Left == UNCHANGED <<setup, cleanup>> /\ (pc \in Over => UNCHANGED <<hold, position>>)
           Due == TallyDue' => TallyDue
<1>1. UNCHANGED <<rows, marks>> /\ UNCHANGED recordVars
  BY DEF Unrecorded, recordVars
<1>2. report = "complete" => pc \in {"leave", "done"}
  BY DEF SessionInv, Filed
<1> USE DEF LoopBody, Before, Handoff, Over, TallyDue
<1>3. ASSUME Acquire PROVE Moved /\ Left /\ Due
  BY <1>2, <1>3 DEF Acquire
<1>4. ASSUME Prepare PROVE Moved /\ Left /\ Due
  BY <1>2, <1>4 DEF Prepare, handoffVars
<1>5. ASSUME CallRaises PROVE Moved /\ Left /\ Due
  BY <1>2, <1>5 DEF CallRaises, Handler, handoffVars
<1>6. ASSUME Activate PROVE Moved /\ Left /\ Due
  BY <1>2, <1>6 DEF Activate
<1>7. ASSUME ReadyTorque PROVE Moved /\ Left /\ Due
  BY <1>2, <1>7 DEF ReadyTorque
<1>8. ASSUME SettleHold PROVE Moved /\ Left /\ Due
  BY <1>2, <1>8 DEF SettleHold
<1>9. ASSUME Settle \/ Sync, pc' \in {"settleHold", "handoffFailed"} PROVE Moved /\ Left /\ Due
  <2>1. pc \in {"settle", "sync"} /\ UNCHANGED <<setup, cleanup, report>>
    BY <1>9 DEF Settle, Sync
  <2>2. Moved
    <3>1. pc' \notin LoopBody
      BY <1>9
    <3>2. pc' \in Before => pc = "settle" /\ pc' = "settleHold"
      BY <1>9 DEF Settle, Sync
    <3>3. pc \notin Over
      BY <2>1
    <3> QED
      BY <3>1, <3>2, <3>3
  <2>3. Left
    BY <2>1
  <2>4. Due
    <3>1. ASSUME TallyDue' PROVE report' = "complete"
      BY <1>9, <3>1
    <3> QED
      BY <2>1, <3>1
  <2> QED
    BY <2>2, <2>3, <2>4
<1>10. ASSUME HandoffFailed PROVE Moved /\ Left /\ Due
  BY <1>2, <1>10 DEF HandoffFailed
<1>11. ASSUME Summary PROVE Moved /\ Left /\ Due
  <2>1. error' = None => error = None
    BY <1>11, FollowAssumption DEF Summary
  <2> QED
    BY <1>2, <1>11, <2>1 DEF Summary, handoffVars, loopVars
<1>12. ASSUME CloseWorker PROVE Moved /\ Left /\ Due
  <2>1. pc' \in {"report", "leave", "entryFailed"} /\ pc = "closeWorker"
    <3>1. CASE error = None
      BY <1>12, <3>1 DEF CloseWorker
    <3>2. CASE error = "interrupt"
      BY <1>12, <3>2, FollowAssumption DEF CloseWorker
    <3>3. CASE error # None /\ error # "interrupt"
      BY <1>12, <3>3 DEF CloseWorker
    <3> QED
      BY <3>1, <3>2, <3>3
  <2> QED
    BY <1>2, <1>12, <2>1 DEF CloseWorker, handoffVars, loopVars
<1>13. ASSUME EntryFailed PROVE Moved /\ Left /\ Due
  BY <1>2, <1>13 DEF EntryFailed, handoffVars
<1>14. ASSUME Report PROVE Moved /\ Left /\ Due
  <2>1. error = None
    BY <1>14 DEF Report, SessionInv, Errors
  <2> QED
    BY <1>2, <1>14, <2>1 DEF Report, Persist, handoffVars
<1>15. ASSUME Leave PROVE Moved /\ Left /\ Due
  BY <1>2, <1>15 DEF Leave, handoffVars
<1>16. Moved /\ Left /\ Due
  BY <1>3, <1>4, <1>5, <1>6, <1>7, <1>8, <1>9, <1>10, <1>11, <1>12, <1>13, <1>14, <1>15 DEF Unrecorded
<1>17. TimelineOK'
  <2>1. UNCHANGED <<rows, marks, cleanup>> /\ Moved
    BY <1>1, <1>16
  <2> QED
    BY <2>1 DEF RecordInv, TimelineOK, Blank, Happened
<1> QED
  BY <1>1, <1>16, <1>17, NothingRecorded

\* A session without --output keeps no record.
NoRecord == rows = <<>> /\ samples = 0 /\ termination = None /\ reason = None

\* Nothing changes what a session was started with.
LEMMA SetupStays == ASSUME [Next]_vars PROVE setup' = setup
BY DEF Next, vars, Acquire, AcquireFailed, Prepare, CallRaises, Activate, Reacquire, ReadyTorque,
   ReadyStream, Settle, SettleHold, Sync, HandoffFailed, HandoffReport, Enter, TimeUp, Feedback,
   Command, GateTimeout, GateHold, Publish, LoopRaises, SendZero, ZeroFails, Summary, CloseWorker,
   EntryFailed, Report, Leave, Interrupt

\* Nor does a stuttering step.
LEMMA RecordStutters ==
  ASSUME RecordInv, UNCHANGED recordedVars
  PROVE  RecordInv'
<1>1. /\ UNCHANGED <<setup, pc, error, position, cleanup, report, stage, hold, outgoing, refused>>
      /\ UNCHANGED <<profile, clock, sample, rows, marks, samples, published, termination, reason>>
  BY DEF recordedVars, recordVars, vars, handoffVars, loopVars
<1> USE <1>1 DEF RecordInv, Diagnostic, Happened
<1>2. RecordTypeOK'
  BY DEF RecordTypeOK
<1>3. RowsOK'
  <2>1. Stamp({}) /\ FirstTime({}) /\ clock \in Nat
    BY NothingStamped DEF RecordTypeOK
  <2> QED
    BY <2>1, RowsStay
<1>4. TimelineOK'
  BY DEF TimelineOK, LoopTimeline, Deadline, Blank
<1>5. CycleOK'
  BY DEF CycleOK
<1>6. TallyOK'
  BY CountsStay DEF TallyOK, TallyDue
<1>7. VerdictOK'
  BY VerdictStays
<1> QED
  BY <1>2, <1>3, <1>4, <1>5, <1>6, <1>7

\* What is true of every session.
Recording == IF Output THEN RecordInv ELSE NoRecord

\* Every step keeps the record true.
LEMMA RecordStep ==
  ASSUME Recording, SessionInv, [RecordedNext]_recordedVars
  PROVE  Recording'
<1>1. CASE UNCHANGED recordedVars
  <2>1. UNCHANGED <<setup, rows, samples, termination, reason>>
    BY <1>1 DEF recordedVars, recordVars, vars
  <2> QED
    BY <1>1, <2>1, RecordStutters DEF Recording, NoRecord, Output
<1>2. CASE Unkept
  <2>1. setup' = setup
    BY <1>2, SetupStays DEF Unkept
  <2>2. ~Output /\ ~Output' /\ UNCHANGED <<rows, samples, termination, reason>>
    BY <1>2, <2>1 DEF Unkept, recordVars, Output
  <2> QED
    BY <2>2 DEF Recording, NoRecord
<1>3. ASSUME Output, RecordInv' PROVE Recording'
  <2>1. setup' = setup
    BY RecordedStepIsAStep, SetupStays
  <2> QED
    BY <1>3, <2>1 DEF Recording, Output
<1>4. ASSUME Output PROVE RecordInv
  BY <1>4 DEF Recording
<1>5. CASE RecordReacquire
  BY <1>3, <1>4, <1>5, ReacquireRecords DEF RecordReacquire
<1>6. CASE RecordReady
  BY <1>3, <1>4, <1>6, ReadyRecords DEF RecordReady
<1>7. CASE RecordSync
  BY <1>3, <1>4, <1>7, SyncRecords DEF RecordSync
<1>8. CASE RecordEnter
  BY <1>3, <1>4, <1>8, EnterRecords DEF RecordEnter
<1>9. CASE RecordFeedback
  BY <1>3, <1>4, <1>9, FeedbackRecords DEF RecordFeedback
<1>10. CASE RecordTimeUp
  BY <1>3, <1>4, <1>10, TimeUpRecords DEF RecordTimeUp
<1>11. CASE RecordCommand
  BY <1>3, <1>4, <1>11, CommandRecords DEF RecordCommand
<1>12. CASE RecordGateTimeout
  BY <1>3, <1>4, <1>12, GateTimeoutRecords DEF RecordGateTimeout
<1>13. CASE RecordGateHold
  BY <1>3, <1>4, <1>13, GateHoldRecords DEF RecordGateHold
<1>14. CASE RecordPublish
  BY <1>3, <1>4, <1>14, PublishRecords DEF RecordPublish
<1>15. CASE RecordLoopRaises
  BY <1>3, <1>4, <1>15, LoopRaisesRecords DEF RecordLoopRaises
<1>16. CASE RecordInterrupt
  BY <1>3, <1>4, <1>16, InterruptRecords DEF RecordInterrupt
<1>17. CASE RecordCleanup
  BY <1>3, <1>4, <1>17, CleanupRecords DEF RecordCleanup
<1>18. CASE RecordPartial
  BY <1>3, <1>4, <1>18, PartialRecords DEF RecordPartial
<1>19. CASE Unrecorded
  BY <1>3, <1>4, <1>19, UnrecordedKeeps DEF Unrecorded
<1> QED
  BY <1>1, <1>2, <1>5, <1>6, <1>7, <1>8, <1>9, <1>10, <1>11, <1>12, <1>13, <1>14, <1>15, <1>16,
     <1>17, <1>18, <1>19 DEF RecordedNext

\* The record of a session is true at any moment.
LEMMA RecordAlways == RecordedSpec => []Recording
<1>1. RecordedInit => Recording
  <2> SUFFICES ASSUME RecordedInit PROVE Recording
    OBVIOUS
  <2>1. CASE Output
    BY <2>1, RecordInitially DEF Recording
  <2>2. CASE ~Output
    BY <2>2 DEF RecordedInit, Recording, NoRecord
  <2> QED
    BY <2>1, <2>2
<1>2. Recording /\ SessionInv /\ [RecordedNext]_recordedVars => Recording'
  BY RecordStep
<1> QED
  BY <1>1, <1>2, RecordedIsASession, SessionAlways, PTL DEF RecordedSpec

-----------------------------------------------------------------------------
(* What the report shows.                                                  *)

\* What is counted in each window.
LEMMA Windows ==
  /\ DOMAIN StagesOf = {"handoff_alignment", "convergence_gate", "profile_only", "ramp", "hold",
                        "return", "origin_hold"}
  /\ StagesOf["handoff_alignment"] = {"handoff_sync", "startup_alignment"}
  /\ StagesOf["convergence_gate"] = {"convergence_gate"}
  /\ StagesOf["profile_only"] = ProfileStages
  /\ StagesOf["ramp"] = {"ramp"} /\ StagesOf["hold"] = {"hold"}
  /\ StagesOf["return"] = {"return"} /\ StagesOf["origin_hold"] = {"origin_hold"}
BY DEF StagesOf

\* And of the requests.
LEMMA RequestWindows ==
  /\ PhasesOf["handoff_alignment"] = {<<"startup_alignment", "">>}
  /\ PhasesOf["convergence_gate"] = {<<"convergence_gate", "">>}
  /\ PhasesOf["ramp"] = {<<kind, "ramp_out">> : kind \in Kinds}
  /\ PhasesOf["hold"] = {<<kind, "hold">> : kind \in Kinds}
  /\ PhasesOf["return"] = {<<kind, "ramp_back">> : kind \in Kinds}
  /\ PhasesOf["origin_hold"] = {<<"origin", "hold">>}
  /\ PhasesOf["profile_only"] = PhasesOf["ramp"] \cup PhasesOf["hold"] \cup PhasesOf["return"]
                                  \cup PhasesOf["origin_hold"]
BY DEF PhasesOf

\* A phase is counted in the windows of the stage it is filed under, the last one excepted.
LEMMA PhaseHasItsWindow ==
  ASSUME NEW phase \in Phases, phase # <<"complete", "complete">>, NEW window \in DOMAIN StagesOf
  PROVE  phase \in PhasesOf[window] <=> StageFor(phase) \in StagesOf[window]
<1> DEFINE Names == {"handoff_alignment", "convergence_gate", "profile_only", "ramp", "hold",
                     "return", "origin_hold"}
<1>1. window \in Names
  BY Windows
<1>3. ASSUME phase = <<"origin", "hold">>
      PROVE  /\ phase \in PhasesOf["origin_hold"] /\ phase \notin PhasesOf["hold"]
             /\ phase \notin PhasesOf["ramp"] /\ phase \notin PhasesOf["return"]
             /\ phase \notin PhasesOf["handoff_alignment"] /\ phase \notin PhasesOf["convergence_gate"]
  BY <1>3, RequestWindows DEF Kinds
<1>4. ASSUME NEW kind \in Kinds, phase = <<kind, "ramp_out">>
      PROVE  /\ phase \notin PhasesOf["origin_hold"] /\ phase \notin PhasesOf["hold"]
             /\ phase \in PhasesOf["ramp"] /\ phase \notin PhasesOf["return"]
             /\ phase \notin PhasesOf["handoff_alignment"] /\ phase \notin PhasesOf["convergence_gate"]
  BY <1>4, RequestWindows DEF Kinds
<1>5. ASSUME NEW kind \in Kinds, phase = <<kind, "hold">>
      PROVE  /\ phase \notin PhasesOf["origin_hold"] /\ phase \in PhasesOf["hold"]
             /\ phase \notin PhasesOf["ramp"] /\ phase \notin PhasesOf["return"]
             /\ phase \notin PhasesOf["handoff_alignment"] /\ phase \notin PhasesOf["convergence_gate"]
  BY <1>5, RequestWindows DEF Kinds
<1>6. ASSUME NEW kind \in Kinds, phase = <<kind, "ramp_back">>
      PROVE  /\ phase \notin PhasesOf["origin_hold"] /\ phase \notin PhasesOf["hold"]
             /\ phase \notin PhasesOf["ramp"] /\ phase \in PhasesOf["return"]
             /\ phase \notin PhasesOf["handoff_alignment"] /\ phase \notin PhasesOf["convergence_gate"]
  BY <1>6, RequestWindows DEF Kinds
<1> DEFINE Named(leg) == /\ (phase \in PhasesOf["origin_hold"]) <=> (leg = "origin_hold")
                         /\ (phase \in PhasesOf["hold"]) <=> (leg = "hold")
                         /\ (phase \in PhasesOf["ramp"]) <=> (leg = "ramp")
                         /\ (phase \in PhasesOf["return"]) <=> (leg = "return")
                         /\ phase \notin PhasesOf["handoff_alignment"]
                         /\ phase \notin PhasesOf["convergence_gate"]
<1>7. StageFor(phase) \in ProfileStages /\ Named(StageFor(phase))
  <2>1. CASE phase = <<"origin", "hold">>
    BY <1>3, <2>1, StageForIs
  <2>2. CASE phase \in Kinds \X {"ramp_out", "hold", "ramp_back"}
    <3>1. PICK kind \in Kinds, part \in {"ramp_out", "hold", "ramp_back"} : phase = <<kind, part>>
      BY <2>2
    <3>2. CASE part = "ramp_out"
      BY <1>4, <3>1, <3>2, StageForIs
    <3>3. CASE part = "hold"
      BY <1>5, <3>1, <3>3, StageForIs
    <3>4. CASE part = "ramp_back"
      BY <1>6, <3>1, <3>4, StageForIs
    <3> QED
      BY <3>1, <3>2, <3>3, <3>4
  <2> QED
    BY <2>1, <2>2 DEF Phases
<1>8. PICK leg : leg = StageFor(phase)
  OBVIOUS
<1> QED
  <2>1. CASE window = "profile_only"
    BY <1>7, <1>8, <2>1, Windows, RequestWindows DEF ProfileStages
  <2>2. CASE window \in {"handoff_alignment", "convergence_gate"}
    BY <1>7, <1>8, <2>2, Windows DEF ProfileStages
  <2>3. CASE window \in {"ramp", "hold", "return", "origin_hold"}
    BY <1>7, <1>8, <2>3, Windows
  <2> QED
    BY <1>1, <2>1, <2>2, <2>3

\* Every stage of the loop is counted in one window.
LEMMA WindowOf ==
  ASSUME NEW leg \in {"startup_alignment", "convergence_gate"} \cup ProfileStages
  PROVE  \E only \in DOMAIN StagesOf \ {"profile_only"} :
           \A window \in DOMAIN StagesOf :
             leg \in StagesOf[window] <=>
               window = only \/ (window = "profile_only" /\ only \in ProfileStages)
<1> DEFINE only == IF leg = "startup_alignment" THEN "handoff_alignment" ELSE leg
<1>1. only \in DOMAIN StagesOf \ {"profile_only"}
  BY Windows DEF ProfileStages
<1>2. only \in ProfileStages <=> leg \in ProfileStages
  BY DEF ProfileStages
<1>3. ASSUME NEW window \in DOMAIN StagesOf
      PROVE  leg \in StagesOf[window] <=>
               window = only \/ (window = "profile_only" /\ only \in ProfileStages)
  <2>1. CASE window = "profile_only"
    BY <1>1, <1>2, <2>1, Windows
  <2>2. CASE window = "handoff_alignment"
    BY <2>2, Windows DEF ProfileStages
  <2>3. CASE window \in {"convergence_gate", "ramp", "hold", "return", "origin_hold"}
    BY <2>3, Windows DEF ProfileStages
  <2> QED
    BY <2>1, <2>2, <2>3, Windows
<1> QED
  BY <1>1, <1>3

\* A request made while waiting is counted in the window of the wait.
LEMMA RequestOf ==
  ASSUME NEW leg, NEW asked, asked = <<leg, "">>, leg \in {"startup_alignment", "convergence_gate"},
         NEW window \in DOMAIN StagesOf
  PROVE  asked \in PhasesOf[window] <=> leg \in StagesOf[window]
<1> DEFINE Profile == PhasesOf["ramp"] \cup PhasesOf["hold"] \cup PhasesOf["return"]
                        \cup PhasesOf["origin_hold"]
<1>1. asked \notin Profile
  BY RequestWindows DEF Kinds
<1>2. /\ asked \in PhasesOf["handoff_alignment"] <=> leg = "startup_alignment"
      /\ asked \in PhasesOf["convergence_gate"] <=> leg = "convergence_gate"
  BY RequestWindows
<1>3. asked \notin PhasesOf["profile_only"]
  BY <1>1, RequestWindows
<1>4. CASE window = "profile_only"
  BY <1>3, <1>4, Windows DEF ProfileStages
<1>5. CASE window = "handoff_alignment"
  BY <1>2, <1>5, Windows
<1>6. CASE window = "convergence_gate"
  BY <1>2, <1>6, Windows
<1>7. CASE window \in {"ramp", "hold", "return", "origin_hold"}
  BY <1>1, <1>7, Windows
<1> QED
  BY <1>4, <1>5, <1>6, <1>7, Windows

\* Of an empty record the properties say nothing false.
LEMMA NothingFiled ==
  ASSUME NoRecord
  PROVE  RecordAgrees /\ ProfileIsContinuous /\ ReportIsTrue
<1>1. DOMAIN rows = {} /\ TracedRows = {} /\ ProfileRows = {}
  BY DEF NoRecord, TracedRows, ProfileRows
<1>2. Cardinality(TracedRows) = 0
  BY <1>1, FS_EmptySet
<1>3. termination # "diagnostic_profile_completed" /\ reason # "handoff_convergence_timeout"
  BY RecordAssumption DEF NoRecord
<1> QED
  BY <1>1, <1>2, <1>3 DEF NoRecord, RecordAgrees, EveryRowHasItsWindow, StagesMatchTimeline,
     ProfileIsContinuous, ReportIsTrue, CompletedIsTheWholeProfile, SumsAreOverRows,
     TimedOutBeforeProfile, ProfileCompleted

\* The two records of a run agree, and every row counts in its window.
THEOREM RecordsAgree == RecordedSpec => []RecordAgrees
<1>1. RecordInv => RecordAgrees
  <2> SUFFICES ASSUME RecordInv PROVE RecordAgrees
    OBVIOUS
  <2>1. EveryRowHasItsWindow
    <3> SUFFICES ASSUME Diagnostic, NEW n \in TracedRows
        PROVE  /\ \E only \in DOMAIN StagesOf \ {"profile_only"} :
                    \A window \in DOMAIN StagesOf :
                      rows[n].stage \in StagesOf[window] <=>
                        window = only \/ (window = "profile_only" /\ only \in ProfileStages)
               /\ rows[n].asked # <<"complete", "complete">> =>
                    \A window \in DOMAIN StagesOf :
                      rows[n].asked \in PhasesOf[window] <=> rows[n].stage \in StagesOf[window]
      BY DEF EveryRowHasItsWindow
    <3>1. rows[n] \in Row /\ rows[n].traced /\ RowOK(rows[n])
      BY DEF RecordInv, RowsOK, RecordTypeOK, TracedRows
    <3>2. RowFiled(rows[n])
      BY <3>1 DEF RowOK
    <3>3. PICK leg, asked : leg = rows[n].stage /\ asked = rows[n].asked
      OBVIOUS
    <3>4. \/ leg \in {"startup_alignment", "convergence_gate"} /\ asked = <<leg, "">>
          \/ asked \in Phases /\ leg = StageFor(asked)
      BY <3>1, <3>2, <3>3 DEF RowFiled, Row, Targets
    <3>5. leg \in {"startup_alignment", "convergence_gate"} \cup ProfileStages
      BY <3>4, StageForIs
    <3>6. \E only \in DOMAIN StagesOf \ {"profile_only"} :
            \A window \in DOMAIN StagesOf :
              leg \in StagesOf[window] <=>
                window = only \/ (window = "profile_only" /\ only \in ProfileStages)
      BY <3>5, WindowOf
    <3>7. ASSUME asked # <<"complete", "complete">>, NEW window \in DOMAIN StagesOf
          PROVE  asked \in PhasesOf[window] <=> leg \in StagesOf[window]
      BY <3>4, <3>7, RequestOf, PhaseHasItsWindow
    <3> QED
      BY <3>3, <3>6, <3>7
  <2>2. StagesMatchTimeline
    BY DEF RecordInv, RowsOK, RowOK, StagesMatchTimeline
  <2> QED
    BY <2>1, <2>2 DEF RecordAgrees
<1>2. Recording => RecordAgrees
  BY <1>1, NothingFiled DEF Recording
<1> QED
  BY <1>2, RecordAlways, PTL

\* Between two of its moments a profile moves by no more than its speeds allow.
LEMMA WithinSpeeds ==
  ASSUME NEW p, Sound(p), NEW a \in Nat \ {0}, NEW b \in Nat \ {0}, a <= b
  PROVE  /\ Gap(Sample(p, a).translation, Sample(p, b).translation) <= p.linear * (b - a)
         /\ Gap(Sample(p, a).rotation, Sample(p, b).rotation) <= p.angular * (b - a)
         /\ Gap(0, Sample(p, b).translation) <= p.linear * b
         /\ Gap(0, Sample(p, b).rotation) <= p.angular * b
<1>1. p.linear \in Nat /\ p.angular \in Nat
  BY ProfileNumbers DEF Sound
<1>2. PICK k \in Nat : k <= p.linear /\ Span(p).translation = k * Ramp(p)
  BY Rates DEF Rate
<1>3. PICK l \in Nat : l <= p.angular /\ Span(p).rotation = l * Ramp(p)
  BY Rates DEF Rate
<1>4. Sample(p, a).translation = Place(p, k, a) /\ Sample(p, b).translation = Place(p, k, b)
  BY <1>2, SampleShows
<1>5. Sample(p, a).rotation = Place(p, l, a) /\ Sample(p, b).rotation = Place(p, l, b)
  BY <1>3, SampleShows
<1>6. Place(p, k, 0) = 0 /\ Place(p, l, 0) = 0 /\ b - 0 = b
  BY DEF Place
<1>7. /\ Gap(Place(p, k, a), Place(p, k, b)) <= p.linear * (b - a)
      /\ Gap(Place(p, l, a), Place(p, l, b)) <= p.angular * (b - a)
  BY <1>1, <1>2, <1>3, NoJump
<1>8. /\ Gap(Place(p, k, 0), Place(p, k, b)) <= p.linear * (b - 0)
      /\ Gap(Place(p, l, 0), Place(p, l, b)) <= p.angular * (b - 0)
  <2>1. PICK zero \in Nat : zero = 0
    OBVIOUS
  <2>2. zero <= b
    BY <2>1
  <2>3. Gap(Place(p, k, zero), Place(p, k, b)) <= p.linear * (b - zero)
    BY <1>1, <1>2, <2>2, NoJump
  <2>4. Gap(Place(p, l, zero), Place(p, l, b)) <= p.angular * (b - zero)
    BY <1>1, <1>3, <2>2, NoJump
  <2> QED
    BY <2>1, <2>3, <2>4
<1> QED
  BY <1>4, <1>5, <1>6, <1>7, <1>8

\* No lateness turns into a jump.
THEOREM ProfilesAreContinuous == RecordedSpec => []ProfileIsContinuous
<1>1. RecordInv => ProfileIsContinuous
  <2> SUFFICES ASSUME RecordInv, NEW n \in ProfileRows
      PROVE  IF rows[n - 1].target = None
             THEN Reachable([translation |-> 0, rotation |-> 0], rows[n].target,
                            rows[n].at - marks["profile_start"])
             ELSE Reachable(rows[n - 1].target, rows[n].target, rows[n].at - rows[n - 1].at)
    BY DEF ProfileIsContinuous
  <2>1. /\ n \in DOMAIN rows /\ rows[n].stage \in ProfileStages /\ rows \in Seq(Row)
        /\ RowOK(rows[n]) /\ n > 1
    BY DEF RecordInv, RowsOK, RecordTypeOK, ProfileRows, TracedRows
  <2>2. /\ n \in Nat /\ n - 1 \in DOMAIN rows /\ rows[n] \in Row /\ rows[n - 1] \in Row
        /\ RowOK(rows[n - 1]) /\ rows[n - 1].at < rows[n].at
    BY <2>1 DEF RecordInv, RowsOK
  <2>3. PICK from, row, start : from = rows[n - 1] /\ row = rows[n] /\ start = marks["profile_start"]
    OBVIOUS
  <2>4. /\ Diagnostic /\ start \in Nat /\ row.at \in Nat /\ from.at \in Nat
        /\ start < row.at /\ row.target = Sample(profile, row.at - start)
        /\ from.at < row.at
    <3>1. row.target # None
      BY <2>1, <2>3 DEF RowOK
    <3>2. Happened("profile_start")
      BY <2>1, <2>3, <3>1 DEF RowOK
    <3>3. start \in Nat
      BY <2>3, <3>2 DEF RecordInv, RecordTypeOK, Happened, Events
    <3> QED
      BY <2>1, <2>2, <2>3, <3>1, <3>3 DEF RowOK, Row
  <2>5. Sound(profile)
    BY <2>4, RecordAssumption DEF RecordInv, RecordTypeOK, Sound
  <2>6. row.at - start \in Nat \ {0}
    BY <2>4
  <2>7. CASE from.target = None
    <3>1. Reachable([translation |-> 0, rotation |-> 0], row.target, row.at - start)
      BY <2>4, <2>5, <2>6, WithinSpeeds DEF Reachable
    <3> QED
      BY <2>3, <2>7, <3>1
  <2>8. CASE from.target # None
    <3>1. start < from.at /\ from.target = Sample(profile, from.at - start)
      BY <2>2, <2>3, <2>8 DEF RowOK
    <3>2. /\ from.at - start \in Nat \ {0} /\ from.at - start <= row.at - start
          /\ (row.at - start) - (from.at - start) = row.at - from.at
      BY <2>4, <3>1
    <3>3. Reachable(from.target, row.target, row.at - from.at)
      BY <2>4, <2>5, <2>6, <3>1, <3>2, WithinSpeeds DEF Reachable
    <3> QED
      BY <2>3, <2>8, <3>3
  <2> QED
    BY <2>7, <2>8
<1>2. Recording => ProfileIsContinuous
  BY <1>1, NothingFiled DEF Recording
<1> QED
  BY <1>2, RecordAlways, PTL

\* What the report says of the profile, the sums and a timeout is so.
THEOREM ReportsAreTrue == RecordedSpec => []ReportIsTrue
<1>1. RecordInv => ReportIsTrue
  BY DEF RecordInv, VerdictOK, TallyOK, TallyDue, ReportIsTrue, CompletedIsTheWholeProfile,
     SumsAreOverRows, TimedOutBeforeProfile
<1>2. Recording => ReportIsTrue
  BY <1>1, NothingFiled DEF Recording
<1> QED
  BY <1>2, RecordAlways, PTL

=============================================================================
