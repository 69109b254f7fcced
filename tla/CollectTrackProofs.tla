------------------------ MODULE CollectTrackProofs ------------------------
(***************************************************************************)
(* What a collection promises, for every history depth, length of the      *)
(* excitation and number of collections: each read moves past everything   *)
(* already recorded, every repetition is streamed from the starting pose,  *)
(* and a manifest names three whole recordings of one collection.          *)
(***************************************************************************)
EXTENDS CollectTrack, TLAPS

-----------------------------------------------------------------------------
(* The invariant.  Messages are taken in the order of their stamps, so     *)
(* what waits is newer than what was recorded, and what was recorded is    *)
(* newer than what is on disk.                                             *)

Ordered(q) == \A i, j \in 1..Len(q) : i < j => q[i] < q[j]
Newer(q, b) == \A i \in 1..Len(q) : b < q[i]
AtMost(q, b) == \A i \in 1..Len(q) : q[i] <= b
Before(q, r) == \A i \in 1..Len(q) : Newer(r, q[i])

HistoryInv ==
  /\ Ordered(history) /\ AtMost(history, clock) /\ Newer(history, latest)
  /\ latest <= clock

RecordedInv == Ordered(recorded) /\ AtMost(recorded, clock) /\ Before(recorded, history)

RowsInv == Ordered(rows) /\ AtMost(rows, clock) /\ Before(rows, history)

Collecting == pc \notin {"idle", "manifest", "manifesting"}
LastOf(i) == disk[RepetitionPath(i, asked)].last
WholeFile(i) ==
  LET recording == disk[RepetitionPath(i, asked)] IN
    /\ recording.by = attempts /\ recording.commands = Samples
    /\ 0 < recording.first /\ recording.first <= recording.last
Follows(i) == LastOf(i - 1) < disk[RepetitionPath(i, asked)].first

DiskInv ==
  /\ \A path \in Paths : disk[path].last <= clock
  /\ Collecting => \A i \in 0..2 : i < index => WholeFile(i)
  /\ Collecting => \A i \in 1..2 : i < index => Follows(i)
  /\ pc \in {"manifest", "manifesting"} => WholeRun(attempts)

StepInv ==
  /\ index > 0 => asked = 3
  /\ pc = "authorize" => index = 0
  /\ pc = "ramp" => index > 0
  /\ pc = "discovering" => stamped < Samples
  /\ pc \in {"stopping", "writing", "saving"} => stamped = Samples
  /\ pc \in {"writing", "saving"} => rows # <<>>

\* The repetition before this one.
PreviousInv ==
  index > 0 /\ Collecting =>
    /\ Newer(history, LastOf(index - 1)) /\ Newer(rows, LastOf(index - 1))
    /\ pc \in Streaming => Newer(recorded, LastOf(index - 1))
    /\ pc = "reading" => latest = NoState \/ LastOf(index - 1) < latest
    /\ pc = "ramp" => LastOf(index - 1) < start

RestInv ==
  /\ goal = "succeeded" => rest = owner
  /\ pc \in {"accepting", "finishing"} => owner = attempts
  /\ index > 0 /\ pc \in Streaming /\ stamped = 0 => goal = "succeeded" /\ owner = attempts

Inv == TypeOK /\ HistoryInv /\ RecordedInv /\ RowsInv /\ DiskInv /\ StepInv /\ PreviousInv /\ RestInv

-----------------------------------------------------------------------------
(* The adapter.                                                            *)

Adapter ==
  Publish \/ SpinOnce \/ BeginRead \/ StartRecording \/ StopRecording \/ Close
    \/ UNCHANGED jointStatesVars

\* Taking the head of a queue shifts the rest.
LEMMA TailShifts ==
  ASSUME NEW S, NEW q \in Seq(S), q # <<>>
  PROVE  /\ Head(q) = q[1] /\ Head(q) \in S /\ Len(q) \in Nat \ {0}
         /\ Tail(q) \in Seq(S) /\ Len(Tail(q)) = Len(q) - 1
         /\ \A i \in 1..Len(Tail(q)) : Tail(q)[i] = q[i + 1]
  OBVIOUS

LEMMA AppendExtends ==
  ASSUME NEW S, NEW q \in Seq(S), NEW s \in S
  PROVE  /\ Append(q, s) \in Seq(S) /\ Len(Append(q, s)) = Len(q) + 1 /\ Len(q) \in Nat
         /\ \A i \in 1..Len(q) + 1 : Append(q, s)[i] = IF i = Len(q) + 1 THEN s ELSE q[i]
  OBVIOUS

\* A bounded history gains its newest message, and may lose its oldest.
LEMMA KeepLastShifts ==
  ASSUME NEW S, NEW q \in Seq(S), NEW s \in S, Len(q) <= Depth
  PROVE  LET h == KeepLast(Append(q, s)) IN
         /\ h \in Seq(S) /\ Len(h) <= Depth
         /\ \E k \in {0, 1} :
              /\ Len(h) = Len(q) + 1 - k
              /\ \A i \in 1..Len(h) : h[i] = IF i + k = Len(q) + 1 THEN s ELSE q[i + k]
<1> DEFINE a == Append(q, s)
<1> USE JointStatesAssumption DEF JointStatesAssumption
<1>1. /\ a \in Seq(S) /\ a # <<>> /\ Len(a) = Len(q) + 1 /\ Len(q) \in Nat
      /\ \A i \in 1..Len(a) : a[i] = IF i = Len(q) + 1 THEN s ELSE q[i]
  OBVIOUS
<1>2. CASE Len(a) > Depth
  <2>1. KeepLast(a) = Tail(a)
    BY <1>2 DEF KeepLast
  <2>2. /\ Tail(a) \in Seq(S) /\ Len(Tail(a)) = Len(a) - 1
        /\ \A i \in 1..Len(Tail(a)) : Tail(a)[i] = a[i + 1]
    BY <1>1, TailShifts
  <2>3. \A i \in 1..Len(Tail(a)) : Tail(a)[i] = IF i + 1 = Len(q) + 1 THEN s ELSE q[i + 1]
    BY <1>1, <2>2
  <2> QED
    BY <1>1, <2>1, <2>2, <2>3
<1>3. CASE ~(Len(a) > Depth)
  <2>1. KeepLast(a) = a
    BY <1>3 DEF KeepLast
  <2>2. \A i \in 1..Len(a) : a[i] = IF i + 0 = Len(q) + 1 THEN s ELSE q[i + 0]
    BY <1>1
  <2> QED
    BY <1>1, <1>3, <2>1, <2>2
<1> QED
  BY <1>2, <1>3

\* Every operation of the adapter keeps its state well typed.
LEMMA AdapterType == JointStatesTypeOK /\ Adapter => JointStatesTypeOK'
<1> SUFFICES ASSUME JointStatesTypeOK, Adapter PROVE JointStatesTypeOK'
  OBVIOUS
<1> USE JointStatesAssumption DEF JointStatesAssumption, JointStatesTypeOK, Stamps, NoState
<1>1. CASE Publish
  <2>1. clock + 1 \in Stamps
    BY <1>1 DEF Publish
  <2>2. /\ KeepLast(Append(history, clock + 1)) \in Seq(Stamps)
        /\ Len(KeepLast(Append(history, clock + 1))) <= Depth
    BY <2>1, KeepLastShifts
  <2> QED
    BY <1>1, <2>1, <2>2 DEF Publish
<1>2. CASE SpinOnce
  <2>1. /\ Head(history) \in Stamps /\ Tail(history) \in Seq(Stamps)
        /\ Len(Tail(history)) = Len(history) - 1 /\ Len(history) \in Nat
    BY <1>2, TailShifts DEF SpinOnce
  <2>2. latest' = Head(history) /\ history' = Tail(history)
    BY <1>2 DEF SpinOnce, Record
  <2>3. recorded' = Append(recorded, Head(history)) \/ recorded' = recorded
    BY <1>2 DEF SpinOnce, Record
  <2>4. recorded' \in Seq(Stamps)
    <3> HIDE DEF Stamps
    <3> QED
      BY <2>1, <2>3, AppendExtends
  <2>5. latest' \in 0..MaxStamp /\ history' \in Seq(Stamps) /\ Len(history') <= Depth
    BY <2>1, <2>2
  <2> QED
    BY <1>2, <2>4, <2>5 DEF SpinOnce
<1>3. CASE BeginRead
  BY <1>3 DEF BeginRead
<1>5. CASE StartRecording
  BY <1>5 DEF StartRecording
<1>6. CASE StopRecording
  BY <1>6 DEF StopRecording
<1>7. CASE Close
  BY <1>7 DEF Close
<1>4. CASE UNCHANGED jointStatesVars
  BY <1>4 DEF jointStatesVars
<1> QED
  BY <1>1, <1>2, <1>3, <1>4, <1>5, <1>6, <1>7 DEF Adapter

\* A reading that arrives joins the others at the end.
LEMMA PublishShifts ==
  ASSUME JointStatesTypeOK, Publish, history' # history
  PROVE  \E k \in {0, 1} :
           /\ Len(history') = Len(history) + 1 - k
           /\ \A i \in 1..Len(history') :
                \/ i + k = Len(history) + 1 /\ history'[i] = clock + 1
                \/ i + k \in 1..Len(history) /\ history'[i] = history[i + k]
<1>1. /\ history \in Seq(Stamps) /\ Len(history) <= Depth /\ clock + 1 \in Stamps
      /\ Len(history) \in Nat
  BY JointStatesAssumption DEF JointStatesTypeOK, Publish, Stamps, JointStatesAssumption
<1>2. history' = KeepLast(Append(history, clock + 1))
  BY DEF Publish
<1> DEFINE h == KeepLast(Append(history, clock + 1))
<1>3. \E k \in {0, 1} :
        /\ Len(h) = Len(history) + 1 - k
        /\ \A i \in 1..Len(h) :
             h[i] = IF i + k = Len(history) + 1 THEN clock + 1 ELSE history[i + k]
  <2> HIDE DEF KeepLast
  <2> QED
    BY <1>1, KeepLastShifts
<1> HIDE DEF h
<1>4. PICK k \in {0, 1} :
        /\ Len(h) = Len(history) + 1 - k
        /\ \A i \in 1..Len(h) :
             h[i] = IF i + k = Len(history) + 1 THEN clock + 1 ELSE history[i + k]
  BY <1>3
<1>5. \A i \in 1..Len(h) :
        \/ i + k = Len(history) + 1 /\ h[i] = clock + 1
        \/ i + k \in 1..Len(history) /\ h[i] = history[i + k]
  BY <1>1, <1>4
<1> QED
  BY <1>2, <1>4, <1>5 DEF h

\* What is newer than everything waiting stays so: readings only get newer.
LEMMA AdapterNewer ==
  ASSUME JointStatesTypeOK, Adapter, NEW b \in Nat, b <= clock, Newer(history, b)
  PROVE  Newer(history', b) /\ b <= clock'
<1> USE JointStatesAssumption DEF JointStatesAssumption, JointStatesTypeOK, Stamps, NoState, Newer
<1>1. CASE Publish
  <2>1. clock + 1 \in Stamps /\ b < clock + 1 /\ b <= clock'
    BY <1>1 DEF Publish
  <2>2. CASE history' # history
    <3>1. PICK k \in {0, 1} : \A i \in 1..Len(history') :
            \/ i + k = Len(history) + 1 /\ history'[i] = clock + 1
            \/ i + k \in 1..Len(history) /\ history'[i] = history[i + k]
      BY <1>1, <2>2, PublishShifts
    <3> QED
      BY <2>1, <3>1
  <2> QED
    BY <1>1, <2>1, <2>2 DEF Publish
<1>2. CASE SpinOnce
  <2>1. /\ Len(Tail(history)) = Len(history) - 1 /\ Len(history) \in Nat
        /\ \A i \in 1..Len(Tail(history)) : Tail(history)[i] = history[i + 1]
    BY <1>2, TailShifts DEF SpinOnce
  <2> QED
    BY <1>2, <2>1 DEF SpinOnce
<1>3. CASE BeginRead \/ StartRecording \/ StopRecording \/ Close
  BY <1>3 DEF BeginRead, StartRecording, StopRecording, Close
<1>4. CASE UNCHANGED jointStatesVars
  BY <1>4 DEF jointStatesVars
<1> QED
  BY <1>1, <1>2, <1>3, <1>4 DEF Adapter

\* A recording, and the state last received, grow from what was waiting.
LEMMA AdapterTakesNewer ==
  ASSUME JointStatesTypeOK, Adapter, NEW b \in Nat, Newer(history, b)
  PROVE  /\ latest' \in {latest, NoState} \/ b < latest'
         /\ Newer(recorded, b) => Newer(recorded', b)
<1> USE JointStatesAssumption DEF JointStatesAssumption, JointStatesTypeOK, Stamps, NoState, Newer
<1>1. CASE SpinOnce
  <2>1. Head(history) = history[1] /\ Len(history) \in Nat \ {0} /\ Head(history) \in Stamps
    BY <1>1, TailShifts DEF SpinOnce
  <2>2. b < Head(history)
    BY <2>1
  <2>3. CASE recorded' = Append(recorded, Head(history))
    <3>1. \A i \in 1..Len(recorded') :
            recorded'[i] = IF i = Len(recorded) + 1 THEN Head(history) ELSE recorded[i]
      BY <2>1, <2>3
    <3>2. Len(recorded') = Len(recorded) + 1 /\ Len(recorded) \in Nat
      BY <2>3
    <3>3. ASSUME Newer(recorded, b) PROVE Newer(recorded', b)
      <4>1. ASSUME NEW i \in 1..Len(recorded') PROVE b < recorded'[i]
        <5>1. CASE i = Len(recorded) + 1
          BY <2>2, <3>1, <5>1
        <5>2. CASE i # Len(recorded) + 1
          <6>1. i \in 1..Len(recorded)
            BY <3>2, <5>2
          <6>2. recorded'[i] = recorded[i]
            BY <3>1, <5>2
          <6> QED
            BY <3>3, <6>1, <6>2
        <5> QED
          BY <5>1, <5>2
      <4> QED
        BY <4>1
    <3>4. latest' = Head(history)
      BY <1>1 DEF SpinOnce, Record
    <3> QED
      BY <2>2, <3>3, <3>4
  <2> QED
    BY <1>1, <2>2, <2>3 DEF SpinOnce, Record
<1>2. CASE Publish \/ BeginRead \/ StartRecording \/ StopRecording \/ Close
  BY <1>2 DEF Publish, BeginRead, StartRecording, StopRecording, Close
<1>3. CASE UNCHANGED jointStatesVars
  BY <1>3 DEF jointStatesVars
<1> QED
  BY <1>1, <1>2, <1>3 DEF Adapter

\* What waits stays in order, and newer than what was delivered.
LEMMA AdapterHistory == JointStatesTypeOK /\ HistoryInv /\ Adapter => HistoryInv'
<1> SUFFICES ASSUME JointStatesTypeOK, HistoryInv, Adapter PROVE HistoryInv'
  OBVIOUS
<1> USE JointStatesAssumption DEF JointStatesAssumption
<1>0. /\ clock \in Nat /\ latest \in Nat /\ history \in Seq(Nat) /\ Len(history) \in Nat
      /\ \A i \in 1..Len(history) : history[i] \in Nat
  BY DEF JointStatesTypeOK, Stamps
<1>1. CASE Publish
  <2>1. /\ clock + 1 \in Stamps /\ clock' = clock + 1 /\ latest' = latest
        /\ history \in Seq(Stamps) /\ Len(history) <= Depth
    BY <1>1 DEF Publish, JointStatesTypeOK, Stamps
  <2>2. CASE history' # history
    <3>2. PICK k \in {0, 1} :
            /\ Len(history') = Len(history) + 1 - k
            /\ \A i \in 1..Len(history') :
                 \/ i + k = Len(history) + 1 /\ history'[i] = clock + 1
                 \/ i + k \in 1..Len(history) /\ history'[i] = history[i + k]
      BY <1>1, <2>2, PublishShifts
    <3>3. \A i \in 1..Len(history) : history[i] <= clock /\ latest < history[i]
      BY DEF HistoryInv, AtMost, Newer
    <3>4. ASSUME NEW i \in 1..Len(history')
          PROVE  history'[i] <= clock + 1 /\ latest < history'[i]
      <4>1. CASE history'[i] = clock + 1
        BY <1>0, <4>1 DEF HistoryInv
      <4>2. CASE i + k \in 1..Len(history) /\ history'[i] = history[i + k]
        <5>1. history[i + k] <= clock /\ latest < history[i + k] /\ history[i + k] \in Nat
          BY <1>0, <3>3, <4>2
        <5> QED
          BY <1>0, <4>2, <5>1
      <4> QED
        BY <3>2, <4>1, <4>2
    <3>5. ASSUME NEW i \in 1..Len(history'), NEW j \in 1..Len(history'), i < j PROVE history'[i] < history'[j]
      <4>1. i + k \in 1..Len(history) /\ history'[i] = history[i + k]
        BY <1>0, <3>2, <3>5
      <4>2. CASE j + k = Len(history) + 1 /\ history'[j] = clock + 1
        BY <1>0, <4>1, <4>2 DEF HistoryInv, AtMost
      <4>3. CASE j + k \in 1..Len(history) /\ history'[j] = history[j + k]
        <5>1. i + k < j + k
          BY <3>5
        <5> QED
          BY <4>1, <4>3, <5>1 DEF HistoryInv, Ordered
      <4> QED
        BY <3>2, <4>2, <4>3
    <3>6. Ordered(history')
      BY <3>5 DEF Ordered
    <3>8. latest' <= clock'
      BY <1>0, <2>1 DEF HistoryInv
    <3> QED
      BY <2>1, <3>4, <3>6, <3>8 DEF HistoryInv, AtMost, Newer
  <2>3. CASE history' = history
    BY <1>0, <2>1, <2>3 DEF HistoryInv, Ordered, AtMost, Newer
  <2> QED
    BY <1>1, <2>2, <2>3 DEF Publish
<1>2. CASE SpinOnce
  <2>1. /\ Head(history) = history[1] /\ Len(history) >= 1
        /\ Len(Tail(history)) = Len(history) - 1
        /\ \A i \in 1..Len(Tail(history)) : Tail(history)[i] = history[i + 1]
    BY <1>0, <1>2, TailShifts DEF SpinOnce
  <2>2. history' = Tail(history) /\ latest' = history[1] /\ clock' = clock
    BY <1>2, <2>1 DEF SpinOnce, Record
  <2>3. \A i \in 1..Len(history') : i + 1 \in 1..Len(history) /\ history'[i] = history[i + 1]
    BY <1>0, <2>1, <2>2
  <2>4. AtMost(history', clock') /\ latest' <= clock'
    BY <1>0, <2>1, <2>2, <2>3 DEF HistoryInv, AtMost
  <2>5. Newer(history', latest')
    BY <1>0, <2>1, <2>2, <2>3 DEF HistoryInv, Ordered, Newer
  <2>6. Ordered(history')
    BY <1>0, <2>1, <2>2, <2>3 DEF HistoryInv, Ordered
  <2> QED
    BY <2>4, <2>5, <2>6 DEF HistoryInv
<1>3. CASE BeginRead
  <2>1. history' = history /\ clock' = clock /\ latest' = 0
    BY <1>3 DEF BeginRead, NoState
  <2>2. \A i \in 1..Len(history) : 0 < history[i]
    BY DEF JointStatesTypeOK, Stamps
  <2> QED
    BY <1>0, <2>1, <2>2 DEF HistoryInv, Ordered, AtMost, Newer
<1>4. CASE StartRecording \/ StopRecording \/ UNCHANGED jointStatesVars
  BY <1>4 DEF StartRecording, StopRecording, jointStatesVars, HistoryInv, Ordered, AtMost, Newer
<1>5. CASE Close
  BY <1>0, <1>5 DEF Close, NoState, HistoryInv, Ordered, AtMost, Newer
<1> QED
  BY <1>1, <1>2, <1>3, <1>4, <1>5 DEF Adapter

\* A recording is in order, and older than what still waits.
LEMMA AdapterRecorded == JointStatesTypeOK /\ HistoryInv /\ RecordedInv /\ Adapter => RecordedInv'
<1> SUFFICES ASSUME JointStatesTypeOK, HistoryInv, RecordedInv, Adapter PROVE RecordedInv'
  OBVIOUS
<1>0. /\ clock \in Nat /\ history \in Seq(Nat) /\ recorded \in Seq(Nat)
      /\ Len(history) \in Nat /\ Len(recorded) \in Nat
      /\ \A i \in 1..Len(recorded) : recorded[i] \in Nat
      /\ \A i \in 1..Len(history) : history[i] \in Nat
  BY JointStatesAssumption DEF JointStatesTypeOK, Stamps, JointStatesAssumption
<1>1. \A i \in 1..Len(recorded) : recorded[i] <= clock' /\ Newer(history', recorded[i])
  BY <1>0, AdapterNewer DEF RecordedInv, AtMost, Before
<1>2. CASE recorded' = recorded
  BY <1>1, <1>2 DEF RecordedInv, AtMost, Before, Ordered
<1>3. CASE recorded' = <<>>
  BY <1>3 DEF RecordedInv, AtMost, Before, Ordered
<1>4. CASE SpinOnce /\ recorded' = Append(recorded, Head(history))
  <2>1. Head(history) = history[1] /\ Len(history) >= 1 /\ clock' = clock
    BY <1>0, <1>4, TailShifts DEF SpinOnce
  <2>2. Len(recorded') = Len(recorded) + 1
    BY <1>0, <1>4, <2>1
  <2>3. \A i \in 1..Len(recorded') :
          \/ i = Len(recorded) + 1 /\ recorded'[i] = history[1]
          \/ i \in 1..Len(recorded) /\ recorded'[i] = recorded[i]
    BY <1>0, <1>4, <2>1
  <2>4. history[1] <= clock' /\ Newer(history', history[1])
    <3>1. latest' = history[1]
      BY <1>4, <2>1 DEF SpinOnce, Record
    <3> QED
      BY <2>1, <3>1, <1>0, AdapterHistory DEF HistoryInv, AtMost
  <2>5. \A i \in 1..Len(recorded) : recorded[i] < history[1]
    BY <1>0, <2>1 DEF RecordedInv, Before, Newer
  <2>6. AtMost(recorded', clock')
    BY <1>1, <2>3, <2>4 DEF AtMost
  <2>7. Before(recorded', history')
    BY <1>1, <2>3, <2>4 DEF Before
  <2>8. ASSUME NEW i \in 1..Len(recorded'), NEW j \in 1..Len(recorded'), i < j
        PROVE  recorded'[i] < recorded'[j]
    <3>1. i \in 1..Len(recorded) /\ recorded'[i] = recorded[i]
      BY <1>0, <2>2, <2>3, <2>8
    <3>2. CASE j = Len(recorded) + 1 /\ recorded'[j] = history[1]
      BY <2>5, <3>1, <3>2
    <3>3. CASE j \in 1..Len(recorded) /\ recorded'[j] = recorded[j]
      BY <2>8, <3>1, <3>3 DEF RecordedInv, Ordered
    <3> QED
      BY <2>3, <3>2, <3>3
  <2>9. Ordered(recorded')
    BY <2>8 DEF Ordered
  <2> QED
    BY <2>6, <2>7, <2>9 DEF RecordedInv
<1> QED
  BY <1>2, <1>3, <1>4 DEF Adapter, Publish, SpinOnce, Record, BeginRead, StartRecording,
     StopRecording, Close, jointStatesVars

-----------------------------------------------------------------------------
(* The steps of a collection, by what they leave alone.                    *)

\* A message is delivered or a reading published, and nothing else happens.
Still == Adapter /\ UNCHANGED <<processVars, armVars, diskVars, outcome>>

\* The process ends without touching a file.
Ends == \E how \in {"planned", "unusable", "refused", "killed"} : Leave(how)

LEMMA NextSplits ==
  Next => \/ Still \/ Ends \/ Invoke \/ ReadState \/ Authorize \/ SendGoal
          \/ HandleAccepted \/ GoalSucceeded \/ StreamSample \/ BeginDiscovery
          \/ Discovered \/ FinalPump \/ TakeRecording \/ OpenRecording
          \/ SaveRecording \/ SaveLast \/ OpenManifest \/ WriteManifest
          \/ ControllerReplies \/ ControllerEnds
<1>1. ReadSpin \/ GoalSpin \/ DiscoverySpin \/ HardwareReads => Still
  BY DEF ReadSpin, ReadSpins, GoalSpin, DiscoverySpin, HardwareReads, Still, Adapter
<1>2. ReadTimesOut \/ ReadIncomplete \/ NoServer \/ BuildFails \/ HandleRejected \/ ReplyTimesOut => Ends
  BY DEF ReadTimesOut, ReadIncomplete, NoServer, BuildFails, HandleRejected, ReplyTimesOut, Ends
<1>3. Refuse \/ DryRun \/ GoalFailed \/ NothingSubscribed \/ NothingRecorded \/ WriteFails \/ Kill => Ends
  BY DEF Refuse, DryRun, GoalFailed, NothingSubscribed, NothingRecorded, WriteFails, Kill, Ends
<1> QED
  BY <1>1, <1>2, <1>3 DEF Next, Collect, Environment

LEMMA NextAdapter == Next => Adapter
<1>1. Still \/ Ends => Adapter
  BY DEF Still, Ends, Leave, Exit, Adapter
<1>2. Invoke \/ SaveRecording \/ Authorize \/ GoalSucceeded => Adapter
  BY DEF Invoke, SaveRecording, Authorize, GoalSucceeded, BeginStream, Adapter
<1>3. ReadState \/ SendGoal \/ HandleAccepted \/ Discovered \/ OpenRecording \/ OpenManifest => Adapter
  BY DEF ReadState, SendGoal, HandleAccepted, Discovered, OpenRecording, OpenManifest, Adapter
<1>4. StreamSample \/ BeginDiscovery \/ FinalPump \/ TakeRecording => Adapter
  BY DEF StreamSample, BeginDiscovery, FinalPump, TakeRecording, Pump, Adapter
<1>5. SaveLast \/ WriteManifest => Adapter
  BY DEF SaveLast, WriteManifest, Exit, Adapter
<1>6. ControllerReplies \/ ControllerEnds => Adapter
  BY DEF ControllerReplies, ControllerEnds, Adapter
<1> QED
  BY NextSplits, <1>1, <1>2, <1>3, <1>4, <1>5, <1>6

\* The stream, however far the collection got.
LEMMA StreamStep ==
  JointStatesTypeOK /\ HistoryInv /\ RecordedInv /\ Next
    => JointStatesTypeOK' /\ HistoryInv' /\ RecordedInv'
BY NextAdapter, AdapterType, AdapterHistory, AdapterRecorded

\* The recording in hand is the one just taken, or none.
LEMMA RowsStep == TypeOK /\ HistoryInv /\ RecordedInv /\ RowsInv /\ Next => RowsInv'
<1> SUFFICES ASSUME TypeOK, HistoryInv, RecordedInv, RowsInv, Next PROVE RowsInv'
  OBVIOUS
<1>0. /\ clock \in Nat /\ JointStatesTypeOK /\ Len(rows) \in Nat
      /\ \A i \in 1..Len(rows) : rows[i] \in Nat
  BY JointStatesAssumption DEF TypeOK, JointStatesTypeOK, Stamps, JointStatesAssumption
<1>1. CASE rows' = rows
  <2>1. \A i \in 1..Len(rows) : Newer(history', rows[i]) /\ rows[i] <= clock'
    BY <1>0, NextAdapter, AdapterNewer DEF RowsInv, AtMost, Before
  <2> QED
    BY <1>1, <2>1 DEF RowsInv, Ordered, AtMost, Before
<1>2. CASE rows' = <<>>
  BY <1>2 DEF RowsInv, Ordered, AtMost, Before
<1>3. CASE TakeRecording
  BY <1>3 DEF TakeRecording, StopRecording, RowsInv, RecordedInv, Ordered, AtMost, Before, Newer
<1>4. TakeRecording \/ rows' = rows \/ rows' = <<>>
  <2>1. CASE Still \/ Ends \/ SaveRecording \/ SaveLast \/ WriteManifest
    BY <2>1 DEF Still, processVars, Ends, Leave, Exit, SaveRecording, SaveLast, WriteManifest
  <2>2. CASE Invoke \/ ReadState \/ Authorize \/ SendGoal \/ HandleAccepted \/ GoalSucceeded
    BY <2>2 DEF Invoke, ReadState, Authorize, SendGoal, HandleAccepted, GoalSucceeded, BeginStream, Goto
  <2>3. CASE StreamSample \/ BeginDiscovery \/ Discovered \/ FinalPump
    BY <2>3 DEF StreamSample, BeginDiscovery, Discovered, FinalPump, Stream, Goto
  <2>4. CASE OpenRecording \/ OpenManifest \/ ControllerReplies \/ ControllerEnds
    BY <2>4 DEF OpenRecording, OpenManifest, ControllerReplies, ControllerEnds, Goto, processVars
  <2> QED
    BY <2>1, <2>2, <2>3, <2>4, NextSplits
<1> QED
  BY <1>1, <1>2, <1>3, <1>4

\* Only the second and third of three repetitions have one before them, and
\* what is written was streamed to its end.
LEMMA StepStep == TypeOK /\ StepInv /\ Next => StepInv'
<1> SUFFICES ASSUME TypeOK, StepInv, Next PROVE StepInv'
  OBVIOUS
<1> USE DEF TypeOK, StepInv
<1>1. CASE Still \/ Ends \/ WriteManifest
  BY <1>1 DEF Still, processVars, Ends, Leave, Exit, WriteManifest
<1>2. CASE Invoke \/ ReadState
  BY <1>2 DEF Invoke, ReadState, Repetitions
<1>3. CASE Authorize \/ GoalSucceeded
  BY <1>3 DEF Authorize, GoalSucceeded, BeginStream
<1>4. CASE SendGoal \/ HandleAccepted \/ OpenManifest
  BY <1>4 DEF SendGoal, HandleAccepted, OpenManifest, Goto
<1>5. CASE StreamSample \/ Discovered
  BY <1>5 DEF StreamSample, Discovered, Stream
<1>6. CASE BeginDiscovery \/ FinalPump
  BY <1>6 DEF BeginDiscovery, FinalPump, Goto
<1>7. CASE TakeRecording
  BY <1>7 DEF TakeRecording
<1>8. CASE OpenRecording
  BY <1>8 DEF OpenRecording, Goto
<1>9. CASE SaveRecording
  BY <1>9 DEF SaveRecording, Repetitions
<1>10. CASE SaveLast
  BY <1>10 DEF SaveLast, Exit
<1>11. CASE ControllerReplies \/ ControllerEnds
  BY <1>11 DEF ControllerReplies, ControllerEnds, processVars
<1> QED
  BY <1>1, <1>2, <1>3, <1>4, <1>5, <1>6, <1>7, <1>8, <1>9, <1>10, <1>11, NextSplits

\* Between the goal that reached the starting pose and the first sample of the
\* repetition, the controller has nothing to do.
LEMMA RestStep == TypeOK /\ StepInv /\ RestInv /\ Next => RestInv'
<1> SUFFICES ASSUME TypeOK, StepInv, RestInv, Next PROVE RestInv'
  OBVIOUS
<1> USE DEF TypeOK, RestInv, Streaming
<1>1. CASE Still
  BY <1>1 DEF Still, processVars, armVars
<1>2. CASE Ends
  BY <1>2 DEF Ends, Leave, Exit, armVars
<1>3. CASE WriteManifest \/ SaveLast
  BY <1>3 DEF WriteManifest, SaveLast, Exit, armVars
<1>4. CASE Invoke \/ ReadState \/ SaveRecording \/ TakeRecording
  BY <1>4 DEF Invoke, ReadState, SaveRecording, TakeRecording, armVars
<1>5. CASE Authorize
  <2>1. pc' = "streaming" /\ index' = index /\ UNCHANGED armVars
    BY <1>5 DEF Authorize, BeginStream
  <2>2. index = 0
    BY <1>5 DEF Authorize, StepInv
  <2> QED
    BY <2>1, <2>2 DEF armVars
<1>6. CASE GoalSucceeded
  BY <1>6 DEF GoalSucceeded, BeginStream, armVars
<1>7. CASE SendGoal
  BY <1>7 DEF SendGoal, Goto
<1>8. CASE HandleAccepted \/ OpenRecording \/ OpenManifest
  BY <1>8 DEF HandleAccepted, OpenRecording, OpenManifest, Goto, armVars
<1>9. CASE StreamSample \/ Discovered
  <2>1. stamped' = stamped + 1 /\ goal' = "none" /\ pc' = "streaming"
    BY <1>9 DEF StreamSample, Discovered, Stream
  <2>2. stamped' # 0
    BY <2>1
  <2> QED
    BY <2>1, <2>2
<1>10. CASE BeginDiscovery \/ FinalPump
  BY <1>10 DEF BeginDiscovery, FinalPump, Goto, armVars
<1>11. CASE ControllerReplies \/ ControllerEnds
  BY <1>11 DEF ControllerReplies, ControllerEnds, processVars
<1> QED
  BY <1>1, <1>2, <1>3, <1>4, <1>5, <1>6, <1>7, <1>8, <1>9, <1>10, <1>11, NextSplits

\* The files of a collection are named apart.
LEMMA PathsDiffer ==
  ASSUME NEW i \in 0..2, NEW j \in 0..2, i # j
  PROVE  RepetitionPath(i, 3) # RepetitionPath(j, 3)
BY DEF RepetitionPath

LEMMA PathInPaths ==
  ASSUME NEW i \in 0..2, NEW repetitions \in Repetitions
  PROVE  RepetitionPath(i, repetitions) \in Paths
BY DEF RepetitionPath, Paths

\* What a repetition leaves on disk.
LEMMA SaveWrites ==
  ASSUME TypeOK, RowsInv, StepInv, Save
  PROVE  /\ disk'[Path].by = attempts /\ disk'[Path].commands = Samples
         /\ disk'[Path].first = rows[1] /\ disk'[Path].last = rows[Len(rows)]
         /\ 0 < rows[1] /\ rows[1] <= rows[Len(rows)] /\ rows[Len(rows)] <= clock
         /\ rows[1] \in Stamps /\ rows[Len(rows)] \in Stamps
         /\ Len(rows) \in Nat \ {0}
         /\ \A path \in Paths \ {Path} : disk'[path] = disk[path]
         /\ disk' \in [Paths -> Recording]
<1>1. Path \in Paths /\ disk \in [Paths -> Recording]
  BY PathInPaths DEF Path, TypeOK
<1>2. rows \in Seq(Stamps) /\ rows # <<>> /\ stamped = Samples /\ pc = "saving"
  BY DEF TypeOK, StepInv, Save
<1>3. Len(rows) \in Nat \ {0}
  BY <1>2, TailShifts
<1>4. 1 \in 1..Len(rows) /\ Len(rows) \in 1..Len(rows)
  BY <1>3
<1>5. rows[1] \in Stamps /\ rows[Len(rows)] \in Stamps
  BY <1>2, <1>4
<1>6. Stamps \subseteq Nat \ {0} /\ Stamps \subseteq 0..MaxStamp
  BY JointStatesAssumption DEF Stamps, JointStatesAssumption
<1>7. rows[1] <= rows[Len(rows)] /\ rows[Len(rows)] <= clock
  <2>0. rows[1] \in Nat /\ rows[Len(rows)] \in Nat
    BY <1>5, <1>6
  <2>1. rows[Len(rows)] <= clock
    BY <1>4 DEF RowsInv, AtMost
  <2>2. CASE Len(rows) = 1
    BY <2>0, <2>1, <2>2
  <2>3. CASE Len(rows) # 1
    <3>1. 1 < Len(rows)
      BY <1>3, <2>3
    <3>2. rows[1] < rows[Len(rows)]
      BY <1>4, <3>1 DEF RowsInv, Ordered
    <3> QED
      BY <2>0, <2>1, <3>2
  <2> QED
    BY <2>2, <2>3
<1> DEFINE recording == [by |-> attempts, commands |-> stamped, first |-> rows[1],
                         last |-> rows[Len(rows)]]
<1>8. recording \in Recording
  BY <1>5, <1>6 DEF Recording, TypeOK
<1>9. disk' = [disk EXCEPT ![Path] = recording]
  BY DEF Save
<1>10. disk'[Path] = recording /\ \A path \in Paths \ {Path} : disk'[path] = disk[path]
  BY <1>1, <1>9
<1>11. disk' \in [Paths -> Recording]
  BY <1>1, <1>8, <1>9
<1>12. /\ recording.by = attempts /\ recording.commands = Samples
       /\ recording.first = rows[1] /\ recording.last = rows[Len(rows)]
  BY <1>2
<1>13. 0 < rows[1]
  <2>1. rows[1] \in Nat \ {0}
    BY <1>5, <1>6
  <2> QED
    BY <2>1
<1> HIDE DEF recording
<1> QED
  BY <1>3, <1>5, <1>7, <1>10, <1>11, <1>12, <1>13

\* Every state is well typed.
LEMMA TypeStep == TypeOK /\ StepInv /\ RowsInv /\ Next => TypeOK'
<1> SUFFICES ASSUME TypeOK, StepInv, RowsInv, Next PROVE TypeOK'
  OBVIOUS
<1>0. JointStatesTypeOK'
  BY NextAdapter, AdapterType DEF TypeOK
<1>a. /\ Samples \in Nat \ {0} /\ MaxAttempts \in Nat
      /\ Unreadable \in Recording /\ 0 \in Attempts
  BY CollectAssumption, JointStatesAssumption
     DEF CollectAssumption, JointStatesAssumption, Unreadable, Recording, Attempts
<1>b. /\ clock \in 0..MaxStamp /\ latest \in 0..MaxStamp /\ recorded \in Seq(Stamps)
  BY DEF TypeOK, JointStatesTypeOK
<1> USE <1>0 DEF TypeOK, Steps, Streaming
<1>1. CASE Still
  BY <1>1 DEF Still, processVars, armVars, diskVars
<1>2. CASE Ends
  BY <1>a, <1>2 DEF Ends, Leave, Exit, armVars, diskVars
<1>3. CASE WriteManifest
  BY <1>a, <1>3 DEF WriteManifest, Exit, armVars
<1>4. CASE Invoke
  <2>1. attempts' \in Attempts
    BY <1>a, <1>4 DEF Invoke, Attempts
  <2> QED
    BY <1>4, <2>1, JointStatesAssumption
       DEF Invoke, armVars, diskVars, Repetitions, JointStatesAssumption
<1>5. CASE ReadState
  BY <1>b, <1>5 DEF ReadState, armVars, diskVars
<1>6. CASE Authorize \/ GoalSucceeded
  BY <1>a, <1>6 DEF Authorize, GoalSucceeded, BeginStream, armVars, diskVars
<1>7. CASE SendGoal \/ HandleAccepted
  BY <1>7 DEF SendGoal, HandleAccepted, Goto, armVars, diskVars
<1>8. CASE StreamSample \/ Discovered
  <2>1. stamped < Samples
    BY <1>8, <1>a DEF StreamSample, Discovered, StepInv
  <2>2. stamped' \in 0..Samples
    BY <1>8, <2>1, <1>a DEF StreamSample, Discovered, Stream
  <2> QED
    BY <1>a, <1>b, <1>8, <2>2 DEF StreamSample, Discovered, Stream, diskVars
<1>9. CASE BeginDiscovery \/ FinalPump
  BY <1>9 DEF BeginDiscovery, FinalPump, Goto, armVars, diskVars
<1>10. CASE TakeRecording
  BY <1>b, <1>10 DEF TakeRecording, armVars, diskVars
<1>11. CASE OpenRecording
  <2>1. disk' \in [Paths -> Recording]
    BY <1>a, <1>11, PathInPaths DEF OpenRecording, Path
  <2> QED
    BY <1>11, <2>1 DEF OpenRecording, Goto, armVars
<1>12. CASE SaveRecording
  <2>1. disk' \in [Paths -> Recording] /\ manifest' = manifest
    BY <1>12, SaveWrites DEF SaveRecording, Save
  <2>2. index' \in 0..2 /\ index' < asked' /\ asked' = asked
    BY <1>12 DEF SaveRecording, Repetitions
  <2>3. rows' \in Seq(Stamps) /\ stamped' \in 0..Samples
    BY <1>a, <1>12 DEF SaveRecording
  <2> QED
    BY <1>12, <2>1, <2>2, <2>3 DEF SaveRecording, armVars
<1>13. CASE SaveLast
  <2>1. disk' \in [Paths -> Recording] /\ manifest' = manifest
    BY <1>13, SaveWrites DEF SaveLast, Save
  <2>2. UNCHANGED <<attempts, asked, index, start, armVars>>
    BY <1>13 DEF SaveLast, Exit
  <2>3. connected' = "no" /\ rows' = <<>> /\ stamped' = 0
    BY <1>13 DEF SaveLast, Exit
  <2>4. pc' \in {"idle", "manifest"} /\ outcome' \in {outcome, "done"}
    BY <1>13 DEF SaveLast, Exit
  <2>5. rows' \in Seq(Stamps) /\ stamped' \in 0..Samples
    BY <1>a, <2>3
  <2> QED
    BY <2>1, <2>2, <2>3, <2>4, <2>5 DEF armVars
<1>14. CASE OpenManifest
  BY <1>a, <1>14 DEF OpenManifest, Goto, armVars
<1>15. CASE ControllerReplies \/ ControllerEnds
  BY <1>a, <1>b, <1>15 DEF ControllerReplies, ControllerEnds, processVars, diskVars
<1> QED
  BY <1>1, <1>2, <1>3, <1>4, <1>5, <1>6, <1>7, <1>8, <1>9, <1>10, <1>11, <1>12, <1>13,
     <1>14, <1>15, NextSplits

Manifesting == pc \in {"manifest", "manifesting"}

\* Which steps touch a recording, or what it is compared with.
LEMMA DiskSplits ==
  Next => \/ /\ UNCHANGED <<disk, attempts, asked, index>>
             /\ Collecting' => Collecting
             /\ Manifesting' => Manifesting
          \/ Invoke \/ OpenRecording \/ SaveRecording \/ SaveLast
<1> USE DEF Collecting, Manifesting
<1>1. ASSUME Still \/ ControllerReplies \/ ControllerEnds
      PROVE  UNCHANGED <<disk, attempts, asked, index, pc>>
  BY <1>1 DEF Still, ControllerReplies, ControllerEnds, processVars, diskVars
<1>2. ASSUME Ends \/ WriteManifest
      PROVE  UNCHANGED <<disk, attempts, asked, index>> /\ pc' = "idle"
  BY <1>2 DEF Ends, Leave, Exit, diskVars, WriteManifest
<1>3. ASSUME ReadState \/ Authorize \/ GoalSucceeded \/ TakeRecording
      PROVE  UNCHANGED <<disk, attempts, asked, index>> /\ Collecting /\ ~Manifesting'
  BY <1>3 DEF ReadState, Authorize, GoalSucceeded, BeginStream, TakeRecording, diskVars
<1>4. ASSUME SendGoal \/ HandleAccepted \/ BeginDiscovery \/ FinalPump
      PROVE  UNCHANGED <<disk, attempts, asked, index>> /\ Collecting /\ ~Manifesting'
  BY <1>4 DEF SendGoal, HandleAccepted, BeginDiscovery, FinalPump, Goto, diskVars
<1>5. ASSUME StreamSample \/ Discovered
      PROVE  UNCHANGED <<disk, attempts, asked, index>> /\ Collecting /\ ~Manifesting'
  BY <1>5 DEF StreamSample, Discovered, Stream, diskVars
<1>6. ASSUME OpenManifest
      PROVE  UNCHANGED <<disk, attempts, asked, index>> /\ Manifesting /\ ~Collecting'
  BY <1>6 DEF OpenManifest, Goto
<1> QED
  BY <1>1, <1>2, <1>3, <1>4, <1>5, <1>6, NextSplits

LEMMA ClockGrows == TypeOK /\ Next => clock \in Nat /\ clock' \in Nat /\ clock <= clock'
<1> SUFFICES ASSUME TypeOK, Next PROVE clock \in Nat /\ clock' \in Nat /\ clock <= clock'
  OBVIOUS
<1>1. clock \in Nat /\ JointStatesTypeOK
  BY JointStatesAssumption DEF TypeOK, JointStatesTypeOK, JointStatesAssumption
<1>2. clock' = clock + 1 \/ clock' = clock
  BY NextAdapter DEF Adapter, Publish, SpinOnce, BeginRead, StartRecording, StopRecording, Close,
     jointStatesVars
<1> QED
  BY <1>1, <1>2

\* The repetitions written so far are whole, and follow one another.
LEMMA DiskStep ==
  TypeOK /\ RowsInv /\ StepInv /\ DiskInv /\ PreviousInv /\ Next => DiskInv'
<1> SUFFICES ASSUME TypeOK, RowsInv, StepInv, DiskInv, PreviousInv, Next PROVE DiskInv'
  OBVIOUS
<1>0. /\ clock \in Nat /\ clock' \in Nat /\ clock <= clock'
      /\ disk \in [Paths -> Recording] /\ index \in 0..2 /\ asked \in {1, 3} /\ index < asked
      /\ \A path \in Paths : disk[path].last \in Nat /\ disk[path].last <= clock
  BY ClockGrows, JointStatesAssumption
     DEF TypeOK, DiskInv, Recording, Repetitions, JointStatesAssumption
<1>1. CASE /\ UNCHANGED <<disk, attempts, asked, index>>
           /\ Collecting' => Collecting
           /\ Manifesting' => Manifesting
  <2>1. \A path \in Paths : disk'[path].last <= clock'
    BY <1>0, <1>1
  <2>2. Collecting' => \A i \in 0..2 : i < index' => WholeFile(i)'
    BY <1>1 DEF DiskInv, WholeFile
  <2>3. Collecting' => \A i \in 1..2 : i < index' => Follows(i)'
    BY <1>1 DEF DiskInv, Follows, LastOf
  <2>4. Manifesting' => WholeRun(attempts)'
    BY <1>1 DEF DiskInv, Manifesting, WholeRun
  <2> QED
    BY <2>1, <2>2, <2>3, <2>4 DEF DiskInv, Manifesting
<1>2. CASE Invoke
  <2>1. disk' = disk /\ index' = 0 /\ pc' = "reading"
    BY <1>2 DEF Invoke, diskVars
  <2>2. \A i \in 0..2 : ~(i < index')
    BY <2>1
  <2>3. \A path \in Paths : disk'[path].last <= clock'
    BY <1>0, <2>1
  <2> QED
    BY <2>1, <2>2, <2>3 DEF DiskInv
<1>3. CASE OpenRecording
  <2>1. /\ disk' = [disk EXCEPT ![Path] = Unreadable] /\ Path \in Paths
        /\ UNCHANGED <<attempts, asked, index>> /\ pc' = "saving" /\ Collecting
    BY <1>0, <1>3, PathInPaths DEF OpenRecording, Goto, Path, Collecting, Repetitions
  <2>2. \A path \in Paths : disk'[path].last <= clock'
    BY <1>0, <2>1 DEF Unreadable
  <2>3. ASSUME NEW i \in 0..2, i < index
        PROVE  disk'[RepetitionPath(i, asked)] = disk[RepetitionPath(i, asked)]
    <3>1. asked = 3 /\ i # index
      BY <1>0, <2>3 DEF StepInv
    <3>2. RepetitionPath(i, asked) \in Paths \ {Path}
      BY <1>0, <3>1, PathsDiffer, PathInPaths DEF Path, Repetitions
    <3> QED
      BY <1>0, <2>1, <3>2
  <2>4. \A i \in 0..2 : i < index' => WholeFile(i)'
    BY <2>1, <2>3 DEF DiskInv, WholeFile
  <2>5. ASSUME NEW i \in 1..2, i < index' PROVE Follows(i)'
    <3>1. i \in 0..2 /\ i - 1 \in 0..2 /\ i < index /\ i - 1 < index
      BY <1>0, <2>1, <2>5
    <3>2. Follows(i)
      BY <2>1, <2>5 DEF DiskInv
    <3> QED
      BY <2>1, <2>3, <3>1, <3>2 DEF Follows, LastOf
  <2> QED
    BY <2>1, <2>2, <2>4, <2>5 DEF DiskInv
<1>4. ASSUME Save
      PROVE  /\ \A path \in Paths : disk'[path].last <= clock'
             /\ \A i \in 0..2 : i <= index =>
                  LET recording == disk'[RepetitionPath(i, asked)] IN
                    /\ recording.by = attempts /\ recording.commands = Samples
                    /\ 0 < recording.first /\ recording.first <= recording.last
             /\ \A i \in 1..2 : i <= index =>
                  disk'[RepetitionPath(i - 1, asked)].last < disk'[RepetitionPath(i, asked)].first
  <2>1. /\ disk'[Path].by = attempts /\ disk'[Path].commands = Samples
        /\ disk'[Path].first = rows[1] /\ disk'[Path].last = rows[Len(rows)]
        /\ 0 < rows[1] /\ rows[1] <= rows[Len(rows)] /\ rows[Len(rows)] <= clock
        /\ Len(rows) \in Nat \ {0}
        /\ \A path \in Paths \ {Path} : disk'[path] = disk[path]
    BY <1>4, SaveWrites
  <2>2. rows[Len(rows)] \in Nat
    BY <1>4, SaveWrites, JointStatesAssumption DEF Stamps, JointStatesAssumption
  <2>3. pc = "saving" /\ Collecting
    BY <1>4 DEF Save, Collecting
  <2>4. ASSUME NEW i \in 0..2, i < index
        PROVE  disk'[RepetitionPath(i, asked)] = disk[RepetitionPath(i, asked)]
    <3>1. asked = 3 /\ i # index
      BY <1>0, <2>4 DEF StepInv
    <3>2. RepetitionPath(i, asked) \in Paths \ {Path}
      BY <1>0, <3>1, PathsDiffer, PathInPaths DEF Path, Repetitions
    <3> QED
      BY <2>1, <3>2
  <2>5. ASSUME NEW path \in Paths PROVE disk'[path].last <= clock'
    <3>1. CASE path = Path
      BY <1>0, <2>1, <2>2, <3>1
    <3>2. CASE path # Path
      BY <1>0, <2>1, <3>2
    <3> QED
      BY <3>1, <3>2
  <2>6. ASSUME NEW i \in 0..2, i <= index
        PROVE  /\ disk'[RepetitionPath(i, asked)].by = attempts
               /\ disk'[RepetitionPath(i, asked)].commands = Samples
               /\ 0 < disk'[RepetitionPath(i, asked)].first
               /\ disk'[RepetitionPath(i, asked)].first <= disk'[RepetitionPath(i, asked)].last
    <3>1. CASE i = index
      BY <2>1, <3>1 DEF Path
    <3>2. CASE i < index
      BY <2>3, <2>4, <3>2 DEF DiskInv, WholeFile
    <3> QED
      BY <1>0, <2>6, <3>1, <3>2
  <2>7. ASSUME NEW i \in 1..2, i <= index
        PROVE  disk'[RepetitionPath(i - 1, asked)].last < disk'[RepetitionPath(i, asked)].first
    <3>1. i \in 0..2 /\ i - 1 \in 0..2 /\ i - 1 < index
      BY <1>0, <2>7
    <3>2. disk'[RepetitionPath(i - 1, asked)].last = disk[RepetitionPath(i - 1, asked)].last
      BY <2>4, <3>1
    <3>3. CASE i = index
      <4>1. 0 < index /\ 1 \in 1..Len(rows)
        BY <1>0, <2>1, <3>3
      <4>2. Newer(rows, LastOf(index - 1))
        BY <2>3, <4>1 DEF PreviousInv
      <4>3. LastOf(index - 1) < rows[1]
        BY <4>1, <4>2 DEF Newer
      <4> QED
        BY <2>1, <3>2, <3>3, <4>3 DEF LastOf, Path
    <3>4. CASE i < index
      <4>1. Follows(i)
        BY <2>3, <3>4 DEF DiskInv
      <4> QED
        BY <2>4, <3>1, <3>2, <3>4, <4>1 DEF Follows, LastOf
    <3> QED
      BY <1>0, <2>7, <3>3, <3>4
  <2> QED
    BY <2>5, <2>6, <2>7
<1>5. CASE SaveRecording
  <2>1. /\ Save /\ UNCHANGED <<attempts, asked>> /\ index' = index + 1 /\ pc' = "reading"
    BY <1>5 DEF SaveRecording
  <2>2. \A i \in 0..2 : i < index' => i <= index
    BY <1>0, <2>1
  <2>3. \A i \in 0..2 : i < index' => WholeFile(i)'
    BY <1>4, <2>1, <2>2 DEF WholeFile
  <2>4. \A i \in 1..2 : i < index' => Follows(i)'
    BY <1>4, <2>1, <2>2 DEF Follows, LastOf
  <2> QED
    BY <1>4, <2>1, <2>3, <2>4 DEF DiskInv
<1>6. CASE SaveLast
  <2>1. /\ Save /\ UNCHANGED <<attempts, asked, index>> /\ index + 1 = asked
        /\ ~Collecting'
        /\ Manifesting' => asked = 3
    BY <1>0, <1>6 DEF SaveLast, Exit, Collecting, Manifesting
  <2>2. ASSUME Manifesting' PROVE WholeRun(attempts)'
    <3>1. asked = 3 /\ index = 2
      BY <1>0, <2>1, <2>2
    <3> QED
      BY <1>4, <2>1, <3>1 DEF WholeRun
  <2> QED
    BY <1>4, <2>1, <2>2 DEF DiskInv, Manifesting
<1> QED
  BY <1>1, <1>2, <1>3, <1>5, <1>6, DiskSplits

\* Whatever is read from here on is newer than the repetition before.
LEMMA PreviousStep ==
  TypeOK /\ RowsInv /\ StepInv /\ DiskInv /\ PreviousInv /\ Next => PreviousInv'
<1> SUFFICES ASSUME TypeOK, RowsInv, StepInv, DiskInv, PreviousInv, Next,
                    index' > 0, Collecting'
             PROVE  /\ Newer(history', LastOf(index - 1)')
                    /\ Newer(rows', LastOf(index - 1)')
                    /\ pc' \in Streaming => Newer(recorded', LastOf(index - 1)')
                    /\ pc' = "reading" => latest' = NoState \/ LastOf(index - 1)' < latest'
                    /\ pc' = "ramp" => LastOf(index - 1)' < start'
  BY DEF PreviousInv
<1> DEFINE b == LastOf(index - 1)
<1>0. /\ clock \in Nat /\ index \in 0..2 /\ asked \in {1, 3} /\ index < asked
      /\ JointStatesTypeOK
      /\ index > 0 => asked = 3
      /\ \A path \in Paths : disk[path].last \in Nat /\ disk[path].last <= clock
  BY JointStatesAssumption
     DEF TypeOK, JointStatesTypeOK, DiskInv, Recording, Repetitions, StepInv, JointStatesAssumption
<1>1. CASE SaveRecording
  <2>1. /\ Save /\ asked' = asked /\ index' = index + 1 /\ pc' = "reading" /\ rows' = <<>>
        /\ history' = history /\ latest' = NoState
    BY <1>1 DEF SaveRecording, BeginRead
  <2>2. LastOf(index - 1)' = disk'[Path].last
    <3>1. index' - 1 = index
      BY <1>0, <2>1
    <3> QED
      BY <2>1, <3>1 DEF LastOf, Path
  <2>3. disk'[Path].last = rows[Len(rows)] /\ Len(rows) \in Nat \ {0}
    BY <2>1, SaveWrites
  <2>4. Newer(history, rows[Len(rows)])
    BY <2>3 DEF RowsInv, Before
  <2>5. \A c : Newer(<<>>, c)
    BY DEF Newer
  <2> QED
    BY <2>1, <2>2, <2>3, <2>4, <2>5 DEF Streaming
<1>2. CASE UNCHANGED <<asked, index>> /\ Collecting /\ LastOf(index - 1)' = b
  <2>1. index > 0 /\ index - 1 \in 0..2 /\ asked = 3
    BY <1>0, <1>2
  <2>2. b \in Nat /\ b <= clock
    BY <1>0, <2>1, PathInPaths DEF LastOf, Repetitions
  <2>3. /\ Newer(history, b) /\ Newer(rows, b)
        /\ pc \in Streaming => Newer(recorded, b)
        /\ pc = "reading" => latest = NoState \/ b < latest
        /\ pc = "ramp" => b < start
    BY <1>2, <2>1 DEF PreviousInv
  <2>3a. PICK c \in Nat : c = b
    BY <2>2
  <2>3b. /\ c <= clock /\ Newer(history, c) /\ Newer(rows, c)
         /\ pc \in Streaming => Newer(recorded, c)
         /\ pc = "reading" => latest = NoState \/ c < latest
         /\ pc = "ramp" => c < start
    BY <2>2, <2>3, <2>3a
  <2>4. Newer(history', c)
    BY <1>0, <2>3b, NextAdapter, AdapterNewer
  <2>5. /\ latest' \in {latest, NoState} \/ c < latest'
        /\ Newer(recorded, c) => Newer(recorded', c)
    BY <1>0, <2>3b, NextAdapter, AdapterTakesNewer
  <2>6. Newer(<<>>, c)
    BY DEF Newer
  <2> DEFINE Result == /\ Newer(rows', c)
                       /\ pc' \in Streaming => Newer(recorded', c)
                       /\ pc' = "reading" => latest' = NoState \/ c < latest'
                       /\ pc' = "ramp" => c < start'
  <2>7. ASSUME Still \/ ControllerReplies \/ ControllerEnds PROVE Result
    <3>1. UNCHANGED processVars
      BY <2>7 DEF Still, ControllerReplies, ControllerEnds
    <3>2. UNCHANGED <<pc, rows, start>>
      BY <3>1 DEF processVars
    <3> QED
      BY <2>3b, <2>5, <3>2
  <2>8. ASSUME ReadState PROVE Result
    BY <2>3b, <2>8 DEF ReadState, Streaming
  <2>9. ASSUME Authorize \/ GoalSucceeded PROVE Result
    BY <2>3b, <2>6, <2>9 DEF Authorize, GoalSucceeded, BeginStream, StartRecording
  <2>10. ASSUME SendGoal \/ HandleAccepted \/ OpenRecording PROVE Result
    BY <2>3b, <2>10 DEF SendGoal, HandleAccepted, OpenRecording, Goto, Streaming
  <2>11. ASSUME StreamSample \/ BeginDiscovery \/ Discovered \/ FinalPump PROVE Result
    <3>1. pc \in Streaming /\ pc' \in Streaming /\ rows' = rows
      BY <2>11 DEF StreamSample, BeginDiscovery, Discovered, FinalPump, Stream, Goto, Streaming
    <3> QED
      BY <2>3b, <2>5, <3>1 DEF Streaming
  <2>12. ASSUME TakeRecording PROVE Result
    BY <2>3b, <2>12 DEF TakeRecording, Streaming
  <2>13. ~(Ends \/ Invoke \/ SaveRecording \/ SaveLast \/ OpenManifest \/ WriteManifest)
    <3>1. ~(Ends \/ OpenManifest \/ WriteManifest \/ SaveLast)
      BY DEF Ends, Leave, Exit, OpenManifest, WriteManifest, SaveLast, Goto, Collecting
    <3>2. ~(Invoke \/ SaveRecording)
      BY <1>0, <1>2, <2>1 DEF Invoke, SaveRecording
    <3> QED
      BY <3>1, <3>2
  <2>14. Result
    BY <2>7, <2>8, <2>9, <2>10, <2>11, <2>12, <2>13, NextSplits
  <2> QED
    BY <1>2, <2>3a, <2>4, <2>14
<1>3. CASE OpenRecording
  <2>1. UNCHANGED <<asked, index>> /\ Collecting /\ disk' = [disk EXCEPT ![Path] = Unreadable]
    BY <1>3 DEF OpenRecording, Goto, Collecting
  <2>2. index > 0 /\ asked = 3 /\ index - 1 \in 0..2 /\ index - 1 # index
    BY <1>0, <2>1
  <2>3. RepetitionPath(index - 1, asked) \in Paths \ {Path}
    BY <1>0, <2>2, PathsDiffer, PathInPaths DEF Path, Repetitions
  <2>4. disk'[RepetitionPath(index - 1, asked)] = disk[RepetitionPath(index - 1, asked)]
    BY <2>1, <2>3 DEF TypeOK
  <2> QED
    BY <1>2, <2>1, <2>4 DEF LastOf
<1>4. CASE Invoke \/ SaveLast
  BY <1>4 DEF Invoke, SaveLast, Exit, Collecting
<1>5. CASE UNCHANGED <<disk, attempts, asked, index>> /\ (Collecting' => Collecting)
  BY <1>2, <1>5 DEF LastOf
<1> QED
  BY <1>1, <1>3, <1>4, <1>5, DiskSplits

-----------------------------------------------------------------------------
(* The theorems.                                                           *)

LEMMA InvInit == Init => Inv
<1> SUFFICES ASSUME Init PROVE Inv
  OBVIOUS
<1>0. /\ Samples \in Nat \ {0} /\ MaxAttempts \in Nat /\ Depth \in Nat \ {0} /\ MaxStamp \in Nat
      /\ Unreadable \in Recording /\ 0 \in Attempts
  BY CollectAssumption, JointStatesAssumption
     DEF CollectAssumption, JointStatesAssumption, Unreadable, Recording, Attempts
<1>1. TypeOK
  BY <1>0 DEF Init, Unsubscribed, TypeOK, JointStatesTypeOK, Steps, Repetitions, NoState
<1>2. HistoryInv /\ RecordedInv /\ RowsInv
  BY DEF Init, Unsubscribed, HistoryInv, RecordedInv, RowsInv, Ordered, AtMost, Newer, Before, NoState
<1>3. DiskInv
  BY DEF Init, DiskInv, Collecting, Unreadable
<1>4. StepInv /\ PreviousInv /\ RestInv
  BY DEF Init, StepInv, PreviousInv, RestInv
<1> QED
  BY <1>1, <1>2, <1>3, <1>4 DEF Inv

LEMMA InvStep == Inv /\ [Next]_vars => Inv'
<1> SUFFICES ASSUME Inv, [Next]_vars PROVE Inv'
  OBVIOUS
<1>1. CASE Next
  BY <1>1, TypeStep, StreamStep, RowsStep, DiskStep, StepStep, PreviousStep, RestStep DEF Inv, TypeOK
<1>2. CASE UNCHANGED vars
  <2> USE <1>2 DEF vars, jointStatesVars, processVars, armVars, diskVars
  <2>1. TypeOK'
    BY DEF Inv, TypeOK, JointStatesTypeOK
  <2>2. HistoryInv' /\ RecordedInv' /\ RowsInv'
    BY DEF Inv, HistoryInv, RecordedInv, RowsInv
  <2>3. DiskInv'
    BY DEF Inv, DiskInv, Collecting, WholeFile, Follows, LastOf, WholeRun
  <2>4. StepInv' /\ RestInv'
    BY DEF Inv, StepInv, RestInv
  <2>5. PreviousInv'
    BY DEF Inv, PreviousInv, Collecting, LastOf
  <2> QED
    BY <2>1, <2>2, <2>3, <2>4, <2>5 DEF Inv
<1> QED
  BY <1>1, <1>2

\* The invariant holds in every state of every collection.
THEOREM Invariance == Spec => []Inv
<1> QED
  BY InvInit, InvStep, PTL DEF Spec

\* Every variable keeps to its type.
THEOREM TypeCorrect == Spec => []TypeOK
<1>1. Inv => TypeOK
  BY DEF Inv
<1> QED
  BY <1>1, Invariance, PTL

\* The pose a return ramp starts from is newer than everything recorded in the
\* repetition before it.
THEOREM ReadsMoveOn == Spec => []RampReadsNewState
<1>1. Inv => RampReadsNewState
  <2> SUFFICES ASSUME Inv, pc = "ramp" PROVE start > LastOf(index - 1)
    BY DEF RampReadsNewState, LastOf
  <2>1. index > 0
    BY DEF Inv, StepInv, TypeOK
  <2>2. LastOf(index - 1) < start
    BY <2>1 DEF Inv, PreviousInv, Collecting
  <2> QED
    BY <2>2
<1> QED
  BY <1>1, Invariance, PTL

\* Every repetition after the first is streamed from the starting pose.
THEOREM RepetitionsAreAlike == Spec => []RepetitionsStartAtNeutral
<1>1. Inv => RepetitionsStartAtNeutral
  BY DEF Inv, RestInv, RepetitionsStartAtNeutral
<1> QED
  BY <1>1, Invariance, PTL

\* The repetitions of a collection are of one experiment (_collect_track_run).
THEOREM RepetitionsAreOfOneExperiment == Spec => []RepetitionsStartAlike
BY ReadsMoveOn, RepetitionsAreAlike, PTL DEF RepetitionsStartAlike

\* A manifest names three whole recordings of the collection that writes it.
THEOREM ManifestIsHonest == Spec => ManifestNamesAWholeRun
<1>1. Inv /\ [Next]_vars => [manifest' \notin {0, manifest} => WholeRun(manifest')]_vars
  <2> SUFFICES ASSUME Inv, Next, manifest' \notin {0, manifest} PROVE WholeRun(manifest')
    OBVIOUS
  <2>1. WriteManifest
    <3>1. CASE Still \/ ControllerReplies \/ ControllerEnds \/ Ends
      BY <3>1 DEF Still, ControllerReplies, ControllerEnds, Ends, Leave, diskVars
    <3>2. CASE Invoke \/ ReadState \/ Authorize \/ GoalSucceeded \/ TakeRecording
      BY <3>2 DEF Invoke, ReadState, Authorize, GoalSucceeded, BeginStream, TakeRecording, diskVars
    <3>3. CASE SendGoal \/ HandleAccepted \/ BeginDiscovery \/ FinalPump
      BY <3>3 DEF SendGoal, HandleAccepted, BeginDiscovery, FinalPump, diskVars
    <3>4. CASE StreamSample \/ Discovered
      BY <3>4 DEF StreamSample, Discovered, Stream, diskVars
    <3>5. CASE OpenRecording \/ SaveRecording \/ SaveLast \/ OpenManifest
      BY <3>5 DEF OpenRecording, SaveRecording, SaveLast, Save, OpenManifest
    <3> QED
      BY <3>1, <3>2, <3>3, <3>4, <3>5, NextSplits
  <2>2. WholeRun(attempts) /\ manifest' = attempts
    BY <2>1 DEF WriteManifest, Inv, DiskInv
  <2> QED
    BY <2>2
<1> QED
  BY <1>1, Invariance, PTL DEF Spec, ManifestNamesAWholeRun
=============================================================================
