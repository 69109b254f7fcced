------------------------ MODULE LatestIkWorkerProofs ------------------------
(***************************************************************************)
(* Proofs about the IK worker, for any set of configurations, any jump     *)
(* limit, batch size and number of requests.                               *)
(*                                                                         *)
(* Typing comes first.  Everything else rests on the order in which the    *)
(* requests are held: the pending one is the newest, the one in hand is    *)
(* older, and the latched one older still (InOrder).                       *)
(***************************************************************************)
EXTENDS LatestIkWorker, TLAPS

\* The pending request is the newest, the one in hand precedes it, and the
\* latched solution is older than both.
InOrder ==
  /\ pending # None => pending.sequence = sequence
  /\ request # None => request.sequence <= sequence
  /\ (request # None /\ pending # None) => request.sequence < sequence
  /\ targetSeq # None => targetSeq <= sequence
  /\ (targetSeq # None /\ pending # None) => targetSeq < sequence
  /\ (targetSeq # None /\ request # None) => targetSeq < request.sequence

\* Every eligible candidate is within the jump limit of the seed.
GoodIsNear ==
  (request # None /\ MaxJump # None) =>
    \A g \in good : Abs(g - request.seed) < MaxJump

\* close resolves the pending request before the thread may leave.
ClosingInOrder ==
  /\ closing => pending = None
  /\ caller # "running" => closing
  /\ worker = "exited" => closing
  /\ caller = "closed" => worker = "exited"

IkInv == TypeOK /\ InOrder /\ RequestsConserved /\ ReferenceIsLatched /\ GoodIsNear /\ ClosingInOrder

-----------------------------------------------------------------------------
\* A counter set to a number, and two of them, leave the counters numbers.
LEMMA CountsType ==
  \A c \in [Counters -> Nat], f, g \in Counters, k, l \in Nat :
    /\ c[f] \in Nat
    /\ [c EXCEPT ![f] = k] \in [Counters -> Nat]
    /\ [c EXCEPT ![f] = k, ![g] = l] \in [Counters -> Nat]
  OBVIOUS

\* Every action of the worker and of its caller keeps the types.
LEMMA TypeStep == TypeOK /\ [Next]_vars => TypeOK'
<1> SUFFICES ASSUME TypeOK, [Next]_vars PROVE TypeOK'
  OBVIOUS
<1> USE WorkerAssumption
<1>1. ASSUME NEW seed \in Configs, Submit(seed) PROVE TypeOK'
  <2>1. sequence + 1 \in Requests
    BY <1>1 DEF Submit, TypeOK, Requests
  <2>2. pending' \in Request
    BY <1>1, <2>1 DEF Submit, TypeOK, Request
  <2>3. outcome' \in [Requests -> Outcomes]
    BY <1>1 DEF Submit, TypeOK, Outcomes
  <2>5. counts' \in [Counters -> Nat]
    <3>1. counts \in [Counters -> Nat]
      BY DEF TypeOK
    <3>2. PICK k \in {counts.superseded, counts.superseded + 1} :
             counts' = [counts EXCEPT !.submitted = @ + 1, !.superseded = k]
      BY <1>1 DEF Submit
    <3>3. {"submitted", "superseded"} \subseteq Counters
      BY DEF Counters
    <3>4. counts.submitted + 1 \in Nat /\ k \in Nat
      BY <3>1, <3>3
    <3> QED
      BY <3>1, <3>2, <3>3, <3>4, CountsType
  <2>6. worker' \in {"idle", "waiting", "solving", "selecting", "exited"}
        /\ (worker' \in {"solving", "selecting"} <=> worker \in {"solving", "selecting"})
        /\ (worker' = "selecting" <=> worker = "selecting")
    BY <1>1 DEF Submit, TypeOK, Notify
  <2> QED
    BY <1>1, <2>1, <2>2, <2>3, <2>5, <2>6 DEF Submit, TypeOK, Requests
<1>2. ASSUME Close PROVE TypeOK'
  <2>1. outcome' \in [Requests -> Outcomes]
    BY <1>2 DEF Close, TypeOK, Outcomes
  <2>2. counts' \in [Counters -> Nat]
    BY <1>2 DEF Close, TypeOK, Inc, Counters
  <2>3. worker' \in {"idle", "waiting", "solving", "selecting", "exited"}
        /\ (worker' \in {"solving", "selecting"} <=> worker \in {"solving", "selecting"})
        /\ (worker' = "selecting" <=> worker = "selecting")
    BY <1>2 DEF Close, TypeOK, Notify
  <2> QED
    BY <1>2, <2>1, <2>2, <2>3 DEF Close, TypeOK
<1>3. CASE Join
  BY <1>3 DEF Join, TypeOK
<1>4. CASE Wait
  BY <1>4 DEF Wait, TypeOK
<1>5. CASE Exit
  BY <1>5 DEF Exit, TypeOK
<1>6. CASE Take
  <2>1. request' \in Request
    BY <1>6 DEF Take, TypeOK, Request
  <2> QED
    BY <1>6, <2>1 DEF Take, TypeOK
<1>7. CASE Overtaken
  <2>1. request \in Request
    BY <1>7 DEF Overtaken, TypeOK
  <2>2. outcome' \in [Requests -> Outcomes]
    BY <1>7, <2>1 DEF Overtaken, TypeOK, Outcomes
  <2>3. counts' \in [Counters -> Nat]
    <3>1. counts \in [Counters -> Nat] /\ {"attempts", "superseded"} \subseteq Counters
      BY DEF TypeOK, Counters
    <3>2. counts' = [counts EXCEPT !["attempts"] = counts["attempts"] + 1,
                                   !["superseded"] = counts["superseded"] + 1]
      BY <1>7 DEF Overtaken
    <3>3. counts["attempts"] + 1 \in Nat /\ counts["superseded"] + 1 \in Nat
      BY <3>1, CountsType
    <3> QED
      BY <3>1, <3>2, <3>3, CountsType
  <2> QED
    BY <1>7, <2>2, <2>3 DEF Overtaken, TypeOK
<1>8. ASSUME NEW solution \in Configs \cup {None}, Classify(solution) PROVE TypeOK'
  <2>1. tried' \in Nat /\ tried' = tried + 1 /\ tried' > 0
    BY <1>8 DEF Classify, TypeOK
  <2>2. good' \subseteq Int /\ jumped' \in 0..tried'
    <3>1. \/ good' = good /\ jumped' = jumped
          \/ good' = good /\ jumped' = jumped + 1
          \/ good' = good \cup {solution} /\ jumped' = jumped /\ solution # None
      BY <1>8 DEF Classify
    <3>2. good \subseteq Int /\ tried \in Nat /\ jumped \in 0..tried
      BY DEF TypeOK
    <3>3. jumped' \in 0..tried'
      BY <3>1, <3>2, <2>1
    <3> QED
      BY <3>1, <3>2, <3>3
  <2>3. counts' \in [Counters -> Nat]
    <3>1. counts \in [Counters -> Nat] /\ "attempts" \in Counters
      BY DEF TypeOK, Counters
    <3>2. counts' = [counts EXCEPT !["attempts"] = counts["attempts"] + 1]
      BY <1>8 DEF Classify, Inc
    <3>3. counts["attempts"] + 1 \in Nat
      BY <3>1, CountsType
    <3> QED
      BY <3>1, <3>2, <3>3, CountsType
  <2>4. worker' \in {"solving", "selecting"} /\ worker = "solving"
    BY <1>8 DEF Classify
  <2> QED
    BY <1>8, <2>1, <2>2, <2>3, <2>4 DEF Classify, TypeOK
<1>9. CASE Select
  <2>1. request \in Request
    BY <1>9 DEF Select, TypeOK
  <2>2. outcome' \in [Requests -> Outcomes]
    BY <1>9, <2>1 DEF Select, TypeOK, Outcomes
  <2>3. counts' \in [Counters -> Nat]
    <3> DEFINE batch == [counts EXCEPT !.rejected = @ + jumped,
                                       !.retries = IF jumped > 0 THEN @ + tried - 1 ELSE @]
    <3>1. tried \in Nat /\ tried > 0 /\ jumped \in Nat /\ counts \in [Counters -> Nat]
      BY <1>9 DEF Select, TypeOK
    <3>2. {"rejected", "retries", "succeeded", "exhausted", "failed"} \subseteq Counters
      BY DEF Counters
    <3>3. counts.rejected + jumped \in Nat
          /\ (IF jumped > 0 THEN counts.retries + tried - 1 ELSE counts.retries) \in Nat
      BY <3>1, <3>2
    <3>4. batch \in [Counters -> Nat]
      BY <3>1, <3>2, <3>3, CountsType
    <3>5. \E f \in {"succeeded", "exhausted", "failed"} :
             counts' = [batch EXCEPT ![f] = @ + 1]
      BY <1>9 DEF Select
    <3> HIDE DEF batch
    <3> QED
      BY <3>2, <3>4, <3>5, CountsType
  <2>4. /\ target' \in Int \cup {None} /\ targetSeq' \in Requests \cup {None}
        /\ target' = None <=> targetSeq' = None
        /\ refusal' \in Requests \cup {None}
    <3>1. request.sequence \in Requests /\ request.sequence # None
      BY <2>1 DEF Request, Requests
    <3> QED
      BY <1>9, <3>1 DEF Select, TypeOK, Nearest
  <2> QED
    BY <1>9, <2>2, <2>3, <2>4 DEF Select, TypeOK
<1>10. CASE UNCHANGED vars
  BY <1>10 DEF vars, TypeOK
<1> QED
  BY <1>1, <1>2, <1>3, <1>4, <1>5, <1>6, <1>7, <1>8, <1>9, <1>10 DEF Next, WorkerStep, Solve

\* The worker starts well typed.
LEMMA InitTyped == Init => TypeOK
<1> SUFFICES ASSUME Init PROVE TypeOK
  OBVIOUS
<1>1. outcome \in [Requests -> Outcomes] /\ counts \in [Counters -> Nat]
  BY DEF Init, Outcomes
<1>2. sequence \in 0..MaxSubmits /\ jumped \in 0..tried
  BY WorkerAssumption DEF Init
<1>3. request # None <=> worker \in {"solving", "selecting"}
  BY DEF Init
<1> QED
  BY <1>1, <1>2, <1>3 DEF Init, TypeOK

\* Every variable of the worker keeps its type, and the request in hand is there
\* exactly while a batch runs.
THEOREM TypeCorrect == Spec => []TypeOK
  BY InitTyped, TypeStep, PTL DEF Spec, Safety

-----------------------------------------------------------------------------
\* The order of the requests held is kept.
LEMMA OrderStep == TypeOK /\ InOrder /\ [Next]_vars => InOrder'
<1> SUFFICES ASSUME TypeOK, InOrder, [Next]_vars PROVE InOrder'
  OBVIOUS
<1>1. /\ sequence \in Nat
      /\ pending # None => pending.sequence \in Nat
      /\ request # None => request.sequence \in Nat
      /\ targetSeq # None => targetSeq \in Nat
      /\ None \notin Nat
  BY WorkerAssumption DEF TypeOK, Request, Requests
<1>2. ASSUME NEW seed \in Configs, Submit(seed) PROVE InOrder'
  BY <1>1, <1>2 DEF Submit, InOrder
<1>3. CASE Close
  BY <1>3 DEF Close, InOrder
<1>4. CASE Join \/ Wait \/ Exit
  BY <1>4 DEF Join, Wait, Exit, InOrder
<1>5. CASE Take
  BY <1>1, <1>5 DEF Take, InOrder
<1>6. CASE Overtaken
  BY <1>6 DEF Overtaken, InOrder
<1>7. ASSUME NEW solution \in Configs \cup {None}, Classify(solution) PROVE InOrder'
  BY <1>7 DEF Classify, InOrder
<1>8. CASE Select
  <2>1. targetSeq' = request.sequence \/ targetSeq' = targetSeq
    BY <1>8 DEF Select
  <2>2. request # None
    BY <1>8 DEF Select, TypeOK
  <2> QED
    BY <1>1, <1>8, <2>1, <2>2 DEF Select, InOrder
<1>9. CASE UNCHANGED vars
  BY <1>9 DEF vars, InOrder
<1> QED
  BY <1>2, <1>3, <1>4, <1>5, <1>6, <1>7, <1>8, <1>9 DEF Next, WorkerStep, Solve

\* The reference of a batch stays the latched solution: only recording a batch
\* latches, and then no batch is in hand.
LEMMA ReferenceStep ==
  TypeOK /\ ReferenceIsLatched /\ [Next]_vars => ReferenceIsLatched'
<1> SUFFICES ASSUME TypeOK, ReferenceIsLatched, [Next]_vars PROVE ReferenceIsLatched'
  OBVIOUS
<1>1. ASSUME NEW seed \in Configs, Submit(seed) PROVE ReferenceIsLatched'
  BY <1>1 DEF Submit, ReferenceIsLatched
<1>2. CASE Close \/ Join \/ Wait \/ Exit
  BY <1>2 DEF Close, Join, Wait, Exit, ReferenceIsLatched
<1>3. CASE Take
  <2>1. pending \in Request
    BY <1>3 DEF Take, TypeOK
  <2> QED
    BY <1>3, <2>1 DEF Take, ReferenceIsLatched, Request
<1>4. CASE Overtaken
  BY <1>4 DEF Overtaken, ReferenceIsLatched
<1>5. ASSUME NEW solution \in Configs \cup {None}, Classify(solution)
      PROVE ReferenceIsLatched'
  BY <1>5 DEF Classify, ReferenceIsLatched
<1>6. CASE Select
  BY <1>6 DEF Select, ReferenceIsLatched
<1>7. CASE UNCHANGED vars
  BY <1>7 DEF vars, ReferenceIsLatched
<1> QED
  BY <1>1, <1>2, <1>3, <1>4, <1>5, <1>6, <1>7 DEF Next, WorkerStep, Solve

\* Only candidates within the limit become eligible, and a batch starts with none.
LEMMA GoodStep == TypeOK /\ GoodIsNear /\ [Next]_vars => GoodIsNear'
<1> SUFFICES ASSUME TypeOK, GoodIsNear, [Next]_vars PROVE GoodIsNear'
  OBVIOUS
<1>1. ASSUME NEW seed \in Configs, Submit(seed) PROVE GoodIsNear'
  BY <1>1 DEF Submit, GoodIsNear
<1>2. CASE Close \/ Join \/ Wait \/ Exit
  BY <1>2 DEF Close, Join, Wait, Exit, GoodIsNear
<1>3. CASE Take \/ Overtaken \/ Select
  BY <1>3 DEF Take, Overtaken, Select, GoodIsNear
<1>4. ASSUME NEW solution \in Configs \cup {None}, Classify(solution) PROVE GoodIsNear'
  <2> SUFFICES ASSUME MaxJump # None, NEW g \in good'
               PROVE  Abs(g - request.seed) < MaxJump
    BY <1>4 DEF Classify, GoodIsNear
  <2>1. request \in Request /\ request # None
    BY <1>4 DEF Classify, TypeOK
  <2>2. CASE g \in good
    BY <2>1, <2>2 DEF GoodIsNear
  <2>3. CASE g = solution /\ solution # None /\ ~Jump(solution, request.seed)
    <3>1. g \in Int /\ request.seed \in Int /\ MaxJump \in Nat
      BY <2>1, <2>3, WorkerAssumption DEF Request
    <3> QED
      BY <2>3, <3>1 DEF Jump, Abs
  <2> QED
    BY <1>4, <2>2, <2>3 DEF Classify
<1>5. CASE UNCHANGED vars
  BY <1>5 DEF vars, GoodIsNear
<1> QED
  BY <1>1, <1>2, <1>3, <1>4, <1>5 DEF Next, WorkerStep, Solve

\* Closing leaves nothing pending behind, and the thread leaves only after it.
LEMMA ClosingStep == TypeOK /\ ClosingInOrder /\ [Next]_vars => ClosingInOrder'
<1> SUFFICES ASSUME TypeOK, ClosingInOrder, [Next]_vars PROVE ClosingInOrder'
  OBVIOUS
<1>1. ASSUME NEW seed \in Configs, Submit(seed) PROVE ClosingInOrder'
  BY <1>1 DEF Submit, Notify, ClosingInOrder
<1>2. CASE Close
  BY <1>2 DEF Close, Notify, ClosingInOrder
<1>3. CASE Join \/ Wait \/ Exit \/ Take
  BY <1>3 DEF Join, Wait, Exit, Take, ClosingInOrder
<1>4. CASE Overtaken \/ Select
  BY <1>4 DEF Overtaken, Select, ClosingInOrder
<1>5. ASSUME NEW solution \in Configs \cup {None}, Classify(solution) PROVE ClosingInOrder'
  BY <1>5 DEF Classify, ClosingInOrder
<1>6. CASE UNCHANGED vars
  BY <1>6 DEF vars, ClosingInOrder
<1> QED
  BY <1>1, <1>2, <1>3, <1>4, <1>5, <1>6 DEF Next, WorkerStep, Solve

\* The counting part of RequestsConserved, in terms of the counters alone.
Balanced ==
  /\ counts["submitted"] = sequence
  /\ counts["submitted"] = counts["succeeded"] + counts["failed"] + counts["superseded"]
                           + counts["exhausted"] + Held
CountsAreNat ==
  /\ counts["submitted"] \in Nat /\ counts["succeeded"] \in Nat /\ counts["failed"] \in Nat
  /\ counts["superseded"] \in Nat /\ counts["exhausted"] \in Nat

\* The balance is kept when one request more is held, and counted as submitted, ...
LEMMA BalanceSubmitted ==
  ASSUME Balanced, CountsAreNat, CountsAreNat', Held \in Nat, Held' \in Nat,
         sequence' = sequence + 1,
         counts'["submitted"] = counts["submitted"] + 1,
         counts'["succeeded"] = counts["succeeded"],
         counts'["failed"] = counts["failed"],
         counts'["exhausted"] = counts["exhausted"],
         \/ counts'["superseded"] = counts["superseded"] /\ Held' = Held + 1
         \/ counts'["superseded"] = counts["superseded"] + 1 /\ Held' = Held
  PROVE  Balanced'
<1>1. counts'["submitted"] = counts'["succeeded"] + counts'["failed"] + counts'["superseded"]
                             + counts'["exhausted"] + Held'
  BY DEF Balanced, CountsAreNat
<1> QED
  BY <1>1 DEF Balanced

\* ... when one of those held gets an outcome, ...
LEMMA BalanceResolved ==
  ASSUME Balanced, CountsAreNat, CountsAreNat', Held \in Nat, Held' \in Nat,
         sequence' = sequence,
         Held' = Held - 1,
         counts'["submitted"] = counts["submitted"],
         NEW f \in {"succeeded", "failed", "superseded", "exhausted"},
         \A g \in {"succeeded", "failed", "superseded", "exhausted"} :
           counts'[g] = IF g = f THEN counts[g] + 1 ELSE counts[g]
  PROVE  Balanced'
<1>1. counts'["submitted"] = counts'["succeeded"] + counts'["failed"] + counts'["superseded"]
                             + counts'["exhausted"] + Held'
  <2>1. CASE f = "succeeded"
    BY <2>1 DEF Balanced, CountsAreNat
  <2>2. CASE f = "failed"
    BY <2>2 DEF Balanced, CountsAreNat
  <2>3. CASE f = "superseded"
    BY <2>3 DEF Balanced, CountsAreNat
  <2>4. CASE f = "exhausted"
    BY <2>4 DEF Balanced, CountsAreNat
  <2> QED
    BY <2>1, <2>2, <2>3, <2>4
<1> QED
  BY <1>1 DEF Balanced

\* ... and when neither the counters it adds up nor what is held changes.
LEMMA BalanceUnchanged ==
  ASSUME Balanced, sequence' = sequence, Held' = Held,
         counts'["submitted"] = counts["submitted"],
         \A g \in {"succeeded", "failed", "superseded", "exhausted"} : counts'[g] = counts[g]
  PROVE  Balanced'
  BY DEF Balanced

\* Each request stays counted exactly once, and the requests without an outcome
\* stay those held.
LEMMA ConservedStep ==
  TypeOK /\ TypeOK' /\ InOrder /\ RequestsConserved /\ [Next]_vars => RequestsConserved'
<1> SUFFICES ASSUME TypeOK, TypeOK', InOrder, RequestsConserved, [Next]_vars
             PROVE  RequestsConserved'
  OBVIOUS
<1>1. /\ counts \in [Counters -> Nat]
      /\ \A f \in Counters : counts[f] \in Nat
      /\ outcome \in [Requests -> Outcomes]
      /\ sequence \in Nat
      /\ pending # None => pending \in Request /\ pending.sequence \in Requests
      /\ request # None => request \in Request /\ request.sequence \in Requests
      /\ None \notin Request
  BY WorkerAssumption, CountsType DEF TypeOK, Request
<1>0. Held \in Nat /\ Held' \in Nat /\ CountsAreNat'
  BY DEF Held, TypeOK, CountsAreNat, Counters
<1>2. Balanced /\ CountsAreNat
  BY <1>1 DEF RequestsConserved, Balanced, Held, CountsAreNat, Counters
<1>3. \A n \in Requests : outcome[n] = "pending" <=>
        (pending # None /\ n = pending.sequence) \/ (request # None /\ n = request.sequence)
  BY DEF RequestsConserved, InHand
<1>4. ASSUME Balanced',
             \A n \in Requests : outcome'[n] = "pending" <=>
               (pending' # None /\ n = pending'.sequence) \/ (request' # None /\ n = request'.sequence)
      PROVE  RequestsConserved'
  <2>1. /\ pending' # None => pending' \in Request /\ pending'.sequence \in Requests
        /\ request' # None => request' \in Request /\ request'.sequence \in Requests
    BY DEF TypeOK, Request
  <2>2. {n \in Requests : outcome'[n] = "pending"} = InHand'
    BY <1>4, <2>1 DEF InHand
  <2> QED
    BY <1>4, <2>2 DEF RequestsConserved, Balanced
<1>5. ASSUME NEW seed \in Configs, Submit(seed) PROVE RequestsConserved'
  <2>1. pending' # None /\ pending'.sequence = sequence + 1 /\ sequence' = sequence + 1
        /\ request' = request
    <3>1. [sequence |-> sequence + 1, seed |-> IF target # None THEN target ELSE seed] \in Request
      BY <1>1, <1>5, WorkerAssumption DEF Submit, TypeOK, Request, Requests
    <3> QED
      BY <1>1, <1>5, <3>1 DEF Submit
  <2>2. Balanced'
    <3>1. /\ counts'["submitted"] = counts["submitted"] + 1
          /\ counts'["succeeded"] = counts["succeeded"]
          /\ counts'["failed"] = counts["failed"]
          /\ counts'["exhausted"] = counts["exhausted"]
          /\ pending = None => counts'["superseded"] = counts["superseded"]
          /\ pending # None => counts'["superseded"] = counts["superseded"] + 1
      BY <1>1, <1>5 DEF Submit, Counters
    <3>2. Held' = IF pending = None THEN Held + 1 ELSE Held
      BY <2>1 DEF Held
    <3> QED
      BY <1>0, <1>2, <2>1, <3>1, <3>2, BalanceSubmitted
  <2>3. \A n \in Requests : outcome'[n] = "pending" <=>
          n = sequence + 1 \/ (request # None /\ n = request.sequence)
    BY <1>1, <1>3, <1>5 DEF Submit, InOrder
  <2> QED
    BY <1>4, <2>1, <2>2, <2>3
<1>6. CASE Close
  <2>1. pending' = None /\ request' = request /\ sequence' = sequence
    BY <1>6 DEF Close
  <2>2. Balanced'
    <3>1. CASE pending = None
      <4>1. counts' = counts /\ Held' = Held
        BY <1>6, <2>1, <3>1 DEF Close, Held
      <4> QED
        BY <1>2, <2>1, <4>1, BalanceUnchanged
    <3>2. CASE pending # None
      <4>1. /\ counts'["submitted"] = counts["submitted"]
            /\ \A g \in {"succeeded", "failed", "superseded", "exhausted"} :
                  counts'[g] = IF g = "superseded" THEN counts[g] + 1 ELSE counts[g]
        BY <1>1, <1>6, <3>2 DEF Close, Inc, Counters
      <4>2. Held' = Held - 1
        BY <2>1, <3>2 DEF Held
      <4> QED
        BY <1>0, <1>2, <2>1, <4>1, <4>2, BalanceResolved
    <3> QED
      BY <3>1, <3>2
  <2>3. \A n \in Requests : outcome'[n] = "pending" <=> (request # None /\ n = request.sequence)
    BY <1>1, <1>3, <1>6 DEF Close, InOrder
  <2> QED
    BY <1>4, <2>1, <2>2, <2>3
<1>7. CASE Join \/ Wait \/ Exit \/ UNCHANGED vars
  BY <1>2, <1>3, <1>4, <1>7 DEF Join, Wait, Exit, vars, Balanced, Held
<1>8. CASE Take
  <2>1. /\ pending # None /\ request = None /\ pending' = None
        /\ request' # None /\ request'.sequence = pending.sequence
        /\ counts' = counts /\ sequence' = sequence /\ outcome' = outcome
    BY <1>1, <1>8 DEF Take, TypeOK, Request
  <2>2. Held' = Held
    BY <2>1 DEF Held
  <2>3. Balanced'
    BY <1>2, <2>1, <2>2 DEF Balanced
  <2> QED
    BY <1>3, <1>4, <2>1, <2>3
<1>9. CASE Overtaken
  <2>1. /\ request # None /\ request' = None /\ pending' = pending
        /\ sequence' = sequence
    BY <1>9 DEF Overtaken, TypeOK
  <2>2. Balanced'
    <3>1. /\ counts'["submitted"] = counts["submitted"]
          /\ \A g \in {"succeeded", "failed", "superseded", "exhausted"} :
                counts'[g] = IF g = "superseded" THEN counts[g] + 1 ELSE counts[g]
      BY <1>1, <1>9 DEF Overtaken, Counters
    <3>2. Held' = Held - 1
      BY <2>1 DEF Held
    <3> QED
      BY <1>0, <1>2, <2>1, <3>1, <3>2, BalanceResolved
  <2>3. \A n \in Requests : outcome'[n] = "pending" <=> (pending # None /\ n = pending.sequence)
    BY <1>1, <1>3, <1>9, <2>1 DEF Overtaken, InOrder
  <2> QED
    BY <1>4, <2>1, <2>2, <2>3
<1>10. ASSUME NEW solution \in Configs \cup {None}, Classify(solution)
       PROVE  RequestsConserved'
  <2>1. counts' = [counts EXCEPT !["attempts"] = counts["attempts"] + 1]
        /\ UNCHANGED <<pending, request, sequence, outcome>>
    BY <1>10 DEF Classify, Inc
  <2>2. Balanced'
    <3>1. \A f \in Counters \ {"attempts"} : counts'[f] = counts[f]
      BY <1>1, <2>1
    <3>2. {"submitted", "succeeded", "failed", "superseded", "exhausted"}
             \subseteq Counters \ {"attempts"}
      BY DEF Counters
    <3> QED
      BY <1>2, <2>1, <3>1, <3>2 DEF Balanced, Held
  <2> QED
    BY <1>3, <1>4, <2>1, <2>2
<1>11. CASE Select
  <2>1. /\ request # None /\ request' = None /\ pending' = pending
        /\ sequence' = sequence
    BY <1>11 DEF Select, TypeOK
  <2>2. PICK f \in {"succeeded", "exhausted", "failed"},
             how \in {"accepted", "continuity_refused", "failed"} :
          /\ counts' = [[counts EXCEPT !["rejected"] = counts["rejected"] + jumped,
                           !["retries"] = IF jumped > 0 THEN counts["retries"] + tried - 1
                                          ELSE counts["retries"]]
                          EXCEPT ![f] = @ + 1]
          /\ outcome' = [outcome EXCEPT ![request.sequence] = how]
    BY <1>11 DEF Select
  <2>3. Balanced'
    <3>1. \A g \in Counters \ {"rejected", "retries"} :
             counts'[g] = IF g = f THEN counts[g] + 1 ELSE counts[g]
      BY <1>1, <2>2 DEF Counters
    <3>2. {"submitted", "succeeded", "failed", "superseded", "exhausted"}
             \subseteq Counters \ {"rejected", "retries"}
      BY DEF Counters
    <3>3. Held' = Held - 1
      BY <2>1 DEF Held
    <3> QED
      BY <1>0, <1>2, <2>1, <3>1, <3>2, <3>3, BalanceResolved
  <2>4. \A n \in Requests : outcome'[n] = "pending" <=> (pending # None /\ n = pending.sequence)
    BY <1>1, <1>3, <2>1, <2>2 DEF InOrder
  <2> QED
    BY <1>4, <2>1, <2>3, <2>4
<1> QED
  BY <1>5, <1>6, <1>7, <1>8, <1>9, <1>10, <1>11 DEF Next, WorkerStep, Solve

-----------------------------------------------------------------------------
\* The inductive invariant holds at first and is kept.
LEMMA IkInvAlways == Spec => []IkInv
<1>1. Init => IkInv
  <2> SUFFICES ASSUME Init PROVE IkInv
    OBVIOUS
  <2>1. TypeOK
    BY InitTyped
  <2>2. InOrder /\ ReferenceIsLatched /\ GoodIsNear /\ ClosingInOrder
    BY DEF Init, InOrder, ReferenceIsLatched, GoodIsNear, ClosingInOrder
  <2>3. RequestsConserved
    BY DEF Init, RequestsConserved, InHand, Held, Counters
  <2> QED
    BY <2>1, <2>2, <2>3 DEF IkInv
<1>2. IkInv /\ [Next]_vars => IkInv'
  BY TypeStep, OrderStep, ReferenceStep, GoodStep, ClosingStep, ConservedStep DEF IkInv
<1> QED
  BY <1>1, <1>2, PTL DEF Spec, Safety

\* No request is lost or counted twice, whatever the order in which submissions,
\* solves and close overlap.
THEOREM EveryRequestCountedOnce == Spec => []RequestsConserved
<1>1. IkInv => RequestsConserved
  BY DEF IkInv
<1> QED
  BY <1>1, IkInvAlways, PTL

\* The candidates of a batch are compared with the target the arm follows.
THEOREM ReferenceStaysLatched == Spec => []ReferenceIsLatched
<1>1. IkInv => ReferenceIsLatched
  BY DEF IkInv
<1> QED
  BY <1>1, IkInvAlways, PTL

\* Once close has returned no request waits and none will be resolved later.
THEOREM CloseSettlesAll == Spec => []ClosedMeansSettled
<1>1. IkInv => ClosedMeansSettled
  <2> SUFFICES ASSUME IkInv, caller = "closed" PROVE ClosedMeansSettled
    BY DEF ClosedMeansSettled
  <2>1. worker = "exited" /\ pending = None
    BY DEF IkInv, ClosingInOrder
  <2>2. request = None
    BY <2>1 DEF IkInv, TypeOK
  <2> QED
    BY <2>1, <2>2 DEF IkInv, RequestsConserved, InHand, ClosedMeansSettled
<1> QED
  BY <1>1, IkInvAlways, PTL

\* Every request is accounted for, while the worker runs and after close.
THEOREM RequestsAreAccounted == Spec => []RequestsAccounted
BY EveryRequestCountedOnce, CloseSettlesAll, PTL DEF RequestsAccounted

\* With a jump limit the target never moves by the limit or more: the batch's
\* reference is the latched target, and every eligible candidate is near it.
THEOREM NoJumpEver == Spec => NoBranchJump
<1>1. IkInv /\ [Next]_vars =>
        [(MaxJump # None /\ target # None /\ target' # target) =>
            Abs(target' - target) < MaxJump]_vars
  <2> SUFFICES ASSUME IkInv, Next, MaxJump # None, target # None, target' # target
               PROVE  Abs(target' - target) < MaxJump
    OBVIOUS
  <2>1. Select
    BY DEF Next, WorkerStep, Solve, Submit, Close, Join, Wait, Exit, Take, Overtaken, Classify
  <2>2. request # None
    BY <2>1 DEF Select, IkInv, TypeOK
  <2>3. target' \in good
    BY <2>1 DEF Select, Nearest
  <2>4. request.seed = target
    BY <2>2 DEF IkInv, ReferenceIsLatched
  <2> QED
    BY <2>2, <2>3, <2>4 DEF IkInv, GoodIsNear
<1> QED
  BY <1>1, IkInvAlways, PTL DEF Spec, Safety, NoBranchJump

-----------------------------------------------------------------------------
(***************************************************************************)
(* The worker implements LatestIk.                                         *)
(***************************************************************************)
Latched == IF targetSeq = None THEN 0 ELSE targetSeq
Fates == [n \in Requests |-> Fate(outcome[n])]

\* What the promise calls open is what the worker holds.
LEMMA OpenIsHeld ==
  IkInv => /\ Promise!Open = {n \in Requests : outcome[n] = "pending"}
           /\ Promise!Open = InHand
<1>1. \A how \in Outcomes : Fate(how) = "open" <=> how = "pending"
  BY DEF Fate, Outcomes
<1>2. IkInv => Promise!Open = {n \in Requests : outcome[n] = "pending"}
  BY <1>1 DEF IkInv, TypeOK, Promise!Open, Promise!Requests, Requests
<1> QED
  BY <1>2 DEF IkInv, RequestsConserved

\* Submitting drops the pending request, which leaves at most the one in hand.
LEMMA SubmitRefines ==
  ASSUME IkInv, NEW seed \in Configs, Submit(seed) PROVE Promise!Submit
<1> DEFINE dropped == IF pending # None THEN {pending.sequence} ELSE {}
<1>1. Promise!Open = InHand
  BY OpenIsHeld
<1>2. dropped \in SUBSET Promise!Open
  BY <1>1 DEF InHand
<1>3. \A m, n \in Promise!Open \ dropped : m = n
  BY <1>1 DEF InHand
<1>4. Fates' = [Promise!Resolved(dropped, "superseded") EXCEPT ![sequence + 1] = "open"]
  <2>1. /\ outcome' = [n \in Requests |->
                         IF n = sequence + 1 THEN "pending"
                         ELSE IF n \in dropped THEN "superseded_before_start"
                         ELSE outcome[n]]
    BY DEF Submit
  <2>2. Fate("pending") = "open" /\ Fate("superseded_before_start") = "superseded"
    BY DEF Fate
  <2> HIDE DEF dropped
  <2> QED
    BY <2>1, <2>2 DEF Fates, Promise!Resolved, Promise!Requests, Requests
<1>5. ~closing /\ sequence < MaxSubmits /\ sequence' = sequence + 1
      /\ UNCHANGED <<targetSeq, closing>>
  BY DEF Submit
<1> HIDE DEF dropped
<1> QED
  BY <1>2, <1>3, <1>4, <1>5 DEF Promise!Submit, Fates

\* Closing drops the pending request too.
LEMMA CloseRefines ==
  ASSUME IkInv, Close PROVE Promise!Close
<1> DEFINE dropped == IF pending # None THEN {pending.sequence} ELSE {}
<1>1. Promise!Open = InHand
  BY OpenIsHeld
<1>2. dropped \in SUBSET Promise!Open
  BY <1>1 DEF InHand
<1>3. Fates' = Promise!Resolved(dropped, "superseded")
  <2>1. outcome' = [n \in Requests |-> IF n \in dropped THEN "superseded_on_close"
                                       ELSE outcome[n]]
    BY DEF Close, IkInv, TypeOK
  <2>2. Fate("superseded_on_close") = "superseded"
    BY DEF Fate
  <2> HIDE DEF dropped
  <2> QED
    BY <2>1, <2>2 DEF Fates, Promise!Resolved, Promise!Requests, Requests
<1>4. ~closing /\ closing' /\ UNCHANGED <<sequence, targetSeq>>
  BY DEF Close
<1> HIDE DEF dropped
<1> QED
  BY <1>2, <1>3, <1>4 DEF Promise!Close, Fates

\* One outcome recorded for the request in hand is one resolution of the promise.
LEMMA RecordRefines ==
  ASSUME IkInv, request # None,
         NEW how \in Outcomes, outcome' = [outcome EXCEPT ![request.sequence] = how]
  PROVE  /\ request.sequence \in Promise!Open
         /\ Fates' = Promise!Resolved({request.sequence}, Fate(how))
<1>1. request.sequence \in Promise!Open
  BY OpenIsHeld DEF InHand
<1>2. outcome' = [n \in Requests |-> IF n = request.sequence THEN how ELSE outcome[n]]
  BY DEF IkInv, TypeOK
<1> QED
  BY <1>1, <1>2 DEF Fates, Promise!Resolved, Promise!Requests, Requests

\* Ending an overtaken batch supersedes an older request than the newest.
LEMMA OvertakenRefines ==
  ASSUME IkInv, Overtaken PROVE \E n \in Promise!Requests : Promise!Supersede(n)
<1>1. request # None /\ request.sequence \in Requests
  BY WorkerAssumption DEF Overtaken, IkInv, TypeOK, Request
<1>2. outcome' = [outcome EXCEPT ![request.sequence] = "superseded_after_complete"]
  BY DEF Overtaken
<1>3. "superseded_after_complete" \in Outcomes
      /\ Fate("superseded_after_complete") = "superseded"
  BY DEF Fate, Outcomes
<1>4. request.sequence \in Promise!Open
      /\ Fates' = Promise!Resolved({request.sequence}, "superseded")
  BY <1>1, <1>2, <1>3, RecordRefines
<1>5. request.sequence < sequence
  BY <1>1, WorkerAssumption DEF Overtaken, IkInv, InOrder, TypeOK, Requests
<1>6. UNCHANGED <<sequence, targetSeq, closing>>
  BY DEF Overtaken
<1> QED
  BY <1>1, <1>4, <1>5, <1>6 DEF Promise!Supersede, Fates, Promise!Requests, Requests

\* Recording a batch accepts its request, newer than the latched one, or fails it.
LEMMA SelectRefines ==
  ASSUME IkInv, Select
  PROVE  \E n \in Promise!Requests : Promise!Accept(n) \/ Promise!Fail(n)
<1>1. request # None /\ request.sequence \in Requests
  BY WorkerAssumption DEF Select, IkInv, TypeOK, Request
<1>2. UNCHANGED <<sequence, closing>>
  BY DEF Select
<1>3. CASE /\ outcome' = [outcome EXCEPT ![request.sequence] = "accepted"]
           /\ targetSeq' = request.sequence
  <2>1. "accepted" \in Outcomes /\ Fate("accepted") = "accepted"
    BY DEF Fate, Outcomes
  <2>2. request.sequence \in Promise!Open
        /\ Fates' = Promise!Resolved({request.sequence}, "accepted")
    BY <1>1, <1>3, <2>1, RecordRefines
  <2>3. request.sequence > Latched /\ Latched' = request.sequence
    BY <1>1, <1>3, WorkerAssumption DEF IkInv, InOrder, TypeOK, Requests, Latched
  <2> QED
    BY <1>1, <1>2, <2>2, <2>3
    DEF Promise!Accept, Fates, Latched, Promise!Requests, Requests
<1>4. CASE /\ \/ outcome' = [outcome EXCEPT ![request.sequence] = "continuity_refused"]
              \/ outcome' = [outcome EXCEPT ![request.sequence] = "failed"]
           /\ targetSeq' = targetSeq
  <2>1. /\ {"continuity_refused", "failed"} \subseteq Outcomes
        /\ Fate("continuity_refused") = "unsolved" /\ Fate("failed") = "unsolved"
    BY DEF Fate, Outcomes
  <2>2. request.sequence \in Promise!Open
        /\ Fates' = Promise!Resolved({request.sequence}, "unsolved")
    BY <1>1, <1>4, <2>1, RecordRefines
  <2> QED
    BY <1>1, <1>2, <1>4, <2>2
    DEF Promise!Fail, Fates, Promise!Requests, Requests
<1> QED
  BY <1>3, <1>4 DEF Select

\* The worker implements the promise: requests are resolved once, one at most
\* besides the newest is open, none but an overtaken or a closed-off one is
\* dropped, and the latched solution never goes back to an older request.
THEOREM WorkerImplementsPromise == Spec => ImplementsLatestIk
<1>1. Init => Promise!Init
  BY DEF Init, Promise!Init, Promise!Requests, Requests, Fate
<1>2. IkInv /\ [Next]_vars => [Promise!Next]_(Promise!vars)
  <2> SUFFICES ASSUME IkInv, [Next]_vars
               PROVE  [Promise!Next]_(Promise!vars)
    OBVIOUS
  <2>1. ASSUME NEW seed \in Configs, Submit(seed) PROVE Promise!Next
    BY <2>1, SubmitRefines DEF Promise!Next
  <2>2. CASE Close
    BY <2>2, CloseRefines DEF Promise!Next
  <2>3. CASE Overtaken
    BY <2>3, OvertakenRefines DEF Promise!Next
  <2>4. CASE Select
    BY <2>4, SelectRefines DEF Promise!Next
  <2>5. CASE Join \/ Wait \/ Exit \/ Take \/ UNCHANGED vars
    BY <2>5 DEF Join, Wait, Exit, Take, vars, Promise!vars
  <2>6. ASSUME NEW solution \in Configs \cup {None}, Classify(solution)
        PROVE  UNCHANGED Promise!vars
    BY <2>6 DEF Classify, Promise!vars
  <2> QED
    BY <2>1, <2>2, <2>3, <2>4, <2>5, <2>6 DEF Next, WorkerStep, Solve
<1> QED
  BY <1>1, <1>2, IkInvAlways, PTL DEF Spec, Safety, ImplementsLatestIk, Promise!Spec
=============================================================================
