--------------------------- MODULE LatestIkWorker ---------------------------
(***************************************************************************)
(* The IK worker of the follow loop (src/robot_control/ik_follow.py,       *)
(* LatestIkWorker): the control thread submits requests and closes the     *)
(* worker, one worker thread takes the newest request, solves it for a     *)
(* batch of candidates outside the lock, and latches the nearest.  Every   *)
(* action is one critical section of the condition's lock.                 *)
(*                                                                         *)
(* A joint configuration is an integer; the code's weighted distance and   *)
(* its lexicographic tie break are the distance and the order of integers. *)
(***************************************************************************)
EXTENDS Integers

CONSTANTS
  None,           \* Python's None
  Configs,        \* joint configurations the solver and the feedback produce
  MaxJump,        \* max_target_jump_rad, or None
  MaxCandidates,  \* max_continuity_attempts
  MaxSubmits      \* bound: number of requests submitted

Requests == 1..MaxSubmits
Request == [sequence : Requests, seed : Int]

ASSUME WorkerAssumption ==
  /\ Configs \subseteq Int
  /\ None \notin Int /\ None \notin Request
  /\ MaxJump \in (Nat \ {0}) \cup {None}
  /\ MaxCandidates \in Nat \ {0}
  /\ MaxSubmits \in Nat

VARIABLES
  pending,    \* _pending: the request waiting for the worker
  sequence,   \* _sequence: number of the newest request
  target,     \* _target: the latched solution
  targetSeq,  \* _target_sequence: the request it solves
  outcome,    \* _timings[n]["outcome"]
  counts,     \* the counters snapshot() reports
  refusal,    \* _continuity_refusal: the request refused last, unless one was accepted since
  closing,    \* _closing
  caller,     \* the control thread: running, joining the worker in close, or past it
  worker,     \* the worker thread: where it is
  request,    \* the request it works on
  tried,      \* candidates kept so far in this batch
  good,       \* eligible solutions
  jumped      \* solutions rejected for discontinuity

vars == <<pending, sequence, target, targetSeq, outcome, counts, refusal,
          closing, caller, worker, request, tried, good, jumped>>

-----------------------------------------------------------------------------
Counters == {"submitted", "succeeded", "failed", "superseded",
             "attempts", "rejected", "retries", "exhausted"}

Abs(x) == IF x < 0 THEN -x ELSE x

\* Mutant: a jump of exactly the limit passes.
Bug_JumpExclusive(solution, seed) == MaxJump # None /\ Abs(solution - seed) > MaxJump

\* A candidate too far from the seed to be followed.
Jump(solution, seed) == MaxJump # None /\ Abs(solution - seed) >= MaxJump

\* min over (cost, solution): the nearest solution, ties broken by value.
Nearer(a, b, seed) ==
  \/ Abs(a - seed) < Abs(b - seed)
  \/ Abs(a - seed) = Abs(b - seed) /\ a <= b
Nearest(a, solutions, seed) ==
  a \in solutions /\ \A b \in solutions : Nearer(a, b, seed)

Inc(field) == [counts EXCEPT ![field] = @ + 1]

\* Mutant: the waiting worker is not woken.
Bug_NotifyNobody == UNCHANGED worker

\* condition.notify(): the worker, if it waits, contends for the lock again.
Notify == worker' = IF worker = "waiting" THEN "idle" ELSE worker

Init ==
  /\ pending = None /\ sequence = 0
  /\ target = None /\ targetSeq = None
  /\ outcome = [n \in Requests |-> "none"]
  /\ counts = [c \in Counters |-> 0]
  /\ refusal = None /\ closing = FALSE
  /\ caller = "running" /\ worker = "idle"
  /\ request = None /\ tried = 0 /\ good = {} /\ jumped = 0

-----------------------------------------------------------------------------
(***************************************************************************)
(* The control thread.                                                     *)
(***************************************************************************)
\* Mutant: the request that a new one pushes out is not counted.
Bug_SubmitForgetsReplaced(seed) ==
  /\ caller = "running" /\ ~closing
  /\ sequence < MaxSubmits
  /\ sequence' = sequence + 1
  /\ pending' = [sequence |-> sequence + 1, seed |-> IF target # None THEN target ELSE seed]
  /\ outcome' = [outcome EXCEPT ![sequence + 1] = "pending"]
  /\ counts' = Inc("submitted")
  /\ Notify
  /\ UNCHANGED <<target, targetSeq, refusal, closing, caller, request, tried, good, jumped>>

\* submit: replaces the pending request.  The seed is the latched solution, or
\* the caller's (measured joints) before there is one.
Submit(seed) ==
  /\ caller = "running" /\ ~closing
  /\ sequence < MaxSubmits
  /\ sequence' = sequence + 1
  /\ pending' = [sequence |-> sequence + 1, seed |-> IF target # None THEN target ELSE seed]
  /\ outcome' = [n \in Requests |->
                   IF n = sequence + 1 THEN "pending"
                   ELSE IF pending # None /\ n = pending.sequence THEN "superseded_before_start"
                   ELSE outcome[n]]
  /\ counts' = [counts EXCEPT !.submitted = @ + 1,
                              !.superseded = IF pending # None THEN @ + 1 ELSE @]
  /\ Notify
  /\ UNCHANGED <<target, targetSeq, refusal, closing, caller, request, tried, good, jumped>>

\* Mutant: the pending request is left behind.
Bug_CloseLeavesPending ==
  /\ caller = "running" /\ ~closing
  /\ closing' = TRUE
  /\ caller' = "joining"
  /\ Notify
  /\ UNCHANGED <<pending, sequence, target, targetSeq, outcome, counts, refusal,
                 request, tried, good, jumped>>

\* close, up to releasing the lock; the caller then joins the thread.
Close ==
  /\ caller = "running" /\ ~closing
  /\ closing' = TRUE
  /\ caller' = "joining"
  /\ pending' = None
  /\ outcome' = IF pending # None
                THEN [outcome EXCEPT ![pending.sequence] = "superseded_on_close"]
                ELSE outcome
  /\ counts' = IF pending # None THEN Inc("superseded") ELSE counts
  /\ Notify
  /\ UNCHANGED <<sequence, target, targetSeq, refusal, request, tried, good, jumped>>

Join ==
  /\ caller = "joining" /\ worker = "exited"
  /\ caller' = "closed"
  /\ UNCHANGED <<pending, sequence, target, targetSeq, outcome, counts, refusal,
                 closing, worker, request, tried, good, jumped>>

-----------------------------------------------------------------------------
(***************************************************************************)
(* The worker thread.                                                      *)
(***************************************************************************)
\* Mutant: the worker waits without looking for a request first.
Bug_WaitUnchecked ==
  /\ worker = "idle" /\ ~closing
  /\ worker' = "waiting"
  /\ UNCHANGED <<pending, sequence, target, targetSeq, outcome, counts, refusal,
                 closing, caller, request, tried, good, jumped>>

\* Nothing to do: condition.wait().
Wait ==
  /\ worker = "idle" /\ pending = None /\ ~closing
  /\ worker' = "waiting"
  /\ UNCHANGED <<pending, sequence, target, targetSeq, outcome, counts, refusal,
                 closing, caller, request, tried, good, jumped>>

Exit ==
  /\ worker = "idle" /\ closing
  /\ worker' = "exited"
  /\ UNCHANGED <<pending, sequence, target, targetSeq, outcome, counts, refusal,
                 closing, caller, request, tried, good, jumped>>

\* Mutant: the request keeps the seed it was submitted with.
Bug_TakeKeepsSeed ==
  /\ worker = "idle" /\ pending # None /\ ~closing
  /\ request' = pending
  /\ pending' = None
  /\ worker' = "solving"
  /\ tried' = 0 /\ good' = {} /\ jumped' = 0
  /\ UNCHANGED <<sequence, target, targetSeq, outcome, counts, refusal, closing, caller>>

\* The request is re-seeded: the target may have been latched after it was
\* submitted.
Take ==
  /\ worker = "idle" /\ pending # None /\ ~closing
  /\ request' = [pending EXCEPT !.seed = IF target # None THEN target ELSE @]
  /\ pending' = None
  /\ worker' = "solving"
  /\ tried' = 0 /\ good' = {} /\ jumped' = 0
  /\ UNCHANGED <<sequence, target, targetSeq, outcome, counts, refusal, closing, caller>>

\* Mutant: closing drops the request in hand, though none is newer.
Bug_OvertakenByClose ==
  /\ worker = "solving" /\ (request.sequence # sequence \/ closing)
  /\ outcome' = [outcome EXCEPT ![request.sequence] = "superseded_after_complete"]
  /\ counts' = [counts EXCEPT !.attempts = @ + 1, !.superseded = @ + 1]
  /\ worker' = "idle"
  /\ request' = None /\ tried' = 0 /\ good' = {} /\ jumped' = 0
  /\ UNCHANGED <<pending, sequence, target, targetSeq, refusal, closing, caller>>

\* A solve came back (None: it raised, timed out, or returned something else
\* than a finite configuration) but a newer request is there: the batch ends.
Overtaken ==
  /\ worker = "solving" /\ request.sequence # sequence
  /\ outcome' = [outcome EXCEPT ![request.sequence] = "superseded_after_complete"]
  /\ counts' = [counts EXCEPT !.attempts = @ + 1, !.superseded = @ + 1]
  /\ worker' = "idle"
  /\ request' = None /\ tried' = 0 /\ good' = {} /\ jumped' = 0
  /\ UNCHANGED <<pending, sequence, target, targetSeq, refusal, closing, caller>>

\* Mutant: a failed or a rejected candidate does not use up the batch.
Bug_ClassifyUncounted(solution) ==
  /\ worker = "solving" /\ request.sequence = sequence
  /\ counts' = Inc("attempts")
  /\ IF solution = None
     THEN UNCHANGED <<good, jumped, tried>>
     ELSE IF Jump(solution, request.seed)
     THEN jumped' = jumped + 1 /\ UNCHANGED <<good, tried>>
     ELSE good' = good \cup {solution} /\ tried' = tried + 1 /\ UNCHANGED jumped
  /\ worker' \in IF tried' < MaxCandidates THEN {"solving", "selecting"} ELSE {"selecting"}
  /\ UNCHANGED <<pending, sequence, target, targetSeq, outcome, refusal, closing, caller, request>>

\* A solve came back in time: classify it, and go on until the batch is full or
\* has used up its latency, which is looked at before every solve but the first.
Classify(solution) ==
  /\ worker = "solving" /\ request.sequence = sequence
  /\ counts' = Inc("attempts")
  /\ tried' = tried + 1
  /\ IF solution = None
     THEN UNCHANGED <<good, jumped>>
     ELSE IF Jump(solution, request.seed)
     THEN jumped' = jumped + 1 /\ UNCHANGED good
     ELSE good' = good \cup {solution} /\ UNCHANGED jumped
  /\ worker' \in IF tried' < MaxCandidates THEN {"solving", "selecting"} ELSE {"selecting"}
  /\ UNCHANGED <<pending, sequence, target, targetSeq, outcome, refusal, closing, caller, request>>

\* The batch's result, under the lock once more.  Whether a newer request came
\* in since the last solve is not asked again.
Select ==
  /\ worker = "selecting"
  /\ LET batch == [counts EXCEPT !.rejected = @ + jumped,
                                 !.retries = IF jumped > 0 THEN @ + tried - 1 ELSE @]
         Finish(field, how) ==
           /\ counts' = [batch EXCEPT ![field] = @ + 1]
           /\ outcome' = [outcome EXCEPT ![request.sequence] = how]
     IN \/ /\ \E best \in good : Nearest(best, good, request.seed) /\ target' = best
           /\ targetSeq' = request.sequence
           /\ refusal' = None
           /\ Finish("succeeded", "accepted")
        \/ /\ good = {} /\ jumped > 0
           /\ refusal' = request.sequence
           /\ Finish("exhausted", "continuity_refused")
           /\ UNCHANGED <<target, targetSeq>>
        \/ /\ good = {} /\ jumped = 0
           /\ Finish("failed", "failed")
           /\ UNCHANGED <<target, targetSeq, refusal>>
  /\ worker' = "idle"
  /\ request' = None /\ tried' = 0 /\ good' = {} /\ jumped' = 0
  /\ UNCHANGED <<pending, sequence, closing, caller>>

-----------------------------------------------------------------------------
Solve == Overtaken \/ \E solution \in Configs \cup {None} : Classify(solution)
WorkerStep == Wait \/ Exit \/ Take \/ Solve \/ Select

Next ==
  \/ \E seed \in Configs : Submit(seed)
  \/ Close
  \/ Join
  \/ WorkerStep

\* The worker thread is scheduled and every solve ends (it has a service
\* timeout); the caller returns from join once the thread is gone.  Nothing
\* obliges the caller to submit or to close.
Fairness == WF_vars(WorkerStep) /\ WF_vars(Join)

Safety == Init /\ [][Next]_vars
Spec == Safety /\ Fairness

-----------------------------------------------------------------------------
(***************************************************************************)
(* Properties.                                                             *)
(***************************************************************************)
Outcomes == {"none", "pending", "superseded_before_start", "superseded_on_close",
             "superseded_after_complete", "accepted", "continuity_refused", "failed"}

\* Every variable keeps its type, and what the worker holds is there exactly
\* while it works on a batch.
TypeOK ==
  /\ pending \in Request \cup {None}
  /\ sequence \in 0..MaxSubmits
  /\ target \in Int \cup {None}
  /\ targetSeq \in Requests \cup {None}
  /\ target = None <=> targetSeq = None
  /\ outcome \in [Requests -> Outcomes]
  /\ counts \in [Counters -> Nat]
  /\ refusal \in Requests \cup {None}
  /\ closing \in BOOLEAN
  /\ caller \in {"running", "joining", "closed"}
  /\ worker \in {"idle", "waiting", "solving", "selecting", "exited"}
  /\ request \in Request \cup {None}
  /\ request # None <=> worker \in {"solving", "selecting"}
  /\ tried \in Nat /\ (worker = "selecting" => tried > 0)
  /\ good \subseteq Int
  /\ jumped \in 0..tried

InHand == {r.sequence : r \in {pending, request} \ {None}}
Held == (IF pending # None THEN 1 ELSE 0) + (IF request # None THEN 1 ELSE 0)

\* The report's "IK requests N: a succeeded, b failed, c superseded" adds up at
\* every instant: each request is counted once, under one outcome, or is the one
\* pending or the one being solved; none is lost and none counted twice when a
\* submission, a solve and close overlap.
RequestsConserved ==
  /\ counts.submitted = sequence
  /\ counts.submitted = counts.succeeded + counts.failed + counts.superseded
                        + counts.exhausted + Held
  /\ {n \in Requests : outcome[n] = "pending"} = InHand

\* The continuity reference is the latched solution: every candidate of a batch
\* starts from, and is compared with, the target the arm is following, even when
\* it was latched after the request had been submitted.
ReferenceIsLatched ==
  (request # None /\ target # None) => request.seed = target

\* With a jump limit, the latched target never moves by as much as the limit in
\* one acceptance ("max_target_jump_rad").
NoBranchJump ==
  [][(MaxJump # None /\ target # None /\ target' # target) =>
        Abs(target' - target) < MaxJump]_vars

\* After close has returned, the worker is gone and every request has its final
\* outcome: no result arrives later and none is left pending.
ClosedMeansSettled ==
  caller = "closed" => /\ worker = "exited"
                       /\ pending = None
                       /\ \A n \in Requests : outcome[n] # "pending"

\* Every request is accounted for, while the worker runs and after it was closed.
RequestsAccounted == RequestsConserved /\ ClosedMeansSettled

\* The detailed worker implements the promise of LatestIk: its lock, thread,
\* batches and counters can be forgotten.
Fate(how) ==
  CASE how = "none" -> "none"
    [] how = "pending" -> "open"
    [] how = "accepted" -> "accepted"
    [] how \in {"failed", "continuity_refused"} -> "unsolved"
    [] OTHER -> "superseded"
Promise == INSTANCE LatestIk WITH
  submitted <- sequence,
  outcome <- [n \in Requests |-> Fate(outcome[n])],
  latched <- IF targetSeq = None THEN 0 ELSE targetSeq,
  accepting <- ~closing
ImplementsLatestIk == Promise!Spec

\* Every request gets its outcome, whether or not newer ones keep coming.
EveryRequestResolves ==
  \A n \in Requests : outcome[n] = "pending" ~> outcome[n] # "pending"

\* close returns: a waiting worker is woken, a solving one ends its batch.
CloseReturns == closing ~> caller = "closed"

\* Neither thread waits for the other for ever: a request gets its answer, close its
\* end.
WorkerProgress == EveryRequestResolves /\ CloseReturns

\* "latest-wins": a solution is latched only for the newest request.  This is
\* NOT what the code does: a request that arrives after the last candidate was
\* classified, and before the batch's result is recorded, does not stop it.
OnlyNewestIsLatched == [][targetSeq' # targetSeq => targetSeq' = sequence]_vars
=============================================================================
