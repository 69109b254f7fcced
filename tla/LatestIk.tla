------------------------------ MODULE LatestIk ------------------------------
(***************************************************************************)
(* What the asynchronous IK worker promises the control loop, without its  *)
(* threads, lock and queue ("latest-wins IK", src/robot_control/           *)
(* ik_follow.py): requests are numbered, at most one request besides the   *)
(* newest is ever unresolved, each is resolved once, only a request that a *)
(* newer one has overtaken (or that closing cut off) is dropped, and the   *)
(* latched solution never goes back to an older request.                   *)
(***************************************************************************)
EXTENDS Naturals

CONSTANT MaxSubmits  \* bound: number of requests submitted

VARIABLES
  submitted,  \* number of requests so far; the newest has this number
  outcome,    \* what became of each
  latched,    \* the request whose solution is latched, 0 before the first
  accepting   \* FALSE from close on

vars == <<submitted, outcome, latched, accepting>>

Requests == 1..MaxSubmits
Open == {n \in Requests : outcome[n] = "open"}

Resolved(ns, how) == [n \in Requests |-> IF n \in ns THEN how ELSE outcome[n]]

-----------------------------------------------------------------------------
Init ==
  /\ submitted = 0
  /\ outcome = [n \in Requests |-> "none"]
  /\ latched = 0
  /\ accepting = TRUE

\* A new request may push out older ones; it leaves at most one of them open.
Submit ==
  /\ accepting
  /\ submitted < MaxSubmits
  /\ submitted' = submitted + 1
  /\ \E dropped \in SUBSET Open :
       /\ \A m, n \in Open \ dropped : m = n
       /\ outcome' = [Resolved(dropped, "superseded") EXCEPT ![submitted + 1] = "open"]
  /\ UNCHANGED <<latched, accepting>>

Accept(n) ==
  /\ n \in Open
  /\ n > latched
  /\ latched' = n
  /\ outcome' = Resolved({n}, "accepted")
  /\ UNCHANGED <<submitted, accepting>>

\* No usable solution: the latched one stays.
Fail(n) ==
  /\ n \in Open
  /\ outcome' = Resolved({n}, "unsolved")
  /\ UNCHANGED <<submitted, latched, accepting>>

Supersede(n) ==
  /\ n \in Open
  /\ n < submitted
  /\ outcome' = Resolved({n}, "superseded")
  /\ UNCHANGED <<submitted, latched, accepting>>

Close ==
  /\ accepting
  /\ accepting' = FALSE
  /\ \E dropped \in SUBSET Open : outcome' = Resolved(dropped, "superseded")
  /\ UNCHANGED <<submitted, latched>>

Next ==
  \/ Submit
  \/ \E n \in Requests : Accept(n) \/ Fail(n) \/ Supersede(n)
  \/ Close

Spec == Init /\ [][Next]_vars
=============================================================================
