----------------------------- MODULE StaticFit -----------------------------
(***************************************************************************)
(* What held poses say of a joint (src/robot_control/identification.py):   *)
(* fit_static_gravity and fit_staircase over integers.  A sweep is a       *)
(* sequence of rounds, a round gives each joint the torque its model asks  *)
(* for, the torque applied and the standing error.  A regression is its    *)
(* normal equations; what is far from dependent counts as separated.       *)
(***************************************************************************)
EXTENDS Integers, Sequences, FiniteSets, FiniteSetsExt

CONSTANT Noise  \* noise_rad, which is given

ASSUME StaticFitAssumption == Noise \in Nat

Size(x) == IF x < 0 THEN -x ELSE x

-----------------------------------------------------------------------------
(* _frozen_rounds: neighbours in the order of their torques.               *)

Applied(sweep, j, n) == sweep[n][j].applied
Error(sweep, j, n) == sweep[n][j].error

Before(sweep, j, m, n) ==
  \/ Applied(sweep, j, m) < Applied(sweep, j, n)
  \/ Applied(sweep, j, m) = Applied(sweep, j, n) /\ m < n

Neighbours(sweep, j, m, n) ==
  /\ Before(sweep, j, m, n)
  /\ ~\E k \in DOMAIN sweep : Before(sweep, j, m, k) /\ Before(sweep, j, k, n)

Span(sweep, j) ==
  LET torques == {Applied(sweep, j, n) : n \in DOMAIN sweep}
  IN Max(torques) - Min(torques)

\* DISTINCT_TORQUE_FRACTION is a twentieth.
Stuck(sweep, j, m, n) ==
  /\ Neighbours(sweep, j, m, n)
  /\ 20 * (Applied(sweep, j, n) - Applied(sweep, j, m)) > Span(sweep, j)
  /\ Size(Error(sweep, j, n) - Error(sweep, j, m)) <= Noise

Frozen(sweep, j) ==
  {n \in DOMAIN sweep : \E m \in DOMAIN sweep : Stuck(sweep, j, m, n) \/ Stuck(sweep, j, n, m)}

-----------------------------------------------------------------------------
(* fit_static_gravity: error = by * model - inverse * applied + constant.  *)

Det(a, b, c, d, e, f, g, h, i) == a * (e * i - f * h) - b * (d * i - f * g) + c * (d * h - e * g)

\* What it finds of one joint, in the order of its checks: the joint is not
\* identified, or its stiffness is, or its torque scale too.
GravityFit(sweeps, j) ==
  LET rows == UNION {{<<s, n>> : n \in DOMAIN sweeps[s] \ Frozen(sweeps[s], j)} : s \in DOMAIN sweeps}
      Row(r) == sweeps[r[1]][r[2]][j]
      Of(f(_)) == LET g(r) == f(Row(r)) IN MapThenSumSet(g, rows)
      x(q) == q.model            y(q) == -q.applied      e(q) == q.error
      xx(q) == x(q) * x(q)       xy(q) == x(q) * y(q)    yy(q) == y(q) * y(q)
      xe(q) == x(q) * e(q)       ye(q) == y(q) * e(q)
      n == Cardinality(rows)
      modelled == \E r \in rows : x(Row(r)) # 0
      fed == \E r \in rows : y(Row(r)) # 0
      separated ==
        IF modelled THEN Det(Of(xx), Of(xy), Of(x), Of(xy), Of(yy), Of(y), Of(x), Of(y), n)
                    ELSE n * Of(yy) - Of(y) * Of(y)
      inverse ==  \* inverse_stiffness, times what is positive
        IF modelled THEN Det(Of(xx), Of(xe), Of(x), Of(xy), Of(ye), Of(y), Of(x), Of(e), n)
                    ELSE n * Of(ye) - Of(y) * Of(e)
  IN IF n < 3 \/ ~fed \/ separated = 0 \/ inverse <= 0 THEN "unidentified"
     ELSE IF modelled THEN "identified" ELSE "unscaled"

-----------------------------------------------------------------------------
(* fit_staircase.                                                          *)

\* _driven_rounds: from the first round with torque on the joint to the last.
Bug_DrivenThroughout(sweep, j) == DOMAIN sweep

Driven(sweep, j) ==
  LET pushed == {n \in DOMAIN sweep : Applied(sweep, j, n) # 0}
  IN IF pushed = {} THEN {} ELSE Min(pushed)..Max(pushed)

\* The rounds up to the first with the largest torque rise; what follows falls.
Varied(sweep, j) == \E m, n \in Driven(sweep, j) : Applied(sweep, j, m) # Applied(sweep, j, n)

Peak(sweep, j) ==
  LET largest == Max({Applied(sweep, j, n) : n \in Driven(sweep, j)})
  IN Min({n \in Driven(sweep, j) : Applied(sweep, j, n) = largest})

BranchOf(sweeps, j, way) ==
  UNION {{<<s, n>> : n \in {m \in Driven(sweeps[s], j) : (m <= Peak(sweeps[s], j)) = (way = "rising")}}
         : s \in {t \in DOMAIN sweeps : Varied(sweeps[t], j)}}

\* The line through a branch: its slope is rise / run, and where it crosses
\* zero torque is foot / (run * points).
Line(sweeps, j, branch) ==
  LET t == [r \in branch |-> sweeps[r[1]][r[2]][j].applied]
      e == [r \in branch |-> sweeps[r[1]][r[2]][j].error]
      n == Cardinality(branch)
      run == n * SumFunction([r \in branch |-> t[r] * t[r]]) - SumFunction(t) * SumFunction(t)
      rise == n * SumFunction([r \in branch |-> t[r] * e[r]]) - SumFunction(t) * SumFunction(e)
  IN [rise |-> rise, run |-> run, points |-> n,
      foot |-> SumFunction(e) * run - rise * SumFunction(t)]

\* The joint gives way to the torque on both branches, and about as much:
\* BRANCH_SLOPE_TOLERANCE is a quarter of the mean slope.
OneSpring(up, down) ==
  /\ up.rise < 0 /\ down.rise < 0
  /\ 8 * Size(up.rise * down.run - down.rise * up.run) <= Size(up.rise * down.run + down.rise * up.run)

StaircaseMeasures(sweeps, j) ==
  LET rising == BranchOf(sweeps, j, "rising")
      falling == BranchOf(sweeps, j, "falling")
      up == Line(sweeps, j, rising)
      down == Line(sweeps, j, falling)
  IN /\ Cardinality(rising) >= 2 /\ Cardinality(falling) >= 2
     /\ up.run > 0 /\ down.run > 0
     /\ OneSpring(up, down)

\* It reports compliance / per as one over the stiffness, and friction / cost as the
\* standing error friction holds, which is Coulomb friction over stiffness.
StaircaseFit(sweeps, j) ==
  LET up == Line(sweeps, j, BranchOf(sweeps, j, "rising"))
      down == Line(sweeps, j, BranchOf(sweeps, j, "falling"))
  IN [compliance |-> -(up.rise * down.run + down.rise * up.run), per |-> 2 * up.run * down.run,
      friction |-> Size(up.foot * down.run * down.points - down.foot * up.run * up.points),
      cost |-> 2 * up.run * up.points * down.run * down.points]

-----------------------------------------------------------------------------
(* A sweep of `pose torque` is told from one of `pose gravity` by what it  *)
(* was driven with (_is_staircase_sweep).                                  *)

IsStaircase(sweep, scaled) ==
  ~scaled /\ \E m, n \in DOMAIN sweep : \E i, j \in DOMAIN sweep[m] :
               Applied(sweep, i, m) # Applied(sweep, j, n)
=============================================================================
