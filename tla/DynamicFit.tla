----------------------------- MODULE DynamicFit -----------------------------
(***************************************************************************)
(* The dynamic fit and its score (src/robot_control/identification.py):    *)
(* which joints keep their gravity column, when the chain is refused, how  *)
(* the static and the dynamic fit are put together, and what makes a       *)
(* held-out run count as predicted.  The regressions are left to the data: *)
(* an arm says, for each joint, what a regression over its tracks returns. *)
(***************************************************************************)
EXTENDS Integers, FiniteSets

CONSTANTS
  Joints,  \* joints of a group
  NaN      \* the value that is not a number

ASSUME DynamicFitAssumption == NaN \notin Int

\* What the tracks of an arm hold of one joint: how far the modelled gravity
\* torque varies, the Coulomb friction, the coefficient of the gravity column with
\* its standard error, those of the other columns, and how far the two routes to the
\* inertia are apart, in percent.
Evidence ==
  [variation : Nat, friction : Nat, coefficient : Int, error : Nat,
   stiffness : Int, damping : Int, gap : Nat]

-----------------------------------------------------------------------------
(* fit_second_order_runs, with a gravity column.  heard says of which      *)
(* joints the static fit measured the Coulomb friction.                    *)

\* A variation the deadband eats does not reach the encoder.
Unheard(arm, heard, j) == heard[j] = "finite" /\ arm[j].variation <= arm[j].friction

\* _gravity_significant: two standard errors below zero.
WrongSign(arm, heard, j) ==
  /\ ~Unheard(arm, heard, j)
  /\ arm[j].coefficient <= 0 /\ arm[j].coefficient < -2 * arm[j].error

\* The joints that keep their column, and so an inertia of their own.
Carries(arm, heard, j) == ~Unheard(arm, heard, j) /\ arm[j].coefficient > 0

Identifiable(arm) == \A j \in Joints : arm[j].stiffness > 0 /\ arm[j].damping >= 0

\* The chain is convicted by a majority of the joints it loads.
ChainDisagrees(arm, heard) ==
  LET wrong == {j \in Joints : WrongSign(arm, heard, j)}
      loaded == wrong \cup {j \in Joints : Carries(arm, heard, j)}
  IN wrong # {} /\ 2 * Cardinality(wrong) > Cardinality(loaded)

Fits(arm, heard) == Identifiable(arm) /\ ~ChainDisagrees(arm, heard)

-----------------------------------------------------------------------------
(* combine.                                                                *)

Gap(arm, heard, j) == IF Carries(arm, heard, j) THEN arm[j].gap ELSE NaN

Disagreement(arm, heard) == [j \in Joints |-> Gap(arm, heard, j)]

\* The worst of them is compared, and none is no number, which is not above any.
\* MAX_INERTIA_DISAGREEMENT is a quarter.
Over(x, limit) == x # NaN /\ x > limit
Under(x, limit) == x # NaN /\ x < limit

\* The largest of numbers with a nan among them is nan.
Bug_Wide(gap) == (\A j \in Joints : gap[j] # NaN) /\ \E j \in Joints : Over(gap[j], 25)

Wide(gap) == \E j \in Joints : Over(gap[j], 25)

-----------------------------------------------------------------------------
(* score_holdout and validate_holdout.  A prediction that runs away has no *)
(* error that is a number.  Errors are in mrad, lags in cycles, the        *)
(* improvement in percent.                                                 *)

\* max(0.0, ...) keeps its first argument against what is not a number.
Bug_Improvement(rmse, baseline) ==
  IF baseline <= 0 THEN 0
  ELSE IF rmse = NaN THEN NaN
  ELSE LET gain == 100 - (100 * rmse) \div baseline IN IF gain > 0 THEN gain ELSE 0

Improvement(rmse, baseline) ==
  IF baseline <= 0 \/ rmse = NaN THEN 0
  ELSE LET gain == 100 - (100 * rmse) \div baseline IN IF gain > 0 THEN gain ELSE 0

\* How well a model did: its error, that of believing the command, the lag found.
Score(rmse, baseline, lag, component) ==
  [openarm |-> IF component = "openarm" THEN rmse ELSE 0,
   tesollo |-> IF component = "tesollo" THEN rmse ELSE 0,
   lag |-> IF rmse = NaN THEN 0 ELSE lag,
   improvement |-> Improvement(rmse, baseline)]

Validated(metrics) ==
  /\ ~Over(metrics.openarm, 30) /\ ~Over(metrics.tesollo, 50)
  /\ ~Over(metrics.lag, 1) /\ ~Under(metrics.improvement, 30)
=============================================================================
