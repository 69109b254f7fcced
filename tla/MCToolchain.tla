---------------------------- MODULE MCToolchain ----------------------------
(***************************************************************************)
(* Two arms of two joints.  The left one has a joint whose load friction   *)
(* hides and one whose two inertias are far apart; the right one is well   *)
(* behaved, or moves towards its load.  Sweeps that identify an arm, that  *)
(* leave its torque scale open, of another robot, of both arms, torn.      *)
(***************************************************************************)
EXTENDS Toolchain

Of(variation, coefficient, gap) ==
  [variation |-> variation, friction |-> 2, coefficient |-> coefficient, error |-> 1,
   stiffness |-> 8, damping |-> 2, gap |-> gap]

Good == [j1 |-> Of(5, 3, 10), j2 |-> Of(5, 3, 20)]
Hidden == [j1 |-> Of(1, -4, 10), j2 |-> Of(5, 3, 40)]
Flipped == [j1 |-> Of(5, -4, 10), j2 |-> Of(5, -1, 20)]

Rows(model, torques, errors) ==
  [n \in DOMAIN torques |->
    [j \in Joints |-> [model |-> model, applied |-> torques[n], error |-> errors[n]]]]

Swept(group, rounds, scaled) ==
  [version |-> 2, robot |-> Robot, sealed |-> TRUE, group |-> group, joints |-> group,
   rounds |-> rounds, scaled |-> scaled]

Pose(group) == Swept(group, Rows(4, <<0, 2, 4>>, <<4, 2, 0>>), TRUE)
Stairs(group, model) ==
  Swept(group, Rows(model, <<0, 2, 4, 6, 4, 2>>, <<9, 7, 5, 3, 4, 6>>), FALSE)

MCSweepsOf ==
  [left |-> <<Pose("left"), Stairs("left", 9)>>,
   right |-> <<Pose("right"), Swept("right", Rows(8, <<0, 4, 8>>, <<8, 4, 0>>), TRUE)>>,
   unscaled |-> <<Stairs("left", 0), Stairs("left", 0)>>,
   mixed |-> <<Pose("left"), Pose("right")>>, single |-> <<Pose("left")>>,
   foreign |-> <<Pose("left"), [Pose("left") EXCEPT !.robot = "other"]>>,
   torn |-> <<Pose("left"), Torn>>]

MCSources == {"earlier", "left", "right", "unscaled", "mixed", "single", "foreign", "torn"}

MCStreamsOf ==
  [even |-> [command |-> <<0, 1, 2, 3>>, measured |-> <<1, 2, 3>>, range |-> 3],
   holed |-> [command |-> <<0, 1, 2, 6>>, measured |-> <<1, 2, 6>>, range |-> 3]]

\* A bundle that an earlier campaign measured the right arm for.
Base(version, right) ==
  Signed([version |-> version, robot |-> Robot, sealed |-> FALSE, timed |-> TRUE, covers |-> TRUE,
          groups |-> [left |-> NoBlock, right |-> right]])

Measured ==
  [robot |-> Robot, group |-> "right",
   stiffness |-> [j1 |-> 8, j2 |-> 6], damping |-> [j1 |-> 2, j2 |-> 2],
   scale |-> [j \in Joints |-> "finite"], coulomb |-> [j \in Joints |-> "nan"],
   gap |-> [j1 |-> 0, j2 |-> 10], sources |-> {"earlier"}, used |-> {}, accepted |-> FALSE]

Given(right, base, left_name, budget, streams) ==
  [arm |-> [left |-> Hidden, right |-> right], base |-> base,
   names |-> [left |-> left_name, right |-> "openarm_right"], spread |-> 50,
   budget |-> budget, streams |-> streams,
   scores |-> {[rmse |-> 5, baseline |-> 40, lag |-> 0], [rmse |-> 35, baseline |-> 40, lag |-> 1],
               [rmse |-> NaN, baseline |-> 40, lag |-> 0]},
   metrics |-> {[openarm |-> 5, tesollo |-> 0, lag |-> 0, improvement |-> NaN], Torn}]

Times(collect, revise, normalize, identify, fit, bundle, validate, export) ==
  [collect |-> collect, revise |-> revise, normalize |-> normalize, identify |-> identify, fit |-> fit,
   bundle |-> bundle, validate |-> validate, export |-> export, die |-> 1]

Again == Times(2, 1, 1, 1, 1, 0, 0, 0)
Judged == Times(2, 0, 1, 1, 1, 1, 1, 0)
Released == Times(1, 0, 1, 1, 2, 2, 1, 1)
Exporting == Times(1, 0, 0, 1, 1, 1, 1, 1)

MCScenarios ==
  [again |-> Given(Good, Base(2, NoBlock), "openarm_left", Again, {"even", "holed"}),
   flipped |-> Given(Flipped, Base(2, NoBlock), "openarm_left", Again, {"even"}),
   judged |-> Given(Good, Base(2, NoBlock), "openarm_left", Judged, {"even"}),
   old |-> Given(Good, Base(1, NoBlock), "openarm_left", Judged, {"even"}),
   released |-> Given(Good, Base(2, Measured), "openarm_left", Released, {"even"}),
   clashing |-> Given(Good, Base(2, Measured), "openarm_right", Exporting, {"even"}),
   unnamed |-> Given(Good, Base(2, NoBlock), NoName, Exporting, {"even"})]

MCRevisions == {"first", "second"}
=============================================================================
