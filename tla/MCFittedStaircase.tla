------------------------- MODULE MCFittedStaircase -------------------------
(***************************************************************************)
(* Joints that follow the torque, stiff or soft, that soften half way,     *)
(* early or late, and one pressed into an obstacle; friction bands of none,*)
(* one, two and more than any seed can cross; poses with no room, with too *)
(* little, with just enough and with plenty.                               *)
(***************************************************************************)
EXTENDS FittedStaircase

Bent(knee, slope) ==
  [t \in -48..48 |-> IF Magnitude(t) <= knee THEN t
                     ELSE (IF t < 0 THEN -1 ELSE 1) * (knee + slope * (Magnitude(t) - knee))]

MCEquilibrium == <<Bent(48, 1), Bent(0, 2), Bent(4, 2), Bent(5, 3), Bent(3, 0)>>
MCBands == {0, 1, 2, 5}
MCRooms == {-1, 3, 6, 9}
MCRatings == {24, 48}
MCLoads == {-20, 4, 49}
MCGravity == {3, 60}
=============================================================================
