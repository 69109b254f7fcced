---------------------------- MODULE MCPoseMoves ----------------------------
(***************************************************************************)
(* Arms that land where they are sent, that droop by the half or by three  *)
(* quarters, that are stopped on the way and that give way beyond a point. *)
(* Arms found lying, at work, resting on a stop and beyond it.             *)
(***************************************************************************)
EXTENDS PoseMoves

Arm(E(_), W(_)) == [elbow |-> [x \in 0..32 |-> E(x)], wrist |-> [x \in -4..4 |-> W(x)]]
Exact(x) == x
Half(x) == x \div 2
Quarter(x) == x \div 4
Stopped(x) == IF x < 6 THEN x ELSE 6
DroopsToAStop(x) == IF x < 18 THEN x \div 2 ELSE 9
GivesWay(x) == IF x < 12 THEN x - 3 ELSE 3

MCLower == [elbow |-> 0, wrist |-> -4]
MCUpper == [elbow |-> 32, wrist |-> 4]
MCVelocity == [elbow |-> 4, wrist |-> 2]
MCNameLists == {<<"left">>, <<"right">>, <<"left", "right">>}
MCMeasured == {[elbow |-> 0, wrist |-> 0], [elbow |-> -1, wrist |-> -4],
               [elbow |-> 12, wrist |-> 1], [elbow |-> -3, wrist |-> 0],
               [elbow |-> 8, wrist |-> 2]}
MCAsked == {[elbow |-> 12, wrist |-> 0], [elbow |-> 9, wrist |-> 2],
            [elbow |-> 8, wrist |-> 0], [elbow |-> 40, wrist |-> 0]}
MCLandings == {Arm(Exact, Exact), Arm(Half, Exact), Arm(Quarter, Half),
               Arm(Stopped, Exact), Arm(DroopsToAStop, Exact),
               Arm(GivesWay, Exact)}
=============================================================================
