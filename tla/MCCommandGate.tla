--------------------------- MODULE MCCommandGate ---------------------------
(***************************************************************************)
(* CommandGate on two joints: an elbow that can be asked for, and measured *)
(* at, poses beyond both of its limits, and a wrist that moves by one tick.*)
(***************************************************************************)
EXTENDS CommandGate

CONSTANTS elbow, wrist

MCJoints == {elbow, wrist}
PerJoint(e, w) == [j \in MCJoints |-> IF j = elbow THEN e ELSE w]

MCLower == PerJoint(-1, 0)
MCUpper == PerJoint(2, 1)
MCVelocity == PerJoint(1, 1)
MCMaxLead == PerJoint(1, 0)
MCEffortLimit == PerJoint(2, 0)
MCPoses == {PerJoint(-3, 0), PerJoint(0, 0), PerJoint(1, 1), PerJoint(4, 1)}
\* As _gate builds it, as a gate without the optional bounds, and without --execute.
MCBuilds == {[execute |-> TRUE, lead |-> TRUE, effort |-> TRUE],
             [execute |-> TRUE, lead |-> FALSE, effort |-> FALSE],
             [execute |-> FALSE, lead |-> TRUE, effort |-> TRUE]}
MCEfforts == {PerJoint(2, 0), PerJoint(3, 0), PerJoint(0, -1)}
MCDurations == {-1, 0, 2}
=============================================================================
