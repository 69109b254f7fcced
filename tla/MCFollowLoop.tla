---------------------------- MODULE MCFollowLoop ----------------------------
(***************************************************************************)
(* FollowLoop on two joints: an elbow whose IK targets lie on both sides   *)
(* of its command, one of them beyond its upper limit, and a wrist that    *)
(* may not move away from where it is measured.                            *)
(***************************************************************************)
EXTENDS FollowLoop

CONSTANTS elbow, wrist

MCJoints == {elbow, wrist}
PerJoint(e, w) == [j \in MCJoints |-> IF j = elbow THEN e ELSE w]

MCLower == PerJoint(-2, 0)
MCUpper == PerJoint(2, 1)
MCVelocity == PerJoint(2, 1)
MCMaxLead == PerJoint(3, 0)
MCConfigs == {PerJoint(0, 0), PerJoint(1, 0), PerJoint(3, 1)}
MCElapsed == {1}
=============================================================================
