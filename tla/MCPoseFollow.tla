---------------------------- MODULE MCPoseFollow ----------------------------
(***************************************************************************)
(* A session with every choice of arguments, and Ctrl-C pressed once.      *)
(***************************************************************************)
EXTENDS PoseFollow
=============================================================================
