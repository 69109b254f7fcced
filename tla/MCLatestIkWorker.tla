-------------------------- MODULE MCLatestIkWorker --------------------------
(***************************************************************************)
(* LatestIkWorker with three requests, batches of two candidates, and      *)
(* configurations far enough apart for a branch jump.                      *)
(***************************************************************************)
EXTENDS LatestIkWorker
=============================================================================
