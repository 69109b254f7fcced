--------------------------- MODULE MCCollectTrack ---------------------------
(***************************************************************************)
(* Two collections in a row over the same files, each of one or of three   *)
(* repetitions, with a history of two messages.                            *)
(***************************************************************************)
EXTENDS CollectTrack
=============================================================================
