-------------------------- MODULE MCRecordedFollow --------------------------
(***************************************************************************)
(* Sessions that follow a combined profile, whose rotation is the slower   *)
(* part, or two round trips of a translation, with up to as many late      *)
(* cycles as --seconds leave room for.                                     *)
(***************************************************************************)
EXTENDS RecordedFollow

MCMaximum == [distance |-> 4, angle |-> 2, linear |-> 4, angular |-> 1, hold |-> 1, repetitions |-> 2]
MCProfiles ==
  {[kind |-> "combined", distance |-> 4, angle |-> 2, linear |-> 4, angular |-> 1,
    hold |-> 1, repetitions |-> 1],
   [kind |-> "translation", distance |-> 2, angle |-> 1, linear |-> 2, angular |-> 1,
    hold |-> 1, repetitions |-> 2]}
MCElapsed == {1, 2}
=============================================================================
