----------------------------- MODULE EffortLine -----------------------------
(***************************************************************************)
(* What the commands that put torque on the arm share: `pose torque`,      *)
(* `pose gravity`, `r2s identify --collect` and `pose ready`               *)
(* (src/robot_control/cli.py, excitation.py).  Each publishes to the       *)
(* group's effort controller inside a try whose finally publishes zero;    *)
(* the controller goes on holding whatever it received last.  Any call to  *)
(* ROS may fail, and Ctrl-C may come before every step.                    *)
(*                                                                         *)
(* A torque is the one of the joint under test, or of the whole group when *)
(* all joints are driven.                                                  *)
(***************************************************************************)
EXTENDS Integers

CONSTANT EffortLimit  \* the profile's effort bound of the joint

ASSUME LineAssumption == EffortLimit \in Nat

VARIABLES
  command,  \* the command being run
  pc,       \* where it is
  wire,     \* the torque the effort controller holds
  fault,    \* the exception in flight, or none
  release,  \* the zero torque of the finally: none, sent or failed
  outcome   \* how the command ended

lineVars == <<command, pc, wire, fault, release, outcome>>

Commands == {"torque", "gravity", "poses", "ready"}

\* The places inside the try, by command.
InTry == {"joint", "push", "read"} \cup {"publish", "measure"}
           \cup {"check", "cycle", "point", "tracking", "hold", "holdAfter"}
Places == InTry \cup {"starting", "moving", "releasing", "released", "ended"}

\* authorize_effort refuses what is over the bound; it clamps nothing.
Authorized(torque) == -EffortLimit <= torque /\ torque <= EffortLimit

LineInit ==
  /\ command \in Commands /\ pc = "starting"
  /\ wire = 0 /\ fault = "none" /\ release = "none" /\ outcome = "none"

-----------------------------------------------------------------------------
Goto(place) == pc' = place /\ UNCHANGED <<command, wire, fault, release, outcome>>

Send(torque, place) ==
  /\ wire' = torque /\ pc' = place
  /\ UNCHANGED <<command, fault, release, outcome>>

\* An exception of the body, on its way to the finally.
Raise(how) ==
  /\ fault' = how /\ pc' = "releasing"
  /\ UNCHANGED <<command, wire, release, outcome>>

Leave(how) ==
  /\ pc' = "ended" /\ outcome' = how
  /\ UNCHANGED <<command, wire, fault, release>>

\* Before the try: the arguments, the adapter, the gravity chain, a first read.
StartFails == pc = "starting" /\ (Leave("unusable") \/ Leave("refused"))

\* Without --execute.
Review == pc = "starting" /\ Leave("done")

ReleaseSent ==
  /\ pc = "releasing"
  /\ wire' = 0 /\ release' = "sent" /\ pc' = "released"
  /\ UNCHANGED <<command, fault, outcome>>

\* The zero cannot be published.  The staircase and pose ready publish it more
\* than once, so that it may have been.  pose ready notes the error and keeps
\* the exception it had; elsewhere it replaces it.
ReleaseFails ==
  /\ pc = "releasing"
  /\ wire' = wire \/ (command \in {"torque", "ready"} /\ wire' = 0)
  /\ fault' = IF command = "ready" /\ fault # "none" THEN fault ELSE "unusable"
  /\ release' = "failed" /\ pc' = "released"
  /\ UNCHANGED <<command, outcome>>

\* What was measured is written when nothing failed, pose ready's snapshot
\* always.
WriteFails ==
  /\ pc = "released" /\ (fault = "none" \/ command = "ready")
  /\ Leave("unusable")

Finish == pc = "released" /\ Leave(IF fault = "none" THEN "done" ELSE fault)

Interrupt ==
  \/ pc \in {"starting", "moving", "released"} /\ Leave("interrupted")
  \/ pc \in InTry /\ Raise("interrupted")
  \/ /\ pc = "releasing"
     /\ pc' = "ended" /\ release' = "failed" /\ outcome' = "interrupted"
     /\ wire' = wire \/ (command \in {"torque", "ready"} /\ wire' = 0)
     /\ UNCHANGED <<command, fault>>

LineTypeOK ==
  /\ command \in Commands /\ pc \in Places
  /\ wire \in -EffortLimit..EffortLimit
  /\ fault \in {"none", "refused", "unusable", "interrupted"}
  /\ release \in {"none", "sent", "failed"}
  /\ outcome \in {"none", "done", "refused", "unusable", "interrupted"}
=============================================================================
