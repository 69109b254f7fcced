---------------------------- MODULE Calibration ----------------------------
(***************************************************************************)
(* The bundle (src/robot_control/calibration.py) and what is made of it    *)
(* for the training environment (hdgp_export.py).  A bundle holds, for     *)
(* each group, its nominal gains and perhaps a block of identified         *)
(* parameters with where they were measured.                               *)
(***************************************************************************)
EXTENDS Artifacts

CONSTANTS
  NoBlock,  \* a group that was not measured
  NoName    \* a group the training environment has no name for

Percents == Nat \cup {NaN}

\* A recording is known by the arm it was made on, and by the collection and the
\* place in it.
Recordings == [group : Groups, collection : Nat, index : 0..2]

\* An identified block.  used and accepted are not in the file: the recordings
\* the numbers were fitted on, and whether the operator accepted their gap.
Blocks ==
  [robot : Robots, group : Groups,
   stiffness : [Joints -> Int], damping : [Joints -> Int], scale : Column, coulomb : Column,
   gap : [Joints -> Nat], sources : SUBSET Sources,
   used : SUBSET Recordings, accepted : BOOLEAN]

ASSUME CalibrationAssumption == NoBlock \notin Blocks

Bug_BlockKeepsNan(fit) ==
  [robot |-> Robot, group |-> fit.group,
   stiffness |-> fit.stiffness, damping |-> fit.damping, scale |-> fit.scale, coulomb |-> fit.coulomb,
   gap |-> fit.gap, sources |-> fit.sources, used |-> fit.used, accepted |-> fit.accepted]

\* identified_block: stamped with the profile at hand; a gap that was not
\* measured is written as none.
Block(fit) ==
  [robot |-> Robot, group |-> fit.group,
   stiffness |-> fit.stiffness, damping |-> fit.damping, scale |-> fit.scale, coulomb |-> fit.coulomb,
   gap |-> [j \in Joints |-> IF fit.gap[j] = NaN THEN 0 ELSE fit.gap[j]],
   sources |-> fit.sources, used |-> fit.used, accepted |-> fit.accepted]

\* _identified: measured on this robot, on these joints, from something, and
\* every parameter a number that is physical.  Coulomb friction may be missing.  The
\* inertia is the unit; a block is made of a track, and its scale and friction are not
\* below zero: these checks are left to the data.
Sound(block, group) ==
  /\ block.robot = Robot
  /\ block.group = group
  /\ block.sources # {}
  /\ \A j \in Joints : block.stiffness[j] > 0 /\ block.damping[j] >= 0 /\ block.gap[j] # NaN
  /\ Whole(block.scale)

\* load_bundle.  A first-version bundle has nominal gains only; sealed is that
\* the checksum is right, if there is one, timed that the controller's period and delay are.
Loads(file) ==
  /\ file \notin Unreadable
  /\ file.covers /\ file.robot = Robot
  /\ \/ file.version = 1
     \/ /\ file.version = 2 /\ file.sealed /\ file.timed
        /\ \A group \in Groups : file.groups[group] # NoBlock => Sound(file.groups[group], group)

Identified(bundle) == {group \in Groups : bundle.version = 2 /\ bundle.groups[group] # NoBlock}

\* write_bundle signs what it is given.
Signed(bundle) == [bundle EXCEPT !.sealed = TRUE]

-----------------------------------------------------------------------------
(* hdgp_calibration.  names is what the environment calls each group.      *)

Sum(values) == LET f[S \in SUBSET Joints] ==
                     IF S = {} THEN 0 ELSE LET j == CHOOSE j \in S : TRUE IN values[j] + f[S \ {j}]
               IN f[Joints]

\* _collapse: how far the joints of a group are from their mean, in percent.
Spread(values, percent) ==
  \E i, j \in Joints :
    Sum(values) > 0 /\ 100 * Cardinality(Joints) * (values[i] - values[j]) > percent * Sum(values)

Collapsible(block, percent) == ~Spread(block.stiffness, percent) /\ ~Spread(block.damping, percent)

Bug_OneMayOverwrite(bundle, names, percent) ==
  /\ Identified(bundle) # {}
  /\ \A group \in Identified(bundle) :
       names[group] # NoName /\ Collapsible(bundle.groups[group], percent)

\* A group without a name is written all the same.
Bug_NamelessToo(bundle, names, percent) ==
  /\ Identified(bundle) # {}
  /\ \A group \in Identified(bundle) : Collapsible(bundle.groups[group], percent)
  /\ \A group, other \in Identified(bundle) : names[group] = names[other] => group = other

Exportable(bundle, names, percent) ==
  /\ Identified(bundle) # {}
  /\ \A group \in Identified(bundle) :
       names[group] # NoName /\ Collapsible(bundle.groups[group], percent)
  /\ \A group, other \in Identified(bundle) : names[group] = names[other] => group = other

\* Under a name the environment finds the group written there last, and of each
\* joint the friction a staircase measured, where one did.
Exported(bundle, names) ==
  [name \in {names[group] : group \in Identified(bundle)} |->
    LET group == CHOOSE group \in Identified(bundle) : names[group] = name
    IN [group |-> group,
        friction |-> [j \in Joints |-> IF bundle.groups[group].coulomb[j] = "finite" THEN "staircase" ELSE "track"]]]
=============================================================================
