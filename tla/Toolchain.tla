----------------------------- MODULE Toolchain -----------------------------
(***************************************************************************)
(* r2s from an excitation to a released bundle (src/robot_control/cli.py): *)
(* collect, normalize, identify, fit, bundle, validate and export are      *)
(* programs that share nothing but the files one leaves for the next.  Any *)
(* of them may be run at any time, run again, given an old file, or die    *)
(* while it writes; between two of them the robot's description may be     *)
(* revised.  One of them runs at a time.                                   *)
(***************************************************************************)
EXTENDS Tracks, Calibration, FiniteSetsExt

CONSTANTS
  Scenarios,  \* by name, what the arms are like and the files that come from elsewhere
  StreamsOf,  \* by name, what a recording can hold
  SweepsOf,   \* by name, the sweeps identify can be given
  Revisions,  \* revisions of the robot's description
  NoGroup     \* the group of a fit that holds ratios rather than parameters

Stages == {"collect", "revise", "normalize", "identify", "fit", "bundle", "validate", "export"}

BundleFiles ==
  [version : {1, 2}, robot : Robots, sealed : BOOLEAN, timed : BOOLEAN, covers : BOOLEAN,
   groups : [Groups -> Blocks \cup {NoBlock}]]

\* The arms are ones a regression can return, the sweeps are in a sequence, no base was
\* made past the gap without the operator's leave, every stage may be run so often.
ASSUME ToolchainAssumption ==
  /\ Revisions # {} /\ NoGroup \notin Groups /\ DOMAIN SweepsOf \subseteq Sources
  /\ \A name \in DOMAIN SweepsOf :
       Len(SweepsOf[name]) \in Nat /\ DOMAIN SweepsOf[name] = 1..Len(SweepsOf[name])
  /\ \A name \in DOMAIN Scenarios :
       LET scenario == Scenarios[name]
       IN /\ scenario.arm \in [Groups -> [Joints -> Evidence]]
          /\ scenario.streams \subseteq DOMAIN StreamsOf
          /\ scenario.budget \in [Stages \cup {"die"} -> Nat]
          /\ scenario.base \in BundleFiles
          /\ \A group \in Identified(scenario.base) :
               (\E j \in Joints : Over(scenario.base.groups[group].gap[j], 25)) =>
                 scenario.base.groups[group].accepted

VARIABLES
  world,     \* the scenario, which no stage changes
  revision,  \* the description's revision
  disk,      \* what every file holds
  left,      \* bounds, by the scenario: how often each stage still changes a file, and dies
  code,      \* how the last of them ended
  cut        \* whether a collection stopped before its manifest

vars == <<world, revision, disk, left, code, cut>>

Scenario == Scenarios[world]
Codes == {"ok", "unusable", "refused", "traceback", "killed"}

Numbered == <<"run0", "run1", "run2">>
Recorded == {"run", "run0", "run1", "run2"}
Files == Recorded \cup {"manifest", "track", "static", "fit", "bundle", "verdict", "release", "hdgp"}

\* The runs of one collection are numbered, a single one is not.
RepetitionPath(index, repetitions) == IF repetitions = 1 THEN "run" ELSE Numbered[index + 1]

\* split_repetitions: the last of the three is held out.
FitRuns == {0, 1}
HoldoutRuns == {2}

Init ==
  /\ world \in DOMAIN Scenarios
  /\ revision \in Revisions
  /\ disk = [path \in Files |-> Absent]
  /\ left = Scenario.budget
  /\ code = "ok"
  /\ cut = FALSE

-----------------------------------------------------------------------------
(* A stage ends and leaves the files alone, or ends with one written, or   *)
(* dies in the middle of writing it.                                       *)

Spends(stage) ==
  /\ left' = [left EXCEPT ![stage] = IF disk' = disk THEN @ ELSE @ - 1,
                          !["die"] = IF code' = "killed" THEN @ - 1 ELSE @]
  /\ UNCHANGED world

Dies(path) == left["die"] > 0 /\ disk' = [disk EXCEPT ![path] = Torn] /\ code' = "killed"

Ends(exit) == code' = exit /\ UNCHANGED disk

Writes(path, content, exit) ==
  \/ disk' = [disk EXCEPT ![path] = content] /\ code' = exit
  \/ Dies(path)

\* Of the steps a command takes in order, what the first that fails ends it with.
FirstOf(outcomes) ==
  LET bad == {i \in DOMAIN outcomes : outcomes[i] # "ok"}
  IN IF bad = {} THEN "ok" ELSE outcomes[Min(bad)]

-----------------------------------------------------------------------------
(* collect --repetitions: the runs one by one, then the manifest.          *)

Recording(group, index, stream) ==
  [of |-> [group |-> group, collection |-> left["collect"], index |-> index],
   revision |-> revision, stream |-> stream]

\* The files after n of the runs.
After(group, n, repetitions, stream) ==
  [path \in Files |->
    LET here == {i \in 0..(n - 1) : path = RepetitionPath(i, repetitions)}
    IN IF here = {} THEN disk[path] ELSE Recording(group, Min(here), stream)]

Manifest(group) ==
  [robot |-> Robot, revision |-> revision, group |-> group, fit |-> FitRuns, holdout |-> HoldoutRuns]

CollectRuns(group, repetitions, stream) ==
  /\ disk' = IF repetitions = 1 THEN After(group, 1, 1, stream)
             ELSE [After(group, 3, 3, stream) EXCEPT !["manifest"] = Manifest(group)]
  /\ code' = "ok"
  /\ UNCHANGED cut

\* Refused or without the arm after n of the runs, or dead while it writes a file.
CollectStops(group, repetitions, stream) ==
  \E n \in 0..repetitions :
    /\ n < repetitions \/ repetitions > 1
    /\ LET next == IF n < repetitions THEN RepetitionPath(n, repetitions) ELSE "manifest"
           sofar == After(group, n, repetitions, stream)
       IN \/ n < repetitions /\ disk' = sofar /\ code' \in {"refused", "unusable"}
          \/ left["die"] > 0 /\ disk' = [sofar EXCEPT ![next] = Torn] /\ code' = "killed"
    /\ cut' = (cut \/ repetitions > 1)

Collect ==
  /\ left["collect"] > 0
  /\ \E group \in Groups, repetitions \in {1, 3}, stream \in Scenario.streams :
       CollectRuns(group, repetitions, stream) \/ CollectStops(group, repetitions, stream)
  /\ UNCHANGED revision
  /\ Spends("collect")

\* The asset's manifest is another one from here on.
Revise ==
  /\ left["revise"] > 0
  /\ left' = [left EXCEPT !["revise"] = @ - 1]
  /\ revision' \in Revisions \ {revision}
  /\ UNCHANGED <<world, disk, code, cut>>

-----------------------------------------------------------------------------
(* normalize.                                                              *)

Usable == {name \in DOMAIN StreamsOf :
             Normalizable(StreamsOf[name].command, StreamsOf[name].measured, StreamsOf[name].range)}

Loaded(path) ==
  IF disk[path] = Torn THEN "traceback"
  ELSE IF disk[path] # Absent /\ disk[path].stream \in Usable THEN "ok"
  ELSE "unusable"

Normalize ==
  /\ left["normalize"] > 0
  /\ \E path \in Recorded :
       IF Loaded(path) = "ok"
       THEN Writes("track", [used |-> {disk[path].of}, revisions |-> {disk[path].revision}], "ok")
       ELSE Ends(Loaded(path))
  /\ UNCHANGED <<revision, cut>>
  /\ Spends("normalize")

-----------------------------------------------------------------------------
(* identify, over sweeps made before.                                      *)

SweepOutcome(file) ==
  [read |-> "ok", raises |-> "traceback", refused |-> "unusable"][ReadSweep(file)]

OneArm(sweeps) ==
  /\ Len(sweeps) >= 2
  /\ \A s \in DOMAIN sweeps : ReadSweep(sweeps[s]) = "read"
  /\ \A s \in DOMAIN sweeps : sweeps[s].group = sweeps[1].group

Estimates ==
  [name \in {n \in DOMAIN SweepsOf : OneArm(SweepsOf[n])} |-> StaticOf(SweepsOf[name], {name})]

\* The first that cannot be read ends it, or that there are too few, or of several arms.
RefusesSweeps(sweeps) ==
  \/ Len(sweeps) < 2 /\ Ends("refused")
  \/ /\ Len(sweeps) >= 2
     /\ \E s \in DOMAIN sweeps :
          /\ SweepOutcome(sweeps[s]) # "ok" /\ Ends(SweepOutcome(sweeps[s]))
          /\ \A r \in DOMAIN sweeps : r < s => SweepOutcome(sweeps[r]) = "ok"
  \/ /\ Len(sweeps) >= 2 /\ ~OneArm(sweeps)
     /\ \A s \in DOMAIN sweeps : SweepOutcome(sweeps[s]) = "ok"
     /\ Ends("unusable")

Identify ==
  /\ left["identify"] > 0
  /\ \E name \in DOMAIN SweepsOf :
       IF name \notin DOMAIN Estimates THEN RefusesSweeps(SweepsOf[name])
       ELSE IF Writable(Estimates[name]) THEN Writes("static", Estimates[name], "ok")
       ELSE Ends("refused")
  /\ UNCHANGED <<revision, cut>>
  /\ Spends("identify")

-----------------------------------------------------------------------------
(* fit, across the runs a manifest names or on one track; with a static    *)
(* estimate the parameters are physical.  Stiffness and damping are in     *)
(* units in which the inertia of a joint is one.                           *)

\* _read_manifest compares the revision too.
Bug_NamesThisRobot(manifest) == manifest.robot = Robot

NamesThisRobot(manifest) == manifest.robot = Robot /\ manifest.revision = revision

ManifestReads == disk["manifest"] \notin Unreadable /\ NamesThisRobot(disk["manifest"])

\* The recordings a fit is made from, and what reading them ends with.
Tracked(source) ==
  IF source = "track" THEN IF disk["track"] \in Unreadable THEN "traceback" ELSE "ok"
  ELSE IF ~ManifestReads \/ disk["manifest"].fit \cap disk["manifest"].holdout # {} THEN "unusable"
  ELSE FirstOf([index \in disk["manifest"].fit |-> Loaded(RepetitionPath(index, 3))])

RunsFitted == {RepetitionPath(index, 3) : index \in disk["manifest"].fit}
Used(source) == IF source = "track" THEN disk["track"].used ELSE {disk[path].of : path \in RunsFitted}
Described(source) ==
  IF source = "track" THEN disk["track"].revisions ELSE {disk[path].revision : path \in RunsFitted}

\* Every run shares the joints, it says, so the first stands in for all of them.
Leading(source) ==
  IF source = "track" THEN CHOOSE recording \in disk["track"].used : TRUE
  ELSE disk[RepetitionPath(Min(disk["manifest"].fit), 3)].of

\* What a track of several arms holds is what it holds of one of them.
Arms(source) == {Scenario.arm[recording.group] : recording \in Used(source)}

StaticOutcome ==
  [read |-> "ok", raises |-> "traceback", refused |-> "unusable"][ReadStatic(disk["static"])]

Fitted(source, group, arm, heard, accept) ==
  LET physical == group # NoGroup
      gap == IF physical THEN Disagreement(arm, heard) ELSE [j \in Joints |-> NaN]
  IN [group |-> group,
      stiffness |-> [j \in Joints |-> arm[j].stiffness], damping |-> [j \in Joints |-> arm[j].damping],
      scale |-> IF physical THEN disk["static"].scale ELSE [j \in Joints |-> "nan"],
      coulomb |-> IF physical THEN disk["static"].coulomb ELSE [j \in Joints |-> "nan"],
      gap |-> gap, accepted |-> accept /\ Wide(gap),
      sources |-> IF physical THEN disk["static"].sources ELSE {},
      used |-> Used(source), described |-> Described(source), at |-> revision, split |-> source = "manifest"]

\* Without a static estimate: stiffness and damping are ratios to an inertia.
FitRatios(source, arm) ==
  IF Identifiable(arm)
  THEN Writes("fit", Fitted(source, NoGroup, arm, [j \in Joints |-> "nan"], FALSE), "ok")
  ELSE Ends("unusable")

\* The joints of the track are not compared with those of the estimate.
Bug_OfOneArm(source) == TRUE

OfOneArm(source) == disk["static"].group = Leading(source).group

FitPhysical(source, arm, accept) ==
  IF StaticOutcome # "ok" THEN Ends(StaticOutcome)
  ELSE LET static == disk["static"]
       IN IF ~OfOneArm(source) \/ ~Fits(arm, static.coulomb) THEN Ends("unusable")
          ELSE IF Wide(Disagreement(arm, static.coulomb)) /\ ~accept THEN Ends("refused")
          ELSE Writes("fit", Fitted(source, static.group, arm, static.coulomb, accept), "ok")

Fit ==
  /\ left["fit"] > 0
  /\ \E source \in {"manifest", "track"} :
       \/ Tracked(source) # "ok" /\ Ends(Tracked(source))
       \/ /\ Tracked(source) = "ok"
          /\ \E arm \in Arms(source) :
               \/ FitRatios(source, arm)
               \/ \E accept \in BOOLEAN : FitPhysical(source, arm, accept)
  /\ UNCHANGED <<revision, cut>>
  /\ Spends("fit")

-----------------------------------------------------------------------------
(* bundle, over a base given or over the last bundle.  The file is written *)
(* and then loaded, so a refusal leaves it.                                *)

Merged(base, fit) == Signed([base EXCEPT !.groups[fit.group] = Block(fit)])

Mergeable(base, fit) ==
  /\ Loads(base) /\ base.version = 2
  /\ fit \notin Unreadable /\ fit.group # NoGroup

Bundle ==
  /\ left["bundle"] > 0
  /\ \E base \in {Scenario.base, disk["bundle"]} :
       IF Mergeable(base, disk["fit"])
       THEN LET bundle == Merged(base, disk["fit"])
            IN Writes("bundle", bundle, IF Loads(bundle) THEN "ok" ELSE "refused")
       ELSE Ends("unusable")
  /\ UNCHANGED <<revision, cut>>
  /\ Spends("bundle")

-----------------------------------------------------------------------------
(* validate: the run the manifest held out is predicted with the fit, or   *)
(* metrics computed elsewhere are judged.  scored, used, split, ranAway    *)
(* and bundle are not in the file: what was predicted, from a fit on what, *)
(* whether the prediction ran away, and the bundle that was at hand.       *)

Verdict(metrics, scored, fit, ranAway) ==
  [status |-> IF Validated(metrics) THEN "validated" ELSE "model_inadequate",
   scored |-> scored, used |-> IF scored = {} THEN {} ELSE fit.used,
   split |-> IF scored = {} THEN FALSE ELSE fit.split, ranAway |-> ranAway, bundle |-> disk["bundle"]]

Judges(verdict) == Writes("verdict", verdict, IF verdict.status = "validated" THEN "ok" ELSE "refused")

Bug_HeldOut(manifest) == RepetitionPath(Min(manifest.fit), 3)

HeldOut(manifest) == RepetitionPath(Min(manifest.holdout), 3)

ValidateRun ==
  LET run == HeldOut(disk["manifest"])
      outcome == IF ~ManifestReads \/ Cardinality(disk["manifest"].holdout) # 1 THEN "unusable" ELSE Loaded(run)
  IN IF outcome # "ok" THEN Ends(outcome)
     ELSE IF disk["fit"] \in Unreadable THEN Ends("unusable")
     ELSE \E score \in Scenario.scores :
            Judges(Verdict(Score(score.rmse, score.baseline, score.lag, "openarm"),
                           {disk[run].of}, disk["fit"], score.rmse = NaN))

ValidateMetrics ==
  \E metrics \in Scenario.metrics :
    IF metrics = Torn THEN Ends("traceback") ELSE Judges(Verdict(metrics, {}, disk["fit"], FALSE))

Validate ==
  /\ left["validate"] > 0
  /\ IF Loads(disk["bundle"]) THEN ValidateRun \/ ValidateMetrics ELSE Ends("unusable")
  /\ UNCHANGED <<revision, cut>>
  /\ Spends("validate")

-----------------------------------------------------------------------------
(* export: the bundle is copied, and with --hdgp translated.               *)

Releasable ==
  FirstOf(<<IF Loads(disk["bundle"]) THEN "ok" ELSE "unusable",
            IF disk["verdict"] \in Unreadable THEN "traceback" ELSE "ok">>)

\* After the release, the calibration under the environment's names.
Translates(bundle) ==
  LET released == [disk EXCEPT !["release"] = bundle]
      calibration == [groups |-> Exported(bundle, Scenario.names), measured |-> Identified(bundle)]
  IN IF ~Exportable(bundle, Scenario.names, Scenario.spread)
     THEN disk' = released /\ code' = "unusable"
     ELSE \/ disk' = [released EXCEPT !["hdgp"] = calibration] /\ code' = "ok"
          \/ left["die"] > 0 /\ disk' = [released EXCEPT !["hdgp"] = Torn] /\ code' = "killed"

Export ==
  /\ left["export"] > 0
  /\ IF Releasable # "ok" THEN Ends(Releasable)
     ELSE IF disk["verdict"].status # "validated" THEN Ends("refused")
     ELSE Writes("release", disk["bundle"], "ok") \/ Translates(disk["bundle"])
  /\ UNCHANGED <<revision, cut>>
  /\ Spends("export")

-----------------------------------------------------------------------------
Next == Collect \/ Revise \/ Normalize \/ Identify \/ Fit \/ Bundle \/ Validate \/ Export

Spec == Init /\ [][Next]_vars

-----------------------------------------------------------------------------
(* What the files hold.                                                    *)

RecordingFiles ==
  [of : Recordings, revision : Revisions, stream : DOMAIN StreamsOf]

ManifestFiles ==
  [robot : Robots, revision : Revisions, group : Groups, fit : SUBSET (0..2), holdout : SUBSET (0..2)]

TrackFiles == [used : SUBSET Recordings, revisions : SUBSET Revisions]

FitFiles ==
  [group : Groups \cup {NoGroup}, stiffness : [Joints -> Int], damping : [Joints -> Int],
   scale : Column, coulomb : Column, gap : [Joints -> Percents], accepted : BOOLEAN,
   sources : SUBSET Sources, used : SUBSET Recordings, described : SUBSET Revisions,
   at : Revisions, split : BOOLEAN]

VerdictFiles ==
  [status : {"validated", "model_inadequate"}, scored : SUBSET Recordings, used : SUBSET Recordings,
   split : BOOLEAN, ranAway : BOOLEAN, bundle : BundleFiles]

Holds(path, contents) == disk[path] \in contents \cup Unreadable

\* Every file is missing, cut short, or what the stage that writes it writes.
TypeOK ==
  /\ world \in DOMAIN Scenarios /\ revision \in Revisions
  /\ DOMAIN disk = Files
  /\ \A path \in Recorded : Holds(path, RecordingFiles)
  /\ Holds("manifest", ManifestFiles) /\ Holds("track", TrackFiles) /\ Holds("static", Statics)
  /\ Holds("fit", FitFiles) /\ Holds("bundle", BundleFiles) /\ Holds("verdict", VerdictFiles)
  /\ Holds("release", BundleFiles)
  /\ left \in [Stages \cup {"die"} -> Nat] /\ code \in Codes /\ cut \in BOOLEAN

\* A verdict on a run the manifest held out is on a run the model was not fitted on,
\* when the model was fitted from a manifest, this one or an earlier one.
HoldoutNeverFitted ==
  LET verdict == disk["verdict"]
  IN verdict \notin Unreadable /\ verdict.split => verdict.scored \cap verdict.used = {}

\* A fit from a manifest is over runs of one collection with one arm, made under the
\* description it was fitted under, as long as no collection was cut short: then a
\* manifest may stand for recordings it does not know of.
FitOfOneCollection ==
  LET fit == disk["fit"]
  IN fit \notin Unreadable /\ fit.split /\ ~cut =>
       /\ fit.described = {fit.at}
       /\ \A one, other \in fit.used : one.group = other.group /\ one.collection = other.collection
       /\ fit.group = NoGroup \/ \A recording \in fit.used : recording.group = fit.group

\* The sweeps that measure an arm: of that arm alone, with a stiffness and a torque
\* scale for every joint.
Measuring(group) ==
  {name \in DOMAIN SweepsOf :
     /\ OneArm(SweepsOf[name]) /\ SweepsOf[name][1].group = group
     /\ \A j \in Joints : FitsOf(SweepsOf[name])[j] = "identified"}

MeasuringOf == [group \in Groups |-> Measuring(group)]
FrictionOf == [name \in UNION {MeasuringOf[group] : group \in Groups} |-> CoulombOf(SweepsOf[name])]

\* What parameters rest on are sweeps that measured the arm, and their friction is
\* there for the joints those measured it of.
SweptOn(parameters, group) ==
  \E name \in MeasuringOf[group] : parameters.sources = {name} /\ parameters.coulomb = FrictionOf[name]

\* They come from recordings of the arm, and are what these hold of it.
RecordedOn(parameters, group, arm) ==
  /\ \A recording \in parameters.used : recording.group = group
  /\ parameters.stiffness = [j \in Joints |-> arm[j].stiffness]
  /\ parameters.damping = [j \in Joints |-> arm[j].damping]

\* A collection that was cut short may have left another arm's recordings beside a
\* manifest.
MeasuredOn(parameters, group) ==
  SweptOn(parameters, group) /\ (~cut => RecordedOn(parameters, group, Scenario.arm[group]))

FromTheBase(bundle, group) ==
  group \in Identified(Scenario.base) /\ bundle.groups[group] = Scenario.base.groups[group]

BlocksAreMeasured(bundle) ==
  \A group \in Identified(bundle) : FromTheBase(bundle, group) \/ MeasuredOn(bundle.groups[group], group)

\* What the environment takes for friction a staircase measured was measured by one,
\* on that arm, here or for the base.
FrictionIsMeasured(entry, base) ==
  \A j \in Joints :
    entry.friction[j] = "staircase" =>
      \/ \E name \in MeasuringOf[entry.group] : FrictionOf[name][j] = "finite"
      \/ entry.group \in Identified(base) /\ base.groups[entry.group].coulomb[j] = "finite"

\* What is bundled, released and translated under the name of an arm was measured on
\* that arm, or was in the base: through four files, each of which may be older than
\* the next one's, of the other arm, torn or missing, no parameter of the other arm and
\* none of a joint without a stiffness or a torque scale gets that far.  A friction no
\* staircase measured stays a hole and is never translated as one that did.
ReleasedIsTheArm ==
  /\ \A path \in {"bundle", "release"} : disk[path] \notin Unreadable => BlocksAreMeasured(disk[path])
  /\ disk["hdgp"] \notin Unreadable =>
       \A name \in DOMAIN disk["hdgp"].groups : FrictionIsMeasured(disk["hdgp"].groups[name], Scenario.base)

\* Two routes to an inertia that are known to be far apart get into a bundle, and from
\* there to a release, only where the operator accepted them.
GapWasAccepted ==
  \A path \in {"bundle", "release"} :
    disk[path] \notin Unreadable =>
      \A group \in Identified(disk[path]) :
        (\E j \in Joints : Over(disk[path].groups[group].gap[j], 25)) => disk[path].groups[group].accepted

\* A prediction that ran away does not count as good for having no error.
DivergedIsInadequate ==
  LET verdict == disk["verdict"]
  IN verdict \notin Unreadable /\ verdict.ranAway => verdict.status = "model_inadequate"

\* A gap known to be wide passes only with the operator's leave, though a joint beside
\* it has none, and a prediction on the held-out run that ran away never validates.  It
\* says nothing of a gap that was not computed, which is written as none and refuses
\* nothing, nor of metrics from elsewhere whose improvement is no number, which pass.
VerdictsAreEarned == GapWasAccepted /\ DivergedIsInadequate

\* Every group that was measured reaches the environment, under a name of its own that
\* the environment knows: none is overwritten and none is lost for want of a name.
EveryGroupIsTranslated ==
  disk["hdgp"] \notin Unreadable =>
    \A group \in disk["hdgp"].measured :
      /\ Scenario.names[group] # NoName
      /\ Scenario.names[group] \in DOMAIN disk["hdgp"].groups
      /\ disk["hdgp"].groups[Scenario.names[group]].group = group

\* docs/cli.md:1498: "Export a validated bundle. Refuses anything not already
\* validated."  What is released is what was at hand when the verdict was passed.
ExportedWasValidated ==
  [][disk'["release"] # disk["release"] /\ disk'["release"] \notin Unreadable =>
       disk'["release"] = disk["verdict"].bundle]_vars
=============================================================================
