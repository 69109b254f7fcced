-------------------------- MODULE ToolchainProofs --------------------------
(***************************************************************************)
(* Proofs about the chain of commands that share their files: for every    *)
(* set of scenarios, streams, sweeps and revisions, what each file can     *)
(* hold and what its next reader may conclude from it.                     *)
(***************************************************************************)
EXTENDS Toolchain, TLAPS

(***************************************************************************)
(* Orders of checks.                                                       *)
(***************************************************************************)
\* The smaller of two numbers, or of one.
LEMMA MinOfTwo ==
  ASSUME NEW a \in Int, NEW b \in Int, NEW S \in SUBSET {a, b}, S # {}
  PROVE  Min(S) \in S
<1>1. PICK m \in S : \A n \in S : m <= n
  <2>1. CASE S = {a} \/ S = {b}
    BY <2>1
  <2>2. CASE S = {a, b}
    BY <2>2
  <2> QED BY <2>1, <2>2
<1> QED BY <1>1 DEF Min

\* A command of two steps that ends well took both.
LEMMA FirstIsEvery ==
  ASSUME NEW a \in Int, NEW b \in Int, NEW outcomes, DOMAIN outcomes = {a, b}
  PROVE  /\ FirstOf(outcomes) \in {"ok", outcomes[a], outcomes[b]}
         /\ FirstOf(outcomes) = "ok" => outcomes[a] = "ok" /\ outcomes[b] = "ok"
<1> DEFINE bad == {i \in DOMAIN outcomes : outcomes[i] # "ok"}
<1>1. CASE bad = {}
  BY <1>1 DEF FirstOf
<1>2. CASE bad # {}
  <2>1. bad \in SUBSET {a, b}
    OBVIOUS
  <2> HIDE DEF bad
  <2>2. Min(bad) \in bad
    BY <1>2, <2>1, MinOfTwo
  <2> QED BY <1>2, <2>2 DEF FirstOf, bad
<1> QED BY <1>1, <1>2

\* The first run of a manifest is numbered zero, the one held out two.
LEMMA FirstRuns ==
  Min(FitRuns) = 0 /\ Min(HoldoutRuns) = 2
<1>1. \A n \in FitRuns : 0 <= n
  BY DEF FitRuns
<1>2. /\ 0 \in FitRuns /\ FitRuns \in SUBSET {0, 1} /\ FitRuns # {}
      /\ HoldoutRuns \in SUBSET {2, 3} /\ HoldoutRuns # {}
  BY DEF FitRuns, HoldoutRuns
<1>3. Min(FitRuns) <= 0
  <2>1. PICK m \in FitRuns : \A n \in FitRuns : m <= n
    BY <1>1, <1>2
  <2> QED BY <2>1, <1>2 DEF Min
<1>4. Min(FitRuns) \in FitRuns
  <2>1. PICK m \in FitRuns : \A n \in FitRuns : m <= n
    BY <1>1, <1>2
  <2> QED BY <2>1 DEF Min
<1>5. Min(HoldoutRuns) \in HoldoutRuns
  BY <1>2, MinOfTwo
<1> QED BY <1>3, <1>4, <1>5 DEF FitRuns, HoldoutRuns

\* The runs of a collection of three have a file each.
LEMMA PathsAreNumbered ==
  /\ RepetitionPath(0, 3) = "run0" /\ RepetitionPath(1, 3) = "run1" /\ RepetitionPath(2, 3) = "run2"
  /\ RepetitionPath(0, 1) = "run"
BY DEF RepetitionPath, Numbered

(***************************************************************************)
(* What a stage leaves alone and what it writes.                           *)
(***************************************************************************)
\* A stage touches no file but these.
OnlyTouches(paths) == DOMAIN disk' = Files /\ \A path \in Files \ paths : disk'[path] = disk[path]

\* A stage dies only where the scenario still allows it.
DiesWhereItMay == code' \in Codes /\ (code' = "killed" => left["die"] > 0)

\* A stage that ends touches nothing; one that writes a file leaves it whole or torn.
LEMMA EndsLeavesAlone ==
  ASSUME DOMAIN disk = Files, NEW exit \in Codes \ {"killed"}, Ends(exit)
  PROVE  OnlyTouches({}) /\ DiesWhereItMay
BY DEF Ends, OnlyTouches, DiesWhereItMay

LEMMA WritesOneFile ==
  ASSUME DOMAIN disk = Files, NEW path \in Files, NEW content, NEW exit \in Codes \ {"killed"},
         Writes(path, content, exit)
  PROVE  /\ OnlyTouches({path}) /\ DiesWhereItMay
         /\ disk'[path] = content \/ disk'[path] = Torn
BY DEF Writes, Dies, OnlyTouches, DiesWhereItMay, Codes

\* The bounds stay natural numbers.
LEMMA SpendsWhatIsThere ==
  ASSUME left \in [Stages \cup {"die"} -> Nat], NEW stage \in Stages, left[stage] > 0,
         DiesWhereItMay, Spends(stage)
  PROVE  left' \in [Stages \cup {"die"} -> Nat] /\ world' = world
BY DEF Spends, DiesWhereItMay, Stages

(***************************************************************************)
(* What each stage writes.                                                 *)
(***************************************************************************)
\* normalize makes the track of one recording that is there.
NormalizeWrites ==
  \E path \in Recorded :
    /\ disk[path] \notin Unreadable
    /\ disk'["track"] = [used |-> {disk[path].of}, revisions |-> {disk[path].revision}]

LEMMA NormalizeStep ==
  ASSUME DOMAIN disk = Files, Normalize
  PROVE  /\ OnlyTouches({"track"}) /\ DiesWhereItMay /\ UNCHANGED <<revision, cut>>
         /\ disk'["track"] \in {disk["track"], Torn} \/ NormalizeWrites
<1>1. PICK path \in Recorded :
        IF Loaded(path) = "ok"
        THEN Writes("track", [used |-> {disk[path].of}, revisions |-> {disk[path].revision}], "ok")
        ELSE Ends(Loaded(path))
  BY DEF Normalize
<1>2. CASE Loaded(path) = "ok"
  <2>1. disk[path] \notin Unreadable
    BY <1>2 DEF Loaded, Unreadable
  <2>2. "track" \in Files /\ "ok" \in Codes \ {"killed"}
    BY DEF Files, Codes
  <2>3. /\ OnlyTouches({"track"}) /\ DiesWhereItMay
        /\ \/ disk'["track"] = [used |-> {disk[path].of}, revisions |-> {disk[path].revision}]
           \/ disk'["track"] = Torn
    BY <1>1, <1>2, <2>2, WritesOneFile
  <2> QED BY <2>1, <2>3 DEF Normalize, NormalizeWrites
<1>3. CASE Loaded(path) # "ok"
  <2>1. Loaded(path) \in Codes \ {"killed"}
    BY DEF Loaded, Codes
  <2>2. OnlyTouches({}) /\ DiesWhereItMay
    BY <1>1, <1>3, <2>1, EndsLeavesAlone
  <2> QED BY <2>2 DEF Normalize, OnlyTouches, Files
<1> QED BY <1>2, <1>3

\* identify writes an estimate of one arm, with every number measured.
IdentifyWrites ==
  \E name \in DOMAIN Estimates : Writable(Estimates[name]) /\ disk'["static"] = Estimates[name]

LEMMA IdentifyStep ==
  ASSUME DOMAIN disk = Files, Identify
  PROVE  /\ OnlyTouches({"static"}) /\ DiesWhereItMay /\ UNCHANGED <<revision, cut>>
         /\ disk'["static"] \in {disk["static"], Torn} \/ IdentifyWrites
<1>1. PICK name \in DOMAIN SweepsOf :
        IF name \notin DOMAIN Estimates THEN RefusesSweeps(SweepsOf[name])
        ELSE IF Writable(Estimates[name]) THEN Writes("static", Estimates[name], "ok")
        ELSE Ends("refused")
  BY DEF Identify
<1>2. CASE name \in DOMAIN Estimates /\ Writable(Estimates[name])
  BY <1>1, <1>2, WritesOneFile DEF Identify, IdentifyWrites, Files, Codes
<1>3. CASE name \in DOMAIN Estimates /\ ~Writable(Estimates[name])
  <2>1. OnlyTouches({}) /\ DiesWhereItMay
    BY <1>1, <1>3, EndsLeavesAlone DEF Codes
  <2> QED BY <2>1 DEF Identify, OnlyTouches, Files
<1>4. CASE name \notin DOMAIN Estimates
  <2>1. \A file : SweepOutcome(file) # "ok" => SweepOutcome(file) \in Codes \ {"killed"}
    BY DEF SweepOutcome, ReadSweep, Reading, Codes
  <2>2. PICK exit \in Codes \ {"killed"} : Ends(exit)
    BY <1>1, <1>4, <2>1 DEF RefusesSweeps, Codes
  <2>3. OnlyTouches({}) /\ DiesWhereItMay
    BY <2>2, EndsLeavesAlone
  <2> QED BY <2>3 DEF Identify, OnlyTouches, Files
<1> QED BY <1>2, <1>3, <1>4

\* What a recording or a track cannot be read with is not a death, and what is read
\* is there.
LEMMA LoadedIsThere ==
  ASSUME NEW path
  PROVE  Loaded(path) \in Codes \ {"killed"} /\ (Loaded(path) = "ok" => disk[path] \notin Unreadable)
BY DEF Loaded, Codes, Unreadable

\* A manifest splits its runs as split_repetitions does.
SplitAsWritten ==
  disk["manifest"] \notin Unreadable =>
    disk["manifest"].fit = FitRuns /\ disk["manifest"].holdout = HoldoutRuns

\* What a fit is made from is there: a track, or both runs of a manifest that was
\* written for this robot under this description.
Readable(source) ==
  IF source = "track" THEN disk["track"] \notin Unreadable
  ELSE /\ ManifestReads /\ disk["manifest"].fit = FitRuns
       /\ disk["run0"] \notin Unreadable /\ disk["run1"] \notin Unreadable

LEMMA TrackedIsThere ==
  ASSUME SplitAsWritten, NEW source \in {"manifest", "track"}
  PROVE  Tracked(source) \in Codes \ {"killed"} /\ (Tracked(source) = "ok" => Readable(source))
<1>1. CASE source = "track"
  BY <1>1 DEF Tracked, Readable, Codes
<1>2. CASE source = "manifest" /\ (~ManifestReads \/ disk["manifest"].fit \cap disk["manifest"].holdout # {})
  BY <1>2 DEF Tracked, Codes
<1>3. CASE source = "manifest" /\ ManifestReads /\ disk["manifest"].fit \cap disk["manifest"].holdout = {}
  <2> DEFINE outcomes == [index \in FitRuns |-> Loaded(RepetitionPath(index, 3))]
  <2>1. disk["manifest"].fit = FitRuns
    BY <1>3 DEF ManifestReads, SplitAsWritten
  <2>2. Tracked(source) = FirstOf(outcomes)
    BY <1>3, <2>1 DEF Tracked
  <2>3. DOMAIN outcomes = {0, 1} /\ outcomes[0] = Loaded("run0") /\ outcomes[1] = Loaded("run1")
    BY PathsAreNumbered DEF FitRuns
  <2> HIDE DEF outcomes
  <2>4. /\ FirstOf(outcomes) \in {"ok", outcomes[0], outcomes[1]}
        /\ FirstOf(outcomes) = "ok" => outcomes[0] = "ok" /\ outcomes[1] = "ok"
    BY <2>3, FirstIsEvery
  <2>5. FirstOf(outcomes) \in Codes \ {"killed"}
    BY <2>3, <2>4, LoadedIsThere DEF Codes
  <2>6. ASSUME FirstOf(outcomes) = "ok" PROVE disk["run0"] \notin Unreadable /\ disk["run1"] \notin Unreadable
    BY <2>3, <2>4, <2>6, LoadedIsThere
  <2> QED BY <1>3, <2>1, <2>2, <2>5, <2>6 DEF Readable
<1> QED BY <1>1, <1>2, <1>3

\* fit writes ratios, or parameters of the arm whose static estimate it was given,
\* and those past the gap only where that was accepted.
FitWrites ==
  \E source \in {"manifest", "track"} : \E arm \in Arms(source) :
    /\ Readable(source)
    /\ \/ disk'["fit"] = Fitted(source, NoGroup, arm, [j \in Joints |-> "nan"], FALSE)
       \/ \E accept \in BOOLEAN :
            /\ StaticOutcome = "ok" /\ disk["static"].group = Leading(source).group
            /\ Wide(Disagreement(arm, disk["static"].coulomb)) => accept
            /\ disk'["fit"] = Fitted(source, disk["static"].group, arm, disk["static"].coulomb, accept)

LEMMA FitStep ==
  ASSUME DOMAIN disk = Files, SplitAsWritten, Fit
  PROVE  /\ OnlyTouches({"fit"}) /\ DiesWhereItMay /\ UNCHANGED <<revision, cut>>
         /\ disk'["fit"] \in {disk["fit"], Torn} \/ FitWrites
<1> DEFINE Result == /\ OnlyTouches({"fit"}) /\ DiesWhereItMay
                     /\ disk'["fit"] \in {disk["fit"], Torn} \/ FitWrites
<1> SUFFICES Result
  BY DEF Fit
<1>0. "fit" \in Files /\ {"ok", "refused", "unusable"} \subseteq Codes \ {"killed"}
  BY DEF Files, Codes
<1>1. ASSUME NEW exit \in Codes \ {"killed"}, Ends(exit) PROVE Result
  <2>1. OnlyTouches({}) /\ DiesWhereItMay
    BY <1>1, EndsLeavesAlone
  <2> QED BY <2>1, <1>0 DEF OnlyTouches
<1> HIDE DEF Result
<1>2. PICK source \in {"manifest", "track"} :
        \/ Tracked(source) # "ok" /\ Ends(Tracked(source))
        \/ /\ Tracked(source) = "ok"
           /\ \E arm \in Arms(source) :
                FitRatios(source, arm) \/ \E accept \in BOOLEAN : FitPhysical(source, arm, accept)
  BY DEF Fit
<1>3. CASE Tracked(source) # "ok"
  BY <1>1, <1>2, <1>3, TrackedIsThere
<1>4. CASE Tracked(source) = "ok"
  <2>1. Readable(source)
    BY <1>4, TrackedIsThere
  <2>2. PICK arm \in Arms(source) : FitRatios(source, arm) \/ \E accept \in BOOLEAN : FitPhysical(source, arm, accept)
    BY <1>2, <1>4
  <2>3. CASE FitRatios(source, arm)
    <3> DEFINE fit == Fitted(source, NoGroup, arm, [j \in Joints |-> "nan"], FALSE)
    <3>1. CASE Writes("fit", fit, "ok")
      <4> HIDE DEF fit
      <4>1. OnlyTouches({"fit"}) /\ DiesWhereItMay /\ disk'["fit"] \in {fit, Torn}
        BY <3>1, <1>0, WritesOneFile
      <4> QED BY <4>1, <2>1 DEF FitWrites, Result, fit
    <3>2. CASE Ends("unusable")
      BY <3>2, <1>0, <1>1
    <3> QED BY <2>3, <3>1, <3>2 DEF FitRatios
  <2>4. ASSUME NEW accept \in BOOLEAN, FitPhysical(source, arm, accept) PROVE Result
    <3> DEFINE fit == Fitted(source, disk["static"].group, arm, disk["static"].coulomb, accept)
    <3>0. StaticOutcome \in Codes \ {"killed"}
      BY DEF StaticOutcome, ReadStatic, Reading, Codes
    <3>1. CASE \E exit \in Codes \ {"killed"} : Ends(exit)
      BY <3>1, <1>1
    <3>2. CASE ~ \E exit \in Codes \ {"killed"} : Ends(exit)
      <4>1. /\ StaticOutcome = "ok" /\ disk["static"].group = Leading(source).group
            /\ Wide(Disagreement(arm, disk["static"].coulomb)) => accept
            /\ Writes("fit", fit, "ok")
        BY <2>4, <3>0, <3>2, <1>0 DEF FitPhysical, OfOneArm
      <4> HIDE DEF fit
      <4>2. OnlyTouches({"fit"}) /\ DiesWhereItMay /\ disk'["fit"] \in {fit, Torn}
        BY <4>1, <1>0, WritesOneFile
      <4> QED BY <4>1, <4>2, <2>1 DEF FitWrites, Result, fit
    <3> QED BY <3>1, <3>2
  <2> QED BY <2>2, <2>3, <2>4
<1> QED BY <1>3, <1>4

\* bundle merges one sound fit into a bundle that loads.
BundleWrites ==
  \E base \in {Scenario.base, disk["bundle"]} :
    Mergeable(base, disk["fit"]) /\ disk'["bundle"] = Merged(base, disk["fit"])

LEMMA BundleStep ==
  ASSUME DOMAIN disk = Files, Bundle
  PROVE  /\ OnlyTouches({"bundle"}) /\ DiesWhereItMay /\ UNCHANGED <<revision, cut>>
         /\ disk'["bundle"] \in {disk["bundle"], Torn} \/ BundleWrites
<1> DEFINE Result == /\ OnlyTouches({"bundle"}) /\ DiesWhereItMay
                     /\ disk'["bundle"] \in {disk["bundle"], Torn} \/ BundleWrites
<1> SUFFICES Result
  BY DEF Bundle
<1>0. "bundle" \in Files /\ {"ok", "refused", "unusable"} \subseteq Codes \ {"killed"}
  BY DEF Files, Codes
<1>1. PICK base \in {Scenario.base, disk["bundle"]} :
        IF Mergeable(base, disk["fit"])
        THEN LET bundle == Merged(base, disk["fit"])
             IN Writes("bundle", bundle, IF Loads(bundle) THEN "ok" ELSE "refused")
        ELSE Ends("unusable")
  BY DEF Bundle
<1>2. CASE Mergeable(base, disk["fit"])
  <2> DEFINE merged == Merged(base, disk["fit"])
             exit == IF Loads(merged) THEN "ok" ELSE "refused"
  <2>1. exit \in Codes \ {"killed"} /\ Writes("bundle", merged, exit)
    BY <1>0, <1>1, <1>2
  <2> HIDE DEF merged, exit
  <2>2. OnlyTouches({"bundle"}) /\ DiesWhereItMay /\ disk'["bundle"] \in {merged, Torn}
    BY <2>1, <1>0, WritesOneFile
  <2> QED BY <2>2, <1>2 DEF BundleWrites, merged
<1>3. CASE ~Mergeable(base, disk["fit"])
  <2>1. OnlyTouches({}) /\ DiesWhereItMay
    BY <1>0, <1>1, <1>3, EndsLeavesAlone
  <2> QED BY <2>1, <1>0 DEF OnlyTouches
<1> QED BY <1>2, <1>3

\* validate writes the verdict on the run held out, predicted with the fit at hand,
\* or that on metrics from elsewhere.
ValidateWrites ==
  \/ /\ disk["manifest"] \notin Unreadable /\ disk["run2"] \notin Unreadable /\ disk["fit"] \notin Unreadable
     /\ \E score \in Scenario.scores :
          disk'["verdict"] = Verdict(Score(score.rmse, score.baseline, score.lag, "openarm"),
                                     {disk["run2"].of}, disk["fit"], score.rmse = NaN)
  \/ \E metrics \in Scenario.metrics : disk'["verdict"] = Verdict(metrics, {}, disk["fit"], FALSE)

LEMMA ValidateStep ==
  ASSUME DOMAIN disk = Files, SplitAsWritten, Validate
  PROVE  /\ OnlyTouches({"verdict"}) /\ DiesWhereItMay /\ UNCHANGED <<revision, cut>>
         /\ disk'["verdict"] \in {disk["verdict"], Torn} \/ (ValidateWrites /\ Loads(disk["bundle"]))
<1> DEFINE Result == /\ OnlyTouches({"verdict"}) /\ DiesWhereItMay
                     /\ disk'["verdict"] \in {disk["verdict"], Torn} \/ (ValidateWrites /\ Loads(disk["bundle"]))
<1> SUFFICES Result
  BY DEF Validate
<1>0. "verdict" \in Files /\ {"ok", "refused", "unusable", "traceback"} \subseteq Codes \ {"killed"}
  BY DEF Files, Codes
<1>1. ASSUME NEW exit \in Codes \ {"killed"}, Ends(exit) PROVE Result
  <2>1. OnlyTouches({}) /\ DiesWhereItMay
    BY <1>1, EndsLeavesAlone
  <2> QED BY <2>1, <1>0 DEF OnlyTouches
<1>2. ASSUME NEW verdict, Judges(verdict), disk'["verdict"] = verdict => ValidateWrites /\ Loads(disk["bundle"])
      PROVE  Result
  <2> DEFINE exit == IF verdict.status = "validated" THEN "ok" ELSE "refused"
  <2>1. exit \in Codes \ {"killed"} /\ Writes("verdict", verdict, exit)
    BY <1>0, <1>2 DEF Judges
  <2> HIDE DEF exit
  <2>2. OnlyTouches({"verdict"}) /\ DiesWhereItMay /\ disk'["verdict"] \in {verdict, Torn}
    BY <2>1, <1>0, WritesOneFile
  <2> QED BY <2>2, <1>2
<1> HIDE DEF Result
<1>3. CASE ~Loads(disk["bundle"])
  BY <1>0, <1>1, <1>3 DEF Validate
<1>4. CASE Loads(disk["bundle"]) /\ ValidateMetrics
  <2>1. PICK metrics \in Scenario.metrics :
          IF metrics = Torn THEN Ends("traceback") ELSE Judges(Verdict(metrics, {}, disk["fit"], FALSE))
    BY <1>4 DEF ValidateMetrics
  <2>2. CASE metrics = Torn
    BY <2>1, <2>2, <1>0, <1>1
  <2>3. CASE metrics # Torn
    <3> DEFINE verdict == Verdict(metrics, {}, disk["fit"], FALSE)
    <3>1. Judges(verdict) /\ (disk'["verdict"] = verdict => ValidateWrites /\ Loads(disk["bundle"]))
      BY <2>1, <2>3, <1>4 DEF ValidateWrites
    <3> HIDE DEF verdict
    <3> QED BY <3>1, <1>2
  <2> QED BY <2>2, <2>3
<1>5. CASE Loads(disk["bundle"]) /\ ValidateRun
  <2>1. CASE \E exit \in Codes \ {"killed"} : Ends(exit)
    BY <2>1, <1>1
  <2>2. CASE ~ \E exit \in Codes \ {"killed"} : Ends(exit)
    <3>1. LET run == HeldOut(disk["manifest"])
          IN /\ ManifestReads /\ Loaded(run) = "ok" /\ disk["fit"] \notin Unreadable
             /\ \E score \in Scenario.scores :
                  Judges(Verdict(Score(score.rmse, score.baseline, score.lag, "openarm"),
                                 {disk[run].of}, disk["fit"], score.rmse = NaN))
      BY <1>5, <2>2, <1>0, LoadedIsThere DEF ValidateRun
    <3>2. HeldOut(disk["manifest"]) = "run2" /\ disk["manifest"] \notin Unreadable
      BY <3>1, FirstRuns, PathsAreNumbered DEF HeldOut, ManifestReads, SplitAsWritten
    <3>3. disk["run2"] \notin Unreadable
      BY <3>1, <3>2, LoadedIsThere
    <3>4. PICK score \in Scenario.scores :
            Judges(Verdict(Score(score.rmse, score.baseline, score.lag, "openarm"),
                           {disk["run2"].of}, disk["fit"], score.rmse = NaN))
      BY <3>1, <3>2
    <3> DEFINE verdict == Verdict(Score(score.rmse, score.baseline, score.lag, "openarm"),
                                  {disk["run2"].of}, disk["fit"], score.rmse = NaN)
    <3>5. Judges(verdict) /\ (disk'["verdict"] = verdict => ValidateWrites /\ Loads(disk["bundle"]))
      BY <3>1, <3>2, <3>3, <3>4, <1>5 DEF ValidateWrites
    <3> HIDE DEF verdict
    <3> QED BY <3>5, <1>2
  <2> QED BY <2>1, <2>2
<1> QED BY <1>3, <1>4, <1>5 DEF Validate

\* export copies a bundle that loads, and with it writes the calibration of one whose
\* groups all have a name of their own.
ExportWrites ==
  disk["bundle"] \notin Unreadable /\ Loads(disk["bundle"]) /\ disk'["release"] = disk["bundle"]

TranslationWrites ==
  /\ disk["bundle"] \notin Unreadable
  /\ Exportable(disk["bundle"], Scenario.names, Scenario.spread)
  /\ disk'["hdgp"] = [groups |-> Exported(disk["bundle"], Scenario.names), measured |-> Identified(disk["bundle"])]

LEMMA ExportStep ==
  ASSUME DOMAIN disk = Files, Export
  PROVE  /\ OnlyTouches({"release", "hdgp"}) /\ DiesWhereItMay /\ UNCHANGED <<revision, cut>>
         /\ disk'["release"] \in {disk["release"], Torn} \/ ExportWrites
         /\ disk'["hdgp"] \in {disk["hdgp"], Torn} \/ TranslationWrites
<1> DEFINE Result == /\ OnlyTouches({"release", "hdgp"}) /\ DiesWhereItMay
                     /\ disk'["release"] \in {disk["release"], Torn} \/ ExportWrites
                     /\ disk'["hdgp"] \in {disk["hdgp"], Torn} \/ TranslationWrites
<1> SUFFICES Result
  BY DEF Export
<1> DEFINE outcomes == <<IF Loads(disk["bundle"]) THEN "ok" ELSE "unusable",
                         IF disk["verdict"] \in Unreadable THEN "traceback" ELSE "ok">>
<1>0. /\ {"release", "hdgp"} \subseteq Files
      /\ {"ok", "refused", "unusable", "traceback"} \subseteq Codes \ {"killed"}
  BY DEF Files, Codes
<1>1. ASSUME NEW exit \in Codes \ {"killed"}, Ends(exit) PROVE Result
  <2>1. OnlyTouches({}) /\ DiesWhereItMay
    BY <1>1, EndsLeavesAlone
  <2> QED BY <2>1, <1>0 DEF OnlyTouches
<1>2. /\ Releasable \in Codes \ {"killed"}
      /\ Releasable = "ok" => Loads(disk["bundle"])
  <2>1. DOMAIN outcomes = {1, 2} /\ Releasable = FirstOf(outcomes)
    BY DEF Releasable
  <2>2. /\ outcomes[1] = IF Loads(disk["bundle"]) THEN "ok" ELSE "unusable"
        /\ outcomes[2] = IF disk["verdict"] \in Unreadable THEN "traceback" ELSE "ok"
    OBVIOUS
  <2> HIDE DEF outcomes
  <2>3. /\ FirstOf(outcomes) \in {"ok", outcomes[1], outcomes[2]}
        /\ FirstOf(outcomes) = "ok" => outcomes[1] = "ok" /\ outcomes[2] = "ok"
    BY <2>1, FirstIsEvery
  <2> QED BY <2>1, <2>2, <2>3 DEF Codes
<1>3. CASE Releasable # "ok" \/ disk["verdict"].status # "validated"
  <2> HIDE DEF Result
  <2>1. \E exit \in Codes \ {"killed"} : Ends(exit)
    BY <1>0, <1>2, <1>3 DEF Export
  <2> QED BY <2>1, <1>1
<1>4. CASE Releasable = "ok" /\ disk["verdict"].status = "validated"
  <2>1. disk["bundle"] \notin Unreadable /\ Loads(disk["bundle"])
    BY <1>2, <1>4 DEF Loads
  <2>2. CASE Writes("release", disk["bundle"], "ok")
    <3>1. OnlyTouches({"release"}) /\ DiesWhereItMay /\ disk'["release"] \in {disk["bundle"], Torn}
      BY <2>2, <1>0, WritesOneFile
    <3> QED BY <3>1, <2>1, <1>0 DEF OnlyTouches, ExportWrites
  <2>3. CASE Translates(disk["bundle"])
    <3> DEFINE released == [disk EXCEPT !["release"] = disk["bundle"]]
               calibration == [groups |-> Exported(disk["bundle"], Scenario.names),
                               measured |-> Identified(disk["bundle"])]
    <3>1. CASE ~Exportable(disk["bundle"], Scenario.names, Scenario.spread)
      <4>1. disk' = released /\ code' = "unusable"
        BY <2>3, <3>1 DEF Translates
      <4> QED BY <4>1, <2>1, <1>0 DEF OnlyTouches, DiesWhereItMay, ExportWrites, Files
    <3>2. CASE Exportable(disk["bundle"], Scenario.names, Scenario.spread)
      <4>1. PICK content \in {calibration, Torn} :
              /\ disk' = [released EXCEPT !["hdgp"] = content]
              /\ code' \in {"ok", "killed"} /\ (code' = "killed" => left["die"] > 0)
        BY <2>3, <3>2 DEF Translates
      <4>2. OnlyTouches({"release", "hdgp"}) /\ disk'["release"] = disk["bundle"] /\ disk'["hdgp"] = content
        BY <4>1, <1>0 DEF OnlyTouches, Files
      <4>3. DiesWhereItMay
        BY <4>1 DEF DiesWhereItMay, Codes
      <4>4. ExportWrites
        BY <4>2, <2>1 DEF ExportWrites
      <4>5. content = calibration => TranslationWrites
        BY <2>1, <4>2, <3>2 DEF TranslationWrites
      <4> QED BY <4>1, <4>2, <4>3, <4>4, <4>5
    <3> QED BY <3>1, <3>2
  <2> QED BY <1>4, <2>2, <2>3 DEF Export
<1> QED BY <1>3, <1>4

\* The files after some of the runs: each of them has its recording, and no other
\* file is touched.
NumberedRuns == {"run0", "run1", "run2"}

LEMMA AfterOneRun ==
  ASSUME NEW group, NEW stream, NEW n \in 0..1
  PROVE  LET after == After(group, n, 1, stream)
         IN /\ DOMAIN after = Files
            /\ after["run"] = IF n = 1 THEN Recording(group, 0, stream) ELSE disk["run"]
            /\ \A path \in Files \ {"run"} : after[path] = disk[path]
<1> DEFINE here(path) == {i \in 0..(n - 1) : path = RepetitionPath(i, 1)}
<1>1. n = 1 => here("run") = {0} /\ Min({0}) = 0
  <2>1. n = 1 => 0..(n - 1) = {0}
    OBVIOUS
  <2>2. Min({0}) = 0
    BY DEF Min
  <2> QED BY <2>1, <2>2, PathsAreNumbered
<1>2. n = 0 => here("run") = {}
  OBVIOUS
<1>3. \A path \in Files \ {"run"} : here(path) = {}
  BY DEF RepetitionPath
<1>4. n = 0 \/ n = 1
  OBVIOUS
<1>5. After(group, n, 1, stream) =
        [path \in Files |-> IF here(path) = {} THEN disk[path] ELSE Recording(group, Min(here(path)), stream)]
  BY DEF After
<1> HIDE DEF here
<1> QED BY <1>1, <1>2, <1>3, <1>4, <1>5 DEF Files, Recorded

LEMMA AfterThreeRuns ==
  ASSUME NEW group, NEW stream, NEW n \in 0..3
  PROVE  LET after == After(group, n, 3, stream)
         IN /\ DOMAIN after = Files
            /\ after["run0"] = IF 0 < n THEN Recording(group, 0, stream) ELSE disk["run0"]
            /\ after["run1"] = IF 1 < n THEN Recording(group, 1, stream) ELSE disk["run1"]
            /\ after["run2"] = IF 2 < n THEN Recording(group, 2, stream) ELSE disk["run2"]
            /\ \A path \in Files \ NumberedRuns : after[path] = disk[path]
<1> DEFINE here(path) == {i \in 0..(n - 1) : path = RepetitionPath(i, 3)}
<1>0. \A i \in 0..(n - 1) : i = 0 \/ i = 1 \/ i = 2
  OBVIOUS
<1>1. /\ here("run0") = IF 0 < n THEN {0} ELSE {}
      /\ here("run1") = IF 1 < n THEN {1} ELSE {}
      /\ here("run2") = IF 2 < n THEN {2} ELSE {}
      /\ \A path \in Files \ NumberedRuns : here(path) = {}
  <2>1. \A path, i : i \in here(path) <=> i \in 0..(n - 1) /\ path = RepetitionPath(i, 3)
    OBVIOUS
  <2> HIDE DEF here
  <2>2. \A i : i \in here("run0") <=> i = 0 /\ 0 < n
    BY <1>0, <2>1, PathsAreNumbered
  <2>3. \A i : i \in here("run1") <=> i = 1 /\ 1 < n
    BY <1>0, <2>1, PathsAreNumbered
  <2>4. \A i : i \in here("run2") <=> i = 2 /\ 2 < n
    BY <1>0, <2>1, PathsAreNumbered
  <2>5. \A path \in Files \ NumberedRuns : \A i : i \notin here(path)
    BY <1>0, <2>1, PathsAreNumbered DEF NumberedRuns
  <2>6. here("run0") = IF 0 < n THEN {0} ELSE {}
    BY <2>2
  <2>7. here("run1") = IF 1 < n THEN {1} ELSE {}
    BY <2>3
  <2>8. here("run2") = IF 2 < n THEN {2} ELSE {}
    BY <2>4
  <2> QED BY <2>5, <2>6, <2>7, <2>8
<1>2. Min({0}) = 0 /\ Min({1}) = 1 /\ Min({2}) = 2
  BY DEF Min
<1>3. After(group, n, 3, stream) =
        [path \in Files |-> IF here(path) = {} THEN disk[path] ELSE Recording(group, Min(here(path)), stream)]
  BY DEF After
<1> HIDE DEF here
<1> QED BY <1>1, <1>2, <1>3 DEF Files, Recorded, NumberedRuns

\* collect leaves one recording, or three with their manifest, or some of the three
\* beside the manifest of an earlier collection.
CollectsOne(group, stream) ==
  /\ OnlyTouches({"run"}) /\ cut' = cut
  /\ disk'["run"] \in {disk["run"], Torn, Recording(group, 0, stream)}

CollectsThree(group, stream) ==
  /\ OnlyTouches(NumberedRuns \cup {"manifest"}) /\ cut' = cut
  /\ disk'["run0"] = Recording(group, 0, stream)
  /\ disk'["run1"] = Recording(group, 1, stream)
  /\ disk'["run2"] = Recording(group, 2, stream)
  /\ disk'["manifest"] = Manifest(group)

IsCutShort(group, stream) ==
  /\ OnlyTouches(NumberedRuns \cup {"manifest"}) /\ cut' = TRUE
  /\ disk'["run0"] \in {disk["run0"], Torn, Recording(group, 0, stream)}
  /\ disk'["run1"] \in {disk["run1"], Torn, Recording(group, 1, stream)}
  /\ disk'["run2"] \in {disk["run2"], Torn, Recording(group, 2, stream)}
  /\ disk'["manifest"] \in {disk["manifest"], Torn}

CollectWrites ==
  \E group \in Groups, stream \in Scenario.streams :
    CollectsOne(group, stream) \/ CollectsThree(group, stream) \/ IsCutShort(group, stream)

LEMMA CollectStep ==
  ASSUME DOMAIN disk = Files, cut \in BOOLEAN, Collect
  PROVE  CollectWrites /\ DiesWhereItMay /\ UNCHANGED revision
<1>1. PICK group \in Groups, repetitions \in {1, 3}, stream \in Scenario.streams :
        CollectRuns(group, repetitions, stream) \/ CollectStops(group, repetitions, stream)
  BY DEF Collect
<1>2. CASE CollectRuns(group, repetitions, stream)
  <2>0. DiesWhereItMay
    BY <1>2 DEF CollectRuns, DiesWhereItMay, Codes
  <2>1. CASE repetitions = 1
    <3>1. disk' = After(group, 1, 1, stream) /\ cut' = cut
      BY <1>2, <2>1 DEF CollectRuns
    <3>2. CollectsOne(group, stream)
      BY <3>1, AfterOneRun DEF CollectsOne, OnlyTouches
    <3> QED BY <2>0, <3>2 DEF CollectWrites, Collect
  <2>2. CASE repetitions = 3
    <3> DEFINE after == After(group, 3, 3, stream)
    <3>1. disk' = [after EXCEPT !["manifest"] = Manifest(group)] /\ cut' = cut
      BY <1>2, <2>2 DEF CollectRuns
    <3>2. /\ DOMAIN after = Files
          /\ after["run0"] = Recording(group, 0, stream)
          /\ after["run1"] = Recording(group, 1, stream)
          /\ after["run2"] = Recording(group, 2, stream)
          /\ \A path \in Files \ NumberedRuns : after[path] = disk[path]
      BY AfterThreeRuns
    <3> HIDE DEF after
    <3>3. CollectsThree(group, stream)
      BY <3>1, <3>2 DEF CollectsThree, OnlyTouches, Files, NumberedRuns
    <3> QED BY <2>0, <3>3 DEF CollectWrites, Collect
  <2> QED BY <2>1, <2>2
<1>3. CASE CollectStops(group, repetitions, stream)
  <2>1. PICK n \in 0..repetitions :
          /\ n < repetitions \/ repetitions > 1
          /\ LET next == IF n < repetitions THEN RepetitionPath(n, repetitions) ELSE "manifest"
                 sofar == After(group, n, repetitions, stream)
             IN \/ n < repetitions /\ disk' = sofar /\ code' \in {"refused", "unusable"}
                \/ left["die"] > 0 /\ disk' = [sofar EXCEPT ![next] = Torn] /\ code' = "killed"
    BY <1>3 DEF CollectStops
  <2>2. cut' = (cut \/ repetitions > 1)
    BY <1>3 DEF CollectStops
  <2>3. DiesWhereItMay
    BY <2>1 DEF DiesWhereItMay, Codes
  <2>4. CASE repetitions = 1
    <3> DEFINE after == After(group, n, 1, stream)
    <3>1. n = 0 /\ RepetitionPath(n, 1) = "run" /\ cut' = cut
      BY <2>1, <2>2, <2>4, PathsAreNumbered
    <3>2. disk' = after \/ disk' = [after EXCEPT !["run"] = Torn]
      BY <2>1, <2>4, <3>1
    <3>3. /\ DOMAIN after = Files /\ after["run"] = disk["run"]
          /\ \A path \in Files \ {"run"} : after[path] = disk[path]
      BY <3>1, AfterOneRun
    <3> HIDE DEF after
    <3>4. CollectsOne(group, stream)
      BY <3>1, <3>2, <3>3 DEF CollectsOne, OnlyTouches, Files, Recorded
    <3> QED BY <2>3, <3>4 DEF CollectWrites, Collect
  <2>5. CASE repetitions = 3
    <3> DEFINE after == After(group, n, 3, stream)
               next == IF n < 3 THEN RepetitionPath(n, 3) ELSE "manifest"
    <3>1. cut' = TRUE /\ n \in 0..3
      <4>1. repetitions > 1 /\ n \in 0..3
        BY <2>1, <2>5
      <4>2. cut' = TRUE
        BY <4>1, <2>2, Zenon
      <4> QED BY <4>1, <4>2
    <3>2. next \in NumberedRuns \cup {"manifest"}
      <4>1. n = 0 \/ n = 1 \/ n = 2 \/ n = 3
        BY <3>1
      <4> QED BY <4>1, PathsAreNumbered DEF NumberedRuns
    <3>3. disk' = after \/ disk' = [after EXCEPT ![next] = Torn]
      BY <2>1, <2>5
    <3>4. /\ DOMAIN after = Files
          /\ after["run0"] \in {disk["run0"], Recording(group, 0, stream)}
          /\ after["run1"] \in {disk["run1"], Recording(group, 1, stream)}
          /\ after["run2"] \in {disk["run2"], Recording(group, 2, stream)}
          /\ \A path \in Files \ NumberedRuns : after[path] = disk[path]
      BY <3>1, AfterThreeRuns
    <3> HIDE DEF after, next
    <3>5. IsCutShort(group, stream)
      BY <3>1, <3>2, <3>3, <3>4 DEF IsCutShort, OnlyTouches, Files, Recorded, NumberedRuns
    <3> QED BY <2>3, <3>5 DEF CollectWrites, Collect
  <2> QED BY <2>4, <2>5
<1> QED BY <1>1, <1>2, <1>3

(***************************************************************************)
(* What a verdict is on: HoldoutNeverFitted.                               *)
(***************************************************************************)
\* A numbered file holds the run of that number, whichever collection it is of, and a
\* fit from a manifest is over the first two.
NumbersAgree ==
  /\ disk["run0"] \notin Unreadable => disk["run0"].of.index = 0
  /\ disk["run1"] \notin Unreadable => disk["run1"].of.index = 1
  /\ disk["run2"] \notin Unreadable => disk["run2"].of.index = 2

FittedOnFirstRuns ==
  disk["fit"] \notin Unreadable /\ disk["fit"].split =>
    \A recording \in disk["fit"].used : recording.index \in {0, 1}

JudgedOnLastRun ==
  disk["verdict"] \notin Unreadable /\ disk["verdict"].split =>
    /\ \A recording \in disk["verdict"].scored : recording.index = 2
    /\ \A recording \in disk["verdict"].used : recording.index \in {0, 1}

HoldoutInv ==
  DOMAIN disk = Files /\ cut \in BOOLEAN /\ SplitAsWritten /\ NumbersAgree /\ FittedOnFirstRuns /\ JudgedOnLastRun

\* The runs a fit from a manifest is over are the first two.
LEMMA UsedFromManifest ==
  ASSUME Readable("manifest")
  PROVE  /\ Used("manifest") = {disk["run0"].of, disk["run1"].of}
         /\ Described("manifest") = {disk["run0"].revision, disk["run1"].revision}
<1>1. RunsFitted = {"run0", "run1"}
  BY PathsAreNumbered DEF Readable, RunsFitted, FitRuns
<1> QED BY <1>1 DEF Used, Described

\* What a manifest says of its collection.
LEMMA ManifestSays ==
  ASSUME NEW group
  PROVE  /\ Manifest(group).fit = FitRuns /\ Manifest(group).holdout = HoldoutRuns
         /\ Manifest(group).group = group /\ Manifest(group).revision = revision
BY DEF Manifest

LEMMA HoldoutInvInit ==
  Init => HoldoutInv
BY DEF Init, HoldoutInv, SplitAsWritten, NumbersAgree, FittedOnFirstRuns, JudgedOnLastRun, Files, Recorded, Unreadable

\* What of it a stage that leaves these files alone cannot disturb.
LEMMA SplitKept ==
  ASSUME SplitAsWritten, disk'["manifest"] \in {disk["manifest"], Torn}
  PROVE  SplitAsWritten'
BY DEF SplitAsWritten, Unreadable

LEMMA NumbersKept ==
  ASSUME NumbersAgree, \A path \in NumberedRuns : disk'[path] = disk[path]
  PROVE  NumbersAgree'
BY DEF NumbersAgree, NumberedRuns

LEMMA FittedKept ==
  ASSUME FittedOnFirstRuns, disk'["fit"] \in {disk["fit"], Torn}
  PROVE  FittedOnFirstRuns'
BY DEF FittedOnFirstRuns, Unreadable

LEMMA JudgedKept ==
  ASSUME JudgedOnLastRun, disk'["verdict"] \in {disk["verdict"], Torn}
  PROVE  JudgedOnLastRun'
BY DEF JudgedOnLastRun, Unreadable

LEMMA FilesAre ==
  /\ NumberedRuns \subseteq Recorded /\ Recorded \subseteq Files
  /\ {"manifest", "track", "static", "fit", "bundle", "verdict", "release", "hdgp"} \subseteq Files \ Recorded
  /\ "run" \in Recorded \ NumberedRuns
BY DEF NumberedRuns, Recorded, Files

LEMMA HoldoutInvStep ==
  ASSUME HoldoutInv, [Next]_vars
  PROVE  HoldoutInv'
<1> USE FilesAre
<1>0. DOMAIN disk = Files /\ cut \in BOOLEAN /\ SplitAsWritten /\ NumbersAgree /\ FittedOnFirstRuns /\ JudgedOnLastRun
  BY DEF HoldoutInv
<1>1. CASE Collect
  <2>1. PICK group \in Groups, stream \in Scenario.streams :
          CollectsOne(group, stream) \/ CollectsThree(group, stream) \/ IsCutShort(group, stream)
    BY <1>0, <1>1, CollectStep DEF CollectWrites
  <2>2. CASE CollectsOne(group, stream)
    <3>1. OnlyTouches({"run"}) /\ cut' = cut
      BY <2>2 DEF CollectsOne
    <3>2. /\ \A path \in NumberedRuns : disk'[path] = disk[path]
          /\ disk'["manifest"] = disk["manifest"] /\ disk'["fit"] = disk["fit"] /\ disk'["verdict"] = disk["verdict"]
      BY <3>1 DEF OnlyTouches
    <3> QED BY <1>0, <3>1, <3>2, SplitKept, NumbersKept, FittedKept, JudgedKept DEF HoldoutInv, OnlyTouches
  <2>3. CASE CollectsThree(group, stream) \/ IsCutShort(group, stream)
    <3>1. OnlyTouches(NumberedRuns \cup {"manifest"}) /\ cut' \in BOOLEAN
      BY <1>0, <2>3 DEF CollectsThree, IsCutShort
    <3>2. disk'["fit"] = disk["fit"] /\ disk'["verdict"] = disk["verdict"]
      BY <3>1 DEF OnlyTouches, NumberedRuns
    <3>3. NumbersAgree'
      <4>1. /\ disk'["run0"] \in {disk["run0"], Torn, Recording(group, 0, stream)}
            /\ disk'["run1"] \in {disk["run1"], Torn, Recording(group, 1, stream)}
            /\ disk'["run2"] \in {disk["run2"], Torn, Recording(group, 2, stream)}
        BY <2>3 DEF CollectsThree, IsCutShort
      <4>2. /\ Recording(group, 0, stream).of.index = 0
            /\ Recording(group, 1, stream).of.index = 1
            /\ Recording(group, 2, stream).of.index = 2
        BY DEF Recording
      <4> QED BY <1>0, <4>1, <4>2 DEF NumbersAgree, Unreadable
    <3>4. SplitAsWritten'
      BY <1>0, <2>3, ManifestSays DEF CollectsThree, IsCutShort, SplitAsWritten, Unreadable
    <3> QED BY <1>0, <3>1, <3>2, <3>3, <3>4, FittedKept, JudgedKept DEF HoldoutInv, OnlyTouches
  <2> QED BY <2>1, <2>2, <2>3
<1>2. CASE Normalize \/ Identify \/ Bundle \/ Export
  <2>1. PICK paths \in SUBSET {"track", "static", "bundle", "release", "hdgp"} : OnlyTouches(paths) /\ cut' = cut
    <3>1. Normalize => OnlyTouches({"track"}) /\ cut' = cut
      BY <1>0, NormalizeStep
    <3>2. Identify => OnlyTouches({"static"}) /\ cut' = cut
      BY <1>0, IdentifyStep
    <3>3. Bundle => OnlyTouches({"bundle"}) /\ cut' = cut
      BY <1>0, BundleStep
    <3>4. Export => OnlyTouches({"release", "hdgp"}) /\ cut' = cut
      BY <1>0, ExportStep
    <3> QED BY <1>2, <3>1, <3>2, <3>3, <3>4
  <2>2. /\ \A path \in NumberedRuns : disk'[path] = disk[path]
        /\ disk'["manifest"] = disk["manifest"] /\ disk'["fit"] = disk["fit"] /\ disk'["verdict"] = disk["verdict"]
    BY <2>1 DEF OnlyTouches, NumberedRuns
  <2> QED BY <1>0, <2>1, <2>2, SplitKept, NumbersKept, FittedKept, JudgedKept DEF HoldoutInv, OnlyTouches
<1>3. CASE Fit
  <2>1. /\ OnlyTouches({"fit"}) /\ cut' = cut
        /\ disk'["fit"] \in {disk["fit"], Torn} \/ FitWrites
    BY <1>0, <1>3, FitStep
  <2>2. /\ \A path \in NumberedRuns : disk'[path] = disk[path]
        /\ disk'["manifest"] = disk["manifest"] /\ disk'["verdict"] = disk["verdict"]
    BY <2>1 DEF OnlyTouches, NumberedRuns
  <2>3. FittedOnFirstRuns'
    <3>1. CASE disk'["fit"] \in {disk["fit"], Torn}
      BY <1>0, <3>1, FittedKept
    <3>2. CASE FitWrites
      <4>0. PICK source \in {"manifest", "track"} :
              Readable(source) /\ \E group, arm, heard, accept : disk'["fit"] = Fitted(source, group, arm, heard, accept)
        BY <3>2 DEF FitWrites
      <4>1. disk'["fit"].split = (source = "manifest") /\ disk'["fit"].used = Used(source)
        <5>1. PICK group, arm, heard, accept : disk'["fit"] = Fitted(source, group, arm, heard, accept)
          BY <4>0
        <5> QED BY <5>1 DEF Fitted
      <4>2. CASE source = "track"
        <5>1. ~disk'["fit"].split
          BY <4>1, <4>2, "track" # "manifest"
        <5> QED BY <5>1 DEF FittedOnFirstRuns
      <4>3. CASE source = "manifest"
        <5>1. disk["run0"] \notin Unreadable /\ disk["run1"] \notin Unreadable
          BY <4>0, <4>3 DEF Readable
        <5> QED BY <1>0, <4>0, <4>1, <4>3, <5>1, UsedFromManifest DEF FittedOnFirstRuns, NumbersAgree
      <4> QED BY <4>2, <4>3
    <3> QED BY <2>1, <3>1, <3>2
  <2> QED BY <1>0, <2>1, <2>2, <2>3, SplitKept, NumbersKept, JudgedKept DEF HoldoutInv, OnlyTouches
<1>4. CASE Validate
  <2>1. /\ OnlyTouches({"verdict"}) /\ cut' = cut
        /\ disk'["verdict"] \in {disk["verdict"], Torn} \/ ValidateWrites
    BY <1>0, <1>4, ValidateStep
  <2>2. /\ \A path \in NumberedRuns : disk'[path] = disk[path]
        /\ disk'["manifest"] = disk["manifest"] /\ disk'["fit"] = disk["fit"]
    BY <2>1 DEF OnlyTouches, NumberedRuns
  <2>3. JudgedOnLastRun'
    <3>1. CASE disk'["verdict"] \in {disk["verdict"], Torn}
      BY <1>0, <3>1, JudgedKept
    <3>2. CASE ValidateWrites
      <4>1. CASE \E metrics \in Scenario.metrics : disk'["verdict"] = Verdict(metrics, {}, disk["fit"], FALSE)
        <5>0. PICK metrics \in Scenario.metrics : disk'["verdict"] = Verdict(metrics, {}, disk["fit"], FALSE)
          BY <4>1
        <5>1. disk'["verdict"].split = FALSE
          BY <5>0 DEF Verdict
        <5> QED BY <5>1 DEF JudgedOnLastRun
      <4>2. CASE disk["run2"] \notin Unreadable /\ disk["fit"] \notin Unreadable
                 /\ \E metrics, ranAway : disk'["verdict"] = Verdict(metrics, {disk["run2"].of}, disk["fit"], ranAway)
        <5>0. PICK metrics, ranAway : disk'["verdict"] = Verdict(metrics, {disk["run2"].of}, disk["fit"], ranAway)
          BY <4>2
        <5> DEFINE scored == {disk["run2"].of}
        <5>a. scored # {}
          OBVIOUS
        <5> HIDE DEF scored
        <5>b. disk'["verdict"] = Verdict(metrics, scored, disk["fit"], ranAway)
          BY <5>0 DEF scored
        <5>c. disk'["verdict"].scored = scored
          BY <5>b DEF Verdict
        <5>d. disk'["verdict"].used = disk["fit"].used
          BY <5>a, <5>b DEF Verdict
        <5>e. disk'["verdict"].split => disk["fit"].split
          BY <5>a, <5>b DEF Verdict
        <5>1. /\ disk'["verdict"].split => disk["fit"].split
              /\ disk'["verdict"].scored = {disk["run2"].of} /\ disk'["verdict"].used = disk["fit"].used
          BY <5>c, <5>d, <5>e DEF scored
        <5> QED BY <1>0, <4>2, <5>1 DEF JudgedOnLastRun, NumbersAgree, FittedOnFirstRuns
      <4> QED BY <3>2, <4>1, <4>2 DEF ValidateWrites
    <3> QED BY <2>1, <3>1, <3>2
  <2> QED BY <1>0, <2>1, <2>2, <2>3, SplitKept, NumbersKept, FittedKept DEF HoldoutInv, OnlyTouches
<1>5. CASE Revise \/ UNCHANGED vars
  BY <1>0, <1>5 DEF Revise, vars, HoldoutInv, SplitAsWritten, NumbersAgree, FittedOnFirstRuns, JudgedOnLastRun
<1> QED BY <1>1, <1>2, <1>3, <1>4, <1>5 DEF Next

\* validate judges a model on a run the model has not seen: whatever collections,
\* fits, deaths and old files went before, a verdict on a run held out by a manifest
\* is never on one of the recordings the model was fitted on.
THEOREM HoldoutIsUnseen == Spec => []HoldoutNeverFitted
<1>1. HoldoutInv => HoldoutNeverFitted
  BY DEF HoldoutInv, JudgedOnLastRun, HoldoutNeverFitted
<1> QED BY <1>1, HoldoutInvInit, HoldoutInvStep, PTL DEF Spec

(***************************************************************************)
(* What a fit is of: FitOfOneCollection.                                   *)
(***************************************************************************)
\* As long as no collection was cut short, the runs beside a manifest are its own.
RunIsOf(path, group, collection, made) ==
  disk[path] \notin Unreadable =>
    disk[path].of.group = group /\ disk[path].of.collection = collection /\ disk[path].revision = made

RunsAreOf(group, made) ==
  \E collection : \A path \in NumberedRuns : RunIsOf(path, group, collection, made)

ManifestKnowsItsRuns ==
  ~cut /\ disk["manifest"] \notin Unreadable => RunsAreOf(disk["manifest"].group, disk["manifest"].revision)

CollectionInv == HoldoutInv /\ ManifestKnowsItsRuns /\ FitOfOneCollection

LEMMA CollectionInvInit ==
  Init => CollectionInv
BY HoldoutInvInit DEF Init, CollectionInv, ManifestKnowsItsRuns, FitOfOneCollection, Files, Recorded, Unreadable

LEMMA KnowsKept ==
  ASSUME ManifestKnowsItsRuns, cut' = cut, disk'["manifest"] = disk["manifest"],
         \A path \in NumberedRuns : disk'[path] = disk[path]
  PROVE  ManifestKnowsItsRuns'
BY DEF ManifestKnowsItsRuns, RunsAreOf, RunIsOf, NumberedRuns

LEMMA FitOfKept ==
  ASSUME FitOfOneCollection, cut => cut', disk'["fit"] \in {disk["fit"], Torn}
  PROVE  FitOfOneCollection'
BY DEF FitOfOneCollection, Unreadable

LEMMA FittedFromOne ==
  ASSUME HoldoutInv, ManifestKnowsItsRuns, FitWrites, cut' = cut
  PROVE  FitOfOneCollection'
<1>1. PICK source \in {"manifest", "track"} : \E arm \in Arms(source) :
        /\ Readable(source)
        /\ \/ disk'["fit"] = Fitted(source, NoGroup, arm, [j \in Joints |-> "nan"], FALSE)
           \/ \E accept \in BOOLEAN :
                /\ disk["static"].group = Leading(source).group
                /\ disk'["fit"] = Fitted(source, disk["static"].group, arm, disk["static"].coulomb, accept)
  BY DEF FitWrites
<1>2. PICK group, arm, heard, accept :
        /\ Readable(source)
        /\ group = NoGroup \/ group = Leading(source).group
        /\ disk'["fit"] = Fitted(source, group, arm, heard, accept)
  BY <1>1
<1>3. /\ disk'["fit"].split = (source = "manifest") /\ disk'["fit"].used = Used(source)
      /\ disk'["fit"].described = Described(source)
      /\ disk'["fit"].at = revision /\ disk'["fit"].group = group
  BY <1>2 DEF Fitted
<1>4. CASE source = "track"
  <2>1. ~disk'["fit"].split
    BY <1>3, <1>4, "track" # "manifest"
  <2> QED BY <2>1 DEF FitOfOneCollection
<1>5. CASE source = "manifest"
  <2> SUFFICES ASSUME ~cut PROVE FitOfOneCollection'
    BY DEF FitOfOneCollection
  <2>1. /\ disk["manifest"] \notin Unreadable /\ disk["manifest"].revision = revision
        /\ disk["manifest"].fit = FitRuns
        /\ disk["run0"] \notin Unreadable /\ disk["run1"] \notin Unreadable
    BY <1>2, <1>5 DEF Readable, ManifestReads, NamesThisRobot
  <2>2. PICK collection : \A path \in NumberedRuns :
          RunIsOf(path, disk["manifest"].group, collection, revision)
    BY <2>1 DEF ManifestKnowsItsRuns, RunsAreOf
  <2>3. /\ disk["run0"].of.group = disk["manifest"].group /\ disk["run1"].of.group = disk["manifest"].group
        /\ disk["run0"].of.collection = collection /\ disk["run1"].of.collection = collection
        /\ disk["run0"].revision = revision /\ disk["run1"].revision = revision
    BY <2>1, <2>2 DEF RunIsOf, NumberedRuns
  <2>4. /\ Used(source) = {disk["run0"].of, disk["run1"].of}
        /\ Described(source) = {disk["run0"].revision, disk["run1"].revision}
    BY <1>2, <1>5, UsedFromManifest
  <2>5. Leading(source).group = disk["manifest"].group
    BY <1>5, <2>1, <2>3, FirstRuns, PathsAreNumbered DEF Leading
  <2> QED BY <1>2, <1>3, <2>3, <2>4, <2>5 DEF FitOfOneCollection
<1> QED BY <1>4, <1>5

LEMMA CollectionInvStep ==
  ASSUME CollectionInv, [Next]_vars
  PROVE  CollectionInv'
<1> USE FilesAre
<1>0. /\ DOMAIN disk = Files /\ cut \in BOOLEAN /\ SplitAsWritten
      /\ HoldoutInv /\ ManifestKnowsItsRuns /\ FitOfOneCollection
  BY DEF CollectionInv, HoldoutInv
<1> SUFFICES ManifestKnowsItsRuns' /\ FitOfOneCollection'
  BY <1>0, HoldoutInvStep DEF CollectionInv
<1>1. CASE Collect
  <2>1. PICK group \in Groups, stream \in Scenario.streams :
          CollectsOne(group, stream) \/ CollectsThree(group, stream) \/ IsCutShort(group, stream)
    BY <1>0, <1>1, CollectStep DEF CollectWrites
  <2>2. CASE CollectsOne(group, stream)
    <3>1. OnlyTouches({"run"}) /\ cut' = cut
      BY <2>2 DEF CollectsOne
    <3>2. /\ \A path \in NumberedRuns : disk'[path] = disk[path]
          /\ disk'["manifest"] = disk["manifest"] /\ disk'["fit"] = disk["fit"]
      BY <3>1 DEF OnlyTouches
    <3> QED BY <1>0, <3>1, <3>2, KnowsKept, FitOfKept
  <2>3. CASE CollectsThree(group, stream)
    <3>1. disk'["fit"] = disk["fit"] /\ cut' = cut
      BY <2>3 DEF CollectsThree, OnlyTouches, NumberedRuns
    <3>2. \A path \in NumberedRuns :
            /\ disk'[path].of.group = group /\ disk'[path].of.collection = left["collect"]
            /\ disk'[path].revision = revision
      BY <2>3 DEF CollectsThree, Recording, NumberedRuns
    <3>3. disk'["manifest"].group = group /\ disk'["manifest"].revision = revision
      BY <2>3, ManifestSays DEF CollectsThree
    <3> QED BY <1>0, <3>1, <3>2, <3>3, FitOfKept DEF ManifestKnowsItsRuns, RunsAreOf, RunIsOf
  <2>4. CASE IsCutShort(group, stream)
    <3>1. disk'["fit"] = disk["fit"] /\ cut'
      BY <2>4 DEF IsCutShort, OnlyTouches, NumberedRuns
    <3> QED BY <1>0, <3>1, FitOfKept DEF ManifestKnowsItsRuns
  <2> QED BY <2>1, <2>2, <2>3, <2>4
<1>2. CASE Normalize \/ Identify \/ Bundle \/ Export \/ Validate
  <2>1. PICK paths \in SUBSET {"track", "static", "bundle", "release", "hdgp", "verdict"} :
          OnlyTouches(paths) /\ cut' = cut
    <3>1. Normalize => OnlyTouches({"track"}) /\ cut' = cut
      BY <1>0, NormalizeStep
    <3>2. Identify => OnlyTouches({"static"}) /\ cut' = cut
      BY <1>0, IdentifyStep
    <3>3. Bundle => OnlyTouches({"bundle"}) /\ cut' = cut
      BY <1>0, BundleStep
    <3>4. Export => OnlyTouches({"release", "hdgp"}) /\ cut' = cut
      BY <1>0, ExportStep
    <3>5. Validate => OnlyTouches({"verdict"}) /\ cut' = cut
      BY <1>0, ValidateStep
    <3> QED BY <1>2, <3>1, <3>2, <3>3, <3>4, <3>5
  <2>2. /\ \A path \in NumberedRuns : disk'[path] = disk[path]
        /\ disk'["manifest"] = disk["manifest"] /\ disk'["fit"] = disk["fit"]
    BY <2>1 DEF OnlyTouches, NumberedRuns
  <2> QED BY <1>0, <2>1, <2>2, KnowsKept, FitOfKept
<1>3. CASE Fit
  <2>1. /\ OnlyTouches({"fit"}) /\ cut' = cut
        /\ disk'["fit"] \in {disk["fit"], Torn} \/ FitWrites
    BY <1>0, <1>3, FitStep
  <2>2. /\ \A path \in NumberedRuns : disk'[path] = disk[path]
        /\ disk'["manifest"] = disk["manifest"]
    BY <2>1 DEF OnlyTouches, NumberedRuns
  <2> QED BY <1>0, <2>1, <2>2, KnowsKept, FitOfKept, FittedFromOne
<1>4. CASE Revise \/ UNCHANGED vars
  <2>1. disk' = disk /\ cut' = cut
    BY <1>4 DEF Revise, vars
  <2> QED BY <1>0, <2>1, KnowsKept, FitOfKept
<1> QED BY <1>1, <1>2, <1>3, <1>4 DEF Next

\* fit never mixes collections: what it makes of a manifest is of two runs of one
\* collection with one arm, made under the description it is fitted under, until a
\* collection is cut short beside an older manifest.
THEOREM FitIsOfOneCollection == Spec => []FitOfOneCollection
<1>1. CollectionInv => FitOfOneCollection
  BY DEF CollectionInv
<1> QED BY <1>1, CollectionInvInit, CollectionInvStep, PTL DEF Spec

(***************************************************************************)
(* What the files hold: TypeOK.                                            *)
(***************************************************************************)
\* What each stage writes is what its readers take it for.
LEMMA RecordingIsTyped ==
  ASSUME revision \in Revisions, left["collect"] \in Nat,
         NEW group \in Groups, NEW index \in 0..2, NEW stream \in DOMAIN StreamsOf
  PROVE  Recording(group, index, stream) \in RecordingFiles
BY DEF Recording, RecordingFiles, Recordings

LEMMA ManifestIsTyped ==
  ASSUME revision \in Revisions, NEW group \in Groups
  PROVE  Manifest(group) \in ManifestFiles
BY ArtifactsAssumption DEF Manifest, ManifestFiles, FitRuns, HoldoutRuns

LEMMA StaticIsTyped ==
  ASSUME NEW name \in DOMAIN Estimates
  PROVE  Estimates[name] \in Statics
<1> DEFINE sweeps == SweepsOf[name]
<1>1. name \in DOMAIN SweepsOf /\ OneArm(sweeps) /\ Estimates[name] = StaticOf(sweeps, {name})
  BY DEF Estimates
<1>2. 1 \in DOMAIN sweeps /\ {name} \in SUBSET Sources
  BY <1>1, ToolchainAssumption DEF OneArm
<1>3. sweeps[1].group \in Groups
  BY <1>1, <1>2 DEF OneArm, ReadSweep, Reading, Genuine, NamesItsJoints
<1> HIDE DEF sweeps
<1>4. CoulombOf(sweeps) \in Column
  BY DEF CoulombOf, Column, Holes
<1>5. StaticOf(sweeps, {name}) \in Statics
  BY <1>2, <1>3, <1>4 DEF StaticOf, Statics, Column, Holes
<1> QED BY <1>1, <1>5

\* The estimate a fit is given, and the arm it is of.
ArmsAre == [Joints -> Evidence]

LEMMA GapIsTyped ==
  ASSUME NEW arm \in ArmsAre, NEW heard
  PROVE  Disagreement(arm, heard) \in [Joints -> Percents]
BY DEF ArmsAre, Evidence, Disagreement, Gap, Percents

LEMMA FitIsTyped ==
  ASSUME revision \in Revisions, NEW source \in {"manifest", "track"},
         Used(source) \in SUBSET Recordings, Described(source) \in SUBSET Revisions,
         NEW arm \in ArmsAre, NEW group \in Groups \cup {NoGroup}, NEW accept \in BOOLEAN, NEW heard,
         group # NoGroup => disk["static"] \in Statics
  PROVE  Fitted(source, group, arm, heard, accept) \in FitFiles
<1> DEFINE gap == IF group # NoGroup THEN Disagreement(arm, heard) ELSE [j \in Joints |-> NaN]
           scale == IF group # NoGroup THEN disk["static"].scale ELSE [j \in Joints |-> "nan"]
           coulomb == IF group # NoGroup THEN disk["static"].coulomb ELSE [j \in Joints |-> "nan"]
           sources == IF group # NoGroup THEN disk["static"].sources ELSE {}
           stiffness == [j \in Joints |-> arm[j].stiffness]
           damping == [j \in Joints |-> arm[j].damping]
<1>1. gap \in [Joints -> Percents]
  BY GapIsTyped DEF Percents
<1>2. scale \in Column /\ coulomb \in Column /\ sources \in SUBSET Sources
  BY DEF Statics, Column, Holes
<1>3. stiffness \in [Joints -> Int] /\ damping \in [Joints -> Int]
  BY DEF ArmsAre, Evidence
<1>4. Fitted(source, group, arm, heard, accept) =
        [group |-> group, stiffness |-> stiffness, damping |-> damping, scale |-> scale, coulomb |-> coulomb,
         gap |-> gap, accepted |-> accept /\ Wide(gap), sources |-> sources,
         used |-> Used(source), described |-> Described(source), at |-> revision, split |-> source = "manifest"]
  BY DEF Fitted
<1>5. (accept /\ Wide(gap)) \in BOOLEAN /\ (source = "manifest") \in BOOLEAN
  OBVIOUS
<1> HIDE DEF gap, scale, coulomb, sources, stiffness, damping
<1> QED BY <1>1, <1>2, <1>3, <1>4, <1>5 DEF FitFiles

LEMMA BlockIsTyped ==
  ASSUME NEW fit \in FitFiles, fit.group # NoGroup
  PROVE  Block(fit) \in Blocks
<1>1. /\ fit.group \in Groups /\ fit.stiffness \in [Joints -> Int] /\ fit.damping \in [Joints -> Int]
      /\ fit.scale \in Column /\ fit.coulomb \in Column /\ fit.gap \in [Joints -> Percents]
      /\ fit.sources \in SUBSET Sources /\ fit.used \in SUBSET Recordings /\ fit.accepted \in BOOLEAN
  BY DEF FitFiles
<1>2. [j \in Joints |-> IF fit.gap[j] = NaN THEN 0 ELSE fit.gap[j]] \in [Joints -> Nat]
  BY <1>1 DEF Percents
<1> QED BY <1>1, <1>2, ArtifactsAssumption DEF Block, Blocks

LEMMA MergedIsTyped ==
  ASSUME NEW base \in BundleFiles, NEW fit \in FitFiles, fit.group # NoGroup
  PROVE  /\ Merged(base, fit) \in BundleFiles
         /\ Merged(base, fit).groups = [base.groups EXCEPT ![fit.group] = Block(fit)]
         /\ Merged(base, fit).version = base.version
<1>1. Block(fit) \in Blocks /\ fit.group \in Groups
  BY BlockIsTyped DEF FitFiles
<1> QED BY <1>1 DEF Merged, Signed, BundleFiles

LEMMA VerdictIsTyped ==
  ASSUME NEW metrics, NEW scored \in SUBSET Recordings, NEW fit, NEW ranAway \in BOOLEAN,
         scored # {} => fit \in FitFiles, disk["bundle"] \in BundleFiles
  PROVE  Verdict(metrics, scored, fit, ranAway) \in VerdictFiles
<1>1. /\ (IF scored = {} THEN {} ELSE fit.used) \in SUBSET Recordings
      /\ (IF scored = {} THEN FALSE ELSE fit.split) \in BOOLEAN
  BY DEF FitFiles
<1>2. (IF Validated(metrics) THEN "validated" ELSE "model_inadequate") \in {"validated", "model_inadequate"}
  OBVIOUS
<1> QED BY <1>1, <1>2 DEF Verdict, VerdictFiles

\* A file holds what its name says.
Typed(path) ==
  /\ path \in Recorded => Holds(path, RecordingFiles)
  /\ path = "manifest" => Holds(path, ManifestFiles)
  /\ path = "track" => Holds(path, TrackFiles)
  /\ path = "static" => Holds(path, Statics)
  /\ path = "fit" => Holds(path, FitFiles)
  /\ path \in {"bundle", "release"} => Holds(path, BundleFiles)
  /\ path = "verdict" => Holds(path, VerdictFiles)

TypeInv == TypeOK /\ HoldoutInv

LEMMA TypeOKIsTyped ==
  TypeOK <=> /\ world \in DOMAIN Scenarios /\ revision \in Revisions /\ DOMAIN disk = Files
             /\ \A path \in Files : Typed(path)
             /\ left \in [Stages \cup {"die"} -> Nat] /\ code \in Codes /\ cut \in BOOLEAN
BY DEF TypeOK, Typed, Files, Recorded

LEMMA TypedKept ==
  ASSUME NEW path, Typed(path), disk'[path] \in {disk[path], Torn}
  PROVE  Typed(path)'
BY DEF Typed, Holds, Unreadable

\* A stage that wrote what it should left every file with what its name says.
LEMMA TypeOKKept ==
  ASSUME TypeOK, NEW paths, OnlyTouches(paths), \A path \in paths : Typed(path)',
         DiesWhereItMay, revision' = revision, cut' \in BOOLEAN,
         NEW stage \in Stages, left[stage] > 0, Spends(stage)
  PROVE  TypeOK'
<1>1. /\ world \in DOMAIN Scenarios /\ revision \in Revisions
      /\ \A path \in Files : Typed(path)
      /\ left \in [Stages \cup {"die"} -> Nat]
  BY TypeOKIsTyped
<1>2. \A path \in Files : Typed(path)'
  <2>1. TAKE path \in Files
  <2>2. CASE path \in paths
    BY <2>2
  <2>3. CASE path \notin paths
    <3>1. disk'[path] = disk[path]
      BY <2>3 DEF OnlyTouches
    <3> QED BY <1>1, <3>1, TypedKept
  <2> QED BY <2>2, <2>3
<1>3. left' \in [Stages \cup {"die"} -> Nat] /\ world' = world
  BY <1>1, SpendsWhatIsThere
<1>4. DOMAIN disk' = Files /\ code' \in Codes
  BY DEF OnlyTouches, DiesWhereItMay
<1>5. TypeOK' <=> /\ world' \in DOMAIN Scenarios /\ revision' \in Revisions /\ DOMAIN disk' = Files
                  /\ \A path \in Files : Typed(path)'
                  /\ left' \in [Stages \cup {"die"} -> Nat] /\ code' \in Codes /\ cut' \in BOOLEAN
  BY DEF TypeOK, Typed, Files, Recorded
<1> QED BY <1>1, <1>2, <1>3, <1>4, <1>5

LEMMA TypeInvInit ==
  Init => TypeInv
<1> SUFFICES ASSUME Init PROVE TypeInv
  OBVIOUS
<1>1. Scenario.budget \in [Stages \cup {"die"} -> Nat]
  BY ToolchainAssumption DEF Init, Scenario
<1> QED BY <1>1, HoldoutInvInit DEF Init, TypeInv, TypeOK, Holds, Files, Recorded, Codes, Unreadable

\* What the scenario gives is what a stage expects.
LEMMA ScenarioIsTyped ==
  ASSUME world \in DOMAIN Scenarios
  PROVE  /\ Scenario.arm \in [Groups -> ArmsAre]
         /\ Scenario.streams \subseteq DOMAIN StreamsOf
         /\ Scenario.base \in BundleFiles
BY ToolchainAssumption DEF Scenario, ArmsAre

LEMMA CollectTypes ==
  ASSUME TypeInv, Collect
  PROVE  TypeOK'
<1>0. /\ DOMAIN disk = Files /\ cut \in BOOLEAN /\ world \in DOMAIN Scenarios /\ revision \in Revisions
      /\ left \in [Stages \cup {"die"} -> Nat] /\ left["collect"] \in Nat
      /\ TypeOK /\ \A path \in Files : Typed(path)
  BY TypeOKIsTyped DEF TypeInv, Stages
<1>1. CollectWrites /\ DiesWhereItMay /\ UNCHANGED revision
  BY <1>0, CollectStep
<1>2. PICK group \in Groups, stream \in Scenario.streams :
        CollectsOne(group, stream) \/ CollectsThree(group, stream) \/ IsCutShort(group, stream)
  BY <1>1 DEF CollectWrites
<1>3. /\ \A index \in 0..2 : Recording(group, index, stream) \in RecordingFiles
      /\ Manifest(group) \in ManifestFiles
  BY <1>0, RecordingIsTyped, ManifestIsTyped, ScenarioIsTyped
<1>4. \A path \in Recorded, index \in 0..2 : disk'[path] = Recording(group, index, stream) => Typed(path)'
  BY <1>3 DEF Typed, Holds, Recorded
<1>5. disk'["manifest"] = Manifest(group) => Typed("manifest")'
  BY <1>3 DEF Typed, Holds, Recorded
<1>6. \A path \in Files : disk'[path] \in {disk[path], Torn} => Typed(path)'
  BY <1>0, TypedKept
<1>7. 0 \in 0..2 /\ 1 \in 0..2 /\ 2 \in 0..2
  OBVIOUS
<1>8. \E paths : OnlyTouches(paths) /\ \A path \in paths : Typed(path)'
  <2>1. CASE CollectsOne(group, stream)
    <3>1. Typed("run")'
      BY <2>1, <1>4, <1>6, <1>7, FilesAre DEF CollectsOne
    <3> QED BY <2>1, <3>1 DEF CollectsOne
  <2>2. CASE CollectsThree(group, stream) \/ IsCutShort(group, stream)
    <3>1. /\ disk'["run0"] \in {disk["run0"], Torn, Recording(group, 0, stream)}
          /\ disk'["run1"] \in {disk["run1"], Torn, Recording(group, 1, stream)}
          /\ disk'["run2"] \in {disk["run2"], Torn, Recording(group, 2, stream)}
          /\ disk'["manifest"] \in {disk["manifest"], Torn, Manifest(group)}
          /\ OnlyTouches(NumberedRuns \cup {"manifest"})
      BY <2>2 DEF CollectsThree, IsCutShort
    <3>2. {"run0", "run1", "run2"} \subseteq Recorded /\ Recorded \subseteq Files /\ "manifest" \in Files
      BY DEF Recorded, Files
    <3>3. Typed("run0")'
      BY <3>1, <3>2, <1>4, <1>6, <1>7
    <3>4. Typed("run1")'
      BY <3>1, <3>2, <1>4, <1>6, <1>7
    <3>5. Typed("run2")'
      BY <3>1, <3>2, <1>4, <1>6, <1>7
    <3>6. Typed("manifest")'
      BY <3>1, <3>2, <1>5, <1>6
    <3> QED BY <3>1, <3>3, <3>4, <3>5, <3>6 DEF NumberedRuns
  <2> QED BY <1>2, <2>1, <2>2
<1>9. cut' \in BOOLEAN
  BY <1>0, <1>2 DEF CollectsOne, CollectsThree, IsCutShort
<1>10. left["collect"] > 0 /\ Spends("collect") /\ "collect" \in Stages
  BY DEF Collect, Stages
<1> QED BY <1>0, <1>1, <1>8, <1>9, <1>10, TypeOKKept

LEMMA NormalizeTypes ==
  ASSUME TypeInv, Normalize
  PROVE  TypeOK'
<1>0. /\ DOMAIN disk = Files /\ cut \in BOOLEAN /\ TypeOK /\ \A path \in Files : Typed(path)
  BY TypeOKIsTyped DEF TypeInv
<1>1. /\ OnlyTouches({"track"}) /\ DiesWhereItMay /\ UNCHANGED <<revision, cut>>
      /\ disk'["track"] \in {disk["track"], Torn} \/ NormalizeWrites
  BY <1>0, NormalizeStep
<1>2. Typed("track")'
  <2>1. CASE disk'["track"] \in {disk["track"], Torn}
    BY <1>0, <2>1, TypedKept, FilesAre
  <2>2. CASE NormalizeWrites
    <3>1. PICK path \in Recorded :
            /\ disk[path] \notin Unreadable
            /\ disk'["track"] = [used |-> {disk[path].of}, revisions |-> {disk[path].revision}]
      BY <2>2 DEF NormalizeWrites
    <3>2. disk[path] \in RecordingFiles
      BY <1>0, <3>1, FilesAre DEF Typed, Holds
    <3>3. disk'["track"] \in TrackFiles
      BY <3>1, <3>2 DEF RecordingFiles, TrackFiles
    <3> QED BY <3>3 DEF Typed, Holds, Recorded
  <2> QED BY <1>1, <2>1, <2>2
<1>3. left["normalize"] > 0 /\ Spends("normalize") /\ "normalize" \in Stages
  BY DEF Normalize, Stages
<1> QED BY <1>0, <1>1, <1>2, <1>3, TypeOKKept

LEMMA IdentifyTypes ==
  ASSUME TypeInv, Identify
  PROVE  TypeOK'
<1>0. /\ DOMAIN disk = Files /\ cut \in BOOLEAN /\ TypeOK /\ \A path \in Files : Typed(path)
  BY TypeOKIsTyped DEF TypeInv
<1>1. /\ OnlyTouches({"static"}) /\ DiesWhereItMay /\ UNCHANGED <<revision, cut>>
      /\ disk'["static"] \in {disk["static"], Torn} \/ IdentifyWrites
  BY <1>0, IdentifyStep
<1>2. Typed("static")'
  <2>1. CASE disk'["static"] \in {disk["static"], Torn}
    BY <1>0, <2>1, TypedKept, FilesAre
  <2>2. CASE IdentifyWrites
    <3>1. disk'["static"] \in Statics
      BY <2>2, StaticIsTyped DEF IdentifyWrites
    <3> QED BY <3>1 DEF Typed, Holds, Recorded
  <2> QED BY <1>1, <2>1, <2>2
<1>3. left["identify"] > 0 /\ Spends("identify") /\ "identify" \in Stages
  BY DEF Identify, Stages
<1> QED BY <1>0, <1>1, <1>2, <1>3, TypeOKKept

\* What a fit is made from is typed where it can be read.
LEMMA UsedIsTyped ==
  ASSUME TypeInv, NEW source \in {"manifest", "track"}, Readable(source)
  PROVE  Used(source) \in SUBSET Recordings /\ Described(source) \in SUBSET Revisions
<1>0. \A path \in Files : Typed(path)
  BY TypeOKIsTyped DEF TypeInv
<1>1. CASE source = "track"
  <2>1. disk["track"] \in TrackFiles
    BY <1>0, <1>1, FilesAre DEF Readable, Typed, Holds
  <2> QED BY <1>1, <2>1 DEF Used, Described, TrackFiles
<1>2. CASE source = "manifest"
  <2>1. /\ Used(source) = {disk["run0"].of, disk["run1"].of}
        /\ Described(source) = {disk["run0"].revision, disk["run1"].revision}
    BY <1>2, UsedFromManifest
  <2>2. disk["run0"] \in RecordingFiles /\ disk["run1"] \in RecordingFiles
    BY <1>0, <1>2 DEF Readable, Typed, Holds, Recorded, Files
  <2> QED BY <2>1, <2>2 DEF RecordingFiles
<1> QED BY <1>1, <1>2

LEMMA FitTypes ==
  ASSUME TypeInv, Fit
  PROVE  TypeOK'
<1>0. /\ DOMAIN disk = Files /\ cut \in BOOLEAN /\ TypeOK /\ SplitAsWritten
      /\ \A path \in Files : Typed(path)
      /\ world \in DOMAIN Scenarios /\ revision \in Revisions
  BY TypeOKIsTyped DEF TypeInv, HoldoutInv
<1>1. /\ OnlyTouches({"fit"}) /\ DiesWhereItMay /\ UNCHANGED <<revision, cut>>
      /\ disk'["fit"] \in {disk["fit"], Torn} \/ FitWrites
  BY <1>0, FitStep
<1>2. Typed("fit")'
  <2>1. CASE disk'["fit"] \in {disk["fit"], Torn}
    BY <1>0, <2>1, TypedKept, FilesAre
  <2>2. CASE FitWrites
    <3>0. PICK source \in {"manifest", "track"} : \E arm \in Arms(source) :
            /\ Readable(source)
            /\ \/ disk'["fit"] = Fitted(source, NoGroup, arm, [j \in Joints |-> "nan"], FALSE)
               \/ \E accept \in BOOLEAN :
                    /\ StaticOutcome = "ok"
                    /\ disk'["fit"] = Fitted(source, disk["static"].group, arm, disk["static"].coulomb, accept)
      BY <2>2 DEF FitWrites
    <3>1. PICK arm \in Arms(source) :
            /\ Readable(source)
            /\ \/ disk'["fit"] = Fitted(source, NoGroup, arm, [j \in Joints |-> "nan"], FALSE)
               \/ \E accept \in BOOLEAN :
                    /\ StaticOutcome = "ok"
                    /\ disk'["fit"] = Fitted(source, disk["static"].group, arm, disk["static"].coulomb, accept)
      BY <3>0
    <3>2. Used(source) \in SUBSET Recordings /\ Described(source) \in SUBSET Revisions
      BY <3>1, UsedIsTyped
    <3>3. arm \in ArmsAre
      BY <1>0, <3>1, <3>2, ScenarioIsTyped DEF Arms, Recordings
    <3>4. StaticOutcome = "ok" => disk["static"] \in Statics
      <4>1. StaticOutcome = "ok" => disk["static"] \notin Unreadable
        BY DEF StaticOutcome, ReadStatic, Reading
      <4> QED BY <4>1, <1>0, FilesAre DEF Typed, Holds
    <3>5. disk'["fit"] \in FitFiles
      <4>1. CASE disk'["fit"] = Fitted(source, NoGroup, arm, [j \in Joints |-> "nan"], FALSE)
        BY <1>0, <3>2, <3>3, <4>1, FitIsTyped
      <4>2. ASSUME NEW accept \in BOOLEAN, StaticOutcome = "ok",
                   disk'["fit"] = Fitted(source, disk["static"].group, arm, disk["static"].coulomb, accept)
            PROVE  disk'["fit"] \in FitFiles
        <5>1. disk["static"] \in Statics /\ disk["static"].group \in Groups
          BY <3>4, <4>2 DEF Statics
        <5> QED BY <1>0, <3>2, <3>3, <4>2, <5>1, FitIsTyped
      <4> QED BY <3>1, <4>1, <4>2
    <3> QED BY <3>5 DEF Typed, Holds, Recorded
  <2> QED BY <1>1, <2>1, <2>2
<1>3. left["fit"] > 0 /\ Spends("fit") /\ "fit" \in Stages
  BY DEF Fit, Stages
<1> QED BY <1>0, <1>1, <1>2, <1>3, TypeOKKept

LEMMA BundleTypes ==
  ASSUME TypeInv, Bundle
  PROVE  TypeOK'
<1>0. /\ DOMAIN disk = Files /\ cut \in BOOLEAN /\ TypeOK /\ \A path \in Files : Typed(path)
      /\ world \in DOMAIN Scenarios
  BY TypeOKIsTyped DEF TypeInv
<1>1. /\ OnlyTouches({"bundle"}) /\ DiesWhereItMay /\ UNCHANGED <<revision, cut>>
      /\ disk'["bundle"] \in {disk["bundle"], Torn} \/ BundleWrites
  BY <1>0, BundleStep
<1>2. Typed("bundle")'
  <2>1. CASE disk'["bundle"] \in {disk["bundle"], Torn}
    BY <1>0, <2>1, TypedKept, FilesAre
  <2>2. CASE BundleWrites
    <3>1. PICK base \in {Scenario.base, disk["bundle"]} :
            Mergeable(base, disk["fit"]) /\ disk'["bundle"] = Merged(base, disk["fit"])
      BY <2>2 DEF BundleWrites
    <3>2. base \in BundleFiles
      BY <1>0, <3>1, ScenarioIsTyped, FilesAre DEF Mergeable, Loads, Typed, Holds
    <3>3. disk["fit"] \in FitFiles /\ disk["fit"].group # NoGroup
      BY <1>0, <3>1, FilesAre DEF Mergeable, Typed, Holds
    <3>4. disk'["bundle"] \in BundleFiles
      BY <3>1, <3>2, <3>3, MergedIsTyped
    <3> QED BY <3>4 DEF Typed, Holds, Recorded
  <2> QED BY <1>1, <2>1, <2>2
<1>3. left["bundle"] > 0 /\ Spends("bundle") /\ "bundle" \in Stages
  BY DEF Bundle, Stages
<1> QED BY <1>0, <1>1, <1>2, <1>3, TypeOKKept

LEMMA ValidateTypes ==
  ASSUME TypeInv, Validate
  PROVE  TypeOK'
<1>0. /\ DOMAIN disk = Files /\ cut \in BOOLEAN /\ TypeOK /\ SplitAsWritten
      /\ \A path \in Files : Typed(path)
  BY TypeOKIsTyped DEF TypeInv, HoldoutInv
<1>1. /\ OnlyTouches({"verdict"}) /\ DiesWhereItMay /\ UNCHANGED <<revision, cut>>
      /\ disk'["verdict"] \in {disk["verdict"], Torn} \/ (ValidateWrites /\ Loads(disk["bundle"]))
  BY <1>0, ValidateStep
<1>2. Typed("verdict")'
  <2>1. CASE disk'["verdict"] \in {disk["verdict"], Torn}
    BY <1>0, <2>1, TypedKept, FilesAre
  <2>2. CASE ValidateWrites /\ Loads(disk["bundle"])
    <3>1. disk["bundle"] \in BundleFiles
      BY <1>0, <2>2, FilesAre DEF Loads, Typed, Holds
    <3>2. CASE \E metrics \in Scenario.metrics : disk'["verdict"] = Verdict(metrics, {}, disk["fit"], FALSE)
      <4>1. disk'["verdict"] \in VerdictFiles
        BY <3>1, <3>2, VerdictIsTyped
      <4> QED BY <4>1 DEF Typed, Holds, Recorded
    <3>3. CASE /\ disk["run2"] \notin Unreadable /\ disk["fit"] \notin Unreadable
               /\ \E score \in Scenario.scores :
                    disk'["verdict"] = Verdict(Score(score.rmse, score.baseline, score.lag, "openarm"),
                                               {disk["run2"].of}, disk["fit"], score.rmse = NaN)
      <4>1. disk["run2"] \in RecordingFiles /\ disk["fit"] \in FitFiles
        BY <1>0, <3>3 DEF Typed, Holds, Recorded, Files
      <4>2. {disk["run2"].of} \in SUBSET Recordings
        BY <4>1 DEF RecordingFiles
      <4>3. PICK score \in Scenario.scores :
              disk'["verdict"] = Verdict(Score(score.rmse, score.baseline, score.lag, "openarm"),
                                         {disk["run2"].of}, disk["fit"], score.rmse = NaN)
        BY <3>3
      <4> DEFINE metrics == Score(score.rmse, score.baseline, score.lag, "openarm")
                 ranAway == score.rmse = NaN
                 scored == {disk["run2"].of}
      <4>4. disk'["verdict"] = Verdict(metrics, scored, disk["fit"], ranAway) /\ ranAway \in BOOLEAN
        BY <4>3
      <4>5. scored \in SUBSET Recordings
        BY <4>2
      <4> HIDE DEF metrics, ranAway, scored
      <4>6. disk'["verdict"] \in VerdictFiles
        BY <3>1, <4>1, <4>4, <4>5, VerdictIsTyped
      <4> QED BY <4>6 DEF Typed, Holds, Recorded
    <3> QED BY <2>2, <3>2, <3>3 DEF ValidateWrites
  <2> QED BY <1>1, <2>1, <2>2
<1>3. left["validate"] > 0 /\ Spends("validate") /\ "validate" \in Stages
  BY DEF Validate, Stages
<1> QED BY <1>0, <1>1, <1>2, <1>3, TypeOKKept

LEMMA ExportTypes ==
  ASSUME TypeInv, Export
  PROVE  TypeOK'
<1>0. /\ DOMAIN disk = Files /\ cut \in BOOLEAN /\ TypeOK /\ \A path \in Files : Typed(path)
  BY TypeOKIsTyped DEF TypeInv
<1>1. /\ OnlyTouches({"release", "hdgp"}) /\ DiesWhereItMay /\ UNCHANGED <<revision, cut>>
      /\ disk'["release"] \in {disk["release"], Torn} \/ ExportWrites
  BY <1>0, ExportStep
<1>2. Typed("release")'
  <2>1. CASE disk'["release"] \in {disk["release"], Torn}
    BY <1>0, <2>1, TypedKept, FilesAre
  <2>2. CASE ExportWrites
    <3>1. disk'["release"] \in BundleFiles
      BY <1>0, <2>2, FilesAre DEF ExportWrites, Typed, Holds
    <3> QED BY <3>1 DEF Typed, Holds, Recorded
  <2> QED BY <1>1, <2>1, <2>2
<1>3. Typed("hdgp")'
  BY DEF Typed, Recorded
<1>4. left["export"] > 0 /\ Spends("export") /\ "export" \in Stages
  BY DEF Export, Stages
<1> QED BY <1>0, <1>1, <1>2, <1>3, <1>4, TypeOKKept

LEMMA TypeInvStep ==
  ASSUME TypeInv, [Next]_vars
  PROVE  TypeInv'
<1>1. HoldoutInv'
  BY HoldoutInvStep DEF TypeInv
<1>2. CASE Revise
  <2>1. left' \in [Stages \cup {"die"} -> Nat]
    <3>1. left \in [Stages \cup {"die"} -> Nat] /\ left["revise"] > 0 /\ "revise" \in Stages
      BY TypeOKIsTyped, <1>2 DEF TypeInv, Revise, Stages
    <3> QED BY <3>1, <1>2 DEF Revise
  <2>2. revision' \in Revisions /\ UNCHANGED <<world, disk, code, cut>>
    BY <1>2 DEF Revise
  <2> QED BY <1>1, <2>1, <2>2 DEF TypeInv, TypeOK, Holds
<1>3. CASE UNCHANGED vars
  BY <1>1, <1>3 DEF vars, TypeInv, TypeOK, Holds
<1>4. CASE Next /\ ~Revise
  BY <1>1, <1>4, CollectTypes, NormalizeTypes, IdentifyTypes, FitTypes, BundleTypes, ValidateTypes, ExportTypes
  DEF Next, TypeInv
<1> QED BY <1>2, <1>3, <1>4

\* Whatever ran, and died, before, every file is missing, cut short, or what the
\* stage that writes it writes.
THEOREM FilesHoldWhatTheySay == Spec => []TypeOK
<1>1. TypeInv => TypeOK
  BY DEF TypeInv
<1> QED BY <1>1, TypeInvInit, TypeInvStep, PTL DEF Spec

(***************************************************************************)
(* What each stage does to its file.                                       *)
(***************************************************************************)
\* What a stage does to one file, in the words of its step.
TrackStep == disk'["track"] \in {disk["track"], Torn} \/ NormalizeWrites
StaticStep == disk'["static"] \in {disk["static"], Torn} \/ IdentifyWrites
FitFileStep == disk'["fit"] \in {disk["fit"], Torn} \/ FitWrites
BundleFileStep == disk'["bundle"] \in {disk["bundle"], Torn} \/ BundleWrites
VerdictStep == disk'["verdict"] \in {disk["verdict"], Torn} \/ ValidateWrites
ReleaseStep == disk'["release"] \in {disk["release"], Torn} \/ ExportWrites
HdgpStep == disk'["hdgp"] \in {disk["hdgp"], Torn} \/ TranslationWrites

LEMMA EveryStep ==
  ASSUME HoldoutInv, [Next]_vars
  PROVE  /\ TrackStep /\ StaticStep /\ FitFileStep /\ BundleFileStep /\ VerdictStep /\ ReleaseStep /\ HdgpStep
         /\ world' = world /\ (cut => cut')
<1> USE FilesAre DEF TrackStep, StaticStep, FitFileStep, BundleFileStep, VerdictStep, ReleaseStep, HdgpStep
<1>0. DOMAIN disk = Files /\ cut \in BOOLEAN /\ SplitAsWritten
  BY DEF HoldoutInv
<1>1. CASE Collect
  <2>1. CollectWrites
    BY <1>0, <1>1, CollectStep
  <2>2. OnlyTouches(Recorded \cup {"manifest"})
    BY <2>1 DEF CollectWrites, CollectsOne, CollectsThree, IsCutShort, OnlyTouches
  <2>3. cut => cut'
    BY <2>1 DEF CollectWrites, CollectsOne, CollectsThree, IsCutShort
  <2> QED BY <1>1, <2>2, <2>3 DEF OnlyTouches, Collect, Spends
<1>2. CASE Normalize
  BY <1>0, <1>2, NormalizeStep DEF OnlyTouches, Normalize, Spends
<1>3. CASE Identify
  BY <1>0, <1>3, IdentifyStep DEF OnlyTouches, Identify, Spends
<1>4. CASE Fit
  BY <1>0, <1>4, FitStep DEF OnlyTouches, Fit, Spends
<1>5. CASE Bundle
  BY <1>0, <1>5, BundleStep DEF OnlyTouches, Bundle, Spends
<1>6. CASE Validate
  BY <1>0, <1>6, ValidateStep DEF OnlyTouches, Validate, Spends
<1>7. CASE Export
  BY <1>0, <1>7, ExportStep DEF OnlyTouches, Export, Spends
<1>8. CASE Revise \/ UNCHANGED vars
  BY <1>8 DEF Revise, vars
<1> QED BY <1>1, <1>2, <1>3, <1>4, <1>5, <1>6, <1>7, <1>8 DEF Next

(***************************************************************************)
(* Where a released block comes from: ReleasedIsTheArm.                    *)
(***************************************************************************)
\* A static estimate rests on sweeps that measured its arm.
StaticIsMeasured ==
  disk["static"] \notin Unreadable => SweptOn(disk["static"], disk["static"].group)

\* A track is of one recording.
TrackIsOfOne == disk["track"] \notin Unreadable => \E recording : disk["track"].used = {recording}

\* A fit with parameters is of the arm it names.
FitIsMeasured ==
  disk["fit"] \notin Unreadable /\ disk["fit"].group # NoGroup => MeasuredOn(disk["fit"], disk["fit"].group)

BundleIsMeasured == disk["bundle"] \notin Unreadable => BlocksAreMeasured(disk["bundle"])
ReleaseIsMeasured == disk["release"] \notin Unreadable => BlocksAreMeasured(disk["release"])
TranslationIsMeasured ==
  disk["hdgp"] \notin Unreadable =>
    \A name \in DOMAIN disk["hdgp"].groups : FrictionIsMeasured(disk["hdgp"].groups[name], Scenario.base)

MeasuredInv ==
  /\ TypeInv /\ CollectionInv /\ TrackIsOfOne /\ StaticIsMeasured /\ FitIsMeasured
  /\ BundleIsMeasured /\ ReleaseIsMeasured /\ TranslationIsMeasured

\* An estimate that may be written is of sweeps that measure every joint of one arm.
LEMMA WritableIsMeasured ==
  ASSUME NEW name \in DOMAIN Estimates, Writable(Estimates[name])
  PROVE  SweptOn(Estimates[name], Estimates[name].group)
<1> DEFINE sweeps == SweepsOf[name]
           group == sweeps[1].group
<1>1. name \in DOMAIN SweepsOf /\ OneArm(sweeps) /\ Estimates[name] = StaticOf(sweeps, {name})
  BY DEF Estimates
<1>2. group \in Groups
  <2>1. 1 \in DOMAIN sweeps
    BY <1>1, ToolchainAssumption DEF OneArm
  <2> QED BY <1>1, <2>1 DEF OneArm, ReadSweep, Reading, Genuine, NamesItsJoints
<1>3. /\ Estimates[name].group = group /\ Estimates[name].sources = {name}
      /\ Estimates[name].coulomb = CoulombOf(sweeps)
      /\ Estimates[name].scale = [j \in Joints |-> IF FitsOf(sweeps)[j] = "identified" THEN "finite" ELSE "nan"]
  <2> HIDE DEF sweeps
  <2> QED BY <1>1 DEF StaticOf, sweeps
<1>4. \A j \in Joints : FitsOf(sweeps)[j] = "identified"
  BY <1>3 DEF Writable, Whole
<1>5. name \in MeasuringOf[group]
  BY <1>1, <1>2, <1>4 DEF MeasuringOf, Measuring
<1>6. FrictionOf[name] = CoulombOf(sweeps)
  BY <1>2, <1>5 DEF FrictionOf
<1> QED BY <1>3, <1>5, <1>6 DEF SweptOn

LEMMA StaticStaysMeasured ==
  ASSUME StaticIsMeasured, StaticStep
  PROVE  StaticIsMeasured'
<1>1. CASE disk'["static"] \in {disk["static"], Torn}
  BY <1>1 DEF StaticIsMeasured, Unreadable
<1>2. CASE IdentifyWrites
  <2>1. PICK name \in DOMAIN Estimates : Writable(Estimates[name]) /\ disk'["static"] = Estimates[name]
    BY <1>2 DEF IdentifyWrites
  <2>2. SweptOn(disk'["static"], disk'["static"].group)
    BY <2>1, WritableIsMeasured
  <2> QED BY <2>2 DEF StaticIsMeasured
<1> QED BY <1>1, <1>2 DEF StaticStep

LEMMA TrackStaysOfOne ==
  ASSUME TrackIsOfOne, TrackStep
  PROVE  TrackIsOfOne'
<1>1. CASE disk'["track"] \in {disk["track"], Torn}
  BY <1>1 DEF TrackIsOfOne, Unreadable
<1>2. CASE NormalizeWrites
  <2>1. PICK path \in Recorded :
          disk'["track"] = [used |-> {disk[path].of}, revisions |-> {disk[path].revision}]
    BY <1>2 DEF NormalizeWrites
  <2>2. disk'["track"].used = {disk[path].of}
    BY <2>1
  <2> QED BY <2>2 DEF TrackIsOfOne
<1> QED BY <1>1, <1>2 DEF TrackStep

\* What was measured stays so: a collection cut short takes nothing back.
LEMMA MeasuredStays ==
  ASSUME NEW parameters, NEW group, MeasuredOn(parameters, group), world' = world, cut => cut'
  PROVE  SweptOn(parameters, group) /\ (~cut' => RecordedOn(parameters, group, Scenario'.arm[group]))
BY DEF MeasuredOn, Scenario

\* With the estimate of an arm, fit makes parameters of recordings of that arm: those
\* of a manifest are of one arm, and so is a track.
LEMMA FitStaysMeasured ==
  ASSUME MeasuredInv, CollectionInv', FitFileStep, world' = world, cut => cut'
  PROVE  FitIsMeasured'
<1>1. CASE disk'["fit"] \in {disk["fit"], Torn}
  <2> SUFFICES ASSUME disk'["fit"] \notin Unreadable, disk'["fit"].group # NoGroup
               PROVE  MeasuredOn(disk["fit"], disk["fit"].group)'
    BY DEF FitIsMeasured
  <2>1. disk'["fit"] = disk["fit"]
    BY <1>1 DEF Unreadable
  <2>2. MeasuredOn(disk["fit"], disk["fit"].group)
    BY <2>1 DEF MeasuredInv, FitIsMeasured
  <2>3. /\ SweptOn(disk["fit"], disk["fit"].group)
        /\ ~cut' => RecordedOn(disk["fit"], disk["fit"].group, Scenario'.arm[disk["fit"].group])
    BY <2>2, MeasuredStays
  <2> QED BY <2>1, <2>3 DEF MeasuredOn
<1>2. CASE FitWrites
  <2>0. PICK source \in {"manifest", "track"} : \E arm \in Arms(source) :
          /\ Readable(source)
          /\ \/ disk'["fit"] = Fitted(source, NoGroup, arm, [j \in Joints |-> "nan"], FALSE)
             \/ \E accept \in BOOLEAN :
                  /\ StaticOutcome = "ok" /\ disk["static"].group = Leading(source).group
                  /\ disk'["fit"] = Fitted(source, disk["static"].group, arm, disk["static"].coulomb, accept)
    BY <1>2 DEF FitWrites
  <2>1. PICK arm \in Arms(source) :
          /\ Readable(source)
          /\ \/ disk'["fit"] = Fitted(source, NoGroup, arm, [j \in Joints |-> "nan"], FALSE)
             \/ \E accept \in BOOLEAN :
                  /\ StaticOutcome = "ok" /\ disk["static"].group = Leading(source).group
                  /\ disk'["fit"] = Fitted(source, disk["static"].group, arm, disk["static"].coulomb, accept)
    BY <2>0
  <2>2. CASE disk'["fit"] = Fitted(source, NoGroup, arm, [j \in Joints |-> "nan"], FALSE)
    <3>1. disk'["fit"].group = NoGroup
      BY <2>2 DEF Fitted
    <3> QED BY <3>1 DEF FitIsMeasured
  <2>3. ASSUME NEW accept \in BOOLEAN,
               StaticOutcome = "ok", disk["static"].group = Leading(source).group,
               disk'["fit"] = Fitted(source, disk["static"].group, arm, disk["static"].coulomb, accept)
        PROVE  FitIsMeasured'
    <3> DEFINE group == disk["static"].group
    <3> SUFFICES ASSUME group # NoGroup, disk'["fit"] \notin Unreadable
                 PROVE  MeasuredOn(disk["fit"], disk["fit"].group)'
      <4>1. disk'["fit"].group = group
        BY <2>3 DEF Fitted
      <4> QED BY <4>1 DEF FitIsMeasured
    <3>1. /\ disk'["fit"].group = group /\ disk'["fit"].used = Used(source)
          /\ disk'["fit"].sources = disk["static"].sources /\ disk'["fit"].coulomb = disk["static"].coulomb
          /\ disk'["fit"].stiffness = [j \in Joints |-> arm[j].stiffness]
          /\ disk'["fit"].damping = [j \in Joints |-> arm[j].damping]
          /\ disk'["fit"].split = (source = "manifest")
      BY <2>3 DEF Fitted
    <3>2. SweptOn(disk'["fit"], group)
      <4>1. disk["static"] \notin Unreadable
        BY <2>3 DEF StaticOutcome, ReadStatic, Reading
      <4> QED BY <3>1, <4>1 DEF MeasuredInv, StaticIsMeasured, SweptOn
    <3>3. ASSUME ~cut', NEW recording \in Used(source) PROVE recording.group = group
      <4>1. CASE source = "track"
        <5>1. PICK only : disk["track"].used = {only}
          BY <2>1, <4>1 DEF Readable, MeasuredInv, TrackIsOfOne
        <5>2. Used(source) = {only} /\ Leading(source) = only
          BY <4>1, <5>1 DEF Used, Leading
        <5> QED BY <2>3, <3>3, <5>2
      <4>2. CASE source = "manifest"
        <5>1. disk'["fit"].split
          BY <3>1, <4>2
        <5> QED BY <3>1, <3>3, <5>1 DEF CollectionInv, FitOfOneCollection
      <4> QED BY <4>1, <4>2
    <3>4. ASSUME ~cut' PROVE RecordedOn(disk'["fit"], group, Scenario.arm[group])
      <4>1. PICK recording \in Used(source) : arm = Scenario.arm[recording.group]
        BY <2>1 DEF Arms
      <4>2. arm = Scenario.arm[group]
        BY <3>3, <3>4, <4>1
      <4> QED BY <3>1, <3>3, <3>4, <4>2 DEF RecordedOn
    <3>5. Scenario' = Scenario
      BY DEF Scenario
    <3> QED BY <3>1, <3>2, <3>4, <3>5 DEF MeasuredOn
  <2> QED BY <2>1, <2>2, <2>3
<1> QED BY <1>1, <1>2 DEF FitFileStep

\* A block made of a fit says what the fit says of where it was measured.
LEMMA BlockIsMeasured ==
  ASSUME NEW fit, NEW group, MeasuredOn(fit, group)
  PROVE  MeasuredOn(Block(fit), group)
<1>1. /\ Block(fit).sources = fit.sources /\ Block(fit).coulomb = fit.coulomb /\ Block(fit).used = fit.used
      /\ Block(fit).stiffness = fit.stiffness /\ Block(fit).damping = fit.damping
  BY DEF Block
<1> QED BY <1>1 DEF MeasuredOn, SweptOn, RecordedOn

LEMMA MergedIsMeasured ==
  ASSUME NEW base \in BundleFiles, NEW fit \in FitFiles, fit.group # NoGroup,
         base = Scenario.base \/ BlocksAreMeasured(base), MeasuredOn(fit, fit.group)
  PROVE  BlocksAreMeasured(Merged(base, fit))
<1> DEFINE merged == Merged(base, fit)
<1>1. /\ merged.groups = [base.groups EXCEPT ![fit.group] = Block(fit)] /\ merged.version = base.version
      /\ DOMAIN base.groups = Groups
  BY MergedIsTyped DEF BundleFiles
<1> HIDE DEF merged
<1>2. SUFFICES ASSUME NEW group \in Identified(merged)
               PROVE  FromTheBase(merged, group) \/ MeasuredOn(merged.groups[group], group)
  BY DEF BlocksAreMeasured, merged
<1>3. group \in Groups /\ merged.version = 2 /\ merged.groups[group] # NoBlock
  BY <1>2 DEF Identified
<1>4. CASE group = fit.group
  <2>1. merged.groups[group] = Block(fit)
    BY <1>1, <1>3, <1>4
  <2> QED BY <1>4, <2>1, BlockIsMeasured
<1>5. CASE group # fit.group
  <2>1. merged.groups[group] = base.groups[group] /\ group \in Identified(base)
    BY <1>1, <1>3, <1>5 DEF Identified
  <2>2. FromTheBase(base, group) \/ MeasuredOn(base.groups[group], group)
    BY <2>1 DEF FromTheBase, BlocksAreMeasured
  <2> QED BY <2>1, <2>2 DEF FromTheBase
<1> QED BY <1>4, <1>5

\* What a bundle was measured on stays so, in whatever file it is.
LEMMA BlocksStayMeasured ==
  ASSUME NEW bundle, BlocksAreMeasured(bundle), world' = world, cut => cut',
         NEW group \in Identified(bundle)
  PROVE  \/ group \in Identified(Scenario'.base) /\ bundle.groups[group] = Scenario'.base.groups[group]
         \/ /\ SweptOn(bundle.groups[group], group)
            /\ ~cut' => RecordedOn(bundle.groups[group], group, Scenario'.arm[group])
<1>1. Scenario' = Scenario
  BY DEF Scenario
<1>2. CASE FromTheBase(bundle, group)
  BY <1>1, <1>2 DEF FromTheBase
<1>3. CASE MeasuredOn(bundle.groups[group], group)
  BY <1>3, MeasuredStays
<1> QED BY <1>2, <1>3 DEF BlocksAreMeasured

LEMMA KeptIsMeasured ==
  ASSUME NEW path, NEW bundle, BlocksAreMeasured(bundle), disk'[path] = bundle, world' = world, cut => cut'
  PROVE  BlocksAreMeasured(disk[path])'
<1> SUFFICES ASSUME NEW group \in Identified(disk'[path])
             PROVE  (FromTheBase(disk[path], group) \/ MeasuredOn(disk[path].groups[group], group))'
  BY DEF BlocksAreMeasured, Identified
<1>1. \/ group \in Identified(Scenario'.base) /\ bundle.groups[group] = Scenario'.base.groups[group]
      \/ /\ SweptOn(bundle.groups[group], group)
         /\ ~cut' => RecordedOn(bundle.groups[group], group, Scenario'.arm[group])
  BY BlocksStayMeasured
<1> QED BY <1>1 DEF FromTheBase, MeasuredOn, Identified

LEMMA BundleStaysMeasured ==
  ASSUME MeasuredInv, BundleFileStep, world' = world, cut => cut'
  PROVE  BundleIsMeasured'
<1>0. (\A path \in Files : Typed(path)) /\ world \in DOMAIN Scenarios
  BY TypeOKIsTyped DEF MeasuredInv, TypeInv
<1>1. CASE disk'["bundle"] \in {disk["bundle"], Torn}
  <2> SUFFICES ASSUME disk'["bundle"] \notin Unreadable PROVE BlocksAreMeasured(disk["bundle"])'
    BY DEF BundleIsMeasured
  <2>1. disk'["bundle"] = disk["bundle"] /\ BlocksAreMeasured(disk["bundle"])
    BY <1>1 DEF MeasuredInv, BundleIsMeasured, Unreadable
  <2> QED BY <2>1, KeptIsMeasured
<1>2. CASE BundleWrites
  <2>1. PICK base \in {Scenario.base, disk["bundle"]} :
          Mergeable(base, disk["fit"]) /\ disk'["bundle"] = Merged(base, disk["fit"])
    BY <1>2 DEF BundleWrites
  <2>2. base \in BundleFiles
    BY <1>0, <2>1, ScenarioIsTyped, FilesAre DEF Mergeable, Loads, Typed, Holds
  <2>3. disk["fit"] \in FitFiles /\ disk["fit"].group # NoGroup /\ MeasuredOn(disk["fit"], disk["fit"].group)
    BY <1>0, <2>1, FilesAre DEF Mergeable, Typed, Holds, MeasuredInv, FitIsMeasured
  <2>4. base = Scenario.base \/ BlocksAreMeasured(base)
    BY <2>1 DEF MeasuredInv, BundleIsMeasured, Mergeable, Loads
  <2>5. BlocksAreMeasured(Merged(base, disk["fit"]))
    BY <2>2, <2>3, <2>4, MergedIsMeasured
  <2> QED BY <2>1, <2>5, KeptIsMeasured DEF BundleIsMeasured
<1> QED BY <1>1, <1>2 DEF BundleFileStep

LEMMA ReleaseStaysMeasured ==
  ASSUME BundleIsMeasured, ReleaseIsMeasured, ReleaseStep, world' = world, cut => cut'
  PROVE  ReleaseIsMeasured'
<1> SUFFICES ASSUME disk'["release"] \notin Unreadable PROVE BlocksAreMeasured(disk["release"])'
  BY DEF ReleaseIsMeasured
<1>1. PICK path \in {"bundle", "release"} : disk'["release"] = disk[path] /\ disk[path] \notin Unreadable
  BY DEF ReleaseStep, ExportWrites, Unreadable
<1>2. BlocksAreMeasured(disk[path])
  BY <1>1 DEF BundleIsMeasured, ReleaseIsMeasured
<1> QED BY <1>1, <1>2, KeptIsMeasured

\* What is translated of a measured bundle as friction of a staircase is that.
LEMMA ExportedIsMeasured ==
  ASSUME NEW bundle, NEW names, BlocksAreMeasured(bundle), NEW name \in DOMAIN Exported(bundle, names)
  PROVE  FrictionIsMeasured(Exported(bundle, names)[name], Scenario.base)
<1> DEFINE group == CHOOSE group \in Identified(bundle) : names[group] = name
           entry == Exported(bundle, names)[name]
<1>1. name \in {names[other] : other \in Identified(bundle)}
  BY DEF Exported
<1>2. group \in Identified(bundle)
  BY <1>1
<1>3. /\ entry.group = group
      /\ entry.friction = [j \in Joints |-> IF bundle.groups[group].coulomb[j] = "finite" THEN "staircase" ELSE "track"]
  BY <1>1 DEF Exported
<1> HIDE DEF group, entry
<1> SUFFICES ASSUME NEW j \in Joints, entry.friction[j] = "staircase"
             PROVE  \/ \E it \in MeasuringOf[group] : FrictionOf[it][j] = "finite"
                    \/ group \in Identified(Scenario.base) /\ Scenario.base.groups[group].coulomb[j] = "finite"
  BY <1>3 DEF FrictionIsMeasured, entry
<1>4. bundle.groups[group].coulomb[j] = "finite"
  BY <1>3
<1>5. CASE FromTheBase(bundle, group)
  BY <1>4, <1>5 DEF FromTheBase
<1>6. CASE MeasuredOn(bundle.groups[group], group)
  BY <1>4, <1>6 DEF MeasuredOn, SweptOn
<1> QED BY <1>2, <1>5, <1>6 DEF BlocksAreMeasured

LEMMA TranslationStaysMeasured ==
  ASSUME BundleIsMeasured, TranslationIsMeasured, HdgpStep, world' = world
  PROVE  TranslationIsMeasured'
<1>1. Scenario' = Scenario
  BY DEF Scenario
<1>2. CASE disk'["hdgp"] \in {disk["hdgp"], Torn}
  <2> SUFFICES ASSUME disk'["hdgp"] \notin Unreadable, NEW name \in DOMAIN disk'["hdgp"].groups
               PROVE  FrictionIsMeasured(disk'["hdgp"].groups[name], Scenario.base)
    BY <1>1 DEF TranslationIsMeasured, FrictionIsMeasured
  <2> QED BY <1>2 DEF TranslationIsMeasured, Unreadable
<1>3. CASE TranslationWrites
  <2> SUFFICES ASSUME NEW name \in DOMAIN disk'["hdgp"].groups
               PROVE  FrictionIsMeasured(disk'["hdgp"].groups[name], Scenario.base)
    BY <1>1 DEF TranslationIsMeasured, FrictionIsMeasured
  <2>1. disk'["hdgp"].groups = Exported(disk["bundle"], Scenario.names) /\ BlocksAreMeasured(disk["bundle"])
    BY <1>3 DEF TranslationWrites, BundleIsMeasured
  <2> QED BY <2>1, ExportedIsMeasured
<1> QED BY <1>2, <1>3 DEF HdgpStep

LEMMA MeasuredInvInit ==
  Init => MeasuredInv
BY TypeInvInit, CollectionInvInit
DEF Init, MeasuredInv, TrackIsOfOne, StaticIsMeasured, FitIsMeasured, BundleIsMeasured, ReleaseIsMeasured,
    TranslationIsMeasured, Files, Recorded, Unreadable

LEMMA MeasuredInvStep ==
  ASSUME MeasuredInv, [Next]_vars
  PROVE  MeasuredInv'
<1>1. TypeInv /\ HoldoutInv /\ CollectionInv
  BY DEF MeasuredInv, TypeInv
<1>2. TypeInv' /\ CollectionInv'
  BY <1>1, TypeInvStep, CollectionInvStep
<1>3. /\ TrackStep /\ StaticStep /\ FitFileStep /\ BundleFileStep /\ ReleaseStep /\ HdgpStep
      /\ world' = world /\ (cut => cut')
  BY <1>1, EveryStep
<1>4. TrackIsOfOne' /\ StaticIsMeasured'
  BY <1>3, TrackStaysOfOne, StaticStaysMeasured DEF MeasuredInv
<1>5. FitIsMeasured'
  BY <1>2, <1>3, FitStaysMeasured
<1>6. BundleIsMeasured'
  BY <1>3, BundleStaysMeasured
<1>7. ReleaseIsMeasured' /\ TranslationIsMeasured'
  BY <1>3, ReleaseStaysMeasured, TranslationStaysMeasured DEF MeasuredInv
<1> QED BY <1>2, <1>4, <1>5, <1>6, <1>7 DEF MeasuredInv

\* What is bundled, released and translated under the name of an arm rests on sweeps
\* that measured every joint of that arm and on recordings of it, or was in the base,
\* whichever files of whichever runs of the chain the commands were given.
THEOREM ReleaseIsOfTheArm == Spec => []ReleasedIsTheArm
<1>1. MeasuredInv => ReleasedIsTheArm
  BY DEF MeasuredInv, BundleIsMeasured, ReleaseIsMeasured, TranslationIsMeasured, ReleasedIsTheArm
<1> QED BY <1>1, MeasuredInvInit, MeasuredInvStep, PTL DEF Spec

(***************************************************************************)
(* What passes the gap and the score: VerdictsAreEarned.                   *)
(***************************************************************************)
\* A fit past the gap was accepted, and so was every block made of one.
Past(gap) == \E j \in Joints : Over(gap[j], 25)

FitWasAccepted ==
  disk["fit"] \notin Unreadable /\ disk["fit"].group # NoGroup =>
    (Past(disk["fit"].gap) => disk["fit"].accepted)

BlocksWereAccepted(bundle) ==
  \A group \in Identified(bundle) : Past(bundle.groups[group].gap) => bundle.groups[group].accepted

AcceptedOnDisk == \A path \in {"bundle", "release"} : disk[path] \notin Unreadable => BlocksWereAccepted(disk[path])

EarnedInv == TypeInv /\ FitWasAccepted /\ AcceptedOnDisk /\ DivergedIsInadequate

LEMMA FitStaysAccepted ==
  ASSUME FitWasAccepted, FitFileStep
  PROVE  FitWasAccepted'
<1>1. CASE disk'["fit"] \in {disk["fit"], Torn}
  BY <1>1 DEF FitWasAccepted, Unreadable
<1>2. CASE FitWrites
  <2>1. PICK source, group, arm, heard, accept :
          /\ disk'["fit"] = Fitted(source, group, arm, heard, accept)
          /\ group = NoGroup \/ (Wide(Disagreement(arm, heard)) => accept)
    BY <1>2 DEF FitWrites
  <2>2. disk'["fit"].group = group
    BY <2>1 DEF Fitted
  <2>3. CASE group = NoGroup
    BY <2>2, <2>3 DEF FitWasAccepted
  <2>4. CASE group # NoGroup
    <3> DEFINE gap == Disagreement(arm, heard)
    <3>1. disk'["fit"].gap = gap
      BY <2>1, <2>4 DEF Fitted
    <3>2. Wide(gap) => disk'["fit"].accepted
      <4>1. disk'["fit"].accepted = (accept /\ Wide(gap))
        BY <2>1, <2>4 DEF Fitted
      <4>2. Wide(gap) => accept
        BY <2>1, <2>4
      <4> HIDE DEF gap
      <4> QED BY <4>1, <4>2
    <3>3. Past(gap) <=> Wide(gap)
      BY DEF Past, Wide
    <3> HIDE DEF gap
    <3> QED BY <3>1, <3>2, <3>3 DEF FitWasAccepted
  <2> QED BY <2>3, <2>4
<1> QED BY <1>1, <1>2 DEF FitFileStep

LEMMA MergedWasAccepted ==
  ASSUME NEW base \in BundleFiles, NEW fit \in FitFiles, fit.group # NoGroup,
         BlocksWereAccepted(base), Past(fit.gap) => fit.accepted
  PROVE  BlocksWereAccepted(Merged(base, fit))
<1> DEFINE merged == Merged(base, fit)
<1>1. /\ merged.groups = [base.groups EXCEPT ![fit.group] = Block(fit)] /\ merged.version = base.version
      /\ DOMAIN base.groups = Groups
  BY MergedIsTyped DEF BundleFiles
<1> HIDE DEF merged
<1>2. SUFFICES ASSUME NEW group \in Identified(merged), Past(merged.groups[group].gap)
               PROVE  merged.groups[group].accepted
  BY DEF BlocksWereAccepted, merged
<1>3. group \in Groups /\ merged.version = 2 /\ merged.groups[group] # NoBlock
  BY <1>2 DEF Identified
<1>4. CASE group = fit.group
  <2>1. merged.groups[group] = Block(fit)
    BY <1>1, <1>3, <1>4
  <2>2. Block(fit).accepted = fit.accepted /\ Block(fit).gap = [j \in Joints |-> IF fit.gap[j] = NaN THEN 0 ELSE fit.gap[j]]
    BY DEF Block
  <2>3. PICK j \in Joints : Over(Block(fit).gap[j], 25)
    BY <1>2, <2>1 DEF Past
  <2>4. Over(fit.gap[j], 25)
    BY <2>2, <2>3 DEF Over
  <2>5. fit.accepted
    BY <2>4 DEF Past
  <2> QED BY <2>1, <2>2, <2>5
<1>5. CASE group # fit.group
  <2>1. merged.groups[group] = base.groups[group] /\ group \in Identified(base)
    BY <1>1, <1>3, <1>5 DEF Identified
  <2> QED BY <1>2, <2>1 DEF BlocksWereAccepted
<1> QED BY <1>4, <1>5

LEMMA AcceptedStays ==
  ASSUME TypeInv, FitWasAccepted, AcceptedOnDisk, BundleFileStep, ReleaseStep
  PROVE  AcceptedOnDisk'
<1>0. (\A path \in Files : Typed(path)) /\ world \in DOMAIN Scenarios
  BY TypeOKIsTyped DEF TypeInv
<1>1. disk'["bundle"] \notin Unreadable => BlocksWereAccepted(disk'["bundle"])
  <2>1. CASE BundleWrites
    <3>1. PICK base \in {Scenario.base, disk["bundle"]} :
            Mergeable(base, disk["fit"]) /\ disk'["bundle"] = Merged(base, disk["fit"])
      BY <2>1 DEF BundleWrites
    <3>2. base \in BundleFiles
      BY <1>0, <3>1, ScenarioIsTyped, FilesAre DEF Mergeable, Loads, Typed, Holds
    <3>3. disk["fit"] \in FitFiles /\ disk["fit"].group # NoGroup /\ (Past(disk["fit"].gap) => disk["fit"].accepted)
      BY <1>0, <3>1, FilesAre DEF Mergeable, Typed, Holds, FitWasAccepted
    <3>4. BlocksWereAccepted(base)
      <4>1. CASE base = Scenario.base
        BY <1>0, <4>1, ToolchainAssumption DEF BlocksWereAccepted, Past, Scenario
      <4>2. CASE base = disk["bundle"]
        BY <3>1, <4>2 DEF AcceptedOnDisk, Mergeable, Loads
      <4> QED BY <3>1, <4>1, <4>2
    <3> QED BY <3>1, <3>2, <3>3, <3>4, MergedWasAccepted
  <2>2. CASE disk'["bundle"] \in {disk["bundle"], Torn}
    BY <2>2 DEF AcceptedOnDisk, Unreadable
  <2> QED BY <2>1, <2>2 DEF BundleFileStep
<1>2. disk'["release"] \notin Unreadable => BlocksWereAccepted(disk'["release"])
  BY DEF ReleaseStep, ExportWrites, AcceptedOnDisk, Unreadable
<1> QED BY <1>1, <1>2 DEF AcceptedOnDisk

\* A run that runs away improves on nothing, and that is below what is asked for.
LEMMA NaNIsInadequate ==
  ASSUME NEW baseline, NEW lag, NEW component
  PROVE  ~Validated(Score(NaN, baseline, lag, component))
<1>1. Score(NaN, baseline, lag, component).improvement = 0
  BY DEF Score, Improvement
<1>2. Under(0, 30)
  BY DynamicFitAssumption DEF Under
<1> QED BY <1>1, <1>2 DEF Validated

LEMMA DivergedStays ==
  ASSUME DivergedIsInadequate, VerdictStep
  PROVE  DivergedIsInadequate'
<1>1. CASE disk'["verdict"] \in {disk["verdict"], Torn}
  BY <1>1 DEF DivergedIsInadequate, Unreadable
<1>2. CASE \E metrics \in Scenario.metrics : disk'["verdict"] = Verdict(metrics, {}, disk["fit"], FALSE)
  <2>1. PICK metrics \in Scenario.metrics : disk'["verdict"] = Verdict(metrics, {}, disk["fit"], FALSE)
    BY <1>2
  <2>2. disk'["verdict"].ranAway = FALSE
    BY <2>1 DEF Verdict
  <2> QED BY <2>2 DEF DivergedIsInadequate
<1>3. CASE \E score \in Scenario.scores :
             disk'["verdict"] = Verdict(Score(score.rmse, score.baseline, score.lag, "openarm"),
                                        {disk["run2"].of}, disk["fit"], score.rmse = NaN)
  <2>1. PICK score \in Scenario.scores :
               disk'["verdict"] = Verdict(Score(score.rmse, score.baseline, score.lag, "openarm"),
                                          {disk["run2"].of}, disk["fit"], score.rmse = NaN)
    BY <1>3
  <2> DEFINE metrics == Score(score.rmse, score.baseline, score.lag, "openarm")
             ranAway == score.rmse = NaN
             scored == {disk["run2"].of}
  <2>2. ranAway => ~Validated(metrics)
    BY NaNIsInadequate
  <2>3. disk'["verdict"] = Verdict(metrics, scored, disk["fit"], ranAway)
    BY <2>1
  <2> HIDE DEF metrics, ranAway, scored
  <2>4. /\ disk'["verdict"].ranAway => ranAway
        /\ disk'["verdict"].status = IF Validated(metrics) THEN "validated" ELSE "model_inadequate"
    BY <2>3 DEF Verdict
  <2> QED BY <2>2, <2>4 DEF DivergedIsInadequate
<1> QED BY <1>1, <1>2, <1>3 DEF VerdictStep, ValidateWrites

LEMMA EarnedInvStep ==
  ASSUME EarnedInv, [Next]_vars
  PROVE  EarnedInv'
<1>1. TypeInv /\ HoldoutInv
  BY DEF EarnedInv, TypeInv
<1>2. TypeInv'
  BY <1>1, TypeInvStep
<1>3. FitWasAccepted' /\ AcceptedOnDisk' /\ DivergedIsInadequate'
  BY <1>1, EveryStep, FitStaysAccepted, AcceptedStays, DivergedStays DEF EarnedInv
<1> QED BY <1>2, <1>3 DEF EarnedInv

\* A gap known to be wide reaches a bundle and a release only with the operator's leave,
\* and a prediction on the held-out run that ran away never validates.
THEOREM VerdictsWereEarned == Spec => []VerdictsAreEarned
<1>1. Init => EarnedInv
  BY TypeInvInit DEF Init, EarnedInv, FitWasAccepted, AcceptedOnDisk, DivergedIsInadequate, Files, Recorded, Unreadable
<1>2. EarnedInv => VerdictsAreEarned
  BY DEF EarnedInv, AcceptedOnDisk, BlocksWereAccepted, Past, VerdictsAreEarned, GapWasAccepted
<1> QED BY <1>1, <1>2, EarnedInvStep, PTL DEF Spec

(***************************************************************************)
(* What reaches the training environment: EveryGroupIsTranslated.          *)
(***************************************************************************)
TranslatedInv == HoldoutInv /\ EveryGroupIsTranslated

\* Under names that differ, each group finds itself.
LEMMA ExportedIsItself ==
  ASSUME NEW bundle, NEW names, NEW percent, Exportable(bundle, names, percent),
         NEW group \in Identified(bundle)
  PROVE  /\ names[group] # NoName /\ names[group] \in DOMAIN Exported(bundle, names)
         /\ Exported(bundle, names)[names[group]].group = group
<1> DEFINE named == CHOOSE other \in Identified(bundle) : names[other] = names[group]
<1>1. named \in Identified(bundle) /\ names[named] = names[group]
  OBVIOUS
<1>2. named = group
  BY <1>1 DEF Exportable
<1>3. names[group] \in {names[other] : other \in Identified(bundle)}
  OBVIOUS
<1> HIDE DEF named
<1>4. Exported(bundle, names)[names[group]].group = named
  BY <1>3 DEF Exported, named
<1>5. names[group] # NoName
  BY DEF Exportable
<1> QED BY <1>2, <1>3, <1>4, <1>5 DEF Exported

LEMMA TranslatedInvStep ==
  ASSUME TranslatedInv, [Next]_vars
  PROVE  TranslatedInv'
<1>0. HoldoutInv /\ HoldoutInv' /\ EveryGroupIsTranslated /\ HdgpStep /\ world' = world
  BY HoldoutInvStep, EveryStep DEF TranslatedInv
<1>1. Scenario' = Scenario
  BY <1>0 DEF Scenario
<1>2. CASE TranslationWrites
  <2>1. /\ disk'["hdgp"].groups = Exported(disk["bundle"], Scenario.names)
        /\ disk'["hdgp"].measured = Identified(disk["bundle"])
        /\ Exportable(disk["bundle"], Scenario.names, Scenario.spread)
    BY <1>2 DEF TranslationWrites
  <2>2. \A group \in Identified(disk["bundle"]) :
          /\ Scenario.names[group] # NoName /\ Scenario.names[group] \in DOMAIN Exported(disk["bundle"], Scenario.names)
          /\ Exported(disk["bundle"], Scenario.names)[Scenario.names[group]].group = group
    BY <2>1, ExportedIsItself
  <2> QED BY <1>0, <1>1, <2>1, <2>2 DEF TranslatedInv, EveryGroupIsTranslated
<1>3. CASE disk'["hdgp"] \in {disk["hdgp"], Torn}
  BY <1>0, <1>1, <1>3 DEF TranslatedInv, EveryGroupIsTranslated, Unreadable
<1> QED BY <1>0, <1>2, <1>3 DEF HdgpStep

\* export loses no arm: every group a bundle identifies is in the environment's
\* calibration, under a name that it knows and no other group has.
THEOREM EveryGroupArrives == Spec => []EveryGroupIsTranslated
<1>1. Init => TranslatedInv
  BY HoldoutInvInit DEF Init, TranslatedInv, EveryGroupIsTranslated, Files, Recorded, Unreadable
<1>2. TranslatedInv => EveryGroupIsTranslated
  BY DEF TranslatedInv
<1> QED BY <1>1, <1>2, TranslatedInvStep, PTL DEF Spec
=============================================================================
