------------------------------ MODULE FraudApi ------------------------------
(***************************************************************************)
(* The API workers (src/api/app.py): the ModelState each holds, how load() *)
(* fills it from the artifacts directory, at start-up and on               *)
(* POST /admin/reload-model, and what a scored request is computed from.   *)
(*                                                                         *)
(* Handlers and load() are async functions without a suspension point or   *)
(* plain functions, so a worker does one thing at a time: no request is    *)
(* answered between two reads of a load.  The files, though, belong to     *)
(* another process, which runs between any two reads.  A worker keeps its  *)
(* old components while it reads, and keeps those already replaced when a  *)
(* later read raises.                                                      *)
(***************************************************************************)
EXTENDS Artifacts

CONSTANT
    Workers     \* the uvicorn worker processes of inference/server.py

VARIABLES
    phase,      \* worker -> what it is doing
    state,      \* worker -> its ModelState
    apiUp,      \* worker -> the API_UP gauge
    answer      \* worker -> the last score answered since it last loaded, if any:
                \* its model_version, and what it was computed from

apiVars == <<phase, state, apiUp, answer>>

\* down: no process; serving: the event loop answers; otherwise the part of
\* load() that comes next.
Phases == {"down", "serving", "load", "calibrator", "scaler", "manifest"}

Loading(w) == phase[w] \notin {"down", "serving"}

\* 0 stands for None, for the unfitted FeatureEngineer, for the empty list
\* of feature names and for the version "unknown" of ModelState.__init__.
Component == 0 .. MaxRun

\* The version of a bundle is its run's; the manifest's, its model_name, is
\* that of an experiment and belongs to every run that selected it.
NameOnly == -1

Version == Component \union {NameOnly}

Parts == {"model", "calibrator", "engineer", "scaler", "features", "version"}

ModelState == [model : Component, calibrator : Component, engineer : Component,
               scaler : Component, features : Component, version : Version,
               ready : BOOLEAN, source : {"none", "files", "bundle"}]

EmptyState == [model |-> 0, calibrator |-> 0, engineer |-> 0, scaler |-> 0,
               features |-> 0, version |-> 0, ready |-> FALSE, source |-> "none"]

Provenance == [model : Component, calibrator : Component, engineer : Component,
               layout : Layouts, scaled : BOOLEAN, version : Version,
               source : {"none", "files", "bundle"}]

ApiTypeOK ==
    /\ phase \in [Workers -> Phases]
    /\ state \in [Workers -> ModelState]
    /\ apiUp \in [Workers -> BOOLEAN]
    /\ answer \in [Workers -> SUBSET Provenance]

ApiInit ==
    /\ phase = [w \in Workers |-> "down"]
    /\ state = [w \in Workers |-> EmptyState]
    /\ apiUp = [w \in Workers |-> FALSE]
    /\ answer = [w \in Workers |-> {}]

-----------------------------------------------------------------------------
\* Life of a worker.

Start(w) ==
    /\ phase[w] = "down"
    /\ phase' = [phase EXCEPT ![w] = "load"]
    /\ UNCHANGED <<state, apiUp, answer>>

\* The process ends: ModelState and metrics go with it.
Crash(w) ==
    /\ phase[w] # "down"
    /\ phase' = [phase EXCEPT ![w] = "down"]
    /\ state' = [state EXCEPT ![w] = EmptyState]
    /\ apiUp' = [apiUp EXCEPT ![w] = FALSE]
    /\ answer' = [answer EXCEPT ![w] = {}]

\* POST /admin/reload-model reaches one worker.
Reload(w) ==
    /\ phase[w] = "serving"
    /\ phase' = [phase EXCEPT ![w] = "load"]
    /\ answer' = [answer EXCEPT ![w] = {}]
    /\ UNCHANGED <<state, apiUp>>

-----------------------------------------------------------------------------
\* ModelState.load, one action per file it reads.

\* Any exception in load(): not ready, the components as they are by now.
LoadFails(w) ==
    /\ phase' = [phase EXCEPT ![w] = "serving"]
    /\ state' = [state EXCEPT ![w].ready = FALSE]
    /\ apiUp' = [apiUp EXCEPT ![w] = FALSE]

LoadSucceeds(w, s) ==
    /\ phase' = [phase EXCEPT ![w] = "serving"]
    /\ state' = [state EXCEPT ![w] = [s EXCEPT !.ready = TRUE]]
    /\ apiUp' = [apiUp EXCEPT ![w] = TRUE]

\* Mutant: self.scaler is not assigned from the bundle.
LoadBundle_KeepsScaler(w) ==
    /\ phase[w] = "load"
    /\ disk["bundle"] # Absent
    /\ IF Readable("bundle")
       THEN LET r == disk["bundle"]
            IN  LoadSucceeds(w, [model |-> r, calibrator |-> r, engineer |-> r,
                                 scaler |-> state[w].scaler, features |-> r, version |-> r,
                                 ready |-> FALSE, source |-> "bundle"])
       ELSE LoadFails(w)
    /\ UNCHANGED answer

\* Mutant: a worker that holds a bundle does not read the file again.
LoadBundle_Cached(w) ==
    /\ phase[w] = "load"
    /\ disk["bundle"] # Absent
    /\ IF state[w].source = "bundle"
       THEN LoadSucceeds(w, state[w])
       ELSE IF Readable("bundle")
       THEN LET r == disk["bundle"]
            IN  LoadSucceeds(w, [model |-> r, calibrator |-> r, engineer |-> r,
                                 scaler |-> r, features |-> r, version |-> r,
                                 ready |-> FALSE, source |-> "bundle"])
       ELSE LoadFails(w)
    /\ UNCHANGED answer

\* The bundle, when its path exists, replaces every component at once.
LoadBundle(w) ==
    /\ phase[w] = "load"
    /\ disk["bundle"] # Absent
    /\ IF Readable("bundle")
       THEN LET r == disk["bundle"]
            IN  LoadSucceeds(w, [model |-> r, calibrator |-> r, engineer |-> r,
                                 scaler |-> r, features |-> r, version |-> r,
                                 ready |-> FALSE, source |-> "bundle"])
       ELSE LoadFails(w)
    /\ UNCHANGED answer

\* Mutant: the warning about a missing model is not followed by a return.
LoadModelFile_NoReturn(w) ==
    /\ phase[w] = "load"
    /\ disk["bundle"] = Absent
    /\ CASE disk["model"] = Absent -> LoadSucceeds(w, state[w])
         [] disk["model"] = Torn   -> LoadFails(w)
         [] OTHER ->
              /\ phase' = [phase EXCEPT ![w] = "calibrator"]
              /\ state' = [state EXCEPT ![w].model = disk["model"], ![w].source = "files"]
              /\ UNCHANGED apiUp
    /\ UNCHANGED answer

\* Fallback, first file.  Without a model load() returns: a worker that was
\* ready stays ready with what it has.
LoadModelFile(w) ==
    /\ phase[w] = "load"
    /\ disk["bundle"] = Absent
    /\ CASE disk["model"] = Absent ->
              /\ phase' = [phase EXCEPT ![w] = "serving"]
              /\ UNCHANGED <<state, apiUp>>
         [] disk["model"] = Torn -> LoadFails(w)
         [] OTHER ->
              /\ phase' = [phase EXCEPT ![w] = "calibrator"]
              /\ state' = [state EXCEPT ![w].model = disk["model"], ![w].source = "files"]
              /\ UNCHANGED apiUp
    /\ UNCHANGED answer

\* Mutant: a file that does not unpickle is read again until it does.
LoadOptional_RetriesTorn(w, f, next) ==
    /\ phase[w] = f
    /\ phase' = [phase EXCEPT ![w] = IF disk[f] = Torn THEN f ELSE next]
    /\ state' = IF disk[f] \in {Absent, Torn} THEN state
                ELSE [state EXCEPT ![w] = [@ EXCEPT ![f] = disk[f]]]
    /\ UNCHANGED <<apiUp, answer>>

\* Fallback, the files that may be missing: a missing one leaves the
\* component of the previous load in place.
LoadOptional(w, f, next) ==
    /\ phase[w] = f
    /\ IF disk[f] = Torn
       THEN LoadFails(w)
       ELSE /\ phase' = [phase EXCEPT ![w] = next]
            /\ state' = IF disk[f] = Absent THEN state
                        ELSE [state EXCEPT ![w] = [@ EXCEPT ![f] = disk[f]]]
            /\ UNCHANGED apiUp
    /\ UNCHANGED answer

LoadCalibratorFile(w) == LoadOptional(w, "calibrator", "scaler")

LoadScalerFile(w) == LoadOptional(w, "scaler", "manifest")

\* The manifest gives the feature names and a name; the feature
\* engineer is not among the files that the fallback reads.
LoadManifest(w) ==
    /\ phase[w] = "manifest"
    /\ CASE disk["manifest"] = Torn   -> LoadFails(w)
         [] disk["manifest"] = Absent -> LoadSucceeds(w, state[w])
         [] OTHER -> LoadSucceeds(w, [state[w] EXCEPT !.features = disk["manifest"],
                                                      !.version = NameOnly])
    /\ UNCHANGED answer

Load(w) ==
    \/ LoadBundle(w) \/ LoadModelFile(w)
    \/ LoadCalibratorFile(w) \/ LoadScalerFile(w) \/ LoadManifest(w)

-----------------------------------------------------------------------------
\* POST /predict.

LayoutOf(s) == IF s.features = 0 THEN "dict_order" ELSE FeatureSet(best[s.features])

ScalerApplied(s) == s.scaler # 0 /\ ~IsPipeline(best[s.model])

\* transform and predict_proba raise when the number of columns differs
\* from the one they were fitted on.
Scores(s) ==
    /\ ScalerApplied(s) => Width(FeatureSet(best[s.scaler])) = Width(LayoutOf(s))
    /\ Width(FeatureSet(best[s.model])) = Width(LayoutOf(s))

\* Mutant: the version is read from the manifest on disk when a request is
\* answered.
ProvenanceOf_VersionOnDisk(s) ==
    [model |-> s.model, calibrator |-> s.calibrator, engineer |-> s.engineer,
     layout |-> LayoutOf(s), scaled |-> ScalerApplied(s), source |-> s.source,
     version |-> IF Readable("manifest") THEN disk["manifest"] ELSE s.version]

ProvenanceOf(s) ==
    [model |-> s.model, calibrator |-> s.calibrator, engineer |-> s.engineer,
     layout |-> LayoutOf(s), scaled |-> ScalerApplied(s), version |-> s.version,
     source |-> s.source]

\* A request that is scored and answered.  (Not ready: 503; the
\* scoring raises: 500; neither changes anything here.)
Predict(w) ==
    /\ phase[w] = "serving"
    /\ state[w].ready
    /\ Scores(state[w])
    /\ answer' = [answer EXCEPT ![w] = {ProvenanceOf(state[w])}]
    /\ UNCHANGED <<phase, state, apiUp>>

ApiNext == \E w \in Workers : Start(w) \/ Crash(w) \/ Reload(w) \/ Load(w) \/ Predict(w)
=============================================================================
