------------------------- MODULE ModelServing_proofs -------------------------
(***************************************************************************)
(* Proofs about ModelServing: its type invariant, the inductive invariant  *)
(* IInv, the safety properties that follow from it, and that the workers   *)
(* implement ReleaseService.                                               *)
(***************************************************************************)
EXTENDS ModelServing, TLAPS

USE ArtifactsAssumption

-----------------------------------------------------------------------------
\* The type invariant, one component at a time.

LEMMA TargetIsAFile ==
    ASSUME JobTypeOK
    PROVE  Target \in Files
<1>1. /\ job.op \in Ops /\ job.pos \in 1 .. 6
    BY DEF JobTypeOK, Job, LastSave
<1>2. \A i \in 1 .. 6 : SaveOrder[i] \in Files
    BY DEF SaveOrder, Files
<1> QED
    BY <1>1, <1>2 DEF Target, Files, Ops

LEMMA PayloadIsContent ==
    ASSUME ArtifactsTypeOK, JobTypeOK, ~Idle
    PROVE  Payload \in Content
<1>1. disk["model"] \in Content /\ disk["backup"] \in Content
    BY DEF ArtifactsTypeOK, Files
<1>2. job.op \in {"train", "backup", "rollback"}
    BY DEF JobTypeOK, Job, Ops, Idle
<1>3. job.op = "train" => job.run \in Runs
    BY DEF JobTypeOK
<1> QED
    BY <1>1, <1>2, <1>3 DEF Payload, Content

LEMMA JobStepDisk ==
    ASSUME ArtifactsTypeOK, JobTypeOK, JobNext
    PROVE  ArtifactsTypeOK'
<1> USE DEF ArtifactsTypeOK
<1>1. CASE StartTraining
    BY <1>1, InstalledAssumption DEF StartTraining
<1>2. CASE OpenFile
    BY <1>2, TargetIsAFile DEF OpenFile, Content
<1>3. CASE CloseFile
    BY <1>3, TargetIsAFile, PayloadIsContent DEF CloseFile
<1>4. CASE StartBackup \/ StartRollback \/ AbortJob
    BY <1>4 DEF StartBackup, StartRollback, AbortJob
<1> QED
    BY <1>1, <1>2, <1>3, <1>4 DEF JobNext

LEMMA JobStepTypes ==
    ASSUME JobTypeOK, JobNext
    PROVE  JobTypeOK'
<1> USE DEF JobTypeOK, Job, Ops, Runs, LastSave
<1>1. CASE StartTraining
  <2>1. job.run + 1 \in 1 .. MaxRun
      BY <1>1 DEF StartTraining
  <2> QED
      BY <1>1, <2>1 DEF StartTraining
<1>2. CASE StartBackup
    BY <1>2 DEF StartBackup
<1>3. CASE StartRollback
    BY <1>3 DEF StartRollback
<1>4. CASE OpenFile
    BY <1>4 DEF OpenFile
<1>5. CASE CloseFile
  <2>0. released' \in 0 .. MaxRun
      BY <1>5 DEF CloseFile
  <2>1. CASE job.op = "train" /\ job.pos < 6
    <3>1. job' = [job EXCEPT !.pos = @ + 1, !.open = FALSE]
        BY <1>5, <2>1 DEF CloseFile
    <3>2. job.pos + 1 \in 1 .. 6
        BY <2>1
    <3> QED
        BY <2>0, <3>1, <3>2
  <2>2. CASE ~(job.op = "train" /\ job.pos < 6)
    <3>1. job' = AtRest
        BY <1>5, <2>2 DEF CloseFile
    <3> QED
        BY <2>0, <3>1 DEF AtRest
  <2> QED
      BY <2>1, <2>2
<1>6. CASE AbortJob
    BY <1>6 DEF AbortJob, AtRest
<1> QED
    BY <1>1, <1>2, <1>3, <1>4, <1>5, <1>6 DEF JobNext

\* What the loader may put into a ModelState is a training run.
LEMMA ReadableIsComponent ==
    ASSUME ArtifactsTypeOK, NEW f \in Files, disk[f] # Absent, disk[f] # Torn
    PROVE  disk[f] \in Runs /\ disk[f] \in Component
BY DEF ArtifactsTypeOK, Content, Component, Runs

LEMMA LoadFailsTypes ==
    ASSUME ApiTypeOK, NEW w \in Workers, LoadFails(w), UNCHANGED answer
    PROVE  ApiTypeOK'
<1> DEFINE failing == [state[w] EXCEPT !.ready = FALSE]
<1>1. state[w] \in ModelState
    BY DEF ApiTypeOK
<1>2. failing \in ModelState
    BY <1>1 DEF ModelState
<1>3. /\ state' = [state EXCEPT ![w] = failing]
      /\ phase' = [phase EXCEPT ![w] = "serving"]
      /\ apiUp' = [apiUp EXCEPT ![w] = FALSE]
      /\ answer' = answer
    BY DEF LoadFails
<1> HIDE DEF failing
<1> QED
    BY <1>2, <1>3 DEF ApiTypeOK, Phases

LEMMA LoadSucceedsTypes ==
    ASSUME ApiTypeOK, NEW w \in Workers, NEW s \in ModelState,
           LoadSucceeds(w, s), UNCHANGED answer
    PROVE  ApiTypeOK'
BY DEF ApiTypeOK, LoadSucceeds, Phases, ModelState

LEMMA LoadOptionalTypes ==
    ASSUME ArtifactsTypeOK, ApiTypeOK, NEW w \in Workers,
           NEW f \in {"calibrator", "scaler"}, NEW next \in Phases,
           LoadOptional(w, f, next)
    PROVE  ApiTypeOK'
<1>1. CASE disk[f] = Torn
    BY <1>1, LoadFailsTypes DEF LoadOptional
<1>2. CASE disk[f] # Torn
  <2>1. UNCHANGED <<apiUp, answer>> /\ phase' = [phase EXCEPT ![w] = next]
      BY <1>2 DEF LoadOptional
  <2>2. CASE disk[f] = Absent
      BY <1>2, <2>1, <2>2 DEF LoadOptional, ApiTypeOK
  <2>3. CASE disk[f] # Absent
    <3>1. disk[f] \in Component
        BY <1>2, <2>3, ReadableIsComponent DEF Files
    <3>2. [state[w] EXCEPT ![f] = disk[f]] \in ModelState
        BY <3>1 DEF ApiTypeOK, ModelState
    <3>3. state' = [state EXCEPT ![w] = [state[w] EXCEPT ![f] = disk[f]]]
        BY <1>2, <2>3 DEF LoadOptional
    <3> QED
        BY <2>1, <3>2, <3>3 DEF ApiTypeOK
  <2> QED
      BY <2>2, <2>3
<1> QED
    BY <1>1, <1>2

LEMMA ApiStepTypes ==
    ASSUME ArtifactsTypeOK, ApiTypeOK, NEW w \in Workers,
           Start(w) \/ Crash(w) \/ Reload(w) \/ Load(w) \/ Predict(w)
    PROVE  ApiTypeOK'
<1>1. CASE Start(w)
    BY <1>1 DEF Start, ApiTypeOK, Phases
<1>2. CASE Crash(w)
    BY <1>2 DEF Crash, ApiTypeOK, Phases, EmptyState, ModelState, Component, Version
<1>3. CASE Reload(w)
    BY <1>3 DEF Reload, ApiTypeOK, Phases
<1>4. CASE LoadBundle(w)
  <2>1. CASE Readable("bundle")
    <3>1. disk["bundle"] \in Component
        BY <2>1 DEF Readable, Component, Runs
    <3> DEFINE r == disk["bundle"]
               s == [model |-> r, calibrator |-> r, engineer |-> r, scaler |-> r,
                     features |-> r, version |-> r, ready |-> FALSE, source |-> "bundle"]
    <3>2. s \in ModelState
        BY <3>1 DEF ModelState, Version
    <3>3. LoadSucceeds(w, s) /\ UNCHANGED answer
        BY <1>4, <2>1 DEF LoadBundle
    <3> QED
        BY <3>2, <3>3, LoadSucceedsTypes
  <2>2. CASE ~Readable("bundle")
      BY <1>4, <2>2, LoadFailsTypes DEF LoadBundle
  <2> QED
      BY <2>1, <2>2
<1>5. CASE LoadModelFile(w)
  <2>1. CASE disk["model"] = Absent
      BY <1>5, <2>1 DEF LoadModelFile, ApiTypeOK, Phases
  <2>2. CASE disk["model"] = Torn
      BY <1>5, <2>2, LoadFailsTypes, ArtifactsAssumption DEF LoadModelFile
  <2>3. CASE disk["model"] # Absent /\ disk["model"] # Torn
    <3>1. disk["model"] \in Component
        BY <2>3, ReadableIsComponent DEF Files
    <3> DEFINE s == [state[w] EXCEPT !.model = disk["model"], !.source = "files"]
    <3>2. state[w] \in ModelState
        BY DEF ApiTypeOK
    <3>3. s \in ModelState
        BY <3>1, <3>2 DEF ModelState
    <3>4. /\ phase' = [phase EXCEPT ![w] = "calibrator"]
          /\ state' = [state EXCEPT ![w] = s]
          /\ UNCHANGED <<apiUp, answer>>
        BY <1>5, <2>3 DEF LoadModelFile
    <3> HIDE DEF s
    <3> QED
        BY <3>3, <3>4 DEF ApiTypeOK, Phases
  <2> QED
      BY <2>1, <2>2, <2>3
<1>6. CASE LoadCalibratorFile(w)
    BY <1>6, LoadOptionalTypes DEF LoadCalibratorFile, Phases
<1>7. CASE LoadScalerFile(w)
    BY <1>7, LoadOptionalTypes DEF LoadScalerFile, Phases
<1>8. CASE LoadManifest(w)
  <2>1. CASE disk["manifest"] = Torn
      BY <1>8, <2>1, LoadFailsTypes DEF LoadManifest
  <2>2. CASE disk["manifest"] = Absent
    <3>1. state[w] \in ModelState
        BY DEF ApiTypeOK
    <3> QED
        BY <1>8, <2>2, <3>1, LoadSucceedsTypes, ArtifactsAssumption DEF LoadManifest
  <2>3. CASE disk["manifest"] # Absent /\ disk["manifest"] # Torn
    <3>1. disk["manifest"] \in Component
        BY <2>3, ReadableIsComponent DEF Files
    <3> DEFINE s == [state[w] EXCEPT !.features = disk["manifest"], !.version = NameOnly]
    <3>2. s \in ModelState
        BY <3>1 DEF ApiTypeOK, ModelState, Version
    <3>3. LoadSucceeds(w, s) /\ UNCHANGED answer
        BY <1>8, <2>3 DEF LoadManifest
    <3> QED
        BY <3>2, <3>3, LoadSucceedsTypes
  <2> QED
      BY <2>1, <2>2, <2>3
<1>9. CASE Predict(w)
  <2>1. ProvenanceOf(state[w]) \in Provenance
      BY DEF ApiTypeOK, ModelState, Provenance, ProvenanceOf, ScalerApplied, LayoutOf,
             Layouts, FeatureSet
  <2> QED
      BY <1>9, <2>1 DEF Predict, ApiTypeOK
<1> QED
    BY <1>1, <1>2, <1>3, <1>4, <1>5, <1>6, <1>7, <1>8, <1>9 DEF Load

LEMMA InitTypes == Init => TypeOK
BY ArtifactsAssumption
   DEF Init, JobInit, ApiInit, TypeOK, ArtifactsTypeOK, JobTypeOK, ApiTypeOK, Content,
       Experiments, Job, Ops, LastSave, Runs, Phases, EmptyState, ModelState, Component, Version

LEMMA StepTypes == TypeOK /\ [Next]_vars => TypeOK'
<1> SUFFICES ASSUME TypeOK, [Next]_vars PROVE TypeOK'
    OBVIOUS
<1> USE DEF TypeOK
<1>1. CASE Job_
  <2>1. ApiTypeOK'
      BY <1>1 DEF Job_, apiVars, ApiTypeOK
  <2> QED
      BY <1>1, <2>1, JobStepDisk, JobStepTypes DEF Job_
<1>2. CASE Api_
  <2>1. ArtifactsTypeOK' /\ JobTypeOK'
      BY <1>2 DEF Api_, jobVars, ArtifactsTypeOK, JobTypeOK
  <2> QED
      BY <1>2, <2>1, ApiStepTypes DEF Api_, ApiNext
<1>3. CASE UNCHANGED vars
    BY <1>3 DEF vars, ArtifactsTypeOK, JobTypeOK, ApiTypeOK
<1> QED
    BY <1>1, <1>2, <1>3 DEF Next

\* Type correctness: whatever the job and the workers do, every variable
\* keeps its type; in particular no component is ever taken from a missing or
\* a torn file.
THEOREM TypeCorrect == Spec => []TypeOK
BY InitTypes, StepTypes, PTL DEF Spec

-----------------------------------------------------------------------------
\* The inductive invariant.

\* Only a training run writes the bundle, and it writes its own number.
LEMMA OnlyTrainingWritesBundle ==
    ASSUME JobTypeOK, Target = "bundle"
    PROVE  job.op \in {"train", "idle"} /\ Payload = job.run
BY DEF Target, Payload, JobTypeOK, Job, Ops

LEMMA JobStepDiskInv ==
    ASSUME TypeOK, DiskInv, JobNext
    PROVE  DiskInv' /\ released <= released' /\ \A r \in Runs : r <= released => best'[r] = best[r]
<1> USE DEF DiskInv, Readable
<1>0. /\ "bundle" \in Files /\ job.run \in Int /\ released \in Int
      /\ disk \in [Files -> Content] /\ best \in [Runs -> Experiments]
      /\ job \in Job
    BY DEF TypeOK, ArtifactsTypeOK, JobTypeOK, Job, Files
<1>1. CASE StartTraining
  <2>1. job'.run = job.run + 1 /\ disk' = disk /\ released' = released
      BY <1>1 DEF StartTraining
  <2>2. \A r \in Runs : r <= released => best'[r] = best[r]
      BY <1>0, <1>1 DEF StartTraining, Runs
  <2> QED
      BY <1>0, <2>1, <2>2
<1>2. CASE StartBackup \/ StartRollback \/ AbortJob
  <2>1. job'.run = job.run /\ UNCHANGED <<disk, best, released>>
      BY <1>0, <1>2 DEF StartBackup, StartRollback, AbortJob, AtRest, Job
  <2> QED
      BY <1>0, <2>1
<1>3. CASE OpenFile
  <2>1. job'.run = job.run /\ UNCHANGED <<best, released>>
      BY <1>0, <1>3 DEF OpenFile, Job
  <2>2. disk'["bundle"] \in {disk["bundle"], Torn}
      BY <1>0, <1>3 DEF OpenFile
  <2>3. Torn \notin Runs /\ Torn # Absent
      BY ArtifactsAssumption DEF Runs
  <2> QED
      BY <1>0, <2>1, <2>2, <2>3
<1>4. CASE CloseFile
  <2>1. job'.run = job.run /\ UNCHANGED best
      BY <1>0, <1>4 DEF CloseFile, AtRest, Job
  <2>2. CASE Target = "bundle"
    <3>1. Payload = job.run /\ job.run \in Runs
        BY <1>4, <2>2, OnlyTrainingWritesBundle DEF TypeOK, JobTypeOK, CloseFile, Idle
    <3>2. disk'["bundle"] = job.run /\ released' = job.run
        BY <1>0, <1>4, <2>2, <3>1 DEF CloseFile
    <3>3. job.run # Absent
        BY <3>1, ArtifactsAssumption DEF Runs
    <3> QED
        BY <1>0, <2>1, <3>2, <3>3
  <2>3. CASE Target # "bundle"
    <3>1. disk'["bundle"] = disk["bundle"] /\ released' = released
        BY <1>0, <1>4, <2>3 DEF CloseFile
    <3> QED
        BY <1>0, <2>1, <3>1
  <2> QED
      BY <2>2, <2>3
<1> QED
    BY <1>1, <1>2, <1>3, <1>4 DEF JobNext

\* The job does not touch the workers; it can only publish a newer release.
LEMMA JobStepWorkers ==
    ASSUME TypeOK, DiskInv, JobNext, UNCHANGED apiVars,
           NEW w \in Workers, WorkerInv(w), AnswerInv(w)
    PROVE  WorkerInv(w)' /\ AnswerInv(w)'
<1>1. /\ released <= released'
      /\ \A r \in Runs : r <= released => best'[r] = best[r]
    BY JobStepDiskInv
<1>2. released \in Int /\ released' \in Int
    BY JobStepTypes DEF TypeOK, JobTypeOK
<1>3. UNCHANGED <<phase, state, apiUp, answer>>
    BY DEF apiVars
<1>4. WorkerInv(w)'
    BY <1>1, <1>2, <1>3 DEF WorkerInv, Runs
<1>5. AnswerInv(w)'
  <2> SUFFICES ASSUME NEW a \in answer[w], a.source = "bundle"
               PROVE  /\ a.model = a.version /\ a.calibrator = a.version
                      /\ a.engineer = a.version
                      /\ a.version \in Runs /\ a.version <= released'
                      /\ a.layout = FeatureSet(best'[a.version])
      BY <1>3 DEF AnswerInv
  <2> QED
      BY <1>1, <1>2 DEF AnswerInv, Runs
<1> QED
    BY <1>4, <1>5

\* A worker's step changes that worker only.
LEMMA ApiStepOthers ==
    ASSUME ApiTypeOK, NEW w \in Workers, NEW v \in Workers, v # w,
           Start(w) \/ Crash(w) \/ Reload(w) \/ Load(w) \/ Predict(w)
    PROVE  /\ phase'[v] = phase[v] /\ state'[v] = state[v]
           /\ apiUp'[v] = apiUp[v] /\ answer'[v] = answer[v]
<1> USE DEF ApiTypeOK
<1>1. CASE Start(w) \/ Crash(w) \/ Reload(w) \/ Predict(w)
    BY <1>1 DEF Start, Crash, Reload, Predict
<1>2. CASE LoadBundle(w)
    BY <1>2 DEF LoadBundle, LoadSucceeds, LoadFails
<1>3. CASE LoadModelFile(w)
    BY <1>3 DEF LoadModelFile, LoadFails
<1>4. CASE LoadCalibratorFile(w) \/ LoadScalerFile(w)
    BY <1>4 DEF LoadCalibratorFile, LoadScalerFile, LoadOptional, LoadFails
<1>5. CASE LoadManifest(w)
    BY <1>5 DEF LoadManifest, LoadSucceeds, LoadFails
<1> QED
    BY <1>1, <1>2, <1>3, <1>4, <1>5 DEF Load

\* load() failing keeps the components, so it keeps what is known of them.
LEMMA LoadFailsWorker ==
    ASSUME ApiTypeOK, NEW w \in Workers, WorkerInv(w), LoadFails(w), UNCHANGED released
    PROVE  WorkerInv(w)'
<1>1. /\ phase'[w] = "serving" /\ apiUp'[w] = FALSE /\ state'[w].ready = FALSE
      /\ state'[w] = [state[w] EXCEPT !.ready = FALSE]
    BY DEF LoadFails, ApiTypeOK, ModelState
<1>2. state[w] \in ModelState
    BY DEF ApiTypeOK
<1>3. AllFrom(state'[w], state[w].model) <=> AllFrom(state[w], state[w].model)
    BY <1>1, <1>2 DEF AllFrom, ModelState
<1>4. state'[w].source = state[w].source /\ state'[w].model = state[w].model
    BY <1>1, <1>2 DEF ModelState
<1> QED
    BY <1>1, <1>3, <1>4 DEF WorkerInv, AllFrom

\* Reading a calibrator or a scaler changes neither the model nor the source.
LEMMA LoadOptionalWorker ==
    ASSUME ArtifactsTypeOK, ApiTypeOK, NEW w \in Workers, WorkerInv(w), UNCHANGED released,
           NEW f \in {"calibrator", "scaler"}, NEW next \in {"scaler", "manifest"},
           LoadOptional(w, f, next)
    PROVE  WorkerInv(w)'
<1>0. state[w] \in ModelState
    BY DEF ApiTypeOK
<1>1. CASE disk[f] = Torn
    BY <1>1, LoadFailsWorker DEF LoadOptional
<1>2. CASE disk[f] # Torn
  <2>1. /\ phase'[w] = next /\ apiUp'[w] = apiUp[w]
        /\ state'[w] \in {state[w], [state[w] EXCEPT ![f] = disk[f]]}
      BY <1>2 DEF LoadOptional, ApiTypeOK
  <2>2. /\ state'[w].source = state[w].source /\ state'[w].ready = state[w].ready
        /\ state'[w].model = state[w].model
      BY <1>0, <2>1 DEF ModelState
  <2>3. state[w].source = "files" /\ state[w].model \in Runs
      BY DEF LoadOptional, WorkerInv
  <2>4. apiUp'[w] = state'[w].ready
      BY <2>1, <2>2 DEF WorkerInv
  <2> QED
      BY <2>1, <2>2, <2>3, <2>4 DEF WorkerInv, AllFrom
<1> QED
    BY <1>1, <1>2

\* Each step of a worker keeps its part of the invariant.
LEMMA ApiStepWorker ==
    ASSUME TypeOK, DiskInv, NEW w \in Workers, WorkerInv(w), UNCHANGED jobVars,
           Start(w) \/ Crash(w) \/ Reload(w) \/ Load(w) \/ Predict(w)
    PROVE  WorkerInv(w)'
<1>0. /\ ApiTypeOK /\ ArtifactsTypeOK /\ state[w] \in ModelState
      /\ UNCHANGED <<disk, best, released>> /\ released \in Int
    BY DEF TypeOK, ApiTypeOK, JobTypeOK, jobVars
<1>1. CASE Start(w) \/ Reload(w)
  <2>1. phase'[w] = "load" /\ UNCHANGED <<state, apiUp>>
      BY <1>0, <1>1 DEF Start, Reload, ApiTypeOK
  <2> QED
      BY <1>0, <2>1 DEF WorkerInv, AllFrom
<1>2. CASE Crash(w)
  <2>1. phase'[w] = "down" /\ state'[w] = EmptyState /\ apiUp'[w] = FALSE
      BY <1>0, <1>2 DEF Crash, ApiTypeOK
  <2>2. state'[w].source = "none" /\ state'[w].ready = FALSE
      BY <2>1 DEF EmptyState
  <2> QED
      BY <2>1, <2>2 DEF WorkerInv, AllFrom
<1>3. CASE Predict(w)
    BY <1>0, <1>3 DEF Predict, WorkerInv, AllFrom
<1>4. CASE LoadBundle(w)
  <2>1. CASE ~Readable("bundle")
      BY <1>0, <1>4, <2>1, LoadFailsWorker DEF LoadBundle
  <2>2. CASE Readable("bundle")
    <3>1. disk["bundle"] = released /\ released \in Runs /\ released <= released
        BY <1>0, <2>2 DEF Readable, DiskInv
    <3>2. phase'[w] = "serving" /\ apiUp'[w] = TRUE /\ state'[w].ready = TRUE
        BY <1>0, <1>4, <2>2 DEF LoadBundle, LoadSucceeds, ApiTypeOK
    <3>3. AllFrom(state'[w], released) /\ state'[w].source = "bundle"
        BY <1>0, <1>4, <2>2, <3>1 DEF LoadBundle, LoadSucceeds, ApiTypeOK, AllFrom
    <3>4. released' = released
        BY <1>0
    <3> QED
        BY <3>1, <3>2, <3>3, <3>4 DEF WorkerInv, AllFrom
  <2> QED
      BY <2>1, <2>2
<1>5. CASE LoadModelFile(w)
  <2>1. state[w].source # "bundle"
      BY <1>0, <1>5 DEF LoadModelFile, WorkerInv, DiskInv, Runs
  <2>2. CASE disk["model"] = Absent
    <3>1. phase'[w] = "serving" /\ phase[w] = "load" /\ UNCHANGED <<state, apiUp>>
        BY <1>0, <1>5, <2>2 DEF LoadModelFile, ApiTypeOK
    <3> QED
        BY <1>0, <3>1 DEF WorkerInv, AllFrom
  <2>3. CASE disk["model"] = Torn
      BY <1>0, <1>5, <2>3, LoadFailsWorker, ArtifactsAssumption DEF LoadModelFile
  <2>4. CASE disk["model"] # Absent /\ disk["model"] # Torn
    <3>1. disk["model"] \in Runs
        BY <1>0, <2>4, ReadableIsComponent DEF Files
    <3>2. /\ phase'[w] = "calibrator" /\ state'[w].source = "files"
          /\ state'[w].model = disk["model"]
          /\ apiUp'[w] = apiUp[w] /\ state'[w].ready = state[w].ready
        BY <1>0, <1>5, <2>4 DEF LoadModelFile, ApiTypeOK, ModelState
    <3>3. apiUp'[w] = state'[w].ready
        BY <3>2 DEF WorkerInv
    <3> QED
        BY <3>1, <3>2, <3>3 DEF WorkerInv, AllFrom
  <2> QED
      BY <2>2, <2>3, <2>4
<1>6. CASE LoadCalibratorFile(w)
    BY <1>0, <1>6, LoadOptionalWorker DEF LoadCalibratorFile
<1>7. CASE LoadScalerFile(w)
    BY <1>0, <1>7, LoadOptionalWorker DEF LoadScalerFile
<1>8. CASE LoadManifest(w)
  <2>1. CASE disk["manifest"] = Torn
      BY <1>0, <1>8, <2>1, LoadFailsWorker DEF LoadManifest
  <2>2. CASE disk["manifest"] # Torn
    <3>1. state[w].source = "files" /\ state[w].model \in Runs
        BY <1>8 DEF LoadManifest, WorkerInv
    <3>2. /\ phase'[w] = "serving" /\ apiUp'[w] = TRUE
          /\ state'[w].ready = TRUE /\ state'[w].source = state[w].source
          /\ state'[w].model = state[w].model
      <4>1. PICK s \in {state[w], [state[w] EXCEPT !.features = disk["manifest"],
                                                  !.version = NameOnly]} :
                LoadSucceeds(w, s)
          BY <1>8, <2>2 DEF LoadManifest
      <4>2. s.source = state[w].source /\ s.model = state[w].model /\ DOMAIN s = DOMAIN state[w]
          BY <1>0, <4>1 DEF ModelState
      <4>3. state'[w] = [s EXCEPT !.ready = TRUE] /\ phase'[w] = "serving" /\ apiUp'[w] = TRUE
          BY <1>0, <4>1 DEF LoadSucceeds, ApiTypeOK
      <4> QED
          BY <1>0, <4>2, <4>3 DEF ModelState
    <3> QED
        BY <3>1, <3>2 DEF WorkerInv, AllFrom
  <2> QED
      BY <2>1, <2>2
<1> QED
    BY <1>1, <1>2, <1>3, <1>4, <1>5, <1>6, <1>7, <1>8 DEF Load

\* A prediction is logged under the version of the state that scored it.
LEMMA ApiStepAnswer ==
    ASSUME TypeOK, DiskInv, NEW w \in Workers, WorkerInv(w), AnswerInv(w), UNCHANGED jobVars,
           Start(w) \/ Crash(w) \/ Reload(w) \/ Load(w) \/ Predict(w)
    PROVE  AnswerInv(w)'
<1>0. /\ answer \in [Workers -> SUBSET Provenance] /\ state[w] \in ModelState
      /\ UNCHANGED <<best, released>> /\ released \in Int
    BY DEF TypeOK, ApiTypeOK, JobTypeOK, jobVars
<1>1. CASE Start(w) \/ Crash(w) \/ Reload(w)
  <2>1. answer'[w] \in {answer[w], {}}
      BY <1>0, <1>1 DEF Start, Crash, Reload
  <2> QED
      BY <1>0, <2>1 DEF AnswerInv
<1>2. CASE Load(w)
  <2>1. UNCHANGED answer
      BY <1>2 DEF Load, LoadBundle, LoadModelFile, LoadCalibratorFile, LoadScalerFile,
                  LoadOptional, LoadManifest
  <2> QED
      BY <1>0, <2>1 DEF AnswerInv
<1>3. CASE Predict(w)
  <2>1. answer'[w] = {ProvenanceOf(state[w])}
      BY <1>0, <1>3 DEF Predict
  <2> SUFFICES ASSUME state[w].source = "bundle"
               PROVE  LET a == ProvenanceOf(state[w])
                      IN  /\ a.model = a.version /\ a.calibrator = a.version
                          /\ a.engineer = a.version
                          /\ a.version \in Runs /\ a.version <= released
                          /\ a.layout = FeatureSet(best[a.version])
      BY <1>0, <2>1 DEF AnswerInv, ProvenanceOf
  <2>2. PICK r \in Runs : r <= released /\ AllFrom(state[w], r)
      BY DEF WorkerInv
  <2>3. LayoutOf(state[w]) = FeatureSet(best[r])
      BY <2>2 DEF LayoutOf, AllFrom, Runs
  <2> QED
      BY <2>2, <2>3 DEF ProvenanceOf, AllFrom
<1> QED
    BY <1>1, <1>2, <1>3

LEMMA InitInv == Init => IInv
<1> SUFFICES ASSUME Init PROVE IInv
    OBVIOUS
<1>1. TypeOK
    BY InitTypes
<1>2. DiskInv
    BY ArtifactsAssumption DEF Init, JobInit, DiskInv, Readable, Files, Runs
<1>3. ASSUME NEW w \in Workers PROVE WorkerInv(w) /\ AnswerInv(w)
  <2>1. /\ phase[w] = "down" /\ apiUp[w] = FALSE /\ answer[w] = {}
        /\ state[w].ready = FALSE /\ state[w].source = "none"
      BY DEF Init, ApiInit, EmptyState
  <2> QED
      BY <2>1 DEF WorkerInv, AnswerInv
<1> QED
    BY <1>1, <1>2, <1>3 DEF IInv

LEMMA StepInv == IInv /\ [Next]_vars => IInv'
<1> SUFFICES ASSUME IInv, [Next]_vars PROVE IInv'
    OBVIOUS
<1>0. TypeOK /\ DiskInv /\ \A v \in Workers : WorkerInv(v) /\ AnswerInv(v)
    BY DEF IInv
<1>1. TypeOK'
    BY <1>0, StepTypes
<1>2. CASE Job_
    BY <1>0, <1>1, <1>2, JobStepDiskInv, JobStepWorkers DEF Job_, IInv
<1>3. CASE Api_
  <2>1. UNCHANGED jobVars
      BY <1>3 DEF Api_
  <2>2. PICK w \in Workers : Start(w) \/ Crash(w) \/ Reload(w) \/ Load(w) \/ Predict(w)
      BY <1>3 DEF Api_, ApiNext
  <2>3. DiskInv'
      BY <1>0, <2>1 DEF jobVars, DiskInv, Readable
  <2>4. WorkerInv(w)' /\ AnswerInv(w)'
      BY <1>0, <2>1, <2>2, ApiStepWorker, ApiStepAnswer
  <2>5. ASSUME NEW v \in Workers, v # w PROVE WorkerInv(v)' /\ AnswerInv(v)'
    <3>1. /\ phase'[v] = phase[v] /\ state'[v] = state[v]
          /\ apiUp'[v] = apiUp[v] /\ answer'[v] = answer[v]
        BY <1>0, <2>2, <2>5, ApiStepOthers DEF TypeOK
    <3> QED
        BY <1>0, <2>1, <3>1 DEF WorkerInv, AnswerInv, AllFrom, jobVars
  <2> QED
      BY <1>1, <2>3, <2>4, <2>5 DEF IInv
<1>4. CASE UNCHANGED vars
    BY <1>0, <1>1, <1>4 DEF vars, IInv, DiskInv, Readable,
                            WorkerInv, AnswerInv, AllFrom
<1> QED
    BY <1>2, <1>3, <1>4 DEF Next

LEMMA Inductive == Spec => []IInv
BY InitInv, StepInv, PTL DEF Spec

-----------------------------------------------------------------------------
\* The safety properties.

LEMMA InvGivesOneRelease == IInv => OneReleasePerWorker
BY DEF IInv, OneReleasePerWorker, FromBundle, WorkerInv, AllFrom, Parts

\* However the job's writes interleave with loads, reloads and crashes, a
\* worker that is ready from a bundle holds components of one training run.
THEOREM OneRelease == Spec => []OneReleasePerWorker
BY Inductive, InvGivesOneRelease, PTL

\* The version that a client is told with a score from a bundle is that of the
\* run that computed it.
THEOREM AnswerVersion == Spec => []AnswerNamesTheScorer
<1>1. IInv => AnswerNamesTheScorer
    BY DEF IInv, AnswerNamesTheScorer, AnswerInv
<1> QED
    BY <1>1, Inductive, PTL

\* A worker that answers has a model, and the gauge agrees with /ready.
THEOREM Readiness == Spec => []ReadyMeansModel
<1>1. IInv => ReadyMeansModel
  <2> SUFFICES ASSUME IInv, NEW w \in Workers
               PROVE  /\ Answers(w) => state[w].model \in Runs
                      /\ phase[w] = "serving" => (apiUp[w] <=> state[w].ready)
      BY DEF ReadyMeansModel
  <2>1. state[w].source \in {"none", "files", "bundle"}
      BY DEF IInv, TypeOK, ApiTypeOK, ModelState
  <2>2. WorkerInv(w)
      BY DEF IInv
  <2> QED
      BY <2>1, <2>2 DEF WorkerInv, AllFrom, Answers
<1> QED
    BY <1>1, Inductive, PTL

\* The only step into serving from a bundle, or into another one, is to load
\* the newest release.
LEMMA BundleStep ==
    ASSUME IInv, UNCHANGED jobVars, NEW w \in Workers, FromBundle(w)',
           Start(w) \/ Crash(w) \/ Reload(w) \/ Load(w) \/ Predict(w)
    PROVE  state'[w] = state[w] \/ (AllFrom(state'[w], released) /\ released \in Runs)
<1>0. /\ ApiTypeOK /\ state[w] \in ModelState /\ WorkerInv(w) /\ DiskInv
      /\ state'[w].ready /\ state'[w].source = "bundle"
    BY DEF IInv, TypeOK, ApiTypeOK, FromBundle
<1>1. ~LoadFails(w)
    BY <1>0 DEF LoadFails, ApiTypeOK, ModelState
<1>2. CASE Start(w) \/ Reload(w) \/ Predict(w)
    BY <1>2 DEF Start, Reload, Predict
<1>3. CASE Crash(w)
    BY <1>0, <1>3 DEF Crash, ApiTypeOK, EmptyState
<1>4. CASE LoadBundle(w)
  <2>1. disk["bundle"] = released /\ released \in Runs
      BY <1>0, <1>1, <1>4 DEF LoadBundle, Readable, DiskInv
  <2> QED
      BY <1>0, <1>1, <1>4, <2>1 DEF LoadBundle, LoadSucceeds, ApiTypeOK, AllFrom
<1>5. CASE LoadModelFile(w)
    BY <1>0, <1>1, <1>5 DEF LoadModelFile, ApiTypeOK, ModelState
<1>6. CASE LoadCalibratorFile(w) \/ LoadScalerFile(w)
  <2>1. PICK f \in {"calibrator", "scaler"} :
            /\ phase[w] = f
            /\ state' \in {state, [state EXCEPT ![w] = [state[w] EXCEPT ![f] = disk[f]]]}
      BY <1>1, <1>6 DEF LoadCalibratorFile, LoadScalerFile, LoadOptional
  <2> QED
      BY <1>0, <2>1 DEF WorkerInv, ApiTypeOK, ModelState
<1>7. CASE LoadManifest(w)
  <2>1. PICK s \in {state[w], [state[w] EXCEPT !.features = disk["manifest"],
                                              !.version = NameOnly]} :
            LoadSucceeds(w, s)
      BY <1>1, <1>7 DEF LoadManifest
  <2>2. s.source = state[w].source /\ DOMAIN s = DOMAIN state[w]
      BY <1>0, <2>1 DEF ModelState
  <2>3. state'[w].source = s.source
      BY <1>0, <2>1, <2>2 DEF LoadSucceeds, ApiTypeOK, ModelState
  <2>4. state[w].source = "files"
      BY <1>0, <1>7 DEF LoadManifest, WorkerInv
  <2> QED
      BY <1>0, <2>2, <2>3, <2>4
<1> QED
    BY <1>2, <1>3, <1>4, <1>5, <1>6, <1>7 DEF Load

\* No step takes a worker from one release to an older one.
THEOREM Forward == Spec => NeverOlderRelease
<1> DEFINE Older(w) == FromBundle(w) /\ FromBundle(w)' => state[w].model <= state[w]'.model
<1>1. IInv /\ IInv' /\ [Next]_vars => [\A w \in Workers : Older(w)]_vars
  <2> SUFFICES ASSUME IInv, IInv', Next, NEW w \in Workers, FromBundle(w), FromBundle(w)'
               PROVE  state[w].model <= state'[w].model
      BY DEF Older
  <2>1. PICK r \in Runs : r <= released /\ AllFrom(state[w], r)
      BY DEF IInv, WorkerInv, FromBundle
  <2>2. released \in Int /\ r \in Int
      BY <2>1 DEF IInv, TypeOK, JobTypeOK, Runs
  <2>3. state'[w] = state[w] \/ AllFrom(state'[w], released)
    <3>1. CASE Job_
        BY <3>1 DEF Job_, apiVars
    <3>2. CASE Api_
      <4>1. PICK v \in Workers : Start(v) \/ Crash(v) \/ Reload(v) \/ Load(v) \/ Predict(v)
          BY <3>2 DEF Api_, ApiNext
      <4>2. CASE v = w
          BY <3>2, <4>1, <4>2, BundleStep DEF Api_
      <4>3. CASE v # w
          BY <4>1, <4>3, ApiStepOthers DEF IInv, TypeOK
      <4> QED
          BY <4>2, <4>3
    <3> QED
        BY <3>1, <3>2 DEF Next
  <2> QED
      BY <2>1, <2>2, <2>3 DEF AllFrom
<1> QED
    BY <1>1, Inductive, PTL DEF Spec, NeverOlderRelease

-----------------------------------------------------------------------------
\* Refinement of ReleaseService.

\* Under the invariant, what is served is one whole release or nothing.
LEMMA ServedIsWhole ==
    ASSUME IInv, NEW w \in Workers
    PROVE  Served[w] = Release!Whole(IF FromBundle(w) THEN state[w].model ELSE 0)
<1>1. CASE FromBundle(w)
  <2>1. PICK r \in Runs : AllFrom(state[w], r)
      BY <1>1 DEF IInv, WorkerInv, FromBundle
  <2>2. \A p \in Parts : state[w][p] = r
      BY <2>1 DEF AllFrom, Parts
  <2>3. state[w].model = r
      BY <2>1 DEF AllFrom
  <2> QED
      BY <1>1, <2>2, <2>3 DEF Served, Release!Whole, Release!Parts, Parts
<1>2. CASE ~FromBundle(w)
    BY <1>2 DEF Served, Release!Whole, Release!Parts, Parts
<1> QED
    BY <1>1, <1>2

\* A step of the job publishes a newer release, or nothing that shows.
LEMMA JobRefines ==
    ASSUME IInv, IInv', Job_
    PROVE  Release!Publish \/ UNCHANGED <<released, Served>>
<1>1. Served' = Served
    BY DEF Job_, apiVars, Served, FromBundle
<1>2. released' = released \/ released' \in released + 1 .. MaxRun
  <2>1. released <= released' /\ released' \in 0 .. MaxRun /\ released \in 0 .. MaxRun
      BY JobStepDiskInv DEF IInv, TypeOK, JobTypeOK, Job_
  <2> QED
      BY <2>1, ArtifactsAssumption
<1> QED
    BY <1>1, <1>2 DEF Release!Publish

\* A step of a worker adopts the newest release, withdraws, or does not show.
LEMMA ApiRefines ==
    ASSUME IInv, IInv', Api_
    PROVE  (\E w \in Workers : Release!Adopt(w) \/ Release!Withdraw(w))
           \/ UNCHANGED <<released, Served>>
<1>1. UNCHANGED jobVars /\ released' = released
    BY DEF Api_, jobVars
<1>2. PICK w \in Workers : Start(w) \/ Crash(w) \/ Reload(w) \/ Load(w) \/ Predict(w)
    BY DEF Api_, ApiNext
<1>3. ASSUME NEW v \in Workers, v # w PROVE Served'[v] = Served[v]
  <2>1. state'[v] = state[v]
      BY <1>2, <1>3, ApiStepOthers DEF IInv, TypeOK
  <2> QED
      BY <2>1 DEF Served, FromBundle
<1>4. Served' = [Served EXCEPT ![w] = Served'[w]]
  <2>1. /\ Served = [v \in Workers |-> Served[v]]
        /\ Served' = [v \in Workers |-> Served'[v]]
      BY DEF Served
  <2> HIDE DEF Served
  <2> QED
      BY <1>3, <2>1
<1>5. CASE ~FromBundle(w)'
  <2>1. Served'[w] = Release!Nothing
      BY <1>5 DEF Served, Release!Nothing, Release!Whole, Release!Parts, Parts
  <2> QED
      BY <1>1, <1>4, <2>1 DEF Release!Withdraw
<1>6. CASE FromBundle(w)'
  <2>1. CASE state'[w] = state[w]
    <3>1. Served'[w] = Served[w]
        BY <2>1 DEF Served, FromBundle
    <3> QED
        BY <1>1, <1>3, <3>1 DEF Served
  <2>2. CASE AllFrom(state'[w], released) /\ released \in Runs
    <3>1. Served'[w] = Release!Whole(released)
      <4>1. \A p \in Parts : state'[w][p] = released
          BY <2>2 DEF AllFrom, Parts
      <4> QED
          BY <1>6, <4>1 DEF Served, Release!Whole, Release!Parts, Parts
    <3> QED
        BY <1>1, <1>4, <2>2, <3>1, ArtifactsAssumption DEF Release!Adopt, Runs
  <2> QED
      BY <1>1, <1>2, <1>6, <2>1, <2>2, BundleStep
<1> QED
    BY <1>5, <1>6

\* The implementation of the abstract specification: for any number of runs and
\* workers, every behaviour of the job and the workers is one of ReleaseService
\* when only what is served from a bundle is looked at.
THEOREM Refinement == Spec => ImplementsReleaseService
<1>1. Init => Release!Init
  <2> SUFFICES ASSUME Init PROVE released = 0 /\ Served = [w \in Workers |-> Release!Nothing]
      BY DEF Release!Init
  <2>1. \A w \in Workers : ~FromBundle(w)
      BY DEF Init, ApiInit, EmptyState, FromBundle
  <2> QED
      BY <2>1 DEF Init, JobInit, Served, Release!Nothing, Release!Whole, Release!Parts, Parts
<1>2. IInv /\ IInv' /\ [Next]_vars => [Release!Next]_<<released, Served>>
  <2> SUFFICES ASSUME IInv, IInv', [Next]_vars PROVE [Release!Next]_<<released, Served>>
      OBVIOUS
  <2>1. CASE Job_
      BY <2>1, JobRefines DEF Release!Next
  <2>2. CASE Api_
      BY <2>2, ApiRefines DEF Release!Next
  <2>3. CASE UNCHANGED vars
      BY <2>3 DEF vars, Served, FromBundle
  <2> QED
      BY <2>1, <2>2, <2>3 DEF Next
<1> QED
    BY <1>1, <1>2, Inductive, PTL DEF Spec, ImplementsReleaseService, Release!Spec
=============================================================================
