---------------------------- MODULE ModelServing ----------------------------
(***************************************************************************)
(* The training job and the API workers around one artifacts directory:    *)
(* every interleaving of the job's file writes with the workers' loads,    *)
(* requests, reloads and crashes.                                          *)
(***************************************************************************)
EXTENDS TrainingJob, FraudApi

vars == <<disk, best, job, released, phase, state, apiUp, answer>>

Init == JobInit /\ ApiInit

Job_ == JobNext /\ UNCHANGED apiVars

Api_ == ApiNext /\ UNCHANGED jobVars

Next == Job_ \/ Api_

\* A worker that has begun to load goes on: load() runs to its end on the
\* worker's event loop.  Nothing is assumed of the operator, of clients or of
\* the training job.
Fairness == \A w \in Workers : WF_vars(Load(w) /\ UNCHANGED jobVars)

Spec == Init /\ [][Next]_vars /\ Fairness

TypeOK == ArtifactsTypeOK /\ JobTypeOK /\ ApiTypeOK

-----------------------------------------------------------------------------
\* A worker as its clients see it: between two requests.
Answers(w) == phase[w] = "serving" /\ state[w].ready

FromBundle(w) == state[w].ready /\ state[w].source = "bundle"

\* Whatever the job writes while workers load, a worker that is ready from a
\* bundle holds six components of one training run (app.py:76-87).
OneReleasePerWorker ==
    \A w \in Workers : FromBundle(w) =>
        \E r \in Runs :
            /\ r <= released
            /\ \A p \in Parts : state[w][p] = r

\* The model_version of a score from a bundle names the run whose model and
\* calibrator computed it, on features encoded and laid out as in that run
\* (app.py:267-316).
AnswerNamesTheScorer ==
    \A w \in Workers : \A a \in answer[w] : a.source = "bundle" =>
        /\ a.model = a.version /\ a.calibrator = a.version /\ a.engineer = a.version
        /\ a.layout = FeatureSet(best[a.version])

\* A worker that answers requests has a model, and Prometheus sees API_UP
\* exactly when /ready answers 200 (app.py:97-98, 126-139).
ReadyMeansModel ==
    \A w \in Workers :
        /\ Answers(w) => state[w].model \in Runs
        /\ phase[w] = "serving" => (apiUp[w] <=> state[w].ready)

\* No step moves a worker from one release to an older one: a reload that
\* races the training job, or that fails, cannot bring an old model back.
NeverOlderRelease ==
    [][\A w \in Workers : FromBundle(w) /\ FromBundle(w)' => state[w].model <= state[w]'.model]_vars

\* load() always ends, also when files change or break under it.
LoadEnds == \A w \in Workers : Loading(w) ~> ~Loading(w)

\* If the job comes to rest with a whole bundle and a worker that stays up
\* is reloaded again and again, it ends up on that bundle for good, whatever
\* torn or partial loads came before.
Converges ==
    \A w \in Workers :
        /\ <>[](Idle /\ Readable("bundle") /\ phase[w] # "down")
        /\ []<>(phase[w] = "load")
        => <>[](state[w].ready /\ state[w].model = released)

\* What each worker serves from a bundle, in the terms of ReleaseService.
Served ==
    [w \in Workers |-> [p \in Parts |-> IF FromBundle(w) THEN state[w][p] ELSE 0]]

Release == INSTANCE ReleaseService WITH
    MaxRelease <- MaxRun, newest <- released, serving <- Served

\* The job and the workers implement the abstract release service, as far as
\* workers serve from a bundle (app.py:76-88 on top of artifact_bundle.py).
ImplementsReleaseService == Release!Spec
-----------------------------------------------------------------------------
\* The inductive invariant behind the safety properties above.

\* The bundle is the last one written whole, or torn; it never disappears
\* again, and the job never publishes a run twice.
DiskInv ==
    /\ Readable("bundle") => disk["bundle"] = released
    /\ released <= job.run
    /\ released > 0 => disk["bundle"] # Absent

\* The components of a ModelState are one release from the moment a bundle
\* is loaded, whether or not it is ready; a load that reads single files
\* has a model and cannot have come from a bundle.
AllFrom(s, r) ==
    /\ s.model = r /\ s.calibrator = r /\ s.engineer = r
    /\ s.scaler = r /\ s.features = r /\ s.version = r

WorkerInv(w) ==
    /\ state[w].source = "bundle" => \E r \in Runs : r <= released /\ AllFrom(state[w], r)
    /\ phase[w] \in {"calibrator", "scaler", "manifest"} => state[w].source = "files"
    /\ state[w].source = "files" => state[w].model \in Runs
    /\ state[w].source = "none" => ~state[w].ready
    /\ apiUp[w] = state[w].ready

AnswerInv(w) ==
    \A a \in answer[w] : a.source = "bundle" =>
        /\ a.model = a.version /\ a.calibrator = a.version /\ a.engineer = a.version
        /\ a.version \in Runs /\ a.version <= released
        /\ a.layout = FeatureSet(best[a.version])

IInv == TypeOK /\ DiskInv /\ \A w \in Workers : WorkerInv(w) /\ AnswerInv(w)

-----------------------------------------------------------------------------
\* What the repository says of this system and the code does not do: each of
\* these is violated.

\* "This registry prevents training-serving skew" (features/definitions.py:10):
\* a model is given features in the representation it was fitted on.  Every
\* experiment is fitted on unscaled features (a Pipeline scales its own), yet
\* app.py:283-285 applies the exported scaler to every boosted tree.
ServesWhatWasTrained ==
    \A w \in Workers : \A a \in answer[w] : ~a.scaled

\* "Rollback to the previous production model." (retraining/pipeline.py:201):
\* once rollback() has copied the backup, the model that load() prefers, the
\* one in the bundle, is the backup.
RollbackTakesEffect ==
    [][job.op = "rollback" /\ Readable("bundle") /\ Readable("backup") /\ CloseFile =>
           disk'["bundle"] = disk["backup"]]_vars
=============================================================================
