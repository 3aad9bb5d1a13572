----------------------------- MODULE TrainingJob -----------------------------
(***************************************************************************)
(* The process that writes artifacts/models: a training run                *)
(* (training/run_experiments.py, from model selection to the manifest) and *)
(* the two file operations of RetrainingPipeline                           *)
(* (src/retraining/pipeline.py), one after the other as a retraining       *)
(* pipeline orchestrates them.  No step of it is atomic with respect to    *)
(* the API workers that read the same files, and it may die anywhere.      *)
(***************************************************************************)
EXTENDS Artifacts

CONSTANT
    Installed   \* experiments whose library imports: 2 to 4 are optional

ASSUME InstalledAssumption == Installed \subseteq Experiments /\ "lr_basic" \in Installed

VARIABLES
    job,        \* what the writing process is doing
    released    \* history: the last run whose bundle was written whole

jobVars == <<disk, best, job, released>>

\* The order in which run_experiments.py saves the files.
SaveOrder == <<"model", "calibrator", "engineer", "scaler", "bundle", "manifest">>

LastSave == 6   \* Len(SaveOrder)

Ops == {"idle", "train", "backup", "rollback"}

Job == [op : Ops, pos : 1 .. LastSave, open : BOOLEAN, run : 0 .. MaxRun]

Idle == job.op = "idle"

AtRest == [op |-> "idle", pos |-> 1, open |-> FALSE, run |-> job.run]

JobTypeOK ==
    /\ job \in Job
    /\ job.op = "train" => job.run \in Runs
    /\ released \in 0 .. MaxRun

JobInit ==
    /\ disk = [f \in Files |-> Absent]
    /\ best = [r \in Runs |-> "lr_basic"]
    /\ job = [op |-> "idle", pos |-> 1, open |-> FALSE, run |-> 0]
    /\ released = 0

-----------------------------------------------------------------------------
\* Mutant: rollback restores the copied model as the bundle.
Target_RollsBackBundle ==
    CASE job.op = "backup"   -> "backup"
      [] job.op = "rollback" -> "bundle"
      [] OTHER               -> SaveOrder[job.pos]

\* The file that the running operation writes next, and what it puts there.
Target ==
    CASE job.op = "backup"   -> "backup"
      [] job.op = "rollback" -> "model"
      [] OTHER               -> SaveOrder[job.pos]

Payload ==
    CASE job.op = "backup"   -> disk["model"]
      [] job.op = "rollback" -> disk["backup"]
      [] OTHER               -> job.run

\* The experiments have been trained and the best one by PR-AUC is selected.
StartTraining ==
    /\ Idle
    /\ job.run < MaxRun
    /\ job' = [op |-> "train", pos |-> 1, open |-> FALSE, run |-> job.run + 1]
    /\ \E e \in Installed : best' = [best EXCEPT ![job.run + 1] = e]
    /\ UNCHANGED <<disk, released>>

\* backup_current_model: does nothing when there is no production model.
StartBackup ==
    /\ Idle
    /\ disk["model"] # Absent
    /\ job' = [job EXCEPT !.op = "backup"]
    /\ UNCHANGED <<disk, best, released>>

\* rollback: logs an error when there is no backup.
StartRollback ==
    /\ Idle
    /\ disk["backup"] # Absent
    /\ job' = [job EXCEPT !.op = "rollback"]
    /\ UNCHANGED <<disk, best, released>>

\* open(path, "wb"): the old content is gone.
OpenFile ==
    /\ ~Idle
    /\ ~job.open
    /\ disk' = [disk EXCEPT ![Target] = Torn]
    /\ job' = [job EXCEPT !.open = TRUE]
    /\ UNCHANGED <<best, released>>

\* Mutant: no end of the list of files.
CloseFile_PastTheEnd ==
    /\ ~Idle
    /\ job.open
    /\ disk' = [disk EXCEPT ![Target] = Payload]
    /\ released' = IF Target = "bundle" THEN job.run ELSE released
    /\ job' = [job EXCEPT !.pos = @ + 1, !.open = FALSE]
    /\ UNCHANGED best

\* The dump, or shutil's copy, is complete; on to the next file.
CloseFile ==
    /\ ~Idle
    /\ job.open
    /\ disk' = [disk EXCEPT ![Target] = Payload]
    /\ released' = IF Target = "bundle" THEN job.run ELSE released
    /\ job' = IF job.op = "train" /\ job.pos < LastSave
              THEN [job EXCEPT !.pos = @ + 1, !.open = FALSE]
              ELSE AtRest
    /\ UNCHANGED best

\* An exception, a full disk or a kill: the files stay as they are.
AbortJob ==
    /\ ~Idle
    /\ job' = AtRest
    /\ UNCHANGED <<disk, best, released>>

JobNext ==
    \/ StartTraining \/ StartBackup \/ StartRollback
    \/ OpenFile \/ CloseFile \/ AbortJob
=============================================================================
