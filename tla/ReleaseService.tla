---------------------------- MODULE ReleaseService ----------------------------
(***************************************************************************)
(* What a versioned, single-file deployment promises (the purpose stated   *)
(* for the production bundle in src/models/artifact_bundle.py): a worker   *)
(* serves one whole release or none, takes a release up only while it is   *)
(* the newest, and can lose its release only by serving nothing.           *)
(***************************************************************************)
EXTENDS Integers

CONSTANTS Workers, MaxRelease

VARIABLES
    newest,     \* the newest release published, 0 before the first
    serving     \* worker -> part -> the release it is from, 0 for none

Parts == {"model", "calibrator", "engineer", "scaler", "features", "version"}

Whole(r) == [p \in Parts |-> r]

Nothing == Whole(0)

Init ==
    /\ newest = 0
    /\ serving = [w \in Workers |-> Nothing]

Publish ==
    /\ newest' \in newest + 1 .. MaxRelease
    /\ UNCHANGED serving

Adopt(w) ==
    /\ newest # 0
    /\ serving' = [serving EXCEPT ![w] = Whole(newest)]
    /\ UNCHANGED newest

Withdraw(w) ==
    /\ serving' = [serving EXCEPT ![w] = Nothing]
    /\ UNCHANGED newest

Next == Publish \/ \E w \in Workers : Adopt(w) \/ Withdraw(w)

Spec == Init /\ [][Next]_<<newest, serving>>
=============================================================================
