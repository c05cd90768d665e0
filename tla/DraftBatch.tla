------------------------------- MODULE DraftBatch -------------------------------
(***************************************************************************)
(* The script generate_cases.py with its DraftStore: runs of it, one after *)
(* the other, over one directory of drafts.  It may be killed anywhere.    *)
(***************************************************************************)
EXTENDS ContentPipeline

CONSTANTS
    Count,     \* --count
    Ids,       \* what uuid4 may answer
    MaxRuns,   \* bound: runs of the script
    Nothing

ASSUME BatchAssumption ==
    /\ Count \in Nat \ {0} /\ MaxRuns \in Nat
    /\ IsFiniteSet(Ids) /\ Nothing \notin Raw

VARIABLES
    pc,         \* where the script is
    tried,      \* candidates the loop is done with
    raw,        \* the candidate in hand
    file,       \* the file being written
    accepted,
    drafts,     \* the directory: [Ids -> Draft]
    runs        \* history: runs of the script so far

batchVars == <<pc, tried, raw, file, accepted, drafts, runs>>

Absent == [state |-> "absent", run |-> 0, raw |-> Nothing]
Draft == [state : {"absent", "torn", "whole"}, run : 0..MaxRuns, raw : Raw \cup {Nothing}]
Running == {"generate", "logic", "safety", "save", "write"}

BatchTypeOK ==
    /\ pc \in Running \cup {"ready", "done", "stopped"}
    /\ tried \in 0..Count /\ accepted \in 0..Count
    /\ raw \in Raw \cup {Nothing}
    /\ file \in Ids \cup {Nothing}
    /\ drafts \in [Ids -> Draft]
    /\ runs \in 0..MaxRuns

BatchInit ==
    /\ pc = "ready"
    /\ tried = 0 /\ accepted = 0
    /\ raw = Nothing /\ file = Nothing
    /\ drafts = [i \in Ids |-> Absent]
    /\ runs = 0

-----------------------------------------------------------------------------
Start ==
    /\ pc \in {"ready", "done", "stopped"}
    /\ runs < MaxRuns
    /\ pc' = "generate"
    /\ tried' = 0 /\ accepted' = 0
    /\ runs' = runs + 1
    /\ UNCHANGED <<raw, file, drafts>>

\* The loop goes on to the next candidate, or ends.
NextCandidate ==
    /\ tried' = tried + 1
    /\ raw' = Nothing
    /\ pc' = IF tried + 1 = Count THEN "done" ELSE "generate"

\* Mutant: a GenerationError leaves the loop.
Bug_ErrorBreaksLoop ==
    /\ pc = "generate"
    /\ pc' = "done"
    /\ UNCHANGED <<tried, raw, file, accepted, drafts, runs>>

\* GenerationError: no JSON.
GenerationError ==
    /\ pc = "generate"
    /\ NextCandidate
    /\ UNCHANGED <<file, accepted, drafts, runs>>

\* A candidate; the schema and the rules reject it at once.
GenerateRaw(r) ==
    /\ pc = "generate"
    /\ IF EarlyStage(r) = "none"
       THEN pc' = "logic" /\ raw' = r /\ UNCHANGED tried
       ELSE NextCandidate
    /\ UNCHANGED <<file, accepted, drafts, runs>>

JudgePasses ==
    /\ pc \in {"logic", "safety"}
    /\ pc' = IF pc = "logic" THEN "safety" ELSE "save"
    /\ UNCHANGED <<tried, raw, file, accepted, drafts, runs>>

JudgeRejects ==
    /\ pc \in {"logic", "safety"}
    /\ NextCandidate
    /\ UNCHANGED <<file, accepted, drafts, runs>>

\* Any other exception of the generator or a judge ends the script.
Stops ==
    /\ pc \in {"generate", "logic", "safety"}
    /\ pc' = "stopped"
    /\ raw' = Nothing
    /\ UNCHANGED <<tried, file, accepted, drafts, runs>>

\* Mutant: the files are numbered.
Bug_NumberedFile(id) ==
    /\ pc = "save"
    /\ id = CHOOSE i \in Ids : Cardinality({j \in Ids : j < i}) = accepted
    /\ file' = id
    /\ drafts' = [drafts EXCEPT ![id] = [state |-> "torn", run |-> runs, raw |-> raw]]
    /\ pc' = "write"
    /\ UNCHANGED <<tried, raw, accepted, runs>>

\* DraftStore.save under a fresh uuid4: the file is there before its text is.
OpenDraft(id) ==
    /\ pc = "save"
    /\ drafts[id] = Absent
    /\ file' = id
    /\ drafts' = [drafts EXCEPT ![id] = [state |-> "torn", run |-> runs, raw |-> raw]]
    /\ pc' = "write"
    /\ UNCHANGED <<tried, raw, accepted, runs>>

WriteDraft ==
    /\ pc = "write"
    /\ drafts' = [drafts EXCEPT ![file].state = "whole"]
    /\ file' = Nothing
    /\ accepted' = accepted + 1
    /\ NextCandidate
    /\ UNCHANGED runs

Kill ==
    /\ pc \in Running
    /\ pc' = "stopped"
    /\ raw' = Nothing /\ file' = Nothing
    /\ UNCHANGED <<tried, accepted, drafts, runs>>

BatchNext ==
    \/ Start \/ GenerationError \/ JudgePasses \/ JudgeRejects \/ Stops \/ WriteDraft \/ Kill
    \/ \E r \in Raws : GenerateRaw(r)
    \/ \E id \in Ids : OpenDraft(id)

BatchSpec == BatchInit /\ [][BatchNext]_batchVars

-----------------------------------------------------------------------------
\* A stored case is solvable as the pipeline means it: three people one can
\* tell apart, one of whom did it ("Only cases that pass every pipeline stage
\* get saved here", draft_store.py:2).
DraftsAreUnambiguous ==
    \A i \in Ids : drafts[i].state = "whole" =>
        /\ drafts[i].raw.complete /\ ~drafts[i].raw.offends
        /\ DistinctNames(drafts[i].raw)
        /\ \E s \in People : Culprits(drafts[i].raw) = {s}

\* No run touches a draft of an earlier one.
DraftsAreKept == [][\A i \in Ids : drafts[i].state = "whole" => drafts'[i] = drafts[i]]_batchVars

DraftsOf(n) == {i \in Ids : drafts[i].state = "whole" /\ drafts[i].run = n}

\* "Done: a/n" is true: every candidate was tried, and the accepted ones are in
\* the directory.
DoneIsHonest == pc = "done" => tried = Count /\ Cardinality(DraftsOf(runs)) = accepted
=============================================================================
