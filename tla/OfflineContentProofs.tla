-------------------------- MODULE OfflineContentProofs --------------------------
(***************************************************************************)
(* Theorems about the offline scripts: DraftBatch, for every count, any    *)
(* number of runs and whatever the generator writes; EvaluateCases, for    *)
(* any fixtures, repeats and verdicts.                                     *)
(***************************************************************************)
EXTENDS DraftBatch, EvaluateCases, FiniteSetTheorems, TLAPS

-----------------------------------------------------------------------------
(***************************************************************************)
(* The invariant                                                           *)
(***************************************************************************)
\* Only what the schema and the rules let through is judged and stored.
CheckedInHand ==
    pc \in {"logic", "safety", "save"} => raw \in Raw /\ EarlyStage(raw) = "none"

CheckedOnDisk ==
    \A i \in Ids : drafts[i].state # "absent" =>
        drafts[i].raw \in Raw /\ EarlyStage(drafts[i].raw) = "none" /\ drafts[i].run <= runs

\* The file being written is one of this run, and not yet counted.
WritesOwnFile ==
    pc = "write" => file \in Ids /\ drafts[file].state = "torn" /\ drafts[file].run = runs

CountsDrafts ==
    /\ Cardinality(DraftsOf(runs)) = accepted /\ accepted <= tried
    /\ pc \in Running => tried < Count
    /\ pc = "done" => tried = Count

BatchIInv ==
    /\ BatchTypeOK
    /\ CheckedInHand /\ CheckedOnDisk
    /\ WritesOwnFile /\ CountsDrafts

LEMMA InitBatchIInv == BatchInit => BatchIInv
<1> SUFFICES ASSUME BatchInit PROVE BatchIInv
    OBVIOUS
<1>1. DraftsOf(runs) = {}
    BY DEF BatchInit, DraftsOf, Absent
<1>2. Cardinality(DraftsOf(runs)) = 0
    BY <1>1, FS_EmptySet
<1>3. BatchTypeOK
    BY BatchAssumption DEF BatchInit, BatchTypeOK, Draft, Absent
<1> QED
    BY <1>2, <1>3, BatchAssumption
    DEF BatchInit, BatchIInv, CheckedInHand, CheckedOnDisk, WritesOwnFile, CountsDrafts, Absent, Running

LEMMA NextBatchIInv ==
    ASSUME BatchIInv, [BatchNext]_batchVars
    PROVE  BatchIInv'
<1> USE BatchAssumption
    DEF BatchIInv, BatchTypeOK, CheckedInHand, CheckedOnDisk, WritesOwnFile, CountsDrafts, Running
<1>1. CASE UNCHANGED batchVars
    BY <1>1 DEF batchVars, DraftsOf
<1>2. CASE Start
    <2>1. DraftsOf(runs') = {} /\ DraftsOf(runs)' = DraftsOf(runs')
        BY <1>2 DEF Start, DraftsOf, Draft
    <2>2. Cardinality(DraftsOf(runs)') = 0
        BY <2>1, FS_EmptySet
    <2>3. CheckedOnDisk'
        BY <1>2 DEF Start, Draft
    <2> QED
        BY <1>2, <2>2, <2>3 DEF Start
<1>3. CASE GenerationError
    BY <1>3 DEF GenerationError, NextCandidate, DraftsOf
<1>4. ASSUME NEW r \in Raws, GenerateRaw(r) PROVE BatchIInv'
    <2>1. CASE EarlyStage(r) = "none"
        BY <1>4, <2>1, RawsAssumption DEF GenerateRaw, DraftsOf
    <2>2. CASE EarlyStage(r) # "none"
        BY <1>4, <2>2 DEF GenerateRaw, NextCandidate, DraftsOf
    <2> QED
        BY <2>1, <2>2
<1>5. CASE JudgePasses
    BY <1>5 DEF JudgePasses, DraftsOf
<1>6. CASE JudgeRejects
    BY <1>6 DEF JudgeRejects, NextCandidate, DraftsOf
<1>7. CASE Stops
    BY <1>7 DEF Stops, DraftsOf
<1>8. ASSUME NEW id \in Ids, OpenDraft(id) PROVE BatchIInv'
    <2>1. /\ drafts[id].state = "absent"
          /\ drafts' = [drafts EXCEPT ![id] = [state |-> "torn", run |-> runs, raw |-> raw]]
          /\ drafts' \in [Ids -> Draft]
        BY <1>8 DEF OpenDraft, Absent, Draft
    <2>2. DraftsOf(runs)' = DraftsOf(runs)
        BY <1>8, <2>1 DEF OpenDraft, DraftsOf
    <2> QED
        BY <1>8, <2>1, <2>2 DEF OpenDraft
<1>9. CASE WriteDraft
    <2> DEFINE whole == [drafts[file] EXCEPT !.state = "whole"]
    <2>1. /\ file \in Ids /\ drafts[file] \in Draft
          /\ drafts' = [drafts EXCEPT ![file] = whole]
          /\ runs' = runs /\ accepted' = accepted + 1 /\ tried' = tried + 1
        BY <1>9 DEF WriteDraft, NextCandidate
    <2>2. /\ whole \in Draft /\ whole.state = "whole"
          /\ whole.run = drafts[file].run /\ whole.raw = drafts[file].raw
        BY <2>1 DEF Draft
    <2> HIDE DEF whole
    <2>3. file \notin DraftsOf(runs) /\ DraftsOf(runs)' = DraftsOf(runs) \cup {file}
        BY <1>9, <2>1, <2>2 DEF WriteDraft, DraftsOf
    <2>4. Cardinality(DraftsOf(runs)') = accepted + 1
        <3>1. IsFiniteSet(DraftsOf(runs))
            BY FS_Subset DEF DraftsOf
        <3>2. Cardinality(DraftsOf(runs) \cup {file}) = Cardinality(DraftsOf(runs)) + 1
            BY <2>3, <3>1, FS_AddElement
        <3> QED
            BY <2>3, <3>2
    <2>5. CheckedOnDisk'
        BY <1>9, <2>1, <2>2 DEF WriteDraft
    <2> QED
        BY <1>9, <2>1, <2>2, <2>4, <2>5 DEF WriteDraft, NextCandidate
<1>10. CASE Kill
    BY <1>10 DEF Kill, DraftsOf
<1> QED
    BY <1>1, <1>2, <1>3, <1>4, <1>5, <1>6, <1>7, <1>8, <1>9, <1>10 DEF BatchNext

LEMMA BatchInvariance == BatchSpec => []BatchIInv
    BY InitBatchIInv, NextBatchIInv, PTL DEF BatchSpec

-----------------------------------------------------------------------------
(***************************************************************************)
(* The theorems                                                            *)
(***************************************************************************)
\* Every variable keeps its type: the loop never goes past its count.
THEOREM BatchTypes == BatchSpec => []BatchTypeOK
    BY BatchInvariance, PTL DEF BatchIInv

\* A complete draft has one culprit and three people to tell apart, whatever
\* names the generator chose and wherever a run was killed.
THEOREM StoredDraftsAreUnambiguous == BatchSpec => []DraftsAreUnambiguous
<1>1. BatchIInv => DraftsAreUnambiguous
    <2> SUFFICES ASSUME BatchIInv, NEW i \in Ids, drafts[i].state = "whole"
                 PROVE  /\ drafts[i].raw.complete /\ ~drafts[i].raw.offends
                        /\ DistinctNames(drafts[i].raw)
                        /\ \E s \in People : Culprits(drafts[i].raw) = {s}
        BY DEF DraftsAreUnambiguous
    <2>1. EarlyStage(drafts[i].raw) = "none"
        BY DEF BatchIInv, CheckedOnDisk
    <2>2. Parses(drafts[i].raw) /\ RulesPass(drafts[i].raw)
        BY <2>1 DEF EarlyStage
    <2>3. PICK s \in People : s \in Culprits(drafts[i].raw)
        BY <2>2 DEF Parses, Culprits
    <2>4. Culprits(drafts[i].raw) = {s}
        BY <2>2, <2>3 DEF RulesPass, DistinctNames, Culprits
    <2> QED
        BY <2>2, <2>4 DEF Parses, RulesPass
<1> QED
    BY <1>1, BatchInvariance, PTL

\* No later step, of this run or another, changes a complete draft.
THEOREM CompleteDraftsAreKept == BatchSpec => DraftsAreKept
<1> DEFINE Kept == \A i \in Ids : drafts[i].state = "whole" => drafts'[i] = drafts[i]
<1>1. BatchIInv /\ [BatchNext]_batchVars => [Kept]_batchVars
    <2> SUFFICES ASSUME BatchIInv, BatchNext PROVE Kept
        OBVIOUS
    <2>1. CASE Start \/ GenerationError \/ JudgePasses \/ JudgeRejects \/ Stops \/ Kill
        BY <2>1 DEF Start, GenerationError, JudgePasses, JudgeRejects, Stops, Kill
    <2>2. CASE \E r \in Raws : GenerateRaw(r)
        BY <2>2 DEF GenerateRaw
    <2>3. CASE \E id \in Ids : OpenDraft(id)
        BY <2>3 DEF OpenDraft, Absent, BatchIInv, BatchTypeOK
    <2>4. CASE WriteDraft
        BY <2>4 DEF WriteDraft, BatchIInv, BatchTypeOK, WritesOwnFile
    <2> QED
        BY <2>1, <2>2, <2>3, <2>4 DEF BatchNext
<1> QED
    BY <1>1, BatchInvariance, PTL DEF BatchSpec, DraftsAreKept

\* The summary a run ends with is true of the directory.
THEOREM SummaryIsHonest == BatchSpec => []DoneIsHonest
    BY BatchInvariance, PTL DEF BatchIInv, CountsDrafts, DoneIsHonest
-----------------------------------------------------------------------------
(***************************************************************************)
(* The evaluation script                                                   *)
(***************************************************************************)
LEMMA AcceptingCounts ==
    ASSUME NEW v \in Seq(BOOLEAN)
    PROVE  /\ IsFiniteSet({i \in DOMAIN v : v[i]})
           /\ Accepting(v) \in 0..Len(v)
           /\ (\A i \in DOMAIN v : v[i]) => Accepting(v) = Len(v)
<1> DEFINE yes == {i \in DOMAIN v : v[i]}
<1>1. DOMAIN v = 1..Len(v) /\ Len(v) \in Nat
    OBVIOUS
<1>2. yes \in SUBSET (1..Len(v))
    BY <1>1
<1>3. (\A i \in DOMAIN v : v[i]) => yes = 1..Len(v)
    BY <1>1
<1>4. Accepting(v) = Cardinality(yes)
    BY DEF Accepting
<1> HIDE DEF yes
<1>5. IsFiniteSet(1..Len(v)) /\ Cardinality(1..Len(v)) = Len(v)
    BY <1>1, FS_Interval
<1>6. IsFiniteSet(yes) /\ Cardinality(yes) <= Len(v)
    BY <1>2, <1>5, FS_Subset
<1>7. Cardinality(yes) \in Nat
    BY <1>6, FS_CardinalityType
<1>8. Accepting(v) \in 0..Len(v)
    BY <1>1, <1>4, <1>6, <1>7
<1>9. (\A i \in DOMAIN v : v[i]) => Accepting(v) = Len(v)
    BY <1>3, <1>4, <1>5
<1> QED
    BY <1>6, <1>8, <1>9 DEF yes

\* A fixture that was accepted once is accepted by the majority, or its runs
\* disagree.
LEMMA AcceptedOrFlagged ==
    ASSUME NEW v \in Seq(BOOLEAN), Stable(v), Accepting(v) > 0
    PROVE  Majority(v)
<1>1. \E k \in DOMAIN v : v[k]
    <2> SUFFICES ASSUME {i \in DOMAIN v : v[i]} = {} PROVE FALSE
        OBVIOUS
    <2> QED
        BY FS_EmptySet DEF Accepting
<1>2. PICK k \in DOMAIN v : v[k]
    BY <1>1
<1>3. \A i \in DOMAIN v : v[i]
    BY <1>2 DEF Stable
<1>4. Accepting(v) = Len(v) /\ Len(v) \in Nat
    BY <1>3, AcceptingCounts
<1> QED
    BY <1>4 DEF Majority

\* What has been counted: no accepted invalid fixture is missing from the false
\* positives, no disagreement from the flags.
EvalIInv ==
    /\ EvalTypeOK
    /\ ~only => chosen = Fixtures
    /\ baseline = Fixtures
    /\ \A f \in Finished \ Golden : Majority(verdicts[f]) => tally["fp"] > 0
    /\ \A f \in Finished : Stable(verdicts[f]) \/ f \in unstable
    /\ exit = "success" => Finished = chosen /\ tally["fp"] = 0

LEMMA InitEvalIInv == EvalInit => EvalIInv
<1> SUFFICES ASSUME EvalInit PROVE EvalIInv
    OBVIOUS
<1>1. Finished = {}
    BY FixturesAssumption DEF EvalInit, Finished
<1>2. EvalTypeOK
    BY FixturesAssumption DEF EvalInit, EvalTypeOK
<1> QED
    BY <1>1, <1>2 DEF EvalInit, EvalIInv

LEMMA NextEvalIInv ==
    ASSUME EvalIInv, [EvalNext]_evalVars
    PROVE  EvalIInv'
<1> USE FixturesAssumption DEF EvalIInv, EvalTypeOK
<1>1. CASE UNCHANGED evalVars
    BY <1>1 DEF evalVars, Finished
<1>2. CASE Report
    <2>1. baseline' = Fixtures
        BY <1>2 DEF Report
    <2>2. Finished' = Finished
        BY <1>2 DEF Report, Finished
    <2> QED
        BY <1>2, <2>1, <2>2 DEF Report
<1>3. ASSUME NEW f \in Fixtures, JudgeBreaks(f) PROVE EvalIInv'
    <2>1. Finished' = Finished
        BY <1>3 DEF JudgeBreaks, Finished
    <2> QED
        BY <1>3, <2>1 DEF JudgeBreaks
<1>4. ASSUME NEW f \in Fixtures, NEW verdict \in BOOLEAN, RunOnce(f, verdict)
      PROVE  EvalIInv'
    <2> DEFINE v == Append(verdicts[f], verdict)
    <2>1. /\ f \in chosen /\ Len(verdicts[f]) # Repeats /\ exit = "running"
          /\ verdicts' = [verdicts EXCEPT ![f] = v]
          /\ UNCHANGED <<only, chosen, baseline, exit>>
        BY <1>4 DEF RunOnce, MayRun, Finished
    <2>2. v \in Seq(BOOLEAN) /\ Len(v) = Len(verdicts[f]) + 1
        OBVIOUS
    <2>3. Len(v) <= Repeats
        BY <2>1, <2>2
    <2>4. \A g \in Fixtures \ {f} : verdicts'[g] = verdicts[g]
        BY <2>1
    <2>5. verdicts'[f] = v
        BY <2>1
    <2> HIDE DEF v
    <2>6. CASE Len(v) = Repeats
        <3>1. /\ tally' = [tally EXCEPT ![Kind(f, Majority(v))] = @ + 1]
              /\ unstable' = IF Stable(v) THEN unstable ELSE unstable \cup {f}
            BY <1>4, <2>6 DEF RunOnce, v
        <3>2. Kind(f, Majority(v)) \in {"tp", "fn", "fp", "tn"}
            BY DEF Kind
        <3>3. EvalTypeOK'
            BY <2>1, <2>2, <2>3, <3>1, <3>2
        <3>4. Finished' = Finished \cup {f}
            BY <2>1, <2>4, <2>5, <2>6 DEF Finished
        <3>5. tally'["fp"] >= tally["fp"]
            BY <3>1, <3>2
        <3>6. f \notin Golden /\ Majority(v) => tally'["fp"] > 0
            BY <3>1 DEF Kind
        <3>7. \A g \in Finished' \ Golden : Majority(verdicts'[g]) => tally'["fp"] > 0
            <4>1. ASSUME NEW g \in Finished \ Golden, g # f, Majority(verdicts'[g])
                  PROVE  tally'["fp"] > 0
                <5>1. verdicts'[g] = verdicts[g]
                    BY <2>4, <4>1 DEF Finished
                <5>2. tally["fp"] \in Nat /\ tally'["fp"] \in Nat
                    BY <3>3
                <5> QED
                    BY <3>5, <4>1, <5>1, <5>2
            <4> QED
                BY <2>5, <3>4, <3>6, <4>1
        <3>8. \A g \in Finished' : Stable(verdicts'[g]) \/ g \in unstable'
            BY <2>4, <2>5, <3>1, <3>4 DEF Finished
        <3> QED
            BY <2>1, <3>3, <3>7, <3>8
    <2>7. CASE Len(v) # Repeats
        <3>1. UNCHANGED <<tally, unstable>>
            BY <1>4, <2>7 DEF RunOnce, v
        <3>2. EvalTypeOK'
            BY <2>1, <2>2, <2>3, <3>1
        <3>3. Finished' = Finished
            BY <2>1, <2>4, <2>5, <2>7 DEF Finished
        <3>4. \A g \in Finished : verdicts'[g] = verdicts[g]
            BY <2>1, <2>4 DEF Finished
        <3> QED
            BY <2>1, <3>1, <3>2, <3>3, <3>4
    <2> QED
        BY <2>6, <2>7
<1> QED
    BY <1>1, <1>2, <1>3, <1>4 DEF EvalNext

LEMMA EvalInvariance == EvalSpec => []EvalIInv
    BY InitEvalIInv, NextEvalIInv, PTL DEF EvalSpec

\* Tallies and flags keep their types; no fixture is run more often than asked.
THEOREM EvalTypes == EvalSpec => []EvalTypeOK
    BY EvalInvariance, PTL DEF EvalIInv

\* The script ends in success only if every accepted unsafe or inconsistent
\* fixture is at least flagged as unstable, and the baseline it leaves reports
\* on all fixtures, whatever the judges say and wherever one breaks.
THEOREM ReportsAreHonest == EvalSpec => []ReportIsHonest
<1>1. EvalIInv => ReportIsHonest
    <2> SUFFICES ASSUME EvalIInv, exit = "success",
                        NEW f \in Invalid \cap chosen, Accepting(verdicts[f]) > 0
                 PROVE  f \in unstable
        BY DEF EvalIInv, ReportIsHonest, AcceptanceIsNoticed, BaselineIsFull
    <2>1. f \in Finished \ Golden /\ tally["fp"] = 0
        BY FixturesAssumption DEF EvalIInv
    <2>2. ~Majority(verdicts[f])
        BY <2>1 DEF EvalIInv
    <2>3. verdicts[f] \in Seq(BOOLEAN)
        BY DEF EvalIInv, EvalTypeOK, Fixtures
    <2>4. ~Stable(verdicts[f])
        BY <2>2, <2>3, AcceptedOrFlagged
    <2> QED
        BY <2>1, <2>4 DEF EvalIInv
<1> QED
    BY <1>1, EvalInvariance, PTL
=============================================================================
