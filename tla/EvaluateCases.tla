----------------------------- MODULE EvaluateCases -----------------------------
(***************************************************************************)
(* The script evaluate_cases.py: the judges against fixtures whose verdict *)
(* is known.  Each fixture goes through the pipeline several times with    *)
(* fresh evaluators; the majority is its verdict, a disagreement is        *)
(* flagged, and a full run replaces the baseline on disk.                  *)
(***************************************************************************)
EXTENDS ContentPipeline, Sequences

CONSTANTS
    Golden, Invalid,  \* the fixtures
    Content,        \* [Fixtures -> Raw], what is in them
    Repeats           \* --repeats

Fixtures == Golden \cup Invalid
ASSUME FixturesAssumption ==
    /\ IsFiniteSet(Fixtures) /\ Golden \cap Invalid = {}
    /\ Content \in [Fixtures -> Raw]
    /\ Repeats \in Nat \ {0}

VARIABLES
    only,       \* was --only given?
    chosen,     \* the fixtures to run: all, unless --only names some
    verdicts,   \* [Fixtures -> Seq(BOOLEAN)]: accepted?
    tally,      \* true and false positives and negatives
    unstable,   \* flagged fixtures
    baseline,   \* the fixtures eval_baseline.json reports on
    exit        \* the exit code, or "running"

evalVars == <<only, chosen, verdicts, tally, unstable, baseline, exit>>

EvalTypeOK ==
    /\ only \in BOOLEAN /\ chosen \subseteq Fixtures
    /\ verdicts \in [Fixtures -> Seq(BOOLEAN)]
    /\ \A f \in Fixtures : Len(verdicts[f]) <= Repeats
    /\ tally \in [{"tp", "fn", "fp", "tn"} -> Nat]
    /\ unstable \subseteq chosen
    /\ baseline \subseteq Fixtures
    /\ exit \in {"running", "success", "failure"}

\* A baseline of all fixtures is in the repository.
EvalInit ==
    /\ only \in BOOLEAN
    /\ chosen \in SUBSET Fixtures
    /\ ~only => chosen = Fixtures
    /\ verdicts = [f \in Fixtures |-> <<>>]
    /\ tally = [t \in {"tp", "fn", "fp", "tn"} |-> 0]
    /\ unstable = {}
    /\ baseline = Fixtures
    /\ exit = "running"

-----------------------------------------------------------------------------
Finished == {f \in chosen : Len(verdicts[f]) = Repeats}

\* One fixture after the other.
MayRun(f) ==
    /\ exit = "running"
    /\ f \in chosen \ Finished
    /\ \A g \in chosen \ Finished : verdicts[g] # <<>> => g = f

\* A fixture that fails the schema or the rules never reaches a judge.
ReachesJudges(f) == EarlyStage(Content[f]) = "none"

Accepting(v) == Cardinality({i \in DOMAIN v : v[i]})

\* Counter(v).most_common(1): of two equally common verdicts, the first.
Majority(v) ==
    \/ 2 * Accepting(v) > Len(v)
    \/ 2 * Accepting(v) = Len(v) /\ v[1]

\* Mutant: only the first and the last verdict are compared.
Bug_StableEnds(v) == v[Len(v)] = v[1]

Stable(v) == \A i \in DOMAIN v : v[i] = v[1]

Kind(f, accepted) ==
    IF f \in Golden THEN IF accepted THEN "tp" ELSE "fn"
    ELSE IF accepted THEN "fp" ELSE "tn"

\* One run of the pipeline; the last one of a fixture settles it.
RunOnce(f, accepted) ==
    LET v == Append(verdicts[f], accepted) IN
    /\ MayRun(f)
    /\ accepted => ReachesJudges(f)
    /\ verdicts' = [verdicts EXCEPT ![f] = v]
    /\ IF Len(v) = Repeats
       THEN /\ tally' = [tally EXCEPT ![Kind(f, Majority(v))] = @ + 1]
            /\ unstable' = IF Stable(v) THEN unstable ELSE unstable \cup {f}
       ELSE UNCHANGED <<tally, unstable>>
    /\ UNCHANGED <<only, chosen, baseline, exit>>

\* An exception of a judge ends the script with a traceback.
JudgeBreaks(f) ==
    /\ MayRun(f) /\ ReachesJudges(f)
    /\ exit' = "failure"
    /\ UNCHANGED <<only, chosen, verdicts, tally, unstable, baseline>>

Report ==
    /\ exit = "running" /\ Finished = chosen
    /\ baseline' = IF only THEN baseline ELSE chosen
    /\ exit' = IF tally["fp"] > 0 THEN "failure" ELSE "success"
    /\ UNCHANGED <<only, chosen, verdicts, tally, unstable>>

EvalNext ==
    \/ Report
    \/ \E f \in Fixtures :
          \/ \E accepted \in BOOLEAN : RunOnce(f, accepted)
          \/ JudgeBreaks(f)

EvalSpec == EvalInit /\ [][EvalNext]_evalVars

-----------------------------------------------------------------------------
\* Only "at least one unsafe or logically-inconsistent candidate was ACCEPTED"
\* (evaluate_cases.py:215) fails a run, and acceptance is by majority; but no
\* single acceptance of such a candidate goes unnoticed.
AcceptanceIsNoticed ==
    exit = "success" =>
        \A f \in Invalid \cap chosen : Accepting(verdicts[f]) > 0 => f \in unstable

\* The committed baseline is never replaced by a partial one ("to avoid
\* clobbering a full-set baseline with a partial one", evaluate_cases.py:84).
BaselineIsFull == baseline = Fixtures

\* What a run leaves behind can be relied on.
ReportIsHonest == AcceptanceIsNoticed /\ BaselineIsFull
=============================================================================
