--------------------------- MODULE LiveCaseGenerator ---------------------------
(***************************************************************************)
(* LiveCaseGenerator, the adapter GenerateCase calls from worker threads.  *)
(* One object serves all requests of an instance, and so do the renderer   *)
(* and the two evaluators inside it.  Each of these leaves the tokens of   *)
(* its last call in the attribute last_usage, which the adapter reads when *)
(* the call has returned.                                                  *)
(***************************************************************************)
EXTENDS CaseLogic

CONSTANTS
    Callers,   \* requests in their generation loop, each with one thread at a time
    Draws,     \* what the random generator may decide
    MaxCalls,  \* bound: calls of the adapter
    None

ASSUME DrawsAssumption == Draws \subseteq Draw
ASSUME CallsAssumption == MaxCalls \in Nat /\ None \notin Logic \cup Response

Services == {"render", "logic", "safety"}
Calls == 1..MaxCalls
Usage == 0..MaxCalls     \* whose tokens; 0 is None, or none at all

VARIABLES
    lastUsage,  \* [Services -> Usage], the attribute last_usage
    calls,      \* history: calls so far, which numbers them
    job         \* [Callers -> Job]

liveVars == <<lastUsage, calls, job>>

PC == {"idle",                          \* no candidate in hand
       "render", "usage", "read_render",  \* in generate_raw_candidate
       "candidate",                     \* it returned one
       "logic", "read_logic",           \* in check_logic_consistency
       "consistent",                    \* it passed
       "safety", "read_safety",         \* in check_safety
       "safe",                          \* it passed
       "raised"}                        \* an exception has left the adapter

Job == [pc : PC,
        call : Usage,            \* history: the number of the call
        past : SUBSET Calls,     \* history: calls over when it began
        reported : Usage,        \* the tokens in the last StageOutcome
        logic : Logic \cup {None},
        response : Response \cup {None},
        verdict : BOOLEAN]

LiveTypeOK ==
    /\ lastUsage \in [Services -> Usage]
    /\ calls \in Usage
    /\ job \in [Callers -> Job]

\* Between two calls.
Resting(pc, reported, logic, response) ==
    [pc |-> pc, call |-> 0, past |-> {}, reported |-> reported,
     logic |-> logic, response |-> response, verdict |-> FALSE]

LiveInit ==
    /\ lastUsage = [v \in Services |-> 0]
    /\ calls = 0
    /\ job = [c \in Callers |-> Resting("idle", 0, None, None)]

-----------------------------------------------------------------------------
\* The calls that are over.
Over == {n \in 1..calls : \A c \in Callers : job[c].call # n}

\* Caller c calls the adapter.
Call(c, pc, logic, response) ==
    /\ calls < MaxCalls
    /\ calls' = calls + 1
    /\ job' = [job EXCEPT ![c] = [pc |-> pc, call |-> calls + 1, past |-> Over, reported |-> 0,
                                  logic |-> logic, response |-> response, verdict |-> FALSE]]
    /\ UNCHANGED lastUsage

\* The call returns an outcome, or raises; a failed one leaves no candidate.
Return(c, pc, reported) ==
    job' = [job EXCEPT ![c] = Resting(pc, reported, job[c].logic, job[c].response)]
Fail(c, pc, reported) == job' = [job EXCEPT ![c] = Resting(pc, reported, None, None)]

(***************************************************************************)
(* generate_raw_candidate                                                  *)
(***************************************************************************)
\* build_case_logic, outside of the try block.  A new attempt or request may
\* follow any outcome.
Generate(c, d) ==
    LET logic == BuildCaseLogic(d) IN
    /\ job[c].pc \in {"idle", "safe", "raised"}
    /\ Call(c, IF Solve(logic) = {logic.culprit} THEN "render" ELSE "raised", logic, None)

\* No key, no connection, a timeout.
RenderFails(c) ==
    /\ job[c].pc = "render"
    /\ Fail(c, "idle", 0)
    /\ UNCHANGED <<lastUsage, calls>>

\* What the model may answer.  Bound: at most one thing is wrong with it.
Responses(F) ==
    {[facts |-> F \ slip, lacksNeutral |-> FALSE, form |-> "fine"] : slip \in {{}} \cup {{f} : f \in F}}
    \cup {[facts |-> F, lacksNeutral |-> TRUE, form |-> "fine"]}
    \cup {[facts |-> F, lacksNeutral |-> FALSE, form |-> form] : form \in Form}

\* Mutant: last_usage keeps what the last call left there.
Bug_AnswersWithoutReset(c) ==
    /\ job[c].pc = "render"
    /\ \E response \in Responses(RequiredFacts(job[c].logic)) :
          job' = [job EXCEPT ![c] = [@ EXCEPT !.pc = "usage", !.response = response]]
    /\ UNCHANGED <<lastUsage, calls>>

\* The model answers; self.last_usage = None.
RenderAnswers(c) ==
    /\ job[c].pc = "render"
    /\ lastUsage' = [lastUsage EXCEPT !["render"] = 0]
    /\ \E response \in Responses(RequiredFacts(job[c].logic)) :
          job' = [job EXCEPT ![c] = [@ EXCEPT !.pc = "usage", !.response = response]]
    /\ UNCHANGED calls

\* self.last_usage = {...}, if the provider counted.
TakesUsage(c) == lastUsage' \in {lastUsage, [lastUsage EXCEPT !["render"] = job[c].call]}

RenderUsage(c) ==
    /\ job[c].pc = "usage"
    /\ TakesUsage(c)
    /\ job' = [job EXCEPT ![c] = [@ EXCEPT !.pc = "read_render"]]
    /\ UNCHANGED calls

\* Not JSON, or not the JSON that was asked for.
RenderGarbled(c) ==
    /\ job[c].pc = "usage"
    /\ TakesUsage(c)
    /\ Fail(c, "idle", 0)
    /\ UNCHANGED calls

\* check_fidelity, then the tokens, then validate_rules, which is outside of
\* the try block.
ReadRender(c) ==
    LET response == job[c].response
        faithful == CheckFidelity(job[c].logic, response)
    IN
    /\ job[c].pc = "read_render"
    /\ \/ /\ faithful /\ response.form = "untyped"
          /\ Fail(c, "raised", 0)
       \/ /\ faithful /\ FormPasses(response.form)
          /\ Return(c, "candidate", lastUsage["render"])
       \/ /\ ~faithful \/ response.form = "offends"
          /\ Fail(c, "idle", lastUsage["render"])
    /\ UNCHANGED <<lastUsage, calls>>

(***************************************************************************)
(* check_logic_consistency and check_safety                                *)
(***************************************************************************)
After == [logic |-> "candidate", safety |-> "consistent"]
Passed == [logic |-> "consistent", safety |-> "safe"]
Reading == [logic |-> "read_logic", safety |-> "read_safety"]
Judges == {"logic", "safety"}

Judge(c, j) ==
    /\ job[c].pc = After[j]
    /\ Call(c, j, job[c].logic, job[c].response)

\* Mutant: the tokens are read although the call failed.
Bug_JudgeFailsWithUsage(c, j) ==
    /\ job[c].pc = j
    /\ Fail(c, "idle", lastUsage[j])
    /\ UNCHANGED <<lastUsage, calls>>

\* Any exception: a failed stage without tokens.
JudgeFails(c, j) ==
    /\ job[c].pc = j
    /\ Fail(c, "idle", 0)
    /\ UNCHANGED <<lastUsage, calls>>

\* self.last_usage = usage, which is None if the provider did not count.
JudgeAnswers(c, j) ==
    /\ job[c].pc = j
    /\ \E usage \in {0, job[c].call} : lastUsage' = [lastUsage EXCEPT ![j] = usage]
    /\ \E verdict \in BOOLEAN :
          job' = [job EXCEPT ![c] = [@ EXCEPT !.pc = Reading[j], !.verdict = verdict]]
    /\ UNCHANGED calls

ReadJudge(c, j) ==
    /\ job[c].pc = Reading[j]
    /\ IF job[c].verdict
       THEN Return(c, Passed[j], lastUsage[j])
       ELSE Fail(c, "idle", lastUsage[j])
    /\ UNCHANGED <<lastUsage, calls>>

LiveNext ==
    \E c \in Callers :
        \/ \E d \in Draws : Generate(c, d)
        \/ RenderFails(c) \/ RenderAnswers(c) \/ RenderUsage(c) \/ RenderGarbled(c) \/ ReadRender(c)
        \/ \E j \in Judges : Judge(c, j) \/ JudgeFails(c, j) \/ JudgeAnswers(c, j) \/ ReadJudge(c, j)

LiveSpec == LiveInit /\ [][LiveNext]_liveVars

-----------------------------------------------------------------------------
\* What the texts let a player see: whose item was found at the scene, that its
\* owner claims to have been elsewhere, and that everybody else was seen where
\* they say they were.
ShowsCulprit(cand) ==
    LET says(place, p) == <<place, p>> \in cand.facts
        who == cand.culprit
        found == Place("identifying", who)
    IN
    /\ \E item \in Items : says(found, item) /\ says(Statement(who), item) /\ says(Explanation, item)
    /\ \E here, there \in Locations :
          here # there /\ says(found, here) /\ says(Statement(who), there)
    /\ \A s \in Suspects \ {who} :
          \E loc \in Locations : says(Statement(s), loc) /\ says(Place("alibi", s), loc)

HasCandidate == {"candidate", "logic", "read_logic", "consistent", "safety", "read_safety", "safe"}

\* A candidate that leaves the adapter can be solved from its texts alone:
\* the facts survive the rendering ("it cannot get the logic wrong",
\* logic_builder.py:14).
CandidatesShowCulprit ==
    \A c \in Callers : job[c].pc \in HasCandidate =>
        ShowsCulprit(BuildCandidate(job[c].logic, job[c].response))

\* Failures become failed outcomes ("converted into a failed StageOutcome
\* rather than propagating", live_case_generator.py:26) except one: an answer
\* with every fact in place and a title, setting, problem, name or neutral clue
\* that validate_rules cannot handle (Form).
EscapesOnlyUntyped ==
    [][\A c \in Callers : job[c].pc # "raised" /\ job'[c].pc = "raised" =>
          /\ job[c].pc = "read_render"
          /\ job[c].response.form = "untyped"]_liveVars

\* The tokens an outcome reports ("real, measured per-request cost",
\* generator.py:60) are those of the call itself or of one that overlapped it,
\* never those of a call that was over before it began.
UsageIsNotStale == [][\A c \in Callers : job'[c].reported \notin job[c].past]_liveVars
=============================================================================
