--------------------------- MODULE LiveContentProofs ---------------------------
(***************************************************************************)
(* Proofs about CaseLogic and LiveCaseGenerator, for every set of scenario *)
(* templates, every draw and any number of concurrent requests; and about  *)
(* CasePolicies, for every case, spelling of its ids and hint.             *)
(***************************************************************************)
EXTENDS LiveCaseGenerator, CasePolicies, WellFoundedInduction, TLAPS

(***************************************************************************)
(* The deduction                                                           *)
(***************************************************************************)
LEMMA TurnType ==
    ASSUME NEW who \in Suspects, NEW s \in Suspects, s # who
    PROVE  Turn(who, s) \in {1, 2}
BY DEF Turn, Suspects

LEMMA LocationTypes ==
    ASSUME NEW d \in Draw, NEW s \in Suspects
    PROVE  RealLocation(d, s) \in Locations /\ ClaimedLocation(d, s) \in Locations
<1>1. d.template \in Template /\ d.culprit \in Suspects /\ d.claim \in {1, 2}
    BY TemplatesAssumption DEF Draw
<1>2. d.template.incident \in Locations /\ d.template.alibis \in [{1, 2} -> Locations]
    BY <1>1 DEF Template
<1>3. d.alibis \in [{1, 2} -> {1, 2}]
    BY DEF Draw, Orders
<1>4. RealLocation(d, s) \in Locations
    <2>1. CASE s = d.culprit
        BY <2>1, <1>2 DEF RealLocation
    <2>2. CASE s # d.culprit
        <3>1. Turn(d.culprit, s) \in {1, 2}
            BY <2>2, <1>1, TurnType
        <3>2. d.alibis[Turn(d.culprit, s)] \in {1, 2}
            BY <3>1, <1>3
        <3> QED
            BY <3>2, <2>2, <1>2 DEF RealLocation
    <2> QED
        BY <2>1, <2>2
<1>5. ClaimedLocation(d, s) \in Locations
    BY <1>1, <1>2, <1>4 DEF ClaimedLocation
<1> QED
    BY <1>4, <1>5

LEMMA LogicType ==
    ASSUME NEW d \in Draw
    PROVE  BuildCaseLogic(d) \in Logic
<1>1. d.template \in Template /\ d.culprit \in Suspects /\ d.roles \in [Suspects -> Suspects]
    BY TemplatesAssumption DEF Draw, Orders
<1>2. d.template.incident \in Locations /\ d.template.items \in [Suspects -> Items]
    BY <1>1 DEF Template
<1>3. [s \in Suspects |-> d.template.items[d.roles[s]]] \in [Suspects -> Items]
    BY <1>1, <1>2
<1>4. /\ [s \in Suspects |-> RealLocation(d, s)] \in [Suspects -> Locations]
      /\ [s \in Suspects |-> ClaimedLocation(d, s)] \in [Suspects -> Locations]
    BY LocationTypes
<1>5. Clues(d.culprit) \in SUBSET Places
    BY <1>1 DEF Clues, Places, Place, Neutral, Suspects
<1> QED
    BY <1>1, <1>2, <1>3, <1>4, <1>5 DEF BuildCaseLogic, Logic

\* solve() finds exactly the culprit of every case build_case_logic can build:
\* neither of its two exceptions can be raised.
THEOREM SolvedByConstruction ==
    ASSUME NEW d \in Draw
    PROVE  Solve(BuildCaseLogic(d)) = {BuildCaseLogic(d).culprit}
<1> DEFINE logic == BuildCaseLogic(d)
<1>1. d.culprit \in Suspects
    BY DEF Draw
<1>2. logic.culprit = d.culprit /\ logic.clues = Clues(d.culprit) /\ logic.incident = d.template.incident
    BY DEF BuildCaseLogic
<1>3. \A s \in Suspects : logic.real[s] = RealLocation(d, s)
    BY DEF BuildCaseLogic
<1>4. \A s \in Suspects : Place("alibi", s) \in logic.clues <=> s # d.culprit
    BY <1>2 DEF Clues, Place, Neutral
<1>5. logic.real[d.culprit] = logic.incident
    BY <1>1, <1>2, <1>3 DEF RealLocation
<1>6. Solve(logic) = {logic.culprit}
    <2> HIDE DEF logic
    <2> QED
        BY <1>1, <1>2, <1>4, <1>5 DEF Solve
<1> QED
    BY <1>6

\* Whatever a text adds to the facts of a built case, it shows the culprit.
LEMMA FactsShowCulprit ==
    ASSUME NEW d \in Draw, NEW response,
           RequiredFacts(BuildCaseLogic(d)) \subseteq response.facts
    PROVE  ShowsCulprit(BuildCandidate(BuildCaseLogic(d), response))
<1> DEFINE logic == BuildCaseLogic(d)
           who == d.culprit
           item == d.template.items[d.roles[who]]
           here == d.template.incident
           there == ClaimedLocation(d, who)
           cand == BuildCandidate(logic, response)
           says(place, p) == <<place, p>> \in cand.facts
<1>1. who \in Suspects /\ d.template \in Templates /\ d.template \in Template
      /\ d.claim \in {1, 2} /\ d.roles \in [Suspects -> Suspects]
    BY TemplatesAssumption DEF Draw, Orders
<1>2. cand.culprit = who /\ cand.facts = response.facts
    BY DEF BuildCandidate, BuildCaseLogic
<1>3. /\ logic.culprit = who /\ logic.incident = here /\ logic.clues = Clues(who)
      /\ logic.item[who] = item
      /\ \A s \in Suspects : logic.claimed[s] = ClaimedLocation(d, s) /\ logic.real[s] = RealLocation(d, s)
    BY <1>1 DEF BuildCaseLogic
<1>4. item \in Items /\ here \in Locations /\ there \in Locations /\ here # there
    <2>1. item \in Items /\ here \in Locations
        BY <1>1 DEF Template
    <2>2. there \in Locations
        BY <1>1, LocationTypes
    <2>3. there = d.template.alibis[d.claim]
        BY DEF ClaimedLocation
    <2> QED
        BY <2>1, <2>2, <2>3, <1>1, TemplatesAssumption
<1>5. RequiredFacts(logic) \subseteq cand.facts
    BY <1>2
<1>6. says(Statement(who), there) /\ says(Statement(who), item) /\ says(Explanation, item)
    BY <1>1, <1>3, <1>5 DEF RequiredFacts, FactsOf
<1>7. says(Place("identifying", who), item) /\ says(Place("identifying", who), here)
    <2>1. Place("identifying", who) \in logic.clues
        BY <1>3 DEF Clues
    <2>2. RequiredPhrases(logic, Place("identifying", who)) = {item, here}
        BY <1>3 DEF RequiredPhrases, Place
    <2>3. FactsOf(Place("identifying", who), {item, here}) \subseteq RequiredFacts(logic)
        BY <2>1, <2>2 DEF RequiredFacts
    <2> QED
        BY <2>3, <1>5 DEF FactsOf
<1>8. ASSUME NEW s \in Suspects \ {who}
      PROVE  \E loc \in Locations : says(Statement(s), loc) /\ says(Place("alibi", s), loc)
    <2>1. logic.claimed[s] = RealLocation(d, s) /\ logic.real[s] = RealLocation(d, s)
        BY <1>3 DEF ClaimedLocation
    <2>2. Place("alibi", s) \in logic.clues
        BY <1>3 DEF Clues
    <2>3. RequiredPhrases(logic, Place("alibi", s)) = {logic.item[s], logic.real[s]}
        BY DEF RequiredPhrases, Place
    <2>4. FactsOf(Place("alibi", s), {logic.item[s], logic.real[s]}) \subseteq RequiredFacts(logic)
        BY <2>2, <2>3 DEF RequiredFacts
    <2>5. FactsOf(Statement(s), {logic.claimed[s]}) \subseteq RequiredFacts(logic)
        BY DEF RequiredFacts
    <2>6. says(Statement(s), RealLocation(d, s)) /\ says(Place("alibi", s), RealLocation(d, s))
        BY <2>1, <2>4, <2>5, <1>5 DEF FactsOf
    <2>7. RealLocation(d, s) \in Locations
        BY LocationTypes
    <2> QED
        BY <2>6, <2>7
<1>9. ShowsCulprit(cand)
    <2> HIDE DEF who, item, here, there, cand
    <2> QED
        BY <1>2, <1>4, <1>6, <1>7, <1>8 DEF ShowsCulprit
<1> QED
    BY <1>9

LEMMA RequiredFactsType ==
    ASSUME NEW d \in Draw
    PROVE  RequiredFacts(BuildCaseLogic(d)) \subseteq Facts
<1> DEFINE logic == BuildCaseLogic(d)
<1>1. logic \in Logic /\ logic.culprit \in Suspects
    BY LogicType DEF Logic
<1>2. \A s \in Suspects : logic.claimed[s] \in Locations /\ logic.real[s] \in Locations
                           /\ logic.item[s] \in Items
    BY <1>1 DEF Logic
<1>3. logic.incident \in Locations
    BY <1>1 DEF Logic
<1>4. \A clue \in logic.clues : clue \in Places /\ (clue.kind = "alibi" => clue.subject \in Suspects)
    <2>1. logic.clues = Clues(logic.culprit)
        BY DEF BuildCaseLogic
    <2> QED
        BY <2>1, <1>1 DEF Clues, Places, Place, Neutral, Suspects
<1>5. \A s \in Suspects : Statement(s) \in Places
    BY DEF Statement, Place, Places, Suspects
<1>6. Explanation \in Places
    BY DEF Explanation, Place, Places
<1>7. RequiredFacts(logic) \subseteq Facts
    <2> HIDE DEF logic
    <2>1. \A place \in Places, phrases \in SUBSET (Locations \cup Items) :
             FactsOf(place, phrases) \subseteq Facts
        BY DEF FactsOf, Facts
    <2>2. \A s \in Suspects : FactsOf(Statement(s), {logic.claimed[s]}) \subseteq Facts
        BY <2>1, <1>2, <1>5
    <2>3. FactsOf(Statement(logic.culprit), {logic.item[logic.culprit]}) \subseteq Facts
        BY <2>1, <1>1, <1>2, <1>5
    <2>4. \A clue \in logic.clues : FactsOf(clue, RequiredPhrases(logic, clue)) \subseteq Facts
        <3>1. \A clue \in logic.clues : RequiredPhrases(logic, clue) \in SUBSET (Locations \cup Items)
            BY <1>1, <1>2, <1>3, <1>4 DEF RequiredPhrases
        <3> QED
            BY <3>1, <2>1, <1>4
    <2>5. FactsOf(Explanation, {logic.item[logic.culprit], logic.incident}) \subseteq Facts
        BY <2>1, <1>1, <1>2, <1>3, <1>6
    <2> QED
        BY <2>2, <2>3, <2>4, <2>5 DEF RequiredFacts
<1> QED
    BY <1>7

LEMMA ResponsesType ==
    ASSUME NEW d \in Draw, NEW response \in Responses(RequiredFacts(BuildCaseLogic(d)))
    PROVE  response \in Response
<1> DEFINE F == RequiredFacts(BuildCaseLogic(d))
<1>1. F \subseteq Facts
    BY RequiredFactsType
<1>2. \E G \in SUBSET F, lacks \in BOOLEAN, form \in Form :
          response = [facts |-> G, lacksNeutral |-> lacks, form |-> form]
    <2> HIDE DEF F
    <2>1. response \in Responses(F)
        BY DEF F
    <2>2. CASE \E slip \in {{}} \cup {{f} : f \in F} :
                  response = [facts |-> F \ slip, lacksNeutral |-> FALSE, form |-> "fine"]
        <3>1. PICK slip : response = [facts |-> F \ slip, lacksNeutral |-> FALSE, form |-> "fine"]
            BY <2>2
        <3> QED
            BY <3>1 DEF Form
    <2>3. CASE response = [facts |-> F, lacksNeutral |-> TRUE, form |-> "fine"]
        BY <2>3 DEF Form
    <2>4. CASE \E form \in Form : response = [facts |-> F, lacksNeutral |-> FALSE, form |-> form]
        BY <2>4
    <2> QED
        BY <2>1, <2>2, <2>3, <2>4 DEF Responses
<1> QED
    BY <1>1, <1>2 DEF Response

-----------------------------------------------------------------------------
(***************************************************************************)
(* The invariant                                                           *)
(***************************************************************************)
Working == PC \ {"idle", "raised"}

\* A case in hand is one that was built, an answer in hand is an answer, and
\* once it has passed check_fidelity it holds the facts.
ContentOK(j) ==
    /\ j.pc \in Working => \E d \in Draws : j.logic = BuildCaseLogic(d)
    /\ j.pc \in Working \ {"render"} => j.response \in Response
    /\ j.pc \in HasCandidate => RequiredFacts(j.logic) \subseteq j.response.facts

\* A call that is over is not the call of anybody.
NumbersOK ==
    \A c \in Callers :
        /\ job[c].call <= calls
        /\ \A n \in job[c].past : n <= calls /\ \A k \in Callers : job[k].call # n

\* When last_usage is about to be read, it was set since the call began.
TokensOK ==
    \A c \in Callers :
        /\ job[c].reported \notin job[c].past
        /\ job[c].pc \in {"usage", "read_render"} => lastUsage["render"] \notin job[c].past
        /\ \A j \in Judges : job[c].pc = Reading[j] => lastUsage[j] \notin job[c].past

LiveIInv ==
    /\ LiveTypeOK
    /\ \A c \in Callers : ContentOK(job[c])
    /\ NumbersOK
    /\ TokensOK

LEMMA InitLiveIInv == LiveInit => LiveIInv
<1> SUFFICES ASSUME LiveInit PROVE LiveIInv
    OBVIOUS
<1>1. Resting("idle", 0, None, None) \in Job
    BY CallsAssumption DEF Resting, Job, PC, Usage
<1>2. LiveTypeOK
    BY <1>1, CallsAssumption DEF LiveInit, LiveTypeOK, Usage
<1>3. \A c \in Callers : ContentOK(job[c])
    BY DEF LiveInit, Resting, ContentOK, Working, HasCandidate
<1>4. NumbersOK /\ TokensOK
    BY DEF LiveInit, Resting, NumbersOK, TokensOK, Judges, Reading
<1> QED
    BY <1>2, <1>3, <1>4 DEF LiveIInv

\* What every action does to the numbers: the call begins, goes on or ends.
Begins(c, r) == calls' = calls + 1 /\ calls < MaxCalls /\ r.call = calls + 1 /\ r.past = Over
                /\ r.reported = 0 /\ r.pc \in {"render", "logic", "safety", "raised"}
GoesOn(c, r) == calls' = calls /\ r.call = job[c].call /\ r.past = job[c].past
                /\ r.reported = job[c].reported
Ends(r) == calls' = calls /\ r.call = 0 /\ r.past = {}

\* Nobody's last_usage becomes anything but nothing or the tokens of a call
\* that is running.
UsageStep(c) == \A v \in Services : lastUsage'[v] \in {lastUsage[v], 0, job[c].call}

LEMMA StepPreserves ==
    ASSUME LiveIInv, NEW c \in Callers, NEW r \in Job,
           job' = [job EXCEPT ![c] = r],
           lastUsage' \in [Services -> Usage],
           UsageStep(c),
           ContentOK(r),
           Begins(c, r) \/ GoesOn(c, r) \/ Ends(r),
           r.pc \in {"usage", "read_render"} => r.past = job[c].past /\
               (lastUsage'["render"] \in {0, job[c].call} \/ (job[c].pc \in {"usage", "read_render"} /\ lastUsage'["render"] = lastUsage["render"])),
           \A j \in Judges : r.pc = Reading[j] => r.past = job[c].past /\ lastUsage'[j] \in {0, job[c].call}
    PROVE  LiveIInv'
<1>1. LiveTypeOK'
    BY CallsAssumption DEF LiveIInv, LiveTypeOK, Begins, GoesOn, Ends, Usage
<1>2. \A k \in Callers : ContentOK(job[k])'
    BY DEF LiveIInv, LiveTypeOK, ContentOK
<1>3. /\ calls \in Nat
      /\ \A k \in Callers : /\ job[k].call \in Nat /\ job[k].call <= calls
                            /\ 0 \notin job[k].past
                            /\ \A n \in job[k].past : n \in Nat /\ n <= calls
    BY CallsAssumption DEF LiveIInv, LiveTypeOK, NumbersOK, Job, Usage, Calls
<1>4. /\ \A k \in Callers : job'[k] = IF k = c THEN r ELSE job[k]
      /\ calls' \in Nat /\ calls <= calls'
    BY <1>3 DEF LiveIInv, LiveTypeOK, Begins, GoesOn, Ends
<1>5. \A n \in Over : n \in Nat /\ n <= calls /\ n # 0 /\ \A k \in Callers : job[k].call # n
    BY <1>3 DEF Over
<1>6. NumbersOK'
    <2>1. CASE Begins(c, r)
        BY <2>1, <1>3, <1>4, <1>5 DEF LiveIInv, NumbersOK, Begins
    <2>2. CASE GoesOn(c, r)
        BY <2>2, <1>3, <1>4 DEF LiveIInv, NumbersOK, GoesOn
    <2>3. CASE Ends(r)
        BY <2>3, <1>3, <1>4 DEF LiveIInv, NumbersOK, Ends
    <2> QED
        BY <2>1, <2>2, <2>3
<1>7. TokensOK'
    <2>1. \A k \in Callers : job[c].call \notin job[k].past /\ 0 \notin job[k].past
        BY <1>3 DEF LiveIInv, NumbersOK
    <2>2. ASSUME NEW k \in Callers, k # c
          PROVE  /\ job'[k].reported \notin job'[k].past
                 /\ job'[k].pc \in {"usage", "read_render"} => lastUsage'["render"] \notin job'[k].past
                 /\ \A j \in Judges : job'[k].pc = Reading[j] => lastUsage'[j] \notin job'[k].past
        BY <2>1, <2>2, <1>4 DEF LiveIInv, TokensOK, UsageStep, Services, Judges
    <2>3. r.reported \notin r.past
        BY <2>1, <1>5 DEF LiveIInv, TokensOK, Begins, GoesOn, Ends
    <2>4. r.pc \in {"usage", "read_render"} => lastUsage'["render"] \notin r.past
        BY <2>1 DEF LiveIInv, TokensOK
    <2>5. \A j \in Judges : r.pc = Reading[j] => lastUsage'[j] \notin r.past
        BY <2>1
    <2> QED
        BY <2>2, <2>3, <2>4, <2>5, <1>4 DEF TokensOK
<1> QED
    BY <1>1, <1>2, <1>6, <1>7 DEF LiveIInv

LEMMA NextLiveIInv ==
    ASSUME LiveIInv, [LiveNext]_liveVars
    PROVE  LiveIInv'
<1>1. CASE UNCHANGED liveVars
    BY <1>1 DEF liveVars, LiveIInv, LiveTypeOK, ContentOK, NumbersOK, TokensOK
<1>2. ASSUME NEW c \in Callers,
             \/ \E d \in Draws : Generate(c, d)
             \/ RenderFails(c) \/ RenderAnswers(c) \/ RenderUsage(c) \/ RenderGarbled(c) \/ ReadRender(c)
             \/ \E j \in Judges : Judge(c, j) \/ JudgeFails(c, j) \/ JudgeAnswers(c, j) \/ ReadJudge(c, j)
      PROVE  LiveIInv'
    <2>1. /\ job[c] \in Job /\ ContentOK(job[c])
          /\ lastUsage \in [Services -> Usage] /\ calls \in Usage
          /\ 0 \in Usage /\ job[c].call \in Usage /\ \A v \in Services : lastUsage[v] \in Usage
        BY CallsAssumption DEF LiveIInv, LiveTypeOK, Job, Usage
    \* A call that ends without a candidate.
    <2>2. ASSUME NEW pc \in {"idle", "raised"}, NEW n \in Usage, Fail(c, pc, n),
                 calls' = calls, lastUsage' \in [Services -> Usage], UsageStep(c)
          PROVE  LiveIInv'
        <3> DEFINE r == Resting(pc, n, None, None)
        <3>1. /\ r \in Job /\ r.pc = pc /\ Ends(r)
            BY CallsAssumption, <2>2 DEF Resting, Job, PC, Usage, Ends
        <3>2. ContentOK(r)
            BY <3>1 DEF ContentOK, Working, HasCandidate
        <3>3. job' = [job EXCEPT ![c] = r]
            BY <2>2 DEF Fail
        <3>4. r.pc \notin {"usage", "read_render"} /\ \A j \in Judges : r.pc # Reading[j]
            BY <3>1 DEF Judges, Reading
        <3> HIDE DEF r
        <3> QED
            BY <3>1, <3>2, <3>3, <3>4, <2>2, StepPreserves
    \* A call that ends with one.
    <2>3. ASSUME NEW pc \in {"candidate", "consistent", "safe"}, NEW n \in Usage, Return(c, pc, n),
                 job[c].pc \in Working \ {"render"},
                 RequiredFacts(job[c].logic) \subseteq job[c].response.facts,
                 UNCHANGED <<lastUsage, calls>>
          PROVE  LiveIInv'
        <3> DEFINE r == Resting(pc, n, job[c].logic, job[c].response)
        <3>1. /\ r \in Job /\ r.pc = pc /\ Ends(r)
              /\ r.logic = job[c].logic /\ r.response = job[c].response
            <4>1. job[c].logic \in Logic \cup {None} /\ job[c].response \in Response \cup {None}
                BY <2>1 DEF Job
            <4>2. r \in Job
                BY <4>1, <2>1 DEF Job, PC, Resting
            <4> QED
                BY <4>2, <2>3 DEF Ends, Resting
        <3>2. ContentOK(r)
            BY <3>1, <2>1, <2>3 DEF ContentOK, Working, HasCandidate
        <3>3. job' = [job EXCEPT ![c] = r]
            BY <2>3 DEF Return
        <3>4. r.pc \notin {"usage", "read_render"} /\ \A j \in Judges : r.pc # Reading[j]
            BY <3>1 DEF Judges, Reading
        <3>5. lastUsage' \in [Services -> Usage] /\ UsageStep(c)
            BY <2>1, <2>3 DEF UsageStep
        <3> HIDE DEF r
        <3> QED
            BY <3>1, <3>2, <3>3, <3>4, <3>5, StepPreserves
    \* A call that begins.
    <2>4. ASSUME NEW pc \in {"render", "logic", "safety"}, NEW logic, NEW response,
                 Call(c, pc, logic, response),
                 \E d \in Draws : logic = BuildCaseLogic(d),
                 \/ pc = "render" /\ response = None
                 \/ response \in Response /\ RequiredFacts(logic) \subseteq response.facts
          PROVE  LiveIInv'
        <3> DEFINE r == [pc |-> pc, call |-> calls + 1, past |-> Over, reported |-> 0,
                         logic |-> logic, response |-> response, verdict |-> FALSE]
        <3>1. logic \in Logic
            BY <2>4, LogicType, DrawsAssumption
        <3>2. Over \in SUBSET Calls /\ calls + 1 \in Usage
            BY <2>1, <2>4, CallsAssumption DEF Over, Calls, Usage, Call
        <3>3. r \in Job /\ Begins(c, r) /\ job' = [job EXCEPT ![c] = r]
            BY <2>1, <2>4, <3>1, <3>2 DEF Call, Job, PC, Begins
        <3>4. ContentOK(r)
            BY <2>4 DEF ContentOK, Working, HasCandidate
        <3>5. r.pc \notin {"usage", "read_render"} /\ \A j \in Judges : r.pc # Reading[j]
            BY <2>4 DEF Judges, Reading
        <3>6. lastUsage' \in [Services -> Usage] /\ UsageStep(c)
            BY <2>1, <2>4 DEF UsageStep, Call
        <3> HIDE DEF r
        <3> QED
            BY <3>3, <3>4, <3>5, <3>6, StepPreserves
    <2>5. ASSUME NEW d \in Draws, Generate(c, d) PROVE LiveIInv'
        <3>1. Solve(BuildCaseLogic(d)) = {BuildCaseLogic(d).culprit}
            BY SolvedByConstruction, DrawsAssumption
        <3>2. Call(c, "render", BuildCaseLogic(d), None)
            BY <2>5, <3>1 DEF Generate
        <3> QED
            BY <3>2, <2>4
    <2>6. CASE RenderFails(c)
        <3>1. lastUsage' \in [Services -> Usage] /\ UsageStep(c)
            BY <2>6, <2>1 DEF RenderFails, UsageStep
        <3> QED
            BY <2>6, <2>1, <2>2, <3>1 DEF RenderFails
    <2>7. CASE RenderAnswers(c)
        <3>1. PICK d \in Draws : job[c].logic = BuildCaseLogic(d)
            BY <2>1, <2>7 DEF RenderAnswers, ContentOK, Working, PC
        <3>2. PICK response \in Responses(RequiredFacts(job[c].logic)) :
                  job' = [job EXCEPT ![c] = [job[c] EXCEPT !.pc = "usage", !.response = response]]
            BY <2>7 DEF RenderAnswers
        <3>3. response \in Response
            BY <3>1, <3>2, ResponsesType, DrawsAssumption
        <3> DEFINE r == [job[c] EXCEPT !.pc = "usage", !.response = response]
        <3>4. /\ r \in Job /\ r.pc = "usage" /\ r.response = response
              /\ r.past = job[c].past /\ r.logic = job[c].logic
              /\ r.call = job[c].call /\ r.reported = job[c].reported
            BY <2>1, <3>3 DEF Job, PC
        <3>5. ContentOK(r) /\ GoesOn(c, r) /\ \A j \in Judges : r.pc # Reading[j]
            BY <2>7, <3>1, <3>3, <3>4 DEF ContentOK, HasCandidate, GoesOn, RenderAnswers, Judges, Reading
        <3>6. /\ lastUsage' \in [Services -> Usage] /\ UsageStep(c)
              /\ lastUsage'["render"] = 0
            BY <2>1, <2>7 DEF RenderAnswers, UsageStep, Services
        <3> HIDE DEF r
        <3> QED
            BY <3>2, <3>4, <3>5, <3>6, StepPreserves DEF r
    <2>8. CASE RenderUsage(c)
        <3> DEFINE r == [job[c] EXCEPT !.pc = "read_render"]
        <3>1. /\ r \in Job /\ r.pc = "read_render" /\ r.response = job[c].response
              /\ r.past = job[c].past /\ r.logic = job[c].logic
              /\ r.call = job[c].call /\ r.reported = job[c].reported
            BY <2>1 DEF Job, PC
        <3>2. ContentOK(r) /\ GoesOn(c, r) /\ \A j \in Judges : r.pc # Reading[j]
            BY <2>1, <2>8, <3>1 DEF ContentOK, Working, PC, HasCandidate, GoesOn, RenderUsage, Judges, Reading
        <3>3. /\ lastUsage' \in [Services -> Usage] /\ UsageStep(c)
              /\ lastUsage'["render"] \in {lastUsage["render"], job[c].call}
            BY <2>1, <2>8 DEF RenderUsage, TakesUsage, UsageStep, Services
        <3>4. job' = [job EXCEPT ![c] = r] /\ job[c].pc = "usage"
            BY <2>8 DEF RenderUsage
        <3> HIDE DEF r
        <3> QED
            BY <3>1, <3>2, <3>3, <3>4, StepPreserves
    <2>9. CASE RenderGarbled(c)
        <3>1. lastUsage' \in [Services -> Usage] /\ UsageStep(c)
            BY <2>9, <2>1 DEF RenderGarbled, TakesUsage, UsageStep, Services
        <3> QED
            BY <2>9, <2>1, <2>2, <3>1 DEF RenderGarbled
    <2>10. CASE ReadRender(c)
        <3>1. lastUsage' \in [Services -> Usage] /\ UsageStep(c) /\ calls' = calls
              /\ lastUsage["render"] \in Usage
            BY <2>10, <2>1 DEF ReadRender, UsageStep, Services
        <3>2. job[c].pc \in Working \ {"render"}
            BY <2>10 DEF ReadRender, Working, PC
        <3>3. CASE Fail(c, "raised", 0) \/ Fail(c, "idle", lastUsage["render"])
            BY <3>1, <3>3, <2>1, <2>2
        <3>4. CASE CheckFidelity(job[c].logic, job[c].response) /\ Return(c, "candidate", lastUsage["render"])
            BY <3>1, <3>2, <3>4, <2>3, <2>10 DEF CheckFidelity, ReadRender
        <3> QED
            BY <3>3, <3>4, <2>10 DEF ReadRender
    <2>11. ASSUME NEW j \in Judges, Judge(c, j) PROVE LiveIInv'
        <3>1. job[c].pc \in HasCandidate /\ job[c].pc \in Working \ {"render"} /\ job[c].pc \in Working
            BY <2>11 DEF Judge, Judges, After, HasCandidate, Working, PC
        <3>2. Call(c, j, job[c].logic, job[c].response) /\ j \in {"render", "logic", "safety"}
            BY <2>11 DEF Judge, Judges
        <3> QED
            BY <3>1, <3>2, <2>1, <2>4 DEF ContentOK
    <2>12. ASSUME NEW j \in Judges, JudgeFails(c, j) PROVE LiveIInv'
        <3>1. lastUsage' \in [Services -> Usage] /\ UsageStep(c)
            BY <2>12, <2>1 DEF JudgeFails, UsageStep
        <3> QED
            BY <2>12, <2>1, <2>2, <3>1 DEF JudgeFails
    <2>13. ASSUME NEW j \in Judges, JudgeAnswers(c, j) PROVE LiveIInv'
        <3>1. PICK verdict \in BOOLEAN :
                  job' = [job EXCEPT ![c] = [job[c] EXCEPT !.pc = Reading[j], !.verdict = verdict]]
            BY <2>13 DEF JudgeAnswers
        <3> DEFINE r == [job[c] EXCEPT !.pc = Reading[j], !.verdict = verdict]
        <3>2. Reading[j] \in {"read_logic", "read_safety"}
            BY DEF Judges, Reading
        <3>3. /\ r \in Job /\ r.pc = Reading[j] /\ r.response = job[c].response
              /\ r.past = job[c].past /\ r.logic = job[c].logic
              /\ r.call = job[c].call /\ r.reported = job[c].reported
            BY <2>1, <3>2 DEF Job, PC
        <3>4. job[c].pc \in HasCandidate /\ job[c].pc \in Working \ {"render"} /\ job[c].pc \in Working
            BY <2>13 DEF JudgeAnswers, Judges, HasCandidate, Working, PC
        <3>5. ContentOK(r) /\ GoesOn(c, r)
            BY <2>1, <2>13, <3>3, <3>4 DEF ContentOK, GoesOn, JudgeAnswers
        <3>6. /\ lastUsage' \in [Services -> Usage] /\ UsageStep(c)
              /\ lastUsage'[j] \in {0, job[c].call}
            BY <2>1, <2>13 DEF JudgeAnswers, UsageStep, Services, Judges
        <3>7. \A k \in Judges : r.pc = Reading[k] => k = j
            BY <3>3 DEF Judges, Reading
        <3>8. job' = [job EXCEPT ![c] = r]
            BY <3>1
        <3>9. r.pc \notin {"usage", "read_render"}
            BY <3>2, <3>3
        <3> HIDE DEF r
        <3> QED
            BY <3>3, <3>5, <3>6, <3>7, <3>8, <3>9, StepPreserves
    <2>14. ASSUME NEW j \in Judges, ReadJudge(c, j) PROVE LiveIInv'
        <3>1. lastUsage' \in [Services -> Usage] /\ UsageStep(c) /\ calls' = calls
              /\ lastUsage[j] \in Usage
            BY <2>14, <2>1 DEF ReadJudge, UsageStep, Services, Judges
        <3>2. job[c].pc \in HasCandidate /\ job[c].pc \in Working \ {"render"}
            BY <2>14 DEF ReadJudge, Judges, Reading, HasCandidate, Working, PC
        <3>3. CASE Fail(c, "idle", lastUsage[j])
            BY <3>1, <3>3, <2>2
        <3>4. CASE Return(c, Passed[j], lastUsage[j])
            <4>1. Passed[j] \in {"candidate", "consistent", "safe"}
                BY DEF Passed, Judges
            <4>2. RequiredFacts(job[c].logic) \subseteq job[c].response.facts
                BY <3>2, <2>1 DEF ContentOK
            <4> QED
                BY <4>1, <4>2, <3>1, <3>2, <3>4, <2>3, <2>14 DEF ReadJudge
        <3> QED
            BY <3>3, <3>4, <2>14 DEF ReadJudge
    <2> QED
        BY <1>2, <2>5, <2>6, <2>7, <2>8, <2>9, <2>10, <2>11, <2>12, <2>13, <2>14
<1> QED
    BY <1>1, <1>2 DEF LiveNext

LEMMA Invariance == LiveSpec => []LiveIInv
    BY InitLiveIInv, NextLiveIInv, PTL DEF LiveSpec

-----------------------------------------------------------------------------
(***************************************************************************)
(* The theorems                                                            *)
(***************************************************************************)
\* Every variable keeps its type.
THEOREM LiveTypes == LiveSpec => []LiveTypeOK
    BY Invariance, PTL DEF LiveIInv

\* Whatever the random generator draws and the model writes, a candidate that
\* leaves the adapter can be solved from its texts.
THEOREM CandidatesAreSolvable == LiveSpec => []CandidatesShowCulprit
<1>1. LiveIInv => CandidatesShowCulprit
    <2> SUFFICES ASSUME LiveIInv, NEW c \in Callers, job[c].pc \in HasCandidate
                 PROVE  ShowsCulprit(BuildCandidate(job[c].logic, job[c].response))
        BY DEF CandidatesShowCulprit
    <2>1. job[c].pc \in Working /\ ContentOK(job[c])
        BY DEF LiveIInv, HasCandidate, Working, PC
    <2>2. PICK d \in Draws : job[c].logic = BuildCaseLogic(d)
        BY <2>1 DEF ContentOK
    <2>3. RequiredFacts(BuildCaseLogic(d)) \subseteq job[c].response.facts
        BY <2>1, <2>2 DEF ContentOK
    <2> QED
        BY <2>2, <2>3, FactsShowCulprit, DrawsAssumption
<1> QED
    BY <1>1, Invariance, PTL

\* The one way an exception leaves the adapter, for any number of requests.
THEOREM EscapesAreUntyped == LiveSpec => EscapesOnlyUntyped
<1> DEFINE Escape == \A c \in Callers : job[c].pc # "raised" /\ job'[c].pc = "raised" =>
                        /\ job[c].pc = "read_render"
                        /\ job[c].response.form = "untyped"
<1>1. LiveIInv /\ [LiveNext]_liveVars => [Escape]_liveVars
    <2> SUFFICES ASSUME LiveIInv, LiveNext, NEW c \in Callers,
                        job[c].pc # "raised", job'[c].pc = "raised"
                 PROVE  job[c].pc = "read_render" /\ job[c].response.form = "untyped"
        OBVIOUS
    <2>1. PICK k \in Callers :
             \/ \E d \in Draws : Generate(k, d)
             \/ RenderFails(k) \/ RenderAnswers(k) \/ RenderUsage(k) \/ RenderGarbled(k) \/ ReadRender(k)
             \/ \E j \in Judges : Judge(k, j) \/ JudgeFails(k, j) \/ JudgeAnswers(k, j) \/ ReadJudge(k, j)
        BY DEF LiveNext
    <2>2. \A r : job' = [job EXCEPT ![k] = r] => k = c /\ r.pc = "raised"
        BY DEF LiveIInv, LiveTypeOK
    <2>3. job[c] \in Job
        BY DEF LiveIInv, LiveTypeOK
    <2>4. \A pc, n : Fail(k, pc, n) => k = c /\ pc = "raised"
        BY <2>2 DEF Fail, Resting
    <2>5. \A pc, n : Return(k, pc, n) => k = c /\ pc = "raised"
        BY <2>2 DEF Return, Resting
    <2>6. \A pc, logic, response : Call(k, pc, logic, response) => k = c /\ pc = "raised"
        BY <2>2 DEF Call
    <2>7. CASE \E d \in Draws : Generate(k, d)
        <3>1. PICK d \in Draws : Generate(k, d)
            BY <2>7
        <3>2. Solve(BuildCaseLogic(d)) = {BuildCaseLogic(d).culprit}
            BY SolvedByConstruction, DrawsAssumption
        <3> QED
            BY <3>1, <3>2, <2>6 DEF Generate
    <2>8. CASE RenderFails(k) \/ RenderGarbled(k)
        BY <2>8, <2>4 DEF RenderFails, RenderGarbled
    <2>9. CASE RenderAnswers(k)
        <3>1. PICK response : job' = [job EXCEPT ![k] = [job[k] EXCEPT !.pc = "usage", !.response = response]]
            BY <2>9 DEF RenderAnswers
        <3> QED
            BY <3>1, <2>2, <2>3 DEF Job
    <2>10. CASE RenderUsage(k)
        BY <2>10, <2>2, <2>3 DEF RenderUsage, Job
    <2>11. CASE ReadRender(k)
        BY <2>11, <2>4, <2>5 DEF ReadRender
    <2>12. ASSUME NEW j \in Judges, Judge(k, j) \/ JudgeFails(k, j) \/ ReadJudge(k, j)
           PROVE  FALSE
        BY <2>12, <2>4, <2>5, <2>6 DEF Judge, JudgeFails, ReadJudge, Judges, Passed
    <2>13. ASSUME NEW j \in Judges, JudgeAnswers(k, j)
           PROVE  FALSE
        <3>1. PICK verdict : job' = [job EXCEPT ![k] = [job[k] EXCEPT !.pc = Reading[j], !.verdict = verdict]]
            BY <2>13 DEF JudgeAnswers
        <3> QED
            BY <3>1, <2>2, <2>3 DEF Job, Judges, Reading
    <2> QED
        BY <2>1, <2>7, <2>8, <2>9, <2>10, <2>11, <2>12, <2>13
<1> QED
    BY <1>1, Invariance, PTL DEF LiveSpec, EscapesOnlyUntyped

\* However many requests share the attributes, nobody is charged the tokens of
\* a call that was over before theirs began.
THEOREM NoStaleUsage == LiveSpec => UsageIsNotStale
<1> DEFINE Fresh == \A c \in Callers : job'[c].reported \notin job[c].past
<1>1. LiveIInv /\ [LiveNext]_liveVars => [Fresh]_liveVars
    <2> SUFFICES ASSUME LiveIInv, LiveNext, NEW c \in Callers
                 PROVE  job'[c].reported \notin job[c].past
        OBVIOUS
    <2>1. /\ job[c] \in Job /\ job[c].reported \notin job[c].past /\ 0 \notin job[c].past
          /\ job[c].pc = "read_render" => lastUsage["render"] \notin job[c].past
          /\ \A j \in Judges : job[c].pc = Reading[j] => lastUsage[j] \notin job[c].past
        BY CallsAssumption DEF LiveIInv, LiveTypeOK, TokensOK, Job, Calls
    <2>2. PICK k \in Callers :
             \/ \E d \in Draws : Generate(k, d)
             \/ RenderFails(k) \/ RenderAnswers(k) \/ RenderUsage(k) \/ RenderGarbled(k) \/ ReadRender(k)
             \/ \E j \in Judges : Judge(k, j) \/ JudgeFails(k, j) \/ JudgeAnswers(k, j) \/ ReadJudge(k, j)
        BY DEF LiveNext
    <2>3. \A r : job' = [job EXCEPT ![k] = r] /\ (k = c => r.reported \notin job[c].past)
                 => job'[c].reported \notin job[c].past
        BY <2>1 DEF LiveIInv, LiveTypeOK
    <2>4. \A pc, n : Fail(k, pc, n) /\ (k = c => n \notin job[c].past) => job'[c].reported \notin job[c].past
        BY <2>3 DEF Fail, Resting
    <2>5. \A pc, n : Return(k, pc, n) /\ (k = c => n \notin job[c].past) => job'[c].reported \notin job[c].past
        BY <2>3 DEF Return, Resting
    <2>6. \A pc, logic, response : Call(k, pc, logic, response) => job'[c].reported \notin job[c].past
        BY <2>1, <2>3 DEF Call
    <2>7. ASSUME NEW d \in Draws, Generate(k, d) PROVE job'[c].reported \notin job[c].past
        BY <2>7, <2>6 DEF Generate
    <2>8. CASE RenderFails(k) \/ RenderGarbled(k)
        BY <2>8, <2>1, <2>4 DEF RenderFails, RenderGarbled
    <2>9. CASE RenderAnswers(k)
        <3>1. PICK response : job' = [job EXCEPT ![k] = [job[k] EXCEPT !.pc = "usage", !.response = response]]
            BY <2>9 DEF RenderAnswers
        <3> QED
            BY <3>1, <2>1, <2>3 DEF Job
    <2>10. CASE RenderUsage(k)
        BY <2>10, <2>1, <2>3 DEF RenderUsage, Job
    <2>11. CASE ReadRender(k)
        BY <2>11, <2>1, <2>4, <2>5 DEF ReadRender
    <2>12. ASSUME NEW j \in Judges, Judge(k, j) \/ JudgeFails(k, j) \/ ReadJudge(k, j)
           PROVE  job'[c].reported \notin job[c].past
        BY <2>12, <2>1, <2>4, <2>5, <2>6 DEF Judge, JudgeFails, ReadJudge
    <2>13. ASSUME NEW j \in Judges, JudgeAnswers(k, j)
           PROVE  job'[c].reported \notin job[c].past
        <3>1. PICK verdict : job' = [job EXCEPT ![k] = [job[k] EXCEPT !.pc = Reading[j], !.verdict = verdict]]
            BY <2>13 DEF JudgeAnswers
        <3> QED
            BY <3>1, <2>1, <2>3 DEF Job
    <2> QED
        BY <2>2, <2>7, <2>8, <2>9, <2>10, <2>11, <2>12, <2>13
<1> QED
    BY <1>1, Invariance, PTL DEF LiveSpec, UsageIsNotStale

-----------------------------------------------------------------------------
(***************************************************************************)
(* The policies                                                            *)
(***************************************************************************)
\* What was judged was judged of the board, which never changes.
PolicyIInv ==
    /\ board # NoBoard => board \in DetectiveCase /\ Consistent(board)
    /\ accused # NobodyAccused =>
          /\ board # NoBoard
          /\ \E id \in SuspectIds : accused = [verdict |-> Verdict(board, id), id |-> id]
    /\ hint # Fallback =>
          /\ board # NoBoard
          /\ \E answer \in AssistantHint : hint = HintContent(board, answer)

LEMMA PolicyInvariance == PolicySpec => []PolicyIInv
<1>1. PolicyInit => PolicyIInv
    BY DEF PolicyInit, PolicyIInv
<1>2. ASSUME PolicyIInv, [PolicyNext]_policyVars PROVE PolicyIInv'
    <2>1. CASE UNCHANGED policyVars
        BY <1>2, <2>1 DEF policyVars, PolicyIInv
    <2>2. ASSUME NEW case \in Catalog, Publish(case) PROVE PolicyIInv'
        BY <1>2, <2>2, CatalogOfCases DEF Publish, PolicyIInv
    <2>3. ASSUME NEW id \in SuspectIds, Accuse(id) PROVE PolicyIInv'
        BY <1>2, <2>3 DEF Accuse, PolicyIInv
    <2>4. CASE HintFails
        BY <1>2, <2>4 DEF HintFails, PolicyIInv
    <2>5. ASSUME NEW answer \in AssistantHint, HintArrives(answer) PROVE PolicyIInv'
        BY <1>2, <2>5 DEF HintArrives, PolicyIInv
    <2> QED
        BY <1>2, <2>1, <2>2, <2>3, <2>4, <2>5 DEF PolicyNext
<1> QED
    BY <1>1, <1>2, PTL DEF PolicySpec

\* In a consistent case whose ids are spelt apart, an id is the right answer
\* exactly if it is the culprit's.
LEMMA CulpritsAreRight ==
    ASSUME NEW case \in DetectiveCase, Consistent(case), SpeltApart(case), NEW id \in SuspectIds
    PROVE  /\ Verdict(case, id) = "correct" <=>
                  \E s \in Marked(case) : Key[case.suspects[s].id] = Key[id]
           /\ Verdict(case, id) = "unknown" <=>
                  \A s \in DOMAIN case.suspects : Key[case.suspects[s].id] # Key[id]
<1>1. PICK c \in DOMAIN case.suspects :
          Marked(case) = {c} /\ case.suspects[c].id = case.solution
    BY DEF Consistent
<1>2. (\E s \in Marked(case) : Key[case.suspects[s].id] = Key[id]) <=> Key[case.solution] = Key[id]
    BY <1>1
<1>3. Key[case.solution] = Key[id] => \E s \in DOMAIN case.suspects : Key[case.suspects[s].id] = Key[id]
    BY <1>1
<1> QED
    BY <1>2, <1>3 DEF Verdict

LEMMA LeastNumber ==
    ASSUME NEW S \in SUBSET Nat, S # {}
    PROVE  \E k \in S : \A j \in S : k <= j
<1> DEFINE below == {ss \in Nat \X Nat : ss[1] < ss[2]}
<1>1. IsWellFoundedOn(below, Nat)
    BY NatLessThanWellFounded DEF OpToRel
<1>2. PICK k \in S : \A j \in S : ~(<<j, k>> \in below)
    BY <1>1, WFMin
<1>3. ASSUME NEW j \in S PROVE k <= j
    <2>1. j \in Nat /\ k \in Nat
        OBVIOUS
    <2>2. j < k => <<j, k>> \in below
        BY <2>1
    <2> QED
        BY <1>2, <2>1, <2>2
<1> QED
    BY <1>3

\* A hint that is not the fallback names nobody, and gives nobody's role, but
\* with a clue of the case.
LEMMA HintsQuoteClues ==
    ASSUME NEW case \in DetectiveCase, NEW answer \in AssistantHint,
           HintContent(case, answer) # Fallback, NEW s \in DOMAIN case.suspects
    PROVE  LET given == HintContent(case, answer) IN
           {case.suspects[s].name, case.suspects[s].role} \cap (given.commentary \cup given.quoted)
               \subseteq UNION {case.clues[k].says : k \in DOMAIN case.clues}
<1> DEFINE matching == {k \in DOMAIN case.clues : case.clues[k].id = answer.clue}
           first == CHOOSE k \in matching : \A j \in matching : k <= j
           quoted == case.clues[first].says
<1>1. /\ matching # {}
      /\ GivenAway(answer.commentary, case, quoted) = {}
      /\ HintContent(case, answer) = [commentary |-> answer.commentary, quoted |-> quoted]
    BY DEF HintContent
<1>2. first \in matching
    <2>1. matching \subseteq Nat
        BY DEF DetectiveCase
    <2>2. \E k \in matching : \A j \in matching : k <= j
        BY <1>1, <2>1, LeastNumber
    <2> QED
        BY <2>2
<1>3. first \in DOMAIN case.clues
    BY <1>2
<1> HIDE DEF matching, first
<1>4. /\ case.suspects[s].name \notin answer.commentary
      /\ case.suspects[s].role \notin answer.commentary \ quoted
    BY <1>1 DEF GivenAway
<1> QED
    BY <1>1, <1>3, <1>4

\* Whatever case is published, however ids are spelt and whatever the assistant
\* answers, the verdicts of SolutionPolicy single out the marked culprit and
\* hints tell of no suspect what the clues do not tell.
THEOREM BoardsAreAlwaysFair == PolicySpec => []BoardsAreFair
<1>1. PolicyIInv => BoardsAreFair
    <2> SUFFICES ASSUME PolicyIInv PROVE OnlyTheCulpritIsRight /\ HintsAddNoSuspect
        BY DEF BoardsAreFair
    <2>1. OnlyTheCulpritIsRight
        <3> SUFFICES ASSUME accused # NobodyAccused, SpeltApart(board)
                     PROVE  OnlyTheCulpritIsRight
            BY DEF OnlyTheCulpritIsRight
        <3>1. PICK id \in SuspectIds : accused = [verdict |-> Verdict(board, id), id |-> id]
            BY DEF PolicyIInv
        <3>2. board \in DetectiveCase /\ Consistent(board)
            BY DEF PolicyIInv
        <3> QED
            BY <3>1, <3>2, CulpritsAreRight DEF OnlyTheCulpritIsRight
    <2>2. HintsAddNoSuspect
        <3> SUFFICES ASSUME hint # Fallback PROVE HintsAddNoSuspect
            BY DEF HintsAddNoSuspect
        <3>1. PICK answer \in AssistantHint : hint = HintContent(board, answer)
            BY DEF PolicyIInv
        <3>2. board \in DetectiveCase
            BY DEF PolicyIInv
        <3> QED
            BY <3>1, <3>2, HintsQuoteClues DEF HintsAddNoSuspect
    <2> QED
        BY <2>1, <2>2
<1> QED
    BY <1>1, PolicyInvariance, PTL
=============================================================================
