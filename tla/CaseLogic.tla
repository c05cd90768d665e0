------------------------------ MODULE CaseLogic -------------------------------
(***************************************************************************)
(* How the content of a live case comes about (tools/ai-content):          *)
(* logic_builder decides who did it and which facts show it, a language    *)
(* model writes prose around the facts, fidelity_checker looks for them in *)
(* the prose, rule_validator for everything else.                          *)
(*                                                                         *)
(* A text is the set of the phrases it contains; a place is a text of the  *)
(* case; a fact is a phrase in a place.                                    *)
(***************************************************************************)
EXTENDS Naturals

CONSTANTS
    Locations, Items,  \* the phrases of the scenario templates
    Templates          \* SCENARIO_TEMPLATES

Suspects == 1..3       \* SUSPECT_TOKENS

\* The items belong to the roles: who has the i-th role has the i-th item.
Template == [incident : Locations, alibis : [{1, 2} -> Locations], items : [Suspects -> Items]]

ASSUME TemplatesAssumption ==
    /\ Templates \subseteq Template
    /\ \A t \in Templates : t.alibis[1] # t.incident /\ t.alibis[2] # t.incident

Orders(S) == {f \in [S -> S] : \A x, y \in S : f[x] = f[y] => x = y}

\* What the random generator decides.
Draw == [template : Templates, roles : Orders(Suspects), culprit : Suspects,
         alibis : Orders({1, 2}), claim : {1, 2}]

-----------------------------------------------------------------------------
\* A text of the case: a statement or an alibi clue belongs to a suspect, the
\* identifying clue to the culprit, the others to nobody (0).
Place(kind, subject) == [kind |-> kind, subject |-> subject]
Statement(s) == Place("statement", s)
Neutral == Place("neutral", 0)
Explanation == Place("explanation", 0)
Places == [kind : {"statement", "identifying", "alibi", "neutral", "explanation"}, subject : 0..3]
Facts == Places \X (Locations \cup Items)

Logic == [incident : Locations, culprit : Suspects, item : [Suspects -> Items],
          real : [Suspects -> Locations], claimed : [Suspects -> Locations],
          clues : SUBSET Places]

\* The innocent suspects take the alibi locations in turn.
Turn(culprit, s) == IF s < culprit THEN s ELSE s - 1

\* Mutant: every suspect gets an alibi clue.
Bug_CluesForAll(culprit) ==
    {Place("identifying", culprit), Neutral} \cup {Place("alibi", s) : s \in Suspects}

Clues(culprit) ==
    {Place("identifying", culprit), Neutral}
    \cup {Place("alibi", s) : s \in Suspects \ {culprit}}

RealLocation(d, s) ==
    IF s = d.culprit THEN d.template.incident
    ELSE d.template.alibis[d.alibis[Turn(d.culprit, s)]]

ClaimedLocation(d, s) ==
    IF s = d.culprit THEN d.template.alibis[d.claim] ELSE RealLocation(d, s)

BuildCaseLogic(d) ==
    [incident |-> d.template.incident,
     culprit |-> d.culprit,
     item |-> [s \in Suspects |-> d.template.items[d.roles[s]]],
     real |-> [s \in Suspects |-> RealLocation(d, s)],
     claimed |-> [s \in Suspects |-> ClaimedLocation(d, s)],
     clues |-> Clues(d.culprit)]

\* solve(): who was at the scene and has no alibi.  It raises unless there is
\* exactly one; build_case_logic raises unless it is the culprit.
Solve(logic) ==
    {s \in Suspects : logic.real[s] = logic.incident /\ Place("alibi", s) \notin logic.clues}

-----------------------------------------------------------------------------
\* required_phrases of a clue
RequiredPhrases(logic, clue) ==
    IF clue.kind = "identifying" THEN {logic.item[logic.culprit], logic.incident}
    ELSE IF clue.kind = "alibi" THEN {logic.item[clue.subject], logic.real[clue.subject]}
    ELSE {}

FactsOf(place, phrases) == {<<place, p>> : p \in phrases}

\* Mutant: nothing says whose the signature item is (the gap of ADR-0007).
Bug_UnownedItem(logic) ==
    (UNION {FactsOf(Statement(s), {logic.claimed[s]}) : s \in Suspects})
    \cup (UNION {FactsOf(c, RequiredPhrases(logic, c)) : c \in logic.clues})
    \cup FactsOf(Explanation, {logic.item[logic.culprit], logic.incident})

\* What check_fidelity looks for.
RequiredFacts(logic) ==
    (UNION {FactsOf(Statement(s), {logic.claimed[s]}) : s \in Suspects})
    \cup FactsOf(Statement(logic.culprit), {logic.item[logic.culprit]})
    \cup (UNION {FactsOf(c, RequiredPhrases(logic, c)) : c \in logic.clues})
    \cup FactsOf(Explanation, {logic.item[logic.culprit], logic.incident})

\* The text that carries no fact must be there all the same.
CheckFidelity(logic, response) ==
    /\ ~response.lacksNeutral
    /\ RequiredFacts(logic) \subseteq response.facts

\* The form of the texts no fact is looked for in, and of every text's length
\* and words: fine; empty (a setting, problem or neutral clue); against a rule
\* of validate_rules (length, number, duplicates, words); or what validate_rules
\* cannot handle: a title, setting or problem that is null, a number or a list,
\* a neutral clue that is a number or a list, a name that is a list.  (A name
\* that is a number is fine; without one the role stands for it.)
Form == {"fine", "empty", "offends", "untyped"}

Response == [facts : SUBSET Facts, lacksNeutral : BOOLEAN, form : Form]

\* build_case_candidate_from_rendered: the identities come from the logic, the
\* texts from the response.
Candidate == [culprit : Suspects, facts : SUBSET Facts, form : Form]
BuildCandidate(logic, response) ==
    [culprit |-> logic.culprit, facts |-> response.facts, form |-> response.form]

\* validate_rules, where it returns.
FormPasses(form) == form \in {"fine", "empty"}
=============================================================================
