----------------------------- MODULE CasePolicies -----------------------------
(***************************************************************************)
(* The policies that judge the content of a case on its way to a player:   *)
(* CaseConsistencyPolicy before it is published or saved, SolutionPolicy   *)
(* when a suspect is accused, HintGuardrailPolicy when a hint is given.    *)
(*                                                                         *)
(* A text is the set of the names and roles that occur in it, whatever     *)
(* their case; an id is one of several spellings of the same key.          *)
(***************************************************************************)
EXTENDS Naturals, Sequences, FiniteSets, Functions

CONSTANTS
    SuspectIds,  \* spellings of the ids of suspects
    Key,         \* [SuspectIds -> key]: _normalize_suspect_id
    ClueIds,
    Words,       \* names and roles
    Catalog,     \* the cases that occur, consistent or not
    NoBoard,     \* nothing is published yet
    Fallback     \* FALLBACK_HINT_TEXT

CaseSuspect == [id : SuspectIds, name : Words, role : Words, culprit : BOOLEAN]
CaseClue == [id : ClueIds, says : SUBSET Words]
DetectiveCase == [suspects : Seq(CaseSuspect), clues : Seq(CaseClue), solution : SuspectIds]
AssistantHint == [clue : ClueIds, commentary : SUBSET Words]

MinSuspects == 3
MinClues == 3

ASSUME CatalogOfCases ==
    /\ DOMAIN Key = SuspectIds
    /\ Catalog \subseteq DetectiveCase
    /\ NoBoard \notin Catalog /\ Fallback \notin AssistantHint

VARIABLES
    board,    \* the case a player plays, or NoBoard
    accused,  \* the player's last submission: the id as it was spelt, and the verdict
    hint      \* the last hint: the assistant's, with the clue it is shown with, or Fallback

policyVars == <<board, accused, hint>>

NobodyAccused == [verdict |-> "none"]

PolicyInit ==
    /\ board = NoBoard
    /\ accused = NobodyAccused
    /\ hint = Fallback

-----------------------------------------------------------------------------
Field(seq, f(_)) == [i \in DOMAIN seq |-> f(seq[i])]
IdOf(x) == x.id

\* The suspects marked as the culprit.
Marked(case) == {s \in DOMAIN case.suspects : case.suspects[s].culprit}

\* Mutant: the marked suspects are counted, the solution is not compared.
Bug_ConsistentByCount(case) ==
    /\ Len(case.suspects) >= MinSuspects /\ Len(case.clues) >= MinClues
    /\ IsInjective(Field(case.suspects, IdOf)) /\ IsInjective(Field(case.clues, IdOf))
    /\ Cardinality(Marked(case)) = 1

\* CaseConsistencyPolicy.check finds nothing: it compares ids as they are spelt.
Consistent(case) ==
    /\ Len(case.suspects) >= MinSuspects /\ Len(case.clues) >= MinClues
    /\ IsInjective(Field(case.suspects, IdOf)) /\ IsInjective(Field(case.clues, IdOf))
    /\ \E s \in DOMAIN case.suspects :
          Marked(case) = {s} /\ case.suspects[s].id = case.solution

\* SolutionPolicy.evaluate: it compares ids however they are spelt.
Verdict(case, id) ==
    IF \A s \in DOMAIN case.suspects : Key[case.suspects[s].id] # Key[id] THEN "unknown"
    ELSE IF Key[id] = Key[case.solution] THEN "correct"
    ELSE "wrong"

\* HintGuardrailPolicy.check: the suspects a commentary gives away.  A name
\* always does, a role unless the quoted clue has it too.
GivenAway(commentary, case, quoted) ==
    {s \in DOMAIN case.suspects :
        \/ case.suspects[s].name \in commentary
        \/ case.suspects[s].role \in commentary \ quoted}

\* RequestHint._generate_hint_content: the commentary and the clue it quotes.
HintContent(case, answer) ==
    LET matching == {k \in DOMAIN case.clues : case.clues[k].id = answer.clue}
        first == CHOOSE k \in matching : \A j \in matching : k <= j
        quoted == case.clues[first].says
    IN  IF matching = {} \/ GivenAway(answer.commentary, case, quoted) # {} THEN Fallback
        ELSE [commentary |-> answer.commentary, quoted |-> quoted]

-----------------------------------------------------------------------------
\* Published by an administrator (PublishPolicy) or saved by a generation:
\* both ask CaseConsistencyPolicy first.
Publish(case) ==
    /\ board = NoBoard
    /\ Consistent(case)
    /\ board' = case
    /\ UNCHANGED <<accused, hint>>

Accuse(id) ==
    /\ board # NoBoard
    /\ accused' = [verdict |-> Verdict(board, id), id |-> id]
    /\ UNCHANGED <<board, hint>>

\* The assistant fails in any way: the use case falls back.
HintFails ==
    /\ board # NoBoard
    /\ hint' = Fallback
    /\ UNCHANGED <<board, accused>>

HintArrives(answer) ==
    /\ board # NoBoard
    /\ hint' = HintContent(board, answer)
    /\ UNCHANGED <<board, accused>>

PolicyNext ==
    \/ \E case \in Catalog : Publish(case)
    \/ \E id \in SuspectIds : Accuse(id)
    \/ HintFails
    \/ \E answer \in AssistantHint : HintArrives(answer)

PolicySpec == PolicyInit /\ [][PolicyNext]_policyVars

-----------------------------------------------------------------------------
\* No two suspects have ids that only differ in their spelling: so it is with
\* every id the pipelines and the seed make; for a document written by hand
\* CaseConsistencyPolicy does not ask.
SpeltApart(case) == IsInjective(Field(case.suspects, LAMBDA s : Key[s.id]))

\* Whoever is marked as the culprit, and nobody else, is the right answer,
\* however the player's client spells the id.
OnlyTheCulpritIsRight ==
    accused # NobodyAccused /\ SpeltApart(board) =>
        /\ accused.verdict = "correct" <=>
              \E s \in Marked(board) : Key[board.suspects[s].id] = Key[accused.id]
        /\ accused.verdict = "unknown" <=>
              \A s \in DOMAIN board.suspects : Key[board.suspects[s].id] # Key[accused.id]

\* Whoever is named or described in a hint, in the assistant's words or in the
\* quoted clue, is so in a clue that every player has read.
HintsAddNoSuspect ==
    hint # Fallback =>
        \A s \in DOMAIN board.suspects :
            {board.suspects[s].name, board.suspects[s].role} \cap (hint.commentary \cup hint.quoted)
                \subseteq UNION {board.clues[k].says : k \in DOMAIN board.clues}

\* What is published can be solved, in one way only, and the hints do not give
\* that way away ("must not reveal the culprit", hint_guardrail_policy.py:7).
BoardsAreFair == OnlyTheCulpritIsRight /\ HintsAddNoSuspect
=============================================================================
