----------------------------- MODULE MCCaseContent -----------------------------
(***************************************************************************)
(* The programs that make and judge case content, side by side: a          *)
(* behaviour is one of the live adapter, of the batch script, of the       *)
(* evaluation script or of the policies.  They share no state.             *)
(***************************************************************************)
EXTENDS LiveCaseGenerator, DraftBatch, EvaluateCases, CasePolicies

CONSTANTS table, door, box, ledger, stack, book, ann, bob, cyd, golden, subtle, loud, guard, clerk

\* One scenario template and two of the draws.
MCTemplates == {[incident |-> table, alibis |-> <<door, box>>, items |-> <<stack, ledger, book>>]}
MCDraws == {[template |-> t, roles |-> <<2, 3, 1>>, culprit |-> c, alibis |-> <<2, 1>>, claim |-> c - 1] :
               t \in MCTemplates, c \in 2..3}

Case(complete, names, culprit, offends) ==
    [complete |-> complete, names |-> names, culprit |-> culprit, offends |-> offends]
Fine == Case(TRUE, <<ann, bob, cyd>>, bob, FALSE)
Offending == Case(TRUE, <<ann, bob, cyd>>, bob, TRUE)

\* Two of a name, the culprit's name twice, nobody of that name, a field missing.
MCRaws ==
    {Fine, Offending,
     Case(TRUE, <<ann, bob, ann>>, bob, FALSE), Case(TRUE, <<ann, bob, bob>>, bob, FALSE),
     Case(TRUE, <<ann, bob, bob>>, cyd, FALSE), Case(FALSE, <<ann, bob, cyd>>, bob, FALSE)}

MCContent == [f \in {golden, subtle, loud} |-> IF f = loud THEN Offending ELSE Fine]

\* Ids, of which "S1" is another spelling of the first.
MCKey == [id \in {"s1", "S1", "s2", "s3", "s4"} |-> IF id = "S1" THEN "s1" ELSE id]

\* Ann and Bob are guards, Cyd is a clerk; bob did it.
Person(id, name, did) ==
    [id |-> id, name |-> name, role |-> IF name = cyd THEN clerk ELSE guard, culprit |-> did]
Trio(a, b, c) == <<Person(a, ann, FALSE), Person(b, bob, TRUE), Person(c, cyd, FALSE)>>
Clue(id, says) == [id |-> id, says |-> says]
MCClues == <<Clue("k1", {guard}), Clue("k2", {cyd}), Clue("k3", {})>>
Board(suspects, clues, solution) == [suspects |-> suspects, clues |-> clues, solution |-> solution]

\* A sound case, one whose ids only differ in their spelling, and what
\* CaseConsistencyPolicy is there for.
MCCatalog ==
    {Board(Trio("s1", "s2", "s3"), MCClues, "s2"),
     Board(Trio("s1", "S1", "s3"), MCClues, "S1"),
     Board(Trio("s1", "s2", "s2"), MCClues, "s2"),
     Board(Trio("s1", "s2", "s3"), MCClues, "s1"),
     Board(Trio("s2", "S1", "s3"), MCClues, "s1"),
     Board([Trio("s1", "s2", "s3") EXCEPT ![3].culprit = TRUE], MCClues, "s2"),
     Board([Trio("s1", "s2", "s3") EXCEPT ![2].culprit = FALSE], MCClues, "s2"),
     Board(SubSeq(Trio("s1", "s2", "s3"), 1, 2), MCClues, "s2"),
     Board(Trio("s1", "s2", "s3"), SubSeq(MCClues, 1, 2), "s2"),
     Board(Trio("s1", "s2", "s3"), [MCClues EXCEPT ![3].id = "k1"], "s2")}

VARIABLE side
all == <<side, liveVars, batchVars, evalVars, policyVars>>

Init ==
    /\ side \in {"live", "batch", "evaluation", "policies"}
    /\ LiveInit /\ BatchInit /\ EvalInit /\ PolicyInit
    /\ side # "evaluation" => ~only
Next ==
    \/ side = "live" /\ LiveNext /\ UNCHANGED <<side, batchVars, evalVars, policyVars>>
    \/ side = "batch" /\ BatchNext /\ UNCHANGED <<side, liveVars, evalVars, policyVars>>
    \/ side = "evaluation" /\ EvalNext /\ UNCHANGED <<side, liveVars, batchVars, policyVars>>
    \/ side = "policies" /\ PolicyNext /\ UNCHANGED <<side, liveVars, batchVars, evalVars>>
Spec == Init /\ [][Next]_all
=============================================================================
