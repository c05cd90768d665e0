---------------------------- MODULE MCPlayerGame -----------------------------
(***************************************************************************)
(* Small instances of PlayerGame.                                          *)
(***************************************************************************)
EXTENDS PlayerGame, FiniteSetsExt, TLC

\* Bound: players whose calls overlap meet no crash and no expiry, score three
\* times and record one hint more than a case admits, in all cases together.
OneDisturbance ==
    \A p \in overlapped :
        /\ crashes + expiries = 0
        /\ Len(scored[p]) <= 3
        /\ MapThenSumSet(LAMBDA c : Len(hints[<<p, c>>]), Cases) <= MaxHints + 1

\* The state without the dead fields of a thread: an idle one has forgotten
\* its call, and one that has recorded uses nothing of what it had read.
Live ==
    LET job(w) == IF work[w].pc \in {"record", "hint_answer"}
                  THEN <<work[w].pc, Key(w), work[w].right>> ELSE work[w]
    IN  <<docs, crashes, expiries, overlapped, scored, delivered,
          [w \in {v \in Workers : Busy(v)} |-> job(w)]>>

Symmetry == Permutations(Players) \cup Permutations(Cases) \cup Permutations(Workers)
=============================================================================
