------------------------------ MODULE MCCasePlay ------------------------------
(***************************************************************************)
(* The daily case and up to three generations.                             *)
(***************************************************************************)
EXTENDS CasePlay, FiniteSets

\* Hints of a case that is gone and of the case at hand can meet: a visit in
\* which two cases are hinted at is enough.
HintsStayFew == Cardinality({c \in Cases : used[c] > 0}) <= 2
=============================================================================
