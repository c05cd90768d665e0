---------------------------- MODULE ContentPipeline ----------------------------
(***************************************************************************)
(* CaseGenerationPipeline.process: what becomes of a raw candidate of the  *)
(* offline generator, stage by stage.  The judges are language models; a   *)
(* verdict is an input.                                                    *)
(***************************************************************************)
EXTENDS Naturals, FiniteSets

CONSTANTS
    Names,   \* names of suspects
    Raws     \* the raw candidates that occur

People == 1..3   \* MIN_SUSPECTS; more of them change nothing below

\* A raw candidate: are the fields there and of their types, who is in it, who
\* is said to have done it, is a text too short, too long or unfit.
Raw == [complete : BOOLEAN, names : [People -> Names], culprit : Names, offends : BOOLEAN]

ASSUME RawsAssumption == Raws \subseteq Raw

\* parse_case_candidate marks by name.
Culprits(raw) == {s \in People : raw.names[s] = raw.culprit}

Parses(raw) == raw.complete /\ Culprits(raw) # {}

DistinctNames(raw) == \A s, t \in People : raw.names[s] = raw.names[t] => s = t

\* Mutant: the names are not compared.
Bug_RulesPassTwins(raw) == Cardinality(Culprits(raw)) = 1 /\ ~raw.offends

\* validate_rules
RulesPass(raw) == DistinctNames(raw) /\ Cardinality(Culprits(raw)) = 1 /\ ~raw.offends

\* The stage a candidate fails before it costs a call, or "none".
EarlyStage(raw) ==
    IF ~Parses(raw) THEN "schema" ELSE IF ~RulesPass(raw) THEN "rules" ELSE "none"
=============================================================================
