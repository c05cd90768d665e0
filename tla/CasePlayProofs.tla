---------------------------- MODULE CasePlayProofs ----------------------------
(***************************************************************************)
(* Theorems about CasePlay for any number of generations and hints.        *)
(***************************************************************************)
EXTENDS CasePlay, TLAPS

-----------------------------------------------------------------------------
(***************************************************************************)
(* The invariant.                                                          *)
(***************************************************************************)
\* Nothing has happened before the page is loaded.
NothingBeforeLoad ==
    /\ status \in {"loading", "error"} =>
        /\ hint = None /\ result = None /\ selected = None
        /\ hinting = None /\ submitting = None
        /\ attempted = {}
        /\ \A s \in Streams : streams[s] = "none"
    /\ status \in {"playing", "solved"} => case \in Cases

\* The chosen and the accused suspect belong to the case at hand.
SuspectFits ==
    /\ selected # None => selected = case
    /\ AccusationFitsCase

\* The hint shown, unless it came late, belongs to the case and has at least as
\* many left as the service has.
HintFits ==
    hint # None /\ ~hint.late => hint.case = case /\ hint.left >= HintCap - used[case]

\* A solved page shows a verdict.  Until a generation was masked, at most one
\* runs, on the solved page, and what was submitted and answered is the case
\* at hand.
OneAtATime ==
    /\ status = "solved" => result # None
    /\ ~masked =>
        /\ \A s \in Streams : streams[s] = "open" => status = "solved" /\ gen = "inProgress"
        /\ \A s, t \in Streams : streams[s] = "open" /\ streams[t] = "open" => s = t
        /\ submitting # None => status = "playing" /\ submitting.case = case
        /\ status = "solved" => result.case = case

\* A case whose generation has not ended was neither shown nor attempted.
NotYetSeen ==
    \A s \in Streams : streams[s] \in {"none", "open"} =>
        /\ s # case /\ s \notin attempted
        /\ submitting # None => submitting.case # s

\* A case that is being played or submitted again was attempted in vain.
AttemptedInVain ==
    /\ status = "playing" /\ case \in attempted => case \in lost
    /\ submitting # None /\ submitting.case \in attempted => submitting.case \in lost

PageInv ==
    /\ TypeOK /\ NothingBeforeLoad
    /\ SuspectFits /\ HintFits
    /\ OneAtATime /\ ProgressIsReal
    /\ NotYetSeen /\ AttemptedInVain /\ AlreadySolvedOnlyAfterLoss

LEMMA InitPageInv == Init => PageInv
<1> SUFFICES ASSUME Init PROVE PageInv
  OBVIOUS
<1> USE CapAssumption, NamesAssumption DEF Init
<1>1. TypeOK
  <2>1. masked \in BOOLEAN
    OBVIOUS
  <2>2. used \in [Cases -> 0..HintCap] /\ streams \in [Streams -> Stream]
    BY DEF Stream
  <2> QED
    BY <2>1, <2>2 DEF TypeOK, Status, Gen
<1>2. NothingBeforeLoad /\ SuspectFits /\ HintFits /\ OneAtATime
  BY DEF NothingBeforeLoad, SuspectFits, AccusationFitsCase, HintFits, OneAtATime
<1>3. ProgressIsReal /\ NotYetSeen /\ AttemptedInVain /\ AlreadySolvedOnlyAfterLoss
  BY DEF ProgressIsReal, NotYetSeen, AttemptedInVain, AlreadySolvedOnlyAfterLoss, Cases
<1> QED
  BY <1>1, <1>2, <1>3 DEF PageInv

\* A hint as HintAnswered makes it.
LEMMA HintType ==
  ASSUME NEW c \in Cases, NEW left \in 0..HintCap, NEW late \in BOOLEAN
  PROVE  LET h == [case |-> c, left |-> left, late |-> late]
         IN  h \in Hint /\ h.case = c /\ h.left = left /\ h.late = late
  BY DEF Hint

LEMMA NextPageInv ==
  ASSUME PageInv, [Next]_vars
  PROVE  PageInv'
<1> USE CapAssumption, NamesAssumption
    DEF PageInv, TypeOK, Status, Gen, Stream, Cases, NothingBeforeLoad, SuspectFits,
        AccusationFitsCase, HintFits, OneAtATime, ProgressIsReal, NotYetSeen, AttemptedInVain,
        AlreadySolvedOnlyAfterLoss, generation, service, game
<1>1. CASE UNCHANGED vars
  BY <1>1 DEF vars
<1>2. CASE Retry
  BY <1>2 DEF Retry
<1>3. CASE Loaded
  BY <1>3 DEF Loaded
<1>4. CASE LoadFails
  BY <1>4 DEF LoadFails
<1>5. CASE SelectSuspect
  BY <1>5 DEF SelectSuspect, Playing
<1>6. CASE RequestHint
  BY <1>6 DEF RequestHint, Playing, MayRequestHint
<1>7. CASE HintAnswered
  <2>1. /\ hinting # None /\ hinting \in Cases /\ used[hinting] < HintCap
        /\ used' = [used EXCEPT ![hinting] = @ + 1]
        /\ hint' = [case |-> hinting, left |-> HintCap - (used[hinting] + 1), late |-> hinting # case]
        /\ hinting' = None
        /\ UNCHANGED <<status, case, selected, result, message, submitting, gen, streams, attempted, lost,
                       masked>>
    BY <1>7 DEF HintAnswered
  <2>2. HintCap - (used[hinting] + 1) \in 0..HintCap
    BY <2>1
  <2>3. /\ hint' \in Hint /\ hint'.case = hinting /\ hint'.late = (hinting # case)
        /\ hint'.left = HintCap - (used[hinting] + 1)
    <3> HIDE DEF PageInv, Cases
    <3> QED
      BY <2>1, <2>2, HintType
  <2>4. used' \in [Cases -> 0..HintCap] /\ used'[hinting] = used[hinting] + 1
    BY <2>1
  <2> HIDE DEF Hint
  <2>5. TypeOK' /\ NothingBeforeLoad'
    BY <2>1, <2>3, <2>4
  <2>6. HintFits'
    <3>1. ASSUME ~hint'.late PROVE hint'.case = case'
      BY <2>1, <2>3, <3>1
    <3>2. ASSUME hint'.case = case' PROVE hint'.left >= HintCap - used'[case']
      <4>1. case' = hinting
        BY <2>3, <3>2
      <4> QED
        BY <2>1, <2>3, <2>4, <4>1
    <3> QED
      BY <3>1, <3>2
  <2>7. SuspectFits' /\ OneAtATime' /\ ProgressIsReal' /\ NotYetSeen' /\ AttemptedInVain'
        /\ AlreadySolvedOnlyAfterLoss'
    BY <2>1
  <2> QED
    BY <2>5, <2>6, <2>7
<1>8. CASE HintFails
  BY <1>8 DEF HintFails, HintRecorded, Hint
<1>9. CASE SubmitSolution
  BY <1>9 DEF SubmitSolution, Playing, Submission
<1>10. CASE SubmitAnswered
  <2>1. /\ submitting # None /\ submitting \in Submission /\ submitting.case \in Cases
        /\ result' = [case |-> submitting.case, already |-> submitting.case \in attempted]
    BY <1>10 DEF SubmitAnswered, Submission
  <2>2. result' \in Result /\ result'.case = submitting.case
    BY <2>1 DEF Result
  <2>3. result'.already => submitting.case \in attempted
    BY <2>1
  <2>4. result' # None
    BY <2>1, <2>2, NoneAssumption
  <2> HIDE DEF Submission, Result
  <2>5. /\ status' = "solved" /\ submitting' = None
        /\ attempted' = attempted \cup {submitting.case}
        /\ UNCHANGED <<case, selected, hint, message, hinting, gen, streams, used, lost, masked>>
    BY <1>10 DEF SubmitAnswered
  <2>6. TypeOK' /\ NothingBeforeLoad'
    BY <2>1, <2>2, <2>5
  <2>7. SuspectFits' /\ HintFits'
    BY <2>5
  <2>8. OneAtATime' /\ ProgressIsReal'
    BY <2>1, <2>2, <2>4, <2>5
  <2>9. NotYetSeen'
    BY <2>1, <2>5
  <2>10. AttemptedInVain'
    BY <2>5
  <2>11. AlreadySolvedOnlyAfterLoss'
    BY <2>1, <2>2, <2>3, <2>5
  <2> QED
    BY <2>6, <2>7, <2>8, <2>9, <2>10, <2>11
<1>11. CASE SubmitRefused
  BY <1>11 DEF SubmitRefused, NoVerdict, Submission
<1>12. CASE SubmitFails
  BY <1>12 DEF SubmitFails, NoVerdict, Submission
<1>13. CASE Dismiss
  BY <1>13 DEF Dismiss
<1>14. ASSUME NEW s \in Streams, Generate(s) PROVE PageInv'
  BY <1>14 DEF Generate, MayGenerate
<1>15. ASSUME NEW s \in Streams, StreamSucceeds(s) PROVE PageInv'
  BY <1>15 DEF StreamSucceeds, LoadGeneratedCase
<1>16. ASSUME NEW s \in Streams, StreamRejected(s) PROVE PageInv'
  BY <1>16 DEF StreamRejected
<1>17. ASSUME NEW s \in Streams, StreamEnds(s) PROVE PageInv'
  BY <1>17 DEF StreamEnds
<1>18. ASSUME NEW s \in Streams, StreamBreaks(s) PROVE PageInv'
  <2>1. /\ streams[s] \in {"open", "ended"} /\ gen' = "networkError"
        /\ streams' = [streams EXCEPT ![s] = "closed"]
        /\ masked' = (masked \/ (streams[s] = "ended" /\ gen = "inProgress"))
        /\ UNCHANGED <<status, case, selected, hint, result, message, hinting, submitting, used, attempted,
                       lost>>
    BY <1>18 DEF StreamBreaks
  <2>2. TypeOK' /\ ProgressIsReal'
    BY <2>1
  <2>3. NothingBeforeLoad' /\ NotYetSeen'
    BY <2>1
  <2>4. SuspectFits' /\ HintFits' /\ AttemptedInVain' /\ AlreadySolvedOnlyAfterLoss'
    BY <2>1
  <2>5. ASSUME ~masked' PROVE \A t \in Streams : streams'[t] # "open"
    <3>1. ~masked /\ (streams[s] = "open" \/ gen # "inProgress")
      BY <2>1, <2>5
    <3> QED
      BY <2>1, <3>1
  <2>6. OneAtATime'
    <3>1. status' = "solved" => result' # None
      BY <2>1
    <3>2. ~masked' => ~masked
      BY <2>1
    <3> QED
      BY <2>1, <2>5, <3>1, <3>2
  <2> QED
    BY <2>2, <2>3, <2>4, <2>6
<1>19. ASSUME NEW s \in Streams, StreamRefused(s) PROVE PageInv'
  BY <1>19 DEF StreamRefused
<1> QED
  BY <1>1, <1>2, <1>3, <1>4, <1>5, <1>6, <1>7, <1>8, <1>9, <1>10, <1>11, <1>12, <1>13, <1>14,
     <1>15, <1>16, <1>17, <1>18, <1>19 DEF Next

LEMMA PageIsInvariant == Spec => []PageInv
  BY InitPageInv, NextPageInv, PTL DEF Spec

-----------------------------------------------------------------------------
\* Every variable keeps its type.
THEOREM CasePlayTypeOK == Spec => []TypeOK
<1>1. PageInv => TypeOK
  BY DEF PageInv
<1> QED
  BY <1>1, PageIsInvariant, PTL

\* A submission never accuses a suspect of another case, whatever is loaded
\* while it is pending.
THEOREM AccusationsFit == Spec => []AccusationFitsCase
<1>1. PageInv => AccusationFitsCase
  BY DEF PageInv, SuspectFits
<1> QED
  BY <1>1, PageIsInvariant, PTL

\* Unless it came late, the hint on the page is about the case on the page, and
\* a player with hints left can ask for one.
THEOREM HintsAreForThisCase == Spec => [](HintIsForThisCase /\ HintsStayAvailable)
<1>1. PageInv => HintIsForThisCase
  BY DEF PageInv, HintFits, HintIsForThisCase
<1>2. PageInv => HintsStayAvailable
  BY NamesAssumption, CapAssumption
  DEF PageInv, HintFits, HintsStayAvailable, TypeOK, NothingBeforeLoad, Hint
<1> QED
  BY <1>1, <1>2, PageIsInvariant, PTL

\* Unless a running generation was masked by an earlier one's late error, the
\* verdict on the page is about the case that was played.
THEOREM VerdictsAreForThisCase == Spec => []ResultIsForThisCase
<1>1. PageInv => ResultIsForThisCase
  BY DEF PageInv, OneAtATime, ResultIsForThisCase
<1> QED
  BY <1>1, PageIsInvariant, PTL

\* However many generations a player starts, and however late their streams end
\* or break: a case that is being played is replaced only after the error of an
\* earlier stream was shown over a running generation.
THEOREM ReplacementNeedsMasking == Spec => ReplacedOnlyIfMasked
<1> DEFINE Kept == status = "playing" /\ status' = "playing" /\ case' # case => masked
<1>1. ASSUME PageInv, [Next]_vars PROVE [Kept]_vars
  <2>1. ASSUME NEW s \in Streams, StreamSucceeds(s), ~masked PROVE status # "playing"
    BY <1>1, <2>1 DEF PageInv, OneAtATime, StreamSucceeds
  <2> QED
    BY <1>1, <2>1
    DEF Next, vars, game, Retry, Loaded, LoadFails, SelectSuspect, RequestHint, HintAnswered, HintFails,
        SubmitSolution, SubmitAnswered, SubmitRefused, SubmitFails, Dismiss, Generate, StreamRejected,
        StreamRefused, StreamEnds, StreamBreaks
<1>2. Spec => [][Kept]_vars
  BY <1>1, PageIsInvariant, PTL DEF Spec
<1> QED
  BY <1>2 DEF ReplacedOnlyIfMasked

\* "Already solved" without points is shown only to a player whose earlier
\* verdict on this case was lost.
THEOREM AlreadySolvedMeansLoss == Spec => []AlreadySolvedOnlyAfterLoss
<1>1. PageInv => AlreadySolvedOnlyAfterLoss
  BY DEF PageInv
<1> QED
  BY <1>1, PageIsInvariant, PTL

\* The page shows a generation in progress only while a stream of one is open,
\* so that an event can still take it further, whatever ends early or fails.
THEOREM ProgressIsAlwaysReal == Spec => []ProgressIsReal
<1>1. PageInv => ProgressIsReal
  BY DEF PageInv
<1> QED
  BY <1>1, PageIsInvariant, PTL

\* Everything on the page is about the case shown.
THEOREM PageAlwaysFits == Spec => []PageFitsCase
  BY AccusationsFit, HintsAreForThisCase, VerdictsAreForThisCase, PTL DEF PageFitsCase
=============================================================================
