------------------------------- MODULE CasePlay -------------------------------
(***************************************************************************)
(* The page on which a case is played: CasePlayViewModel, the part of      *)
(* CaseGenerationViewModel the page shows, and CasePlayScreen, which joins *)
(* them.  Every await is two actions, the call and its outcome, so the     *)
(* player and the other view model act in between.  One player and one     *)
(* visit; a case generated by stream s is named s.                         *)
(***************************************************************************)
EXTENDS Naturals

CONSTANTS
    Daily,       \* the case GET /cases/daily answers
    Streams,     \* the generations the player may start
    HintCap,     \* MAX_HINTS_PER_CASE
    None

ASSUME CapAssumption == HintCap \in Nat \ {0}
ASSUME NamesAssumption == Daily \notin Streams /\ None \notin Streams /\ None # Daily

Cases == {Daily} \cup Streams

VARIABLES
    status,      \* CasePlayStatus
    case,        \* detectiveCase
    selected,    \* the case whose suspect is selectedSuspectId
    hint,        \* the hint shown: whose it is, hintsRemaining, and (history) late:
                 \* its case had gone when it was answered
    result,      \* the verdict shown: whose it is, and alreadySolved
    message,     \* errorMessage
    hinting,     \* the case of the pending requestHint (isRequestingHint)
    submitting,  \* the pending submitSolution (isSubmitting): case and accused
    gen,         \* CaseGenerationState as the page shows it
    streams,     \* per generation: Stream
    used,        \* the service: hints recorded per case
    attempted,   \* the service: cases with a recorded attempt
    lost,        \* history: cases with a submission that brought no verdict
    masked       \* history: the error of a stream that had had its last event was
                 \* shown over another generation

service == <<used, attempted, lost>>
generation == <<gen, streams>>
vars == <<status, case, selected, hint, result, message, hinting, submitting, generation, service,
          masked>>

Status == {"loading", "error", "playing", "solved"}
Gen == {"idle", "inProgress", "quotaExhausted", "pipelineFailed", "networkError"}
Stream == {"none", "open", "ended", "closed"}  \* ended: had its last event
Hint == [case : Cases, left : 0..HintCap, late : BOOLEAN]
Result == [case : Cases, already : BOOLEAN]
Submission == [case : Cases, accused : Cases]
ASSUME NoneAssumption == None \notin Hint \cup Result \cup Submission

TypeOK ==
    /\ status \in Status
    /\ case \in Cases \cup {None}
    /\ selected \in Cases \cup {None}
    /\ hint \in Hint \cup {None}
    /\ result \in Result \cup {None}
    /\ message \in {"none", "refused", "unreachable"}
    /\ hinting \in Cases \cup {None}
    /\ submitting \in Submission \cup {None}
    /\ gen \in Gen
    /\ streams \in [Streams -> Stream]
    /\ used \in [Cases -> 0..HintCap]
    /\ attempted \subseteq Cases
    /\ lost \subseteq Cases
    /\ masked \in BOOLEAN

\* The screen's initState calls start().
Init ==
    /\ status = "loading"
    /\ case = None /\ selected = None
    /\ hint = None /\ result = None
    /\ message = "none"
    /\ hinting = None /\ submitting = None
    /\ gen = "idle"
    /\ streams = [s \in Streams |-> "none"]
    /\ used = [c \in Cases |-> 0]
    /\ attempted = {} /\ lost = {}
    /\ masked = FALSE

-----------------------------------------------------------------------------
(***************************************************************************)
(* start(): a player, then the daily case.                                 *)
(***************************************************************************)
Retry ==
    /\ status = "error"
    /\ status' = "loading"
    /\ message' = "none"
    /\ UNCHANGED <<case, selected, hint, result, hinting, submitting, generation, service, masked>>

Loaded ==
    /\ status = "loading"
    /\ status' = "playing"
    /\ case' = Daily
    /\ UNCHANGED <<selected, hint, result, message, hinting, submitting, generation, service, masked>>

\* An ApiException, or anything else (no connection, a timeout).
LoadFails ==
    /\ status = "loading"
    /\ status' = "error"
    /\ message' \in {"refused", "unreachable"}
    /\ UNCHANGED <<case, selected, hint, result, hinting, submitting, generation, service, masked>>

-----------------------------------------------------------------------------
(***************************************************************************)
(* Playing.                                                                *)
(***************************************************************************)
\* What the player may touch: the view of the case is shown; a hint is neither
\* pending nor the last one (requestHint's early returns say the same).
Playing == status = "playing"
MayRequestHint == hinting = None /\ (hint # None => hint.left > 0)

SelectSuspect ==
    /\ Playing
    /\ selected' = case
    /\ UNCHANGED <<status, case, hint, result, message, hinting, submitting, generation, service, masked>>

RequestHint ==
    /\ Playing /\ MayRequestHint
    /\ hinting' = case
    /\ UNCHANGED <<status, case, selected, hint, result, message, submitting, generation, service, masked>>

HintAnswered ==
    /\ hinting # None /\ used[hinting] < HintCap
    /\ used' = [used EXCEPT ![hinting] = @ + 1]
    /\ hint' = [case |-> hinting, left |-> HintCap - (used[hinting] + 1), late |-> hinting # case]
    /\ hinting' = None
    /\ UNCHANGED <<status, case, selected, result, message, submitting, generation, attempted, lost, masked>>

\* The service may record a hint or an attempt whose answer never arrives.
HintRecorded(c) == [used EXCEPT ![c] = IF used[c] < HintCap THEN used[c] + 1 ELSE HintCap]

\* Mutant: no finally block.
Bug_HintFailsUnsettled ==
    /\ hinting # None
    /\ used' \in {used, HintRecorded(hinting)}
    /\ UNCHANGED <<status, case, selected, hint, result, message, hinting, submitting, generation,
                   attempted, lost, masked>>

\* Refused (ApiException), or no answer; the finally block runs either way.
HintFails ==
    /\ hinting # None
    /\ used' \in {used, HintRecorded(hinting)}
    /\ hinting' = None
    /\ UNCHANGED <<status, case, selected, hint, result, message, submitting, generation,
                   attempted, lost, masked>>

SubmitSolution ==
    /\ Playing /\ submitting = None /\ selected # None
    /\ submitting' = [case |-> case, accused |-> selected]
    /\ message' = "none"
    /\ UNCHANGED <<status, case, selected, hint, result, hinting, generation, service, masked>>

\* Mutant: the result is kept, but the page goes on playing.
Bug_SubmitAnsweredPlaysOn ==
    /\ submitting # None
    /\ result' = [case |-> submitting.case, already |-> submitting.case \in attempted]
    /\ attempted' = attempted \cup {submitting.case}
    /\ submitting' = None
    /\ UNCHANGED <<status, case, selected, hint, message, hinting, generation, used, lost, masked>>

SubmitAnswered ==
    /\ submitting # None
    /\ result' = [case |-> submitting.case, already |-> submitting.case \in attempted]
    /\ attempted' = attempted \cup {submitting.case}
    /\ status' = "solved"
    /\ submitting' = None
    /\ UNCHANGED <<case, selected, hint, message, hinting, generation, used, lost, masked>>

\* The service has recorded nothing, or it has, and its verdict is lost.
NoVerdict ==
    \/ UNCHANGED <<attempted, lost>>
    \/ attempted' = attempted \cup {submitting.case} /\ lost' = lost \cup {submitting.case}

\* ApiException: a message.  The service may have failed after the record.
SubmitRefused ==
    /\ submitting # None
    /\ NoVerdict
    /\ message' = "refused"
    /\ submitting' = None
    /\ UNCHANGED <<status, case, selected, hint, result, hinting, generation, used, masked>>

\* No answer (a TimeoutException or a lost connection): only finally sees it.
SubmitFails ==
    /\ submitting # None
    /\ NoVerdict
    /\ submitting' = None
    /\ UNCHANGED <<status, case, selected, hint, result, message, hinting, generation, used, masked>>

-----------------------------------------------------------------------------
(***************************************************************************)
(* Generating another case: the button of the solved view.                 *)
(***************************************************************************)
game == <<status, case, selected, hint, result, message, hinting, submitting>>

\* Mutant: the button stays enabled while a generation runs.
Bug_MayGenerateMore == gen \in {"idle", "inProgress", "pipelineFailed", "networkError"}
MayGenerate == gen \in {"idle", "pipelineFailed", "networkError"}

\* start(); the streams are named in one order.
Generate(s) ==
    /\ status = "solved" /\ MayGenerate
    /\ streams[s] = "none" /\ s = CHOOSE t \in Streams : streams[t] = "none"
    /\ gen' = "inProgress"
    /\ streams' = [streams EXCEPT ![s] = "open"]
    /\ UNCHANGED <<game, service, masked>>

Dismiss ==
    /\ status = "solved" /\ gen \in {"quotaExhausted", "pipelineFailed", "networkError"}
    /\ gen' = "idle"
    /\ UNCHANGED <<game, streams, service, masked>>

\* Mutant: the hint of the last case is kept.
Bug_LoadKeepsHint(s) ==
    /\ case' = s
    /\ selected' = None /\ result' = None
    /\ message' = "none"
    /\ status' = "playing"
    /\ UNCHANGED <<hint, hinting, submitting>>

LoadGeneratedCase(s) ==
    /\ case' = s
    /\ selected' = None /\ hint' = None /\ result' = None
    /\ message' = "none"
    /\ status' = "playing"
    /\ UNCHANGED <<hinting, submitting>>

\* 'saving' is 'done': the screen's listener loads the case and resets.
StreamSucceeds(s) ==
    /\ streams[s] = "open"
    /\ LoadGeneratedCase(s)
    /\ gen' = "idle"
    /\ streams' = [streams EXCEPT ![s] = "ended"]
    /\ UNCHANGED <<service, masked>>

\* The last event says that it failed.
StreamRejected(s) ==
    /\ streams[s] = "open"
    /\ gen' \in {"pipelineFailed", "quotaExhausted"}
    /\ streams' = [streams EXCEPT ![s] = "ended"]
    /\ UNCHANGED <<game, service, masked>>

\* There is no stream but a 429, and its body was read.
StreamRefused(s) ==
    /\ streams[s] = "open"
    /\ gen' = "quotaExhausted"
    /\ streams' = [streams EXCEPT ![s] = "closed"]
    /\ UNCHANGED <<game, service, masked>>

\* start() leaves the loop; the page learns nothing from it.
StreamEnds(s) ==
    /\ streams[s] = "ended"
    /\ streams' = [streams EXCEPT ![s] = "closed"]
    /\ UNCHANGED <<game, gen, service, masked>>

\* Mutant: an error is not shown.
Bug_StreamBreaksUncaught(s) ==
    /\ streams[s] = "open"
    /\ streams' = [streams EXCEPT ![s] = "closed"]
    /\ UNCHANGED <<game, gen, service, masked>>

\* An exception, at any time before the end: the idle timeout, another error
\* answer.  start() does not ask whether its stream is still the latest.
StreamBreaks(s) ==
    /\ streams[s] \in {"open", "ended"}
    /\ gen' = "networkError"
    /\ streams' = [streams EXCEPT ![s] = "closed"]
    /\ masked' = (masked \/ (streams[s] = "ended" /\ gen = "inProgress"))
    /\ UNCHANGED <<game, service>>

Next ==
    \/ Retry \/ Loaded \/ LoadFails
    \/ SelectSuspect
    \/ RequestHint \/ HintAnswered \/ HintFails
    \/ SubmitSolution \/ SubmitAnswered \/ SubmitRefused \/ SubmitFails
    \/ Dismiss
    \/ \E s \in Streams :
          \/ Generate(s) \/ StreamSucceeds(s) \/ StreamRejected(s) \/ StreamRefused(s)
          \/ StreamEnds(s) \/ StreamBreaks(s)

Spec == Init /\ [][Next]_vars

\* A call of CaseApiClient is answered or times out.  The player owes nothing,
\* and neither does a generation: the body of an error answer is read without
\* a timeout (GenerationStream).
FairSpec ==
    /\ Spec
    /\ WF_vars(Loaded \/ LoadFails)
    /\ WF_vars(HintAnswered \/ HintFails)
    /\ WF_vars(SubmitAnswered \/ SubmitRefused \/ SubmitFails)

-----------------------------------------------------------------------------
\* What the page shows belongs to the case it shows ("playing a generated case
\* looks and behaves identically to playing the daily case",
\* case_play_view_model.dart:59): a hint of another case is one that was asked
\* for before the case was loaded and answered after it, never one kept.
HintIsForThisCase == hint # None /\ ~hint.late => hint.case = case

\* The accused is a suspect of the case of the submission, whatever was loaded
\* in between.
AccusationFitsCase == submitting # None => submitting.accused = submitting.case

\* The verdict shown is about the case the player was playing, unless several
\* generations ran at once.
ResultIsForThisCase == status = "solved" => result # None /\ (masked \/ result.case = case)

\* A player who has hints left on this case can ask for one, unless the hint
\* shown came late.
HintsStayAvailable ==
    status = "playing" /\ used[case] < HintCap => hint = None \/ hint.late \/ hint.left > 0

\* Everything on the page is about one case, the case shown.
PageFitsCase == HintIsForThisCase /\ HintsStayAvailable /\ AccusationFitsCase /\ ResultIsForThisCase

\* "Already solved" without points comes as a surprise only to a player whose
\* earlier verdict was lost.
AlreadySolvedOnlyAfterLoss == result # None /\ result.already => result.case \in lost

\* start() leaves an earlier stream alone, and Retry is offered before that has
\* ended.  One thing alone makes a generation take away a case that is being
\* played: the late error of an earlier stream, shown over a running generation,
\* after which the page lets the player start one more.
ReplacedOnlyIfMasked ==
    [][status = "playing" /\ status' = "playing" /\ case' # case => masked]_vars

\* The page waits for a generation that is running, and for nothing else.
ProgressIsReal == gen = "inProgress" => \E s \in Streams : streams[s] = "open"

\* No spinner over a call of CaseApiClient turns for ever, whatever fails
\* (case_api_client.dart:22).
SpinnersStop ==
    /\ status = "loading" ~> status # "loading"
    /\ hinting # None ~> hinting = None
    /\ submitting # None ~> submitting = None

\* A submission that ends without a verdict leaves a message on the page
\* ("Could not reach the server", case_api_client.dart:27).
FailureIsReported ==
    [][submitting # None /\ submitting' = None /\ result' = result => message' # "none"]_vars
=============================================================================
