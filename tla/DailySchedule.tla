---------------------------- MODULE DailySchedule -----------------------------
(***************************************************************************)
(* Who publishes the daily case: Cloud Scheduler's job publish-daily-case  *)
(* (docs/operations.md section 7: every day at 06:00 UTC, an attempt       *)
(* deadline of 30 s, up to 3 retries) calls POST publish-next-daily, whose *)
(* steps are those of CaseLifecycle, while administrators make their own   *)
(* calls.                                                                  *)
(*                                                                         *)
(* An attempt that the job gave up keeps running on its thread: the retry  *)
(* meets whatever it has done, or does later.                              *)
(***************************************************************************)
EXTENDS CaseLifecycle

CONSTANTS
    MaxRetries,  \* --max-retry-attempts of the job
    NoCaller,    \* no thread serves the current attempt
    MaxSlips,    \* bound: lost requests, lost answers and missed deadlines a day
    MaxEdits     \* bound: administrators' calls

ASSUME ScheduleAssumption ==
    /\ MaxRetries \in Nat /\ MaxSlips \in Nat /\ MaxEdits \in Nat
    /\ NoCaller \notin Callers

VARIABLES
    phase,     \* of today's firing: before 06:00, an attempt due, one under way, over
    attempt,   \* the thread serving the attempt under way
    late,      \* threads still serving an attempt whose deadline passed
    failures,  \* attempts of today's firing that failed
    slips,     \* of today's firing, against their bound
    moves,     \* history: times today's firing has changed the daily case
    edits      \* administrators' calls so far, against their bound

firing == <<phase, attempt, late, failures, slips, moves>>
scheduleVars == <<vars, firing, edits>>

ScheduleTypeOK ==
    /\ TypeOK
    /\ phase \in {"waiting", "due", "calling", "done"}
    /\ attempt \in Callers \cup {NoCaller}
    /\ late \subseteq Callers
    /\ failures \in 0..(MaxRetries + 1)
    /\ slips \in Nat /\ moves \in Nat /\ edits \in Nat

ScheduleInit ==
    /\ Init
    /\ phase = "waiting" /\ attempt = NoCaller /\ late = {}
    /\ failures = 0 /\ slips = 0 /\ moves = 0 /\ edits = 0

-----------------------------------------------------------------------------
(***************************************************************************)
(* The job.                                                                *)
(***************************************************************************)
\* 06:00 UTC.
Fire ==
    /\ phase = "waiting"
    /\ phase' = "due"
    /\ UNCHANGED <<vars, attempt, late, failures, slips, moves, edits>>

\* An attempt failed: another one, or the job is over for today.
Failed ==
    /\ failures' = failures + 1
    /\ phase' = IF failures < MaxRetries THEN "due" ELSE "done"
    /\ attempt' = NoCaller

\* Something between the job and the application went wrong.
Slip ==
    /\ slips < MaxSlips
    /\ slips' = slips + 1

\* The request reaches a thread, which lists the publishable cases.
Attempt(w) ==
    /\ phase = "due"
    /\ NextList(w)
    /\ phase' = "calling"
    /\ attempt' = w
    /\ UNCHANGED <<late, failures, slips, moves, edits>>

\* The list is empty: NoPublishableCaseError, a 409.
AttemptRefused ==
    /\ phase = "due"
    /\ \A c \in Curated : ~IsEligible(c)
    /\ Failed
    /\ UNCHANGED <<vars, late, slips, moves, edits>>

\* The request is lost.
AttemptLost ==
    /\ phase = "due"
    /\ Slip
    /\ Failed
    /\ UNCHANGED <<vars, late, moves, edits>>

\* The deadline passes; the thread knows nothing of it.
DeadlinePasses ==
    /\ phase = "calling"
    /\ Slip
    /\ Failed
    /\ late' = late \cup {attempt}
    /\ UNCHANGED <<vars, moves, edits>>

-----------------------------------------------------------------------------
(***************************************************************************)
(* The threads.                                                            *)
(***************************************************************************)
\* One step of whatever call thread w serves.
Step(w) == NextChoose(w) \/ PublishRead(w) \/ PublishSave(w) \/ SetDaily(w) \/ DecisionSave(w)

\* What the firing makes of the end of w's call.
Answer(w, ok) ==
    IF w = attempt
    THEN /\ IF ok THEN phase' = "done" /\ attempt' = NoCaller /\ UNCHANGED failures ELSE Failed
         /\ UNCHANGED late
    ELSE /\ late' = late \ {w}
         /\ UNCHANGED <<phase, attempt, failures>>

CountMoves(w) ==
    moves' = IF w \in late \cup {attempt} /\ daily' # daily THEN moves + 1 ELSE moves

\* Only the last step, set_daily, answers 200.
Proceed(w) ==
    /\ Step(w)
    /\ IF job'[w].pc = "idle" THEN Answer(w, job[w].pc = "set_daily")
                              ELSE UNCHANGED <<phase, attempt, late, failures>>
    /\ CountMoves(w)
    /\ UNCHANGED <<slips, edits>>

\* The day's case is set, and the answer that says so is lost.
AnswerLost(w) ==
    /\ w = attempt
    /\ SetDaily(w)
    /\ Slip
    /\ Answer(w, FALSE)
    /\ CountMoves(w)
    /\ UNCHANGED edits

Stop(w) ==
    /\ Crash(w)
    /\ Answer(w, FALSE)
    /\ UNCHANGED <<slips, moves, edits>>

\* An administrator's call.
Edit(w, c) ==
    /\ edits < MaxEdits
    /\ edits' = edits + 1
    /\ ApproveRead(w, c) \/ RejectRead(w, c) \/ PublishStart(w, c)
    /\ UNCHANGED firing

CaseGenerated(c) == SaveGenerated(c) /\ UNCHANGED <<firing, edits>>

\* The firing and whatever it left running are over long before midnight.
Midnight ==
    /\ phase = "done" /\ late = {}
    /\ NextDay
    /\ phase' = "waiting" /\ failures' = 0 /\ slips' = 0 /\ moves' = 0
    /\ UNCHANGED <<attempt, late, edits>>

ScheduleNext ==
    \/ Fire \/ AttemptRefused \/ AttemptLost \/ DeadlinePasses \/ Midnight
    \/ \E w \in Callers :
          \/ Attempt(w) \/ Proceed(w) \/ AnswerLost(w) \/ Stop(w)
          \/ \E c \in Cases : Edit(w, c)
    \/ \E c \in Generated : CaseGenerated(c)

\* The job fires and retries by itself; a thread that has taken a call goes on
\* with it.  Nobody has to make a call, and nothing has to fail.
Fairness ==
    /\ WF_scheduleVars(Fire)
    /\ WF_scheduleVars(AttemptRefused \/ \E w \in Callers : Attempt(w))
    /\ \A w \in Callers : WF_scheduleVars(Proceed(w))

ScheduleSpec == ScheduleInit /\ [][ScheduleNext]_scheduleVars /\ Fairness

-----------------------------------------------------------------------------
\* Some curated case is in order and was approved, or published before.
Publishable == \E c \in Curated \cap Sound : status[c] \in {"approved", "live"}

\* ADR-0006's point: no day stays without a case because nobody thought of it.
\* As long as the catalog has a publishable case, the day gets one once the
\* job fires, whatever step a call is cut off at (the retry takes the
\* case that is live already) and whatever administrators do meanwhile.
FiringPublishes ==
    []Publishable =>
        \A d \in Days : (today = d /\ phase = "due") ~> (daily[d] # NoCase)

\* The case players were given this morning is replaced by the same firing
\* only when a request or an answer was lost or late: a call that is cut off,
\* or that fails, has not shown anybody a case yet.
ReplacedOnlyAfterASlip == moves <= 1 + slips
=============================================================================
