---------------------------- MODULE CaseLifecycle -----------------------------
(***************************************************************************)
(* The case catalog: the status of every case document and the dated       *)
(* pointer daily_cases/<day>, moved by the admin endpoints (approve,       *)
(* reject, publish-daily), by Cloud Scheduler (publish-next-daily) and by  *)
(* live generation.                                                        *)
(*                                                                         *)
(* Every endpoint reads, decides, and writes the whole document back       *)
(* without a transaction.  overlapped records whether two endpoint calls   *)
(* were ever served at once: what is promised of an administrator who      *)
(* makes one call at a time is stated for behaviours where they were not.  *)
(***************************************************************************)
EXTENDS Naturals, FiniteSets

CONSTANTS
    Curated,     \* cases with source "curated"
    Generated,   \* cases with source "live_generated", saved by players' requests
    Sound,       \* the cases whose content passes CaseConsistencyPolicy
    Age,         \* [Cases -> Nat], created_at; the smaller the older
    NoCase,      \* no daily case / no case chosen yet
    Callers,     \* threads serving admin endpoints
    LastDay,     \* bound: UTC days 1..LastDay
    MaxCrashes   \* bound: calls cut off between two steps

Cases == Curated \cup Generated

ASSUME CatalogAssumption ==
    /\ Curated \cap Generated = {} /\ NoCase \notin Cases
    /\ Generated \subseteq Sound /\ Sound \subseteq Cases
    /\ Age \in [Cases -> Nat]
ASSUME LifecycleBoundsAssumption == LastDay \in Nat \ {0} /\ MaxCrashes \in Nat

VARIABLES
    today,      \* datetime.now(UTC).date()
    status,     \* [Cases -> Status], the cases collection
    daily,      \* [Days -> Cases \cup {NoCase}], the daily_cases collection
    job,        \* [Callers -> Job], what each thread is doing
    crashes,    \* calls cut off, against their bound
    overlapped, \* history: two endpoint calls were served at once
    vetted,     \* history: cases that passed PublishPolicy when saved as live, or were generated
    picked,     \* history: [Days -> Cases \cup {NoCase}], what the scheduler set
    unhandled   \* history: an exception the route does not catch (500)

vars == <<today, status, daily, job, crashes, overlapped, vetted, picked, unhandled>>

Days == 1..LastDay
\* PublishStatus, and absent: no document.  No code writes "archived".
Status == {"absent", "draft", "approved", "rejected", "live"}

\* The steps of a call: approve/reject between read and save, publish before
\* its read, before its save and before set_daily, publish-next before its
\* get_daily.
Job == [pc : {"idle", "approve", "reject", "publish", "publish_save", "set_daily", "next_daily"},
        case : Cases \cup {NoCase},
        auto : BOOLEAN,            \* inside publish-next-daily
        eligible : SUBSET Cases]   \* its list

TypeOK ==
    /\ today \in Days
    /\ status \in [Cases -> Status]
    /\ daily \in [Days -> Cases \cup {NoCase}]
    /\ job \in [Callers -> Job]
    /\ \A w \in Callers : job[w].pc \in {"idle", "next_daily"} \/ job[w].case # NoCase
    /\ crashes \in Nat
    /\ overlapped \in BOOLEAN /\ unhandled \in BOOLEAN
    /\ vetted \subseteq Cases
    /\ picked \in [Days -> Cases \cup {NoCase}]

IdleJob == [pc |-> "idle", case |-> NoCase, auto |-> FALSE, eligible |-> {}]
JobOn(step, c) == [IdleJob EXCEPT !.pc = step, !.case = c]
NextJob(eligible) == [IdleJob EXCEPT !.pc = "next_daily", !.auto = TRUE, !.eligible = eligible]

\* Curated cases are imported as drafts, some already approved (seed_cases);
\* generated ones appear later.
Init ==
    /\ today = 1
    /\ status \in {s \in [Cases -> Status] :
                     /\ \A c \in Curated : s[c] \in {"draft", "approved"}
                     /\ \A c \in Generated : s[c] = "absent"}
    /\ daily = [d \in Days |-> NoCase]
    /\ job = [w \in Callers |-> IdleJob]
    /\ crashes = 0
    /\ overlapped = FALSE
    /\ vetted = {}
    /\ picked = [d \in Days |-> NoCase]
    /\ unhandled = FALSE

-----------------------------------------------------------------------------
\* Mutant: the policy lets drafts through.
Bug_EligibleDraft(c) == c \in Sound /\ status[c] \in {"draft", "approved", "live"}

\* Mutant: a case is published once.
Bug_EligibleApprovedOnly(c) == c \in Sound /\ status[c] = "approved"

\* PublishPolicy.evaluate: consistent, and approved or already live.
IsEligible(c) == c \in Sound /\ status[c] \in {"approved", "live"}

\* A thread takes a call and is left at step j of it.
Serve(w, j) ==
    /\ job[w].pc = "idle"
    /\ job' = [job EXCEPT ![w] = j]
    /\ overlapped' = (overlapped \/ \E v \in Callers : job[v].pc # "idle")

Return(w) == job' = [job EXCEPT ![w] = IdleJob]

\* Mutant: approve does not look at the status.
Bug_ApproveAny(w, c) ==
    /\ status[c] # "absent"
    /\ Serve(w, JobOn("approve", c))
    /\ UNCHANGED <<today, status, daily, crashes, vetted, picked, unhandled>>

\* ApproveCase / RejectCase read the case; only a draft goes on (else 409).
ApproveRead(w, c) ==
    /\ status[c] = "draft"
    /\ Serve(w, JobOn("approve", c))
    /\ UNCHANGED <<today, status, daily, crashes, vetted, picked, unhandled>>

RejectRead(w, c) ==
    /\ status[c] = "draft"
    /\ Serve(w, JobOn("reject", c))
    /\ UNCHANGED <<today, status, daily, crashes, vetted, picked, unhandled>>

\* The save that follows, whatever the document has become since.
DecisionSave(w) ==
    /\ job[w].pc \in {"approve", "reject"}
    /\ status' = [status EXCEPT ![job[w].case] =
                    IF job[w].pc = "approve" THEN "approved" ELSE "rejected"]
    /\ Return(w)
    /\ UNCHANGED <<today, daily, crashes, overlapped, vetted, picked, unhandled>>

\* POST publish-daily for one case.
PublishStart(w, c) ==
    /\ status[c] # "absent"
    /\ Serve(w, JobOn("publish", c))
    /\ UNCHANGED <<today, status, daily, crashes, vetted, picked, unhandled>>

\* Mutant: the day's pointer is set before the case is saved.
Bug_SetBeforeSave(w) ==
    /\ job[w].pc = "publish"
    /\ IsEligible(job[w].case)
    /\ job' = [job EXCEPT ![w] = [@ EXCEPT !.pc = "publish_save"]]
    /\ daily' = [daily EXCEPT ![today] = job[w].case]
    /\ UNCHANGED <<today, status, crashes, overlapped, vetted, picked, unhandled>>

\* PublishDailyCase.execute: get and evaluate.  CaseNotPublishableError is a
\* 409 of publish-daily, but publish-next-daily does not catch it.
PublishRead(w) ==
    /\ job[w].pc = "publish"
    /\ \/ /\ IsEligible(job[w].case)
          /\ job' = [job EXCEPT ![w] = [@ EXCEPT !.pc = "publish_save"]]
          /\ UNCHANGED unhandled
       \/ /\ ~IsEligible(job[w].case)
          /\ Return(w)
          /\ unhandled' = (unhandled \/ job[w].auto)
    /\ UNCHANGED <<today, status, daily, crashes, overlapped, vetted, picked>>

\* Save the case as live.
PublishSave(w) ==
    /\ job[w].pc = "publish_save"
    /\ status' = [status EXCEPT ![job[w].case] = "live"]
    /\ vetted' = vetted \cup {job[w].case}
    /\ job' = [job EXCEPT ![w] = [@ EXCEPT !.pc = "set_daily"]]
    /\ UNCHANGED <<today, daily, crashes, overlapped, picked, unhandled>>

\* set_daily writes the document of the day it runs on; then the answer.
SetDaily(w) ==
    /\ job[w].pc = "set_daily"
    /\ daily' = [daily EXCEPT ![today] = job[w].case]
    /\ picked' = IF job[w].auto THEN [picked EXCEPT ![today] = job[w].case] ELSE picked
    /\ Return(w)
    /\ UNCHANGED <<today, status, crashes, overlapped, vetted, unhandled>>

\* Mutant: every publishable case is listed.
Bug_NextListAnySource(w) ==
    LET eligible == {c \in Cases : IsEligible(c)} IN
    /\ eligible # {}
    /\ Serve(w, NextJob(eligible))
    /\ UNCHANGED <<today, status, daily, crashes, vetted, picked, unhandled>>
\* PublishNextDailyCase lists the curated publishable cases; an empty list is
\* its 409.
NextList(w) ==
    LET eligible == {c \in Curated : IsEligible(c)} IN
    /\ eligible # {}
    /\ Serve(w, NextJob(eligible))
    /\ UNCHANGED <<today, status, daily, crashes, vetted, picked, unhandled>>

Oldest(S) == {c \in S : \A d \in S : Age[c] <= Age[d]}

\* Mutant: today's case stays among the candidates.
Bug_NextChooseOldest(w) ==
    /\ job[w].pc = "next_daily"
    /\ \E c \in Oldest(job[w].eligible) :
          job' = [job EXCEPT ![w] = [@ EXCEPT !.pc = "publish", !.case = c]]
    /\ UNCHANGED <<today, status, daily, crashes, overlapped, vetted, picked, unhandled>>

\* get_daily, then the oldest case that is not today's, or today's when there
\* is no other; on to PublishDailyCase.execute with it.
NextChoose(w) ==
    LET others == job[w].eligible \ {daily[today]}
        candidates == IF others = {} THEN job[w].eligible ELSE others
    IN
    /\ job[w].pc = "next_daily"
    /\ \E c \in Oldest(candidates) :
          job' = [job EXCEPT ![w] = [@ EXCEPT !.pc = "publish", !.case = c]]
    /\ UNCHANGED <<today, status, daily, crashes, overlapped, vetted, picked, unhandled>>

-----------------------------------------------------------------------------
\* GenerateCase saves a case no other document knows, as live.
SaveGenerated(c) ==
    /\ status[c] = "absent"
    /\ status' = [status EXCEPT ![c] = "live"]
    /\ vetted' = vetted \cup {c}
    /\ UNCHANGED <<today, daily, job, crashes, overlapped, picked, unhandled>>

\* The instance stops, or a Firestore call raises, between two steps.
Crash(w) ==
    /\ crashes < MaxCrashes
    /\ job[w].pc # "idle"
    /\ crashes' = crashes + 1
    /\ Return(w)
    /\ UNCHANGED <<today, status, daily, overlapped, vetted, picked, unhandled>>

\* Midnight UTC: the new day has no daily case yet.
NextDay ==
    /\ today < LastDay
    /\ today' = today + 1
    /\ UNCHANGED <<status, daily, job, crashes, overlapped, vetted, picked, unhandled>>

Next ==
    \/ \E w \in Callers :
          \/ \E c \in Cases : ApproveRead(w, c) \/ RejectRead(w, c) \/ PublishStart(w, c)
          \/ DecisionSave(w)
          \/ PublishRead(w) \/ PublishSave(w) \/ SetDaily(w)
          \/ NextList(w) \/ NextChoose(w)
          \/ Crash(w)
    \/ \E c \in Generated : SaveGenerated(c)
    \/ NextDay

Spec == Init /\ [][Next]_vars

-----------------------------------------------------------------------------
(***************************************************************************)
(* Whatever overlaps.                                                      *)
(***************************************************************************)
\* No interleaving puts a case before all players that did not pass the
\* publish policy: a stale write can change a daily case's status, but a
\* draft that was never vetted, or an inconsistent one, is never the daily.
OnlyVettedCasesAreDaily ==
    \A d \in Days : daily[d] # NoCase => daily[d] \in vetted \cap Sound

\* The scheduler never features a case a player happened to generate
\* (publish_next_daily_case.py:32, found live).
SchedulerPicksCurated == \A d \in Days : picked[d] # NoCase => picked[d] \in Curated

\* What the scheduler chose from its list is read a second time before it is
\* published.  It can still be published then, unless a decision made meanwhile
\* rejected it; only so does the call fail with anything but its own 409.
SchedulerChoiceIsPublishable ==
    /\ \A w \in Callers : job[w].auto /\ job[w].pc = "publish" =>
          \/ IsEligible(job[w].case)
          \/ overlapped /\ job[w].case \in Sound /\ status[job[w].case] = "rejected"
    /\ unhandled => overlapped

\* The scheduler's choice is curated and can be published.
SchedulerChoosesWell == SchedulerPicksCurated /\ SchedulerChoiceIsPublishable

(***************************************************************************)
(* While endpoint calls do not overlap.                                    *)
(***************************************************************************)
\* The lifecycle of admin.py:1, draft -> approved/rejected -> live; publishing
\* a live case again is the one step PublishPolicy adds.
LifecycleStep(c) ==
    <<status[c], status'[c]>> \in
        {<<"draft", "approved">>, <<"draft", "rejected">>, <<"approved", "live">>, <<"absent", "live">>}

\* No case ever moves backwards, out of rejected, or past approval.
FollowsLifecycle == [][\A c \in Cases : status'[c] = status[c] \/ LifecycleStep(c)]_status
LifecycleUnlessOverlapped ==
    [][~overlapped' => \A c \in Cases : status'[c] = status[c] \/ LifecycleStep(c)]_vars

\* GET /cases/daily asks no status, GET /cases/{id} does; they agree on the
\* case of every day, also on the days after it was published.
DailyCaseIsVisible ==
    ~overlapped => \A d \in Days : daily[d] # NoCase => status[daily[d]] = "live"

\* publish-next-daily moves on from today's case when it had another choice.
RotatesAwayFromToday ==
    [][\A w \in Callers :
          ~overlapped /\ job[w].auto /\ Cardinality(job[w].eligible) > 1 /\ SetDaily(w)
          => daily'[today] # daily[today]]_vars

\* ADR-0006-deployment-topology.md:60: the one curated case of the catalog is
\* "intended to be republished every day until more exist".  With another
\* publishable one, the scheduler does not set the same case two days running.
NoRepeatOnceMoreExist ==
    [][\A w \in Callers :
          /\ job[w].auto /\ Cardinality(job[w].eligible) > 1
          /\ today > 1
          /\ SetDaily(w)
          => picked'[today] # picked[today - 1]]_vars
=============================================================================
