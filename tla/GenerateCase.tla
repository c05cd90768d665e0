---------------------------- MODULE GenerateCase -----------------------------
(***************************************************************************)
(* POST /cases/generate and the use case GenerateCase.execute: requests of *)
(* any number of players run their generate -> judge -> save loop against  *)
(* the shared daily budget and the shared case repository.                 *)
(*                                                                         *)
(* execute() is a coroutine that hands its calls, but for the pre-check,   *)
(* to a thread (asyncio.to_thread) and waits.  The client may disconnect   *)
(* at any time; the coroutine is then cancelled, but the call a thread     *)
(* already runs still takes effect.  So pc[r] names the call the request   *)
(* has submitted or will submit next, and attached[r] says whether a       *)
(* coroutine is still there to take its result.  One step = one call       *)
(* together with what the coroutine does with the result up to the next.   *)
(*                                                                         *)
(* The quota calls are indivisible (DailyQuota implements that) and may    *)
(* refuse for contention.  The model provider is external: any candidate,  *)
(* or none.                                                                *)
(***************************************************************************)
EXTENDS Naturals, FiniteSets

CONSTANTS
    Requests,     \* HTTP requests
    MaxAttempts,  \* MAX_ATTEMPTS_PER_REQUEST
    SuccessCap,   \* DEFAULT_DAILY_SUCCESS_CAP
    AttemptCap,   \* DEFAULT_DAILY_ATTEMPT_CAP
    LastDay       \* bound: UTC days 1..LastDay

ASSUME RequestsAssumption == IsFiniteSet(Requests)
ASSUME BoundsAssumption ==
    /\ MaxAttempts \in Nat \ {0}
    /\ SuccessCap \in Nat /\ AttemptCap \in Nat
    /\ LastDay \in Nat \ {0}

VARIABLES
    today,         \* datetime.now(UTC).date()
    attemptCount,  \* [Days -> Nat], one document per day
    successCount,  \* [Days -> Nat]
    pc,            \* [Requests -> Stage]
    attached,      \* [Requests -> BOOLEAN], client and coroutine still there
    day,           \* [Requests -> Days], the `today` the route captured
    attempt,       \* [Requests -> 1..MaxAttempts]
    flaws,         \* [Requests -> SUBSET Gates], what is wrong with the candidate
    ending,        \* [Requests -> Ending], the last event of the stream
    saved,         \* the case repository: set of live-generated cases
    reserved,      \* history: attempts that were counted, <<r, n>>
    called,        \* history: attempts that called the generator, <<r, n>>
    winners        \* history: requests that took a success slot

quota == <<attemptCount, successCount, reserved, winners>>
vars == <<today, quota, pc, attached, day, attempt, flaws, ending, saved, called>>

Days == 1..LastDay
Attempts == 1..MaxAttempts

\* Everything a candidate must pass: the two AI judges and the domain's
\* CaseConsistencyPolicy.
Gates == {"logic", "consistency", "safety"}

Stage == {"idle", "check", "reserve", "generate", "logic", "safety", "consume", "save", "end"}

\* How a stream ended: refused by the route (429), quota_check rejected,
\* failed after the last attempt, saving rejected, saving done; "none" if no
\* last event was produced.
Ending == {"none", "refused", "quota_rejected", "failed", "slot_lost", "done"}

Case == [req : Requests, attempt : Attempts, day : Days, flaws : SUBSET Gates]

TypeOK ==
    /\ today \in Days
    /\ attemptCount \in [Days -> Nat] /\ successCount \in [Days -> Nat]
    /\ pc \in [Requests -> Stage]
    /\ attached \in [Requests -> BOOLEAN]
    /\ day \in [Requests -> Days]
    /\ attempt \in [Requests -> Attempts]
    /\ flaws \in [Requests -> SUBSET Gates]
    /\ ending \in [Requests -> Ending]
    /\ saved \subseteq Case
    /\ reserved \subseteq Requests \X Attempts
    /\ called \subseteq Requests \X Attempts
    /\ winners \subseteq Requests

Init ==
    /\ today = 1
    /\ attemptCount = [d \in Days |-> 0]
    /\ successCount = [d \in Days |-> 0]
    /\ pc = [r \in Requests |-> "idle"]
    /\ attached = [r \in Requests |-> FALSE]
    /\ day = [r \in Requests |-> 1]
    /\ attempt = [r \in Requests |-> 1]
    /\ flaws = [r \in Requests |-> {}]
    /\ ending = [r \in Requests |-> "none"]
    /\ saved = {}
    /\ reserved = {}
    /\ called = {}
    /\ winners = {}

-----------------------------------------------------------------------------
\* QuotaStatus.exhausted
Exhausted(d) == successCount[d] >= SuccessCap \/ attemptCount[d] >= AttemptCap

\* The coroutine goes on to stage s, if it is still there.
Continue(r, s) == pc' = [pc EXCEPT ![r] = IF attached[r] THEN s ELSE "end"]

\* The stream ends with event e.
EndWith(r, e) ==
    /\ pc' = [pc EXCEPT ![r] = "end"]
    /\ ending' = [ending EXCEPT ![r] = IF attached[r] THEN e ELSE @]

\* Bugs: a loop that reserves only before its first attempt; a loop that does
\* not count its attempts; a loop that ends one attempt early.
Bug_NextAttemptUnreserved(r) ==
    IF attached[r] /\ attempt[r] < MaxAttempts
    THEN /\ pc' = [pc EXCEPT ![r] = "generate"]
         /\ attempt' = [attempt EXCEPT ![r] = @ + 1]
         /\ UNCHANGED ending
    ELSE /\ EndWith(r, "failed")
         /\ UNCHANGED attempt

Bug_NextAttemptUncounted(r) ==
    /\ Continue(r, "generate")
    /\ UNCHANGED <<attempt, ending>>

Bug_NextAttemptOneShort(r) ==
    IF attached[r] /\ attempt[r] + 1 < MaxAttempts
    THEN /\ pc' = [pc EXCEPT ![r] = "reserve"]
         /\ attempt' = [attempt EXCEPT ![r] = @ + 1]
         /\ UNCHANGED ending
    ELSE /\ EndWith(r, "failed")
         /\ UNCHANGED attempt

\* `continue`: the next attempt, or "failed" after the last one.
NextAttempt(r) ==
    IF attached[r] /\ attempt[r] < MaxAttempts
    THEN /\ pc' = [pc EXCEPT ![r] = "reserve"]
         /\ attempt' = [attempt EXCEPT ![r] = @ + 1]
         /\ UNCHANGED ending
    ELSE /\ EndWith(r, "failed")
         /\ UNCHANGED attempt

\* The route captures the date and refuses with 429 when the day is used up.
Request(r) ==
    /\ pc[r] = "idle"
    /\ day' = [day EXCEPT ![r] = today]
    /\ IF Exhausted(today)
       THEN /\ pc' = [pc EXCEPT ![r] = "end"]
            /\ ending' = [ending EXCEPT ![r] = "refused"]
            /\ UNCHANGED attached
       ELSE /\ pc' = [pc EXCEPT ![r] = "check"]
            /\ attached' = [attached EXCEPT ![r] = TRUE]
            /\ UNCHANGED ending
    /\ UNCHANGED <<today, quota, attempt, flaws, saved, called>>

\* execute() asks once more before its first attempt, and does not use a thread
\* for it.
PreCheck(r) ==
    /\ pc[r] = "check"
    /\ IF Exhausted(day[r])
       THEN EndWith(r, "quota_rejected")
       ELSE Continue(r, "reserve") /\ UNCHANGED ending
    /\ UNCHANGED <<today, quota, attached, day, attempt, flaws, saved, called>>

\* try_reserve_attempt returned True ...
ReserveAttempt(r) ==
    LET d == day[r] IN
    /\ pc[r] = "reserve"
    /\ attemptCount[d] < AttemptCap
    /\ attemptCount' = [attemptCount EXCEPT ![d] = @ + 1]
    /\ reserved' = reserved \cup {<<r, attempt[r]>>}
    /\ Continue(r, "generate")
    /\ UNCHANGED <<today, successCount, winners, attached, day, attempt, flaws, ending, saved, called>>

\* ... or False, because the cap is reached or the call failed closed.
ReserveRefused(r) ==
    /\ pc[r] = "reserve"
    /\ EndWith(r, "quota_rejected")
    /\ UNCHANGED <<today, quota, attached, day, attempt, flaws, saved, called>>

\* generate_raw_candidate: a real model call; it may yield no candidate.
GenerateNothing(r) ==
    /\ pc[r] = "generate"
    /\ called' = called \cup {<<r, attempt[r]>>}
    /\ NextAttempt(r)
    /\ UNCHANGED <<today, quota, attached, day, flaws, saved>>

GenerateCandidate(r) ==
    /\ pc[r] = "generate"
    /\ called' = called \cup {<<r, attempt[r]>>}
    /\ \E f \in SUBSET Gates : flaws' = [flaws EXCEPT ![r] = f]
    /\ Continue(r, "logic")
    /\ UNCHANGED <<today, quota, attached, day, attempt, ending, saved>>

\* Bug: the judge alone decides, the domain policy is not asked.
Bug_LogicCheckJudgeOnly(r) ==
    /\ pc[r] = "logic"
    /\ IF "logic" \notin flaws[r]
       THEN Continue(r, "safety") /\ UNCHANGED <<attempt, ending>>
       ELSE NextAttempt(r)
    /\ UNCHANGED <<today, quota, attached, day, flaws, saved, called>>

\* check_logic_consistency, then the CaseConsistencyPolicy inside the same
\* visible step.
LogicCheck(r) ==
    /\ pc[r] = "logic"
    /\ IF flaws[r] \cap {"logic", "consistency"} = {}
       THEN Continue(r, "safety") /\ UNCHANGED <<attempt, ending>>
       ELSE NextAttempt(r)
    /\ UNCHANGED <<today, quota, attached, day, flaws, saved, called>>

\* check_safety
SafetyCheck(r) ==
    /\ pc[r] = "safety"
    /\ IF "safety" \notin flaws[r]
       THEN Continue(r, "consume") /\ UNCHANGED <<attempt, ending>>
       ELSE NextAttempt(r)
    /\ UNCHANGED <<today, quota, attached, day, flaws, saved, called>>

\* Bug: announce before saving.
Bug_ConsumeAnnounces(r) ==
    LET d == day[r] IN
    /\ pc[r] = "consume"
    /\ successCount[d] < SuccessCap
    /\ successCount' = [successCount EXCEPT ![d] = @ + 1]
    /\ winners' = winners \cup {r}
    /\ Continue(r, "save")
    /\ ending' = [ending EXCEPT ![r] = IF attached[r] THEN "done" ELSE @]
    /\ UNCHANGED <<today, attemptCount, reserved, attached, day, attempt, flaws, saved, called>>

\* try_consume_success returned True: the slot is taken, the case not saved.
ConsumeSuccess(r) ==
    LET d == day[r] IN
    /\ pc[r] = "consume"
    /\ successCount[d] < SuccessCap
    /\ successCount' = [successCount EXCEPT ![d] = @ + 1]
    /\ winners' = winners \cup {r}
    /\ Continue(r, "save")
    /\ UNCHANGED <<today, attemptCount, reserved, attached, day, attempt, flaws, ending, saved, called>>

\* Lost the last slot (or failed closed): not saved.
ConsumeRefused(r) ==
    /\ pc[r] = "consume"
    /\ EndWith(r, "slot_lost")
    /\ UNCHANGED <<today, quota, attached, day, attempt, flaws, saved, called>>

\* case_repository.save, then the last event with the public view.
SaveCase(r) ==
    /\ pc[r] = "save"
    /\ saved' = saved \cup {[req |-> r, attempt |-> attempt[r], day |-> day[r], flaws |-> flaws[r]]}
    /\ EndWith(r, "done")
    /\ UNCHANGED <<today, quota, attached, day, attempt, flaws, called>>

-----------------------------------------------------------------------------
\* The client goes away while a thread runs the submitted call: the call
\* will still take effect, nobody takes its result.
Disconnect(r) ==
    /\ attached[r] /\ pc[r] \notin {"idle", "end"}
    /\ attached' = [attached EXCEPT ![r] = FALSE]
    /\ UNCHANGED <<today, quota, pc, day, attempt, flaws, ending, saved, called>>

\* The request ends before the submitted call takes effect: cancelled while
\* suspended at a yield, the instance stopped, or the call raised.
Abandon(r) ==
    /\ pc[r] \notin {"idle", "end"}
    /\ pc' = [pc EXCEPT ![r] = "end"]
    /\ attached' = [attached EXCEPT ![r] = FALSE]
    /\ UNCHANGED <<today, quota, day, attempt, flaws, ending, saved, called>>

\* Midnight UTC, also in the middle of a request.
NextDay ==
    /\ today < LastDay
    /\ today' = today + 1
    /\ UNCHANGED <<quota, pc, attached, day, attempt, flaws, ending, saved, called>>

\* What the request does by itself once it is running.
Advance(r) ==
    \/ PreCheck(r)
    \/ ReserveAttempt(r) \/ ReserveRefused(r)
    \/ GenerateNothing(r) \/ GenerateCandidate(r)
    \/ LogicCheck(r) \/ SafetyCheck(r)
    \/ ConsumeSuccess(r) \/ ConsumeRefused(r)
    \/ SaveCase(r)

Next ==
    \/ \E r \in Requests : Request(r) \/ Advance(r) \/ Disconnect(r) \/ Abandon(r)
    \/ NextDay

Spec == Init /\ [][Next]_vars

\* Every thread call returns: Firestore calls are bounded by DailyQuota's
\* retries, model calls by the 30 s timeout of the OpenAI client.
FairSpec == Spec /\ \A r \in Requests : WF_vars(Advance(r))

-----------------------------------------------------------------------------
AttemptsOf(d) == {a \in reserved : day[a[1]] = d}
CallsOf(d) == {a \in called : day[a[1]] = d}
WinnersOf(d) == {r \in winners : day[r] = d}
SavedOn(d) == {c \in saved : c.day = d}

\* The cost backstop: no day's budget pays for more generator calls than
\* attempt_cap, whatever is rejected, cancelled, refused or runs past
\* midnight (ADR-0007 decision 2).
ModelCallsWithinBudget == \A d \in Days : Cardinality(CallsOf(d)) <= AttemptCap

\* The product budget: at most success_cap live cases on each day's budget,
\* although the pre-checks of many requests pass before any of them saves.
SavedWithinBudget == \A d \in Days : Cardinality(SavedOn(d)) <= SuccessCap

\* Each request puts at most one case before the players.
OneCasePerRequest == \A c1, c2 \in saved : c1.req = c2.req => c1 = c2

\* ADR-0007: "both real AI judges still gate every candidate".
OnlyFlawlessCasesAreLive == \A c \in saved : c.flaws = {}

\* What a day's budget pays for, in calls and in cases.
BudgetsHold == ModelCallsWithinBudget /\ SavedWithinBudget

\* What a request can bring before the players: at most one case, which has
\* passed every gate.
OneFlawlessCaseEach == OneCasePerRequest /\ OnlyFlawlessCasesAreLive

\* A stream says "done" only when its case is in the repository, and a case
\* is in the repository without "done" only if the client had gone.
DoneMeansSaved ==
    \A r \in Requests :
        /\ ending[r] = "done" => \E c \in saved : c.req = r
        /\ (\E c \in saved : c.req = r) => ending[r] = "done" \/ ~attached[r]

\* "A player is never penalized" the other way round: a success slot that
\* brought no case was lost to a disconnect or a crash between
\* try_consume_success and save, never to a rejected or refused candidate.
SlotLostOnlyByInterruption ==
    \A r \in winners :
        \/ pc[r] = "save"
        \/ \E c \in saved : c.req = r
        \/ pc[r] = "end" /\ ~attached[r] /\ ending[r] = "none"

\* What the end of a request says is so: of the announcement and of the slot.
OutcomesAreHonest == DoneMeansSaved /\ SlotLostOnlyByInterruption

\* Where on the way of GenerationPath a request is, by its stage, its attempt
\* and its last event.  After 429 it has not set out.
PathOf(stage, n, last) ==
    LET step == [generate |-> "generating", logic |-> "logic_check", safety |-> "safety_check",
                 consume |-> "saving", save |-> "saving"]
        notYet == [step |-> "start", attempt |-> 0]
    IN  CASE stage \in {"idle", "check"} -> notYet
          [] stage = "reserve" -> IF n = 1 THEN notYet ELSE [step |-> "rejected", attempt |-> n - 1]
          [] stage = "end" -> IF last = "refused" THEN notYet
                              ELSE [step |-> IF last = "none" THEN "interrupted" ELSE last, attempt |-> 0]
          [] OTHER -> [step |-> step[stage], attempt |-> n]

Path == INSTANCE GenerationPath WITH
            Runs <- Requests,
            at <- [r \in Requests |-> PathOf(pc[r], attempt[r], ending[r])]

\* Whatever overlaps, is refused or cut off, every request takes the steps of
\* an attempt in their order, none without those before it, reserves before
\* every attempt, and gives up after the last one only.
ImplementsGenerationPath == Path!Spec

\* Every stream ends: no attempt is repeated forever.
EveryRequestEnds == \A r \in Requests : pc[r] = "check" ~> pc[r] = "end"
=============================================================================
