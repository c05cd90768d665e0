# Tiny Detective: a verification project

Tiny Detective is a browser game: each day there is one detective case; a
player reads its clues, may ask an AI assistant for hints, and accuses a
suspect. Players can also have a new case generated live by a language model.
A FastAPI service on up to three Cloud Run instances keeps everything in
Firestore; a Flutter web client talks to it; an offline pipeline drafts the
curated cases.

This directory holds TLA+ modules that model the service's state changing core,
TLC configurations that check them on small instances, and TLAPS proofs of the
properties that matter most for every value of the constants. Paths below are
relative to the repository (`src/` in `PROJECT.json`).

## 1. Inventory

Paths without a prefix are under `services/api/app/`.

| Part | State it keeps | Operations | What is hard |
|---|---|---|---|
| Daily generation quota (`infrastructure/firestore/firestore_generation_quota_repository.py`, port in `application/ports.py`) | one document per UTC day, fields `attemptCount` and `successCount` | `get_status`, `try_reserve_attempt`, `try_consume_success` | optimistic transactions of many threads and instances on one document, bounded retries, failing closed |
| Live generation (`application/use_cases/generate_case.py`, route in `api/routes/cases.py`) | the loop of a request: attempt number, candidate, captured day | `POST /cases/generate`, up to 5 attempts of generate, judge, judge, take a slot, save | races for the last slot, a client that leaves while a thread works, a crash between the slot and the save, midnight |
| Players, submissions, hints (`submit_solution.py`, `request_hint.py`, `create_player.py`, the policies and repositories) | player documents (score, streak), `case_attempts`, `hint_requests` | `POST /players`, `POST /cases/{id}/solution`, `POST /cases/{id}/hint` | chains of single reads and writes without a transaction, a model call inside the hint, crashes between two writes, TTL deletion |
| Case lifecycle and daily case (`approve_case.py`, `reject_case.py`, `publish_daily_case.py`, `publish_next_daily_case.py`, `publish_policy.py`, Firestore case repository, `api/routes/admin.py`) | case documents with a status, `daily_cases/{day}` | approve, reject, publish-daily, publish-next-daily (Cloud Scheduler), save of a generated case | whole-document writes of stale reads, a crash between save and pointer, midnight between choosing and setting |
| The scheduler's job (`docs/operations.md` section 7: daily at 06:00 UTC, a deadline of 30 s, up to 3 retries) | the firing of the day | calls `publish-next-daily`, retries on any failure | a retry beside an attempt that was given up and still runs, an answer that is lost |
| Rate limiting (`api/rate_limiting.py`, slowapi) | counters per address in the memory of each instance | `per_instance_limit`, `_client_ip`, a hit | a share that rounds, addresses in headers, instances that are replaced, window boundaries |
| Event stream (`stream_generation_events` in `api/routes/cases.py`, `case_generation_api_client.dart`) | a pending task of the generator, the connection | prefetch, heartbeat, cancel, per-chunk idle timeout | heartbeats racing events and timeouts, cancellation |
| Game client (`apps/game/lib/features/case_generation`, `case_play`) | view models: state, attempt, checklist; case, hint, result, flags | start, generate, select, hint, submit, retry, dismiss | answers that arrive after the player moved on, timeouts, streams that end early |
| Domain policies (`domain/policies`) | none | consistency, solution, hint guardrail, scoring, hint cap, publishing | boundaries |
| Content of live cases (`tools/ai-content/ai_content/logic_builder.py`, `fidelity_checker.py`, `rule_validator.py`, `generator.py`; adapter `infrastructure/ai/live_case_generator.py`) | `last_usage` on a renderer and two evaluators, shared by all requests of an instance | build the logic of a case, render it, look for its facts in the prose, validate, judge twice | facts lost in rendering, an attribute read after another thread wrote it, exceptions that pass the adapter |
| Offline pipeline and its scripts (`pipeline.py`, `schema_parser.py`, `draft_store.py`, `generate_cases.py`, `evaluate_cases.py` in `tools/ai-content`) | drafts on disk, the evaluation baseline | generate, parse, validate, judge, store; repeated verdicts on fixtures | duplicate names, kills between creating and writing a draft, ties of verdicts, partial baselines |
| Authentication, logging, adapters to the model provider, mappers, widgets, CI | none that others read | | see section 8 |

How they interact. A player's browser calls the routes; each route builds a use
case over repositories. `GenerateCase` calls the quota port and the case
repository, and its events run through the stream into the client's view model.
`SubmitSolution` reads the case, the player, the attempts and the hint requests
and writes the player and an attempt; `RequestHint` reads the same case, player
and hint requests and writes a hint request: the two share the hint count, which
is the price of a submission. Saving a generated case puts a live case into the
catalog that the scheduler's publication reads. All of it goes through
Firestore: only the quota uses transactions. Synchronous routes run in a thread
pool and the generation loop hands its calls to threads (but for `get_status`, which
the route and the pre-check make on the event loop itself), so calls interleave at every
repository call, within an instance and between instances.

What makes each part correct:

* quota: the caps hold whatever interleaves; `True` is exactly one unit; a
  refusal is justified; every call returns;
* generation: no model call without a reserved attempt, no saved case without a
  slot, only candidates that passed every gate are saved, at most one per
  request, `done` is announced exactly for saved cases, slots are lost only to
  interruptions, every request ends;
* players: an attempt scores once, or again for a cause; no points lost or invented, the
  streak is the winning run, hints are capped, escalate and are charged;
* catalog: statuses move only along the lifecycle, only vetted and consistent
  cases become a daily case, the scheduler rotates among curated cases, and what
  it chose can be published;
* scheduler: the job gives the day a case when there is one to give, and shows players
  no second one unless something went wrong on the way;
* rate limit: nobody is refused below a fair share, and a burst has a bound;
* policies: exactly the marked culprit is the right answer, and hints give nobody away;
* stream: every event arrives once and in order, a working connection never times
  out, the page says how the generation ended;
* page: what is shown (hint, verdict, chosen suspect) belongs to the case shown, a
  game in progress is not replaced, no call leaves its spinner, failures are reported;
* content: a case can be solved from its texts, failures stay in the adapter, costs
  are charged to the call that caused them; a stored draft is unambiguous and stays,
  and the scripts' summaries are true.

## 2. Plan

In this order, the most important behaviour first. Done:

1. `AtomicQuota`, `DailyQuota`: the port's promise and its implementation, with
   the refinement.
2. `GenerateCase`: uses the quota as the indivisible operations step 1 justifies.
3. `PlayerGame`: submissions and hints over shared documents.
4. `CaseLifecycle`: the catalog; shares the save of a generated case with 2.
5. `GenerationStream`: what becomes of the events of 2 on their way to the
   player's page.
6. `CasePlay`: the two view models and the screen that joins them.
7. `CaseLogic`, `LiveCaseGenerator`: how a live case is built, and the adapter that
   requests share.
8. `ContentPipeline`, `DraftBatch`, `EvaluateCases`: the offline pipeline and its
   scripts.

9. `DailySchedule`: the job that calls 4, and the refinement of 4 by it.
10. `RateLimit`: the other limit beside the quota.
11. `CasePolicies`: the policies on the content of a case.
12. `GenerationPath`, `EventFeed`: the way of one generation and what a page may rely on,
    implemented by 2 and 5.
13. Proofs of every invariant and action property the runs check (section 5).

Next:

14. A composition of `GenerateCase` with the adapter of 7, so that what one leaves to a
    nondeterministic candidate is what the other produces; and `CaseLifecycle`'s constant
    `Sound` derived from 11.
15. An abstract specification of a player's profile that `PlayerGame` implements also for
    players whose calls overlap.

## 3. Modules

**`AtomicQuota`**: what a caller of the quota may rely on: an outstanding call
is granted together with one unit below the cap, or denied.

**`DailyQuota`**: `FirestoreDailyGenerationQuotaRepository`. A call
(`TryIncrement`) runs the transaction body: `Read` takes a snapshot and compares
it with the cap, `Commit` writes the field if the document's version is
unchanged, `Abort` starts the body again until `MaxTries` is used up; `Answer`
delivers. `Crash` loses the call at any point. Both fields live in one document
and conflict. Firestore is external; it is assumed to commit only transactions
whose snapshot is current. `SpuriousAborts` lets it abort others as well.

**`GenerateCase`**: one step per call that `execute` makes (all but the pre-check on a
thread), together
with what the coroutine does with the result (`PreCheck`, `ReserveAttempt` /
`ReserveRefused`, `GenerateNothing` / `GenerateCandidate`, `LogicCheck`,
`SafetyCheck`, `ConsumeSuccess` / `ConsumeRefused`, `SaveCase`), the route's
`Request` before them. A candidate is the set of gates it fails. `Disconnect`
leaves a submitted call running without anybody to take its result, `Abandon`
ends the request before the call takes effect (cancellation, crash, exception),
`NextDay` is midnight. The quota operations are indivisible here because
`DailyQuota` implements `AtomicQuota`.

**`GenerationPath`**: the way `execute` goes, as a state of its own for each run: the step
of an attempt and its number. `Reserve` comes before every attempt, `Pass` and `Reject`
are the adapter's answers, `GiveUp` follows the last attempt only, `Save` or `LoseSlot`
ends it, `Interrupt` is any exception, disconnect or crash. It joins two modules that look
at the same coroutine from two sides. `GenerateCase` implements it (`PathOf` maps stage,
attempt and last event to a place; taking the slot is a stutter, the save the step), and
`GenerationStream` does (`Told` maps the latest event and the state of its task; `passed`
and the `running` of the next step are the same place).

**`PlayerGame`**: `SubmitStart`, `SubmitExists`, `SubmitCount`, `SubmitSave`,
`SubmitRecord` and `HintStart`, `HintCount`, `HintRecord`, `HintAnswer` are the
repository calls of the two use cases in their order, run by any free thread;
`CreatePlayer`, `Crash`, `ExpireAttempts` and `ExpireHint` (TTL) complete them.
The verdict on a submission is an input. `scored` and `delivered` are history:
what was scored, with the total it was worth so far, and which hints reached the player.

**`CaseLifecycle`**: `ApproveRead`, `RejectRead`, `DecisionSave`, `PublishStart`,
`PublishRead`, `PublishSave`, `SetDaily`, and for the scheduler `NextList`,
`NextChoose`; `SaveGenerated` is the save at the end of a generation. The verdict
of `CaseConsistencyPolicy` is the set `Sound`, creation times are `Age`. `vetted`,
`picked`, `overlapped` and `unhandled` are history.

**`DailySchedule`** extends `CaseLifecycle` with who calls it. `Fire` is 06:00 UTC;
`Attempt`, `AttemptRefused`, `AttemptLost`, `DeadlinePasses`, `AnswerLost` and `Failed` are
an attempt of Cloud Scheduler's job and its retries; `Proceed` is a step of the thread that
serves a call (those of `CaseLifecycle`) with what the job makes of its end; `Edit` is an
administrator's call, `Stop` a crash, `Midnight` the next day. An attempt whose deadline
passed stays in `late`: its thread goes on beside the retry. `moves` is history: how often
the day's firing has changed the daily case. The job is external and modelled from
`docs/operations.md`.

**`RateLimit`**: `PerInstanceLimit` rounds an instance's share up, `ClientIp` picks the entry
of X-Forwarded-For that the outermost trusted proxy appended. `Hit` is a request that
reaches an instance with any header, `Tick` drops the counters whose window is over,
`Restart` replaces an instance. slowapi's counting is external: a fixed window opened by
the first request after the last one, refused requests count too. `admitted` is history:
when each instance let the watched client in.

**`CasePolicies`**: `Consistent` (`CaseConsistencyPolicy`), `Verdict` (`SolutionPolicy`),
`GivenAway` (`HintGuardrailPolicy`) and `HintContent` (`RequestHint`), as a player meets them:
`Publish` puts a case of the catalog on the board if it is consistent, `Accuse` submits an
id in any spelling, `HintArrives` and `HintFails` are the assistant. A text is the set of
names and roles in it, an id one of several spellings of a key.

**`GenerationStream`**: one generation from the pipeline to the page. `Follows` is the
grammar of the events `execute` yields; `Yield` completes the pending `__anext__()`
with an event, the end or an exception. `Take`, `KeepAlive`, `Send`, `Finish`, `Cancel`
are `stream_generation_events`: take the event and start the next `__anext__()`, time
out into a comment line, hand a frame to the connection, end or cut off the response,
and the `finally` block. The connection (external) keeps frames in order, holds at most
`MaxWire` of them, and may die silently (`LinkBreaks`) or visibly (`LinkResets`).
`Start`, `Open`, `Refused`, `RefusalRead`, `ConnectFails`, `Deliver` and `IdleTimeoutFires`
are the client. The status of an error answer and its body are two steps (`Refused`,
`RefusalRead`), because only the first has a timeout: `RefusalSilent` is a connection that
dies silently between them, after which nothing in the code ends the read. `HandleEvent`
is `_handleEvent`, followed by the screen's listener, which loads a finished case and
resets the view model at once. Time is discrete: `Tick` advances the
server's wait, the age of every frame and the client's timer; it cannot pass while the
event loop is ready to run, nor make a frame on a working connection older than
`Latency`. `Stall` is another request's `get_status` in the coroutine of the route
(`routes/cases.py:178`), a blocking Firestore read on the event loop: for up to `MaxStall` ticks
the server sends nothing, heartbeats included. `received` and `closedBy` are history.

**`EventFeed`**: an ideal feed: events are emitted up to a last one, received in order and
once each, and the feed completes only when all of them were received; otherwise it breaks
and says so. `GenerationStream` implements it and `GenerationPath` together
(`CarriesOneGeneration`): tasks, frames, heartbeats, stalls and the clock are stutters.

**`CasePlay`**: `CasePlayViewModel`, what the page shows of `CaseGenerationViewModel`,
and `CasePlayScreen`, for one player and one visit. Every await is two actions, the call
(`RequestHint`, `SubmitSolution`, `Generate`, `Retry`) and its outcomes (`HintAnswered`,
`HintFails`, `SubmitAnswered`, `SubmitRefused`, `SubmitFails`, `StreamSucceeds`,
`StreamRejected`, `StreamEnds`, `StreamBreaks`, `Loaded`, `LoadFails`), so that everything
the page enables happens in between. `HintRecorded` is the service's half of a hint call
whose answer is lost. A hint, a verdict and a chosen suspect carry the case they belong
to, which the code does not record: whether they fit the case shown is the question. Nothing
is assumed about how long a call, a stream or the player takes, so the model has two
behaviours that the page had better not have (section 6), and two history variables say
when they happen. A hint that is pending while the player solves the case and generates
another one is shown beside the new case (`late`). And the player may start a generation
beside a failed one whose stream has not ended: the old stream's break then shows a
network error over the new generation (`masked`), a third can be started, and the second
success replaces the game of the first. `StreamRefused` and, for other error answers,
`StreamBreaks` are the end of a call that never became a stream.

**`CaseLogic`**: `BuildCaseLogic` computes a case from what the random generator draws
and `Solve` finds who was at the scene without an alibi. A text is the set of phrases in
it, a fact a phrase in a place; `RequiredFacts` are those `CheckFidelity` looks for. The
`form` of an answer stands for what `validate_rules` says of its lengths and words.

**`LiveCaseGenerator`**: each caller is a request's generation loop with at most one
thread in the adapter. A call is split where another thread can come between: the
model's answer resets `last_usage` (`RenderAnswers`), sets it (`RenderUsage`), and the
adapter reads it after the call has returned (`ReadRender`); a judge sets it once
(`JudgeAnswers`) before `ReadJudge`. `call`, `past` and `calls` are history that numbers
the calls, so that tokens can be traced.

**`ContentPipeline`**: what the schema parser and the rules say of a raw candidate; it
marks the culprit by name. **`DraftBatch`**: one action per step of `generate_cases.py`,
the file created before it is written (`OpenDraft`, `WriteDraft`), `Kill` anywhere, run
after run over one directory. **`EvaluateCases`**: each fixture is judged several times,
the majority is its verdict, `Report` replaces the baseline unless `--only` was given.

Each `MC...` module gives a specification small constants; each `...Proofs`
module holds the theorems of the module it extends. Operators named `Bug_...`
are deliberate faults (mutants) used to confirm that each property can fail.

## 4. Runs

Every run finds what `PROJECT.json` expects of it. Type correctness is proved for most
modules, so no run spends itself on it. Several properties are conjunctions of named parts
that say one thing together: `CapIsExact`, `BudgetsHold`, `OneFlawlessCaseEach`,
`OutcomesAreHonest`, `SchedulerChoosesWell`, `SerialProfileIsExact`, `PageIsTruthful`,
`CarriesOneGeneration`, `PageFitsCase`, `BoardsAreFair`, `ReportIsHonest`.

| Run | Instance | What it shows |
|---|---|---|
| `spend_limits` | quota: 3 threads, caps 1 and 2, 2 tries. Rate limit: 2 instances, a limit of 3 (a share of 2), 2 clients, one made-up address, 2 trusted proxies, windows of 2 ticks, 3 points in time, 1 restart | The two limits side by side, each behaviour being of one of them. Quota: caps, honest refusals, refusals only against other commits, the refinement to `AtomicQuota`, and (fair) that every call returns. Three threads are needed for a transaction to lose twice; two fields because they share a document; caps this low so that both are reached. Rate limit: refusals only above a fair share, and the bound on a burst over any window's length. A limit that the instances do not divide, so that the rounding matters; three points in time, so that a burst lies across a window's end; the constraint `OthersStayFew` keeps the second client, whose counters are its own, to one request. |
| `generate_race` | 2 requests, 2 attempts each, 1 success and 3 attempts a day, 2 days, fair | Budgets, one case per request, only flawless cases, honest `done`, where slots may be lost, the refinement of `GenerationPath`, and that every request ends. One success for two requests so that somebody loses the last slot after passing every gate; three attempts for two times two so that the loop runs out of budget in the middle; two days so that a request straddles midnight. |
| `player_calls` | 1 player, 2 cases, 2 threads, 2 hints, one crash, one expiry, symmetry of cases and threads; players whose calls overlap meet no crash or expiry, score three times and pass the cap by one hint (`OneDisturbance`) | What survives calls that overlap freely, and the exact properties of a player whose calls did not: total, streak, hint levels and rescoring, each with what a cut-off call or an expiry may cost. Two hints make an order of levels; a penalty of 60 drives the raw score of an overshooting player below zero, so that the floor matters. That the hint cap is exact for one thread is the proved `HintOvershootIsBounded`. |
| `player_rescored` (violation) | 2 threads, 1 case | Two overlapping submissions both score. |
| `player_overhinted` (violation) | 2 threads, 1 case | Two overlapping hint requests pass the cap. |
| `daily_schedule` | 3 curated cases (one inconsistent), 1 generated, 2 threads, 2 days, the job's 3 retries, 1 slip a day, 2 administrators' calls, 1 crash, fair | The job with calls cut off, deadlines missed and answers lost, beside administrators: it chooses a curated case that is not the day's and can be published unless it is rejected meanwhile, the day's case can be seen, a day gets its case while the catalog has one to give, players see a second one the same day only after something went wrong, and, while calls do not overlap, statuses follow the lifecycle. |
| `schedule_repeats` (violation) | the same without crashes, slips and administrators | The job publishes the same case on two days in a row although the catalog has another one. |
| `lifecycle_overlap` (violation) | the same catalog without the job, no crash | An approval and a rejection overlap and the case moves from approved to rejected. |
| `generation_stream` | up to 2 attempts; ticks of 7.5 s: heartbeat 2, idle timeout 6, latency up to 1, the event loop blocked for up to 2; 2 frames of buffer | The refinement of `EventFeed` (events arrive in order and once, and a stream that ends cleanly was complete) and of `GenerationPath` (they are those of one run); no idle timeout on a working connection; the page's checklist is of the current attempt and its outcome what the stream said; and (fair) a page leaves its progress display, unless the connection dies silently before the body of an error answer. Two attempts so that a restart happens, a buffer that fills so that the server blocks on a dead connection. |
| `play_page` | the daily case and up to 3 generations, 2 hints a case | Accusations fit their case; the hint shown does unless it was answered after its case had gone, the verdict unless a generation was masked; hints stay available, "already solved" is shown only after a lost answer, the progress display is of a running generation, a game is replaced only after a generation was masked, and (fair) every call of `CaseApiClient` and the loading page end. Three generations because a game is replaced in three steps, and the run does replace one; two hints so that there is a last one. The constraint `HintsStayFew` keeps a visit to hints on two of its cases, enough for a hint of the last case to meet those of the present one. |
| `play_timeout` (violation) | the daily case only | A submission times out and the page shows neither verdict nor message. |
| `case_content` | one scenario template, 2 draws, 2 callers, 4 calls; 2 candidates a batch, 2 batches; 3 fixtures, 4 repeats; 10 cases for the policies | Four programs side by side, each behaviour being of one of them. Four calls are the fewest in which a call of one request can leave tokens behind for a later call; an answer has at most one thing wrong with it, which is enough for each check to decide; two batches so that one meets the drafts of another; an even number of repeats so that verdicts tie. The ten cases are a sound one, one whose ids differ only in their spelling, and one for each thing `CaseConsistencyPolicy` looks for. The properties of the adapter and the drafts are proved over every template, draw and candidate. |

Bounds that cut behaviour: `LastDay` (days), `MaxCrashes`, `MaxExpiries`, `MaxEdits`, `MaxSlips`,
`LastTime`, `MaxRestarts`. A second day, a first crash, expiry, slip or restart produce every
kind of step, two administrators' calls overlap each other and the job; the properties that
count beyond that are proved (`OneChangePerFiring`) or count the bound in (`BurstIsBounded`).
`MaxRetries` is the job's real number. The real caps (50 and 2000 a day, 5 attempts,
3 hints) are replaced by the smallest ones at which all the boundaries differ; the
proofs do not depend on them.

`CHECK_DEADLOCK FALSE` stands where the system may stop: in `GenerateCase` requests
are finite, and all of them end; in `GenerationStream` the one generation ends; in
`DailySchedule` and `CaseLifecycle` the days end; in
`CasePlay` a player who has used up the generations may have nothing left to do; in
`MCCaseContent` the calls and batches are bounded and the evaluation ends.

Fairness. `DailyQuota!FairSpec` has weak fairness of the steps of a running call:
a thread the operating system schedules, whose calls to Firestore return or raise.
There is none on new calls and none on crashes. `GenerateCase!FairSpec` has weak
fairness of a request's own steps: the event loop resumes a coroutine whose
thread has finished, and calls to the model provider have a timeout
(`infrastructure/ai/openai_client.py`). It has none on requests, disconnects or
midnight. `GenerationStream!FairSpec` has weak fairness of the clock, the pipeline (the
same timeouts), the event loop, a working connection's delivery, the client's timers,
the answer to the request or its 15 s timeout, and the body of an error answer on a working
connection; none on the player's start, on connections breaking, on the body of an error
answer whose connection has died (its read has no timeout), on the event loop being
blocked, or on the server noticing that the client is gone. `DailySchedule!Fairness` is weak fairness of the job's firing and attempts and
of the threads that serve a call: Cloud Scheduler fires and retries by itself, and a call to
Firestore returns or raises. It has none on administrators, losses, deadlines, crashes or
midnight.
`CasePlay!FairSpec` has weak fairness of the outcome of every pending call of `CaseApiClient`,
each of which has a timeout in the client, and none on generations, whose call may hang as
said, or on anything the player does.

## 5. What is proved

Every invariant and every action property that a run checks, both refinements between
the generation's modules, that of `AtomicQuota` and that of the catalog by the schedule:
for every number of threads, requests, players, cases, instances, fixtures, days, crashes
and expiries, and for all caps. The assumptions are the `ASSUME`s of each module, which
say no more than that bounds are natural numbers, that threads, requests and instances are
finite sets where they are counted, and that every case has one source; two theorems about
the rate limit have a hypothesis of their own, given below. A property is seldom inductive
as it stands; what had to be added to it is the argument of the proof.

**`SpendLimitsProofs`, the quota.** `DailyQuotaTypeOK`; `CapIsRespected` and
`FullStaysFull`, together `CapIsExactAlways`, the first from the invariant that a snapshot
with the current version is the current value, so that a commit adds one to a counter below
its cap, the second because counters never decrease; `RefusedOnlyUnderContention`, from an
invariant that counts a transaction's tries against the commits since its call;
`TransactionsAreAtomic`, the refinement of `AtomicQuota`: a commit maps to a grant, the cap
check and the last abort to a denial, everything else to a stutter.

**`SpendLimitsProofs`, the rate limit.** `RateLimitTypeOK`; `KeyIsTheCaller`: whatever a
client writes into X-Forwarded-For, `ClientIp` returns the address the first trusted proxy
saw. `RefusalsAreEarned` from `EarnedInv`: while a counter runs, the last requests let in,
as many as it counts up to the share, fell into its window, and who was just refused is
beyond the share. `BurstsAreBounded` from `BurstInv`: every request let in has a label (the
life of the instance, the time its window opened, its number in it), windows of a life lie
apart, lives follow each other, no two requests of a window share a number. A period of a
window's length then meets, on each instance, at most one window that opened before it, and
not that window's first request, and one for each life that opened within it. `Fleet` is
the number the limit is divided by (`RATE_LIMIT_MAX_INSTANCES`): the first theorem assumes
that there are at least so many instances, the second that there are at most so many; both
hold when the configured number is the real one.

**`GenerateCaseProofs`.** `GenerateCaseTypeOK`; `CallsStayWithinBudget` and
`SavedStaysWithinBudget`, together `BudgetsAlwaysHold`, from the invariant that the counters
of a day count the reserved attempts and the winners of that day, which contain the calls
and the saved cases; `LiveCasesAreFlawless`, and with it `OneFlawlessCaseAtMost`, because
what a request carries past a gate is free of what the gate looks for; `AnnouncedIsSaved`
and `SlotsAreAccountedFor`, together `OutcomesAreAlwaysHonest`, because a winner is at its
save, has a case, or ended unattached without a last event. `RequestsFollowThePath`, the
refinement of `GenerationPath`: a request that has not ended has announced nothing, so that
its stage and attempt alone give its place, and it has counted no attempt before its
pre-check (`FirstAttempt`).

**`PlayerGameProofs`.** For any overlap: `PlayerGameTypeOK`; `HintOvershootIsBounded`, from
the invariant that the hints of a case and the threads past the check for it stay below the
cap plus the number of threads; `SeenHintsAreCharged`, because a hint is recorded before it
is delivered and a submission counts after it began; `PointsAreEarned`, because however old
a thread's copy of a profile is, its points were earned (`SeenIsEarned`). For a player who
makes one call at a time, from the invariant that there is one such call and that what it
has read is still so: `SerialProfilesAreExact` (the copy is the profile, `SerialIInv`);
`RescoringNeedsACause`, because a scored case that has no attempt, and no call about to
record one, has lost it to a crash or an expiry, of which each opens the gate of one case
once (`GateIInv`: the repeated scores and the open gates together are no more than the
causes); `HintsEscalate` (the hints it counted are those there are when it records the
next, and each expiry moves the levels by at most one, `LevelsIInv`).

**`CaseLifecycleProofs`.** `CaseLifecycleTypeOK`; whatever overlaps, `OnlyVettedAreDaily` and
`SchedulerFeaturesCurated`, from an invariant about what a call past the policy holds, and
`ChoiceIsPublishable` (with the former `SchedulerAlwaysChoosesWell`), because a sound
case that has once been approved is approved, live or rejected ever after (`ListedInv`), and
while calls do not overlap nothing changes it between the list and the second read; for
calls that do not overlap, `DailyCasesAreVisible` and `SerialCallsFollowLifecycle`, from the invariant that at
most one thread is busy and that what its call read is still true (generation only touches
cases that did not exist); and `SchedulerRotates`, from the invariant that the scheduler's
choice differs from the pointer of the current day, also when a day without a case begins
meanwhile. The same module holds two theorems about `DailySchedule`:
`ScheduleImplementsLifecycle`, every step of the job and of the administrators is a step of
the catalog or leaves it alone, which carries all the theorems above over to it; and
`OneChangePerFiring`, for any numbers of retries, slips, threads and administrators, from
the invariant that the changes made and the attempts given up that still run are together
no more than the slips, and one more once the firing is over.

**`GenerationStreamProofs`.** `GenerationStreamTypeOK`; then three invariants, together
`StreamInv`. `TimerInv`: on a working connection with nothing on the way the client has
waited no longer than the server, and otherwise no longer than the silence of the server and
the age of the oldest frame; it needs that the response never falls silent, so that a
finished response leaves a last frame on the way. From it `OnlyDeadConnectionsTimeOut`, for
every heartbeat, longest blocking of the event loop and latency whose sum is below the idle
timeout. `LosslessInv`: the frames on the way carry, in order, the events between what the
client has received and what is pending or prefetched, and an `end` frame is the last one
and follows the pipeline's last event. From it `NothingIsLostOnTheWay`. `PageInv`: what the
page shows is determined by the events received. From all three `PagesAreTruthful`.
`StreamsCarryOneGeneration` adds the two refinements: an arriving data frame is a
`Receive`, a clean end a `Complete` because `LosslessInv` makes it one, every other end a
`Break`; and by the grammar of the events (`RunGoesOn`, `RunEndsWithAnOutcome`) each event is
one step of `GenerationPath` or none.

**`CasePlayProofs`.** `CasePlayTypeOK`; `AccusationsFit`, `HintsAreForThisCase` and
`VerdictsAreForThisCase`, together `PageAlwaysFits`; `ReplacementNeedsMasking`;
`AlreadySolvedMeansLoss`; `ProgressIsAlwaysReal`; none with an assumption on time. The
invariant `PageInv` says that the chosen suspect belongs to the case shown, that, until a
generation was masked, at most one stream is open and only on a solved page, that a case
whose generation has not ended was neither seen nor attempted, and that a case attempted
and still playable was attempted in vain.

**`LiveContentProofs`.** `SolvedByConstruction`, for every template and draw;
`CandidatesAreSolvable`, because a candidate in hand holds the required facts of a built
case, and those show its culprit; `EscapesAreUntyped`; `NoStaleUsage`, from the invariant that
nobody's call is over and that `last_usage` was set since the call began whenever it is
about to be read: it relies on the reset before each request and on the judges always
setting the attribute. `BoardsAreAlwaysFair`, for every set of cases and spellings:
the board never changes, so that what was judged was judged of it (`PolicyIInv`), and for a
consistent board the policies name exactly the culprit and let no hint tell what no clue
tells.

**`OfflineContentProofs`.** `BatchTypes`, `StoredDraftsAreUnambiguous`, `CompleteDraftsAreKept`
(a fresh file name is not in use; `uuid4` is assumed not to repeat one) and
`SummaryIsHonest`, which counts the complete drafts of the run. `EvalTypes` and
`ReportsAreHonest`: a fixture accepted once is accepted by the majority or its runs
disagree, no accepted invalid fixture is missing from the false positives and no
disagreement from the flags (`EvalIInv`).

`tlapm` reads `UNION A \cup B` as `UNION (A \cup B)` and TLC as `(UNION A) \cup B`; the
modules always parenthesise it. Guards of a `CASE` are disjoint wherever a proof looks into
it, for its value is otherwise any of those that apply.

Only model-checked: the liveness properties `EveryCallReturns`, `EveryRequestEnds`,
`FiringPublishes`, `PageLeavesProgress` and `SpinnersStop`, because fairness and ENABLED are
out of the prover's reach. The properties that runs expect to be violated are refuted by
TLC, not by proof. `OnlyVettedCasesAreDaily` is the other way round: proved, and in no run of
its own, because `SchedulerChoosesWell` and `DailyCaseIsVisible` need it.

## 6. Disagreements between the code and its documentation

* `ScoredOncePerCase` (`player_rescored`): `submit_solution.py:61` says that only the
  first attempt at a case affects score and streak, `ports.py:45` calls the check the
  gate against farming. The check and the record are two Firestore calls with the save
  of the player between them; two overlapping submissions both find no attempt and both
  score. The same property fails for a player who makes one call at a time when a
  call is cut off between the save (line 86) and the record (line 88), and when TTL
  has deleted the attempt after 180 days: set `MaxCrashes` or `MaxExpiries` to 1 and
  `Workers` to one thread in `MCPlayerGame_rescored.cfg` to see it.
* `HintCapIsClusterWide` (`player_overhinted`): `api/rate_limiting.py:44` relies on the
  per-case hint cap as a genuinely cluster-wide backstop, and ADR-0006 calls it a real
  Firestore transaction. It is a count and a later write around a model call of seconds.
  What holds is `HintOvershootBounded`.
* `FollowsLifecycle` (`lifecycle_overlap`): `api/routes/admin.py:1` describes the lifecycle
  draft, approved or rejected, live. Approve, reject and publish write back the whole
  document they read, so overlapping calls move a case backwards.
* `NoRepeatOnceMoreExist` (`schedule_repeats`): at 06:00 the new day has no pointer yet, so rotation
  (`publish_next_daily_case.py:60`) has nothing to exclude and chooses the oldest publishable
  case, every day anew. ADR-0006 calls the one case of the catalog "intended to be
  republished every day until more exist". What does hold is `RotatesAwayFromToday`.
* `FailureIsReported` (`play_timeout`): `case_api_client.dart:27` says of every call that a
  timeout is turned into "Could not reach the server" by the generic `catch (_)` of the
  view models. `submitSolution` and `requestHint` in `case_play_view_model.dart` catch
  `ApiException` only; the timeout passes through them and the page shows nothing.

More were met while modelling; properties that state what does hold stand for them:

* `application/ports.py:71` and `generator.py:58` call the tokens of a stage the measured
  cost of the request. The renderer and the evaluators are shared, so a request can
  report the tokens of one that ran at the same time, or none; `UsageIsNotStale` is what
  remains. An answer that is not JSON reports no tokens although it was paid for.
* `live_case_generator.py:26` says that failures become a failed outcome and never
  propagate. `validate_rules` is called outside the `try`: a title, setting or problem that is
  null, a number or a list, a neutral clue that is a number or a list, or a name that is a
  list raises there and ends the whole request (`EscapesOnlyUntyped`).
* `case_generation_api_client.dart:26` names two timeouts, one until the status and one for
  each chunk of the stream. The body of an error answer is read under neither (line 36): a
  connection that dies silently between its status and its body leaves the page in progress
  for ever. `PageLeavesProgress` says that nothing else does.
* `case_play_view_model.dart:59` says that playing a generated case looks and behaves
  identically to playing the daily one. `requestHint` does not ask whether its case is still
  the one on the page, so a hint of the last case can appear beside the generated one, and
  its `hintsRemaining` of 0 blocks the new case's hints; `PageFitsCase` says that this is the
  only way a wrong hint gets there.
* `CaseGenerationViewModel.start` leaves an earlier stream open, and the page offers to start
  again as soon as that stream's last event has come. An error of the old stream is then shown
  over the new generation, a third one can be started, and two of them finish: the second
  replaces the game of the first. `ReplacedOnlyIfMasked` says that this is the only way a game
  is replaced.
* `rule_validator.py:1` promises that no field is empty. The schema parser checks it, and
  live cases do not pass through the schema parser: an empty setting, problem or neutral
  clue goes on to the judges.
* `api/rate_limiting.py:69` calls 12 a minute the worst-case total of the cluster for a limit
  of 10. It is the total of one fixed window of each instance. Over a minute that begins in
  one window and ends in the next it is nearly twice that, and a replaced instance adds a
  share; `BurstIsBounded` is the bound that holds.
* `CaseConsistencyPolicy` compares ids as they are spelt (`case_consistency_policy.py:20`),
  `SolutionPolicy` normalises them. A case whose ids differ only in case or blanks passes the
  check, and two of its suspects are right. No pipeline makes such ids;
  `OnlyTheCulpritIsRight` says so in its premise `SpeltApart`.
* `routes/cases.py:40` calls the heartbeat always the thing that fires first, under normal
  conditions. The route reads the quota on the event loop (line 178), so that every stream of the instance is
  silent during that read: what holds is proved for a heartbeat, a longest blocking and a
  latency that together stay below the idle timeout of 45 s. Nothing in the code bounds the
  blocking: a read that hangs for half a minute is a gap the client takes for a dead server.

## 7. What the checks do not say

Firestore's own guarantees (a committed transaction saw a current snapshot; single
reads and writes are atomic) are assumed. Day boundaries use one clock for all
instances. In the run `daily_schedule` a firing of the job, with what it left running, is
over before midnight; administrators' calls may straddle it there. A midnight between the
scheduler's choice and its pointer is covered by the theorem `SchedulerRotates` alone: it is
about `CaseLifecycle`, whose `NextDay` comes at any time. `DraftBatch` counts a draft in the
step that completes its file, so a kill between the two is not told from one after them;
the summary is not printed either way.
Each UTC day starts without a daily case until the scheduler's run at 06:00, and no
property forbids it. slowapi's fixed windows are modelled from how the code uses it. The two
endpoints with a literal limit (hint, generate) are not instances of `RateLimit`: their limit
is one instance's, whatever the number of instances.

## 8. Not modelled

* Token costs, precision and recall, the difficulty heuristic: arithmetic on what is
  reported, which no step depends on.
* The language models behind the adapters: any answer, or none.
* In-memory repositories: stand-ins for development with the same interface.
* Authentication: a stateless decision per request made by library calls, before the
  handlers that are modelled.
* Mappers, contracts and DTOs: field-by-field conversions without control flow. Logging,
  configuration and start-up: input, output and wiring. Widgets and theme: what they
  enable is in `CasePlay`, how they look is not. Build, CI and deployment: configuration;
  the instance count, the job's schedule and its retries are constants taken from it.
