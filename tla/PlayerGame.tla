----------------------------- MODULE PlayerGame ------------------------------
(***************************************************************************)
(* A player's side of the API: CreatePlayer, RequestHint and               *)
(* SubmitSolution, each served by one worker thread out of a pool spread   *)
(* over all instances.  A use case is a chain of single Firestore reads    *)
(* and writes without a transaction, so any two calls interleave at every  *)
(* one of them; the model call inside RequestHint makes the gap between    *)
(* its read and its write seconds wide.                                    *)
(*                                                                         *)
(* The environment may cut calls off between two steps (MaxCrashes) and    *)
(* let Firestore's TTL delete attempts and hint requests (MaxExpiries);    *)
(* the history variable overlapped tells the players who make one call at  *)
(* a time from the others.                                                 *)
(***************************************************************************)
EXTENDS Integers, Sequences, FiniteSets

CONSTANTS
    Players, Cases,
    Workers,      \* threads serving calls
    MaxHints,     \* HintPolicy.max_hints
    MaxScore,     \* ScoringPolicy.max_score
    HintPenalty,  \* ScoringPolicy.hint_penalty
    MinScore,     \* ScoringPolicy.min_score
    MaxCrashes,   \* bound: calls that are cut off
    MaxExpiries   \* bound: documents that expire

ASSUME WorkersAssumption == IsFiniteSet(Workers) /\ Workers # {}
ASSUME PolicyAssumption ==
    /\ MaxHints \in Nat \ {0}
    /\ MaxScore \in Nat /\ HintPenalty \in Nat /\ MinScore \in 0..MaxScore
ASSUME EnvironmentAssumption == MaxCrashes \in Nat /\ MaxExpiries \in Nat

VARIABLES
    registered,  \* players with a document
    profile,     \* [Players -> [score, streak]], the player documents
    attempted,   \* <<p, c>> with a case_attempts document
    hints,       \* [Players \X Cases -> Seq(Nat)], levels of the hint_requests documents
    work,        \* [Workers -> Job], what each thread is doing
    crashes, expiries,  \* events so far, against their bounds
    overlapped,  \* history: players who had two calls served at once
    scored,      \* history: [Players -> Seq(Scored)], every scored save
    delivered    \* history: [Players \X Cases -> Nat], hints the player has seen

docs == <<registered, profile, attempted, hints>>
environment == <<crashes, expiries, overlapped>>
vars == <<docs, work, environment, scored, delivered>>

Profile == [score : Nat, streak : Nat]

\* The locals of the use case a thread is in.
Job == [pc : {"idle", "exists", "count", "save", "record", "hint_count", "hint_generate", "hint_answer"},
        player : Players, case : Cases,
        right : BOOLEAN,      \* SolutionPolicy's verdict on the submission
        seen : Profile,       \* the player as read at the start
        solved : BOOLEAN,     \* already_solved
        used : Nat,           \* hints_used
        due : Nat]            \* history: hints delivered before the call began

\* A scored save, and what the player's saves have been worth up to it.
Scored == [case : Cases, right : BOOLEAN, score : Nat, total : Nat]

TypeOK ==
    /\ registered \subseteq Players
    /\ profile \in [Players -> Profile]
    /\ attempted \subseteq Players \X Cases
    /\ hints \in [Players \X Cases -> Seq(Nat)]
    /\ work \in [Workers -> Job]
    /\ crashes \in Nat /\ expiries \in Nat /\ overlapped \subseteq Players
    /\ scored \in [Players -> Seq(Scored)]
    /\ delivered \in [Players \X Cases -> Nat]

NewProfile == [score |-> 0, streak |-> 0]

\* An idle thread; its other fields are dead.
IdleJob(p, c) == [pc |-> "idle", player |-> p, case |-> c, right |-> FALSE,
                  seen |-> NewProfile, solved |-> FALSE, used |-> 0, due |-> 0]

Init ==
    /\ registered = {}
    /\ profile = [p \in Players |-> NewProfile]
    /\ attempted = {}
    /\ hints = [pc \in Players \X Cases |-> <<>>]
    /\ \E p \in Players, c \in Cases : work = [w \in Workers |-> IdleJob(p, c)]
    /\ crashes = 0
    /\ expiries = 0
    /\ overlapped = {}
    /\ scored = [p \in Players |-> <<>>]
    /\ delivered = [pc \in Players \X Cases |-> 0]

-----------------------------------------------------------------------------
Busy(w) == work[w].pc # "idle"

\* The case a job is about, as the key of its documents.
Key(w) == <<work[w].player, work[w].case>>

\* A registered player's call reaches a free thread.
Serve(w, p) ==
    /\ ~Busy(w)
    /\ p \in registered
    /\ overlapped' = IF \E v \in Workers : Busy(v) /\ work[v].player = p
                     THEN overlapped \cup {p} ELSE overlapped

\* The thread is free again; what it had computed is forgotten.
Finished(w) == work' = [work EXCEPT ![w] = IdleJob(work[w].player, work[w].case)]

\* Mutant: the floor is forgotten.
Bug_NoMinScore(correct, used) == IF correct THEN MaxScore - used * HintPenalty ELSE 0

\* ScoringPolicy.calculate_score
CalculateScore(correct, used) ==
    LET raw == MaxScore - used * HintPenalty IN
    IF ~correct THEN 0 ELSE IF raw > MinScore THEN raw ELSE MinScore

\* _next_streak
NextStreak(streak, correct) == IF correct THEN streak + 1 ELSE 0

\* POST /players: a fresh id with score 0 and streak 0.
CreatePlayer(p) ==
    /\ p \notin registered
    /\ registered' = registered \cup {p}
    /\ profile' = [profile EXCEPT ![p] = NewProfile]
    /\ UNCHANGED <<attempted, hints, work, environment, scored, delivered>>

-----------------------------------------------------------------------------
(***************************************************************************)
(* SubmitSolution.  Calls that fail before their first write (no such      *)
(* case, player or suspect) change nothing and are not modelled.           *)
(***************************************************************************)
\* Get the case and the player, judge the answer.
SubmitStart(w, p, c, right) ==
    /\ Serve(w, p)
    /\ work' = [work EXCEPT ![w] =
                  [IdleJob(p, c) EXCEPT !.pc = "exists", !.right = right,
                                        !.seen = profile[p], !.due = delivered[<<p, c>>]]]
    /\ UNCHANGED <<docs, crashes, expiries, scored, delivered>>

\* already_solved = exists_for(player, case)
SubmitExists(w) ==
    /\ work[w].pc = "exists"
    /\ work' = [work EXCEPT ![w] = [@ EXCEPT !.pc = "count", !.solved = Key(w) \in attempted]]
    /\ UNCHANGED <<docs, environment, scored, delivered>>

\* count_for_case; a solved case goes straight to recording the attempt.
SubmitCount(w) ==
    /\ work[w].pc = "count"
    /\ work' = [work EXCEPT ![w] =
                  [@ EXCEPT !.pc = IF work[w].solved THEN "record" ELSE "save",
                            !.used = Len(hints[Key(w)])]]
    /\ UNCHANGED <<docs, environment, scored, delivered>>

\* What the scored saves of a player have been worth so far.
Worth(saves) == IF saves = <<>> THEN 0 ELSE saves[Len(saves)].total
Earned(p) == Worth(scored[p])

\* The history gets one more scored save.
KeepScore(job, score) ==
    scored' = [scored EXCEPT ![job.player] =
                 Append(@, [case |-> job.case, right |-> job.right, score |-> score,
                            total |-> Earned(job.player) + score])]

\* Mutant: the score replaces the total instead of being added to it.
Bug_SaveOverwrites(w) ==
    LET job == work[w]
        score == CalculateScore(job.right, job.used)
    IN
    /\ job.pc = "save"
    /\ profile' = [profile EXCEPT ![job.player] =
                     [score |-> score, streak |-> NextStreak(job.seen.streak, job.right)]]
    /\ KeepScore(job, score)
    /\ work' = [work EXCEPT ![w] = [@ EXCEPT !.pc = "record"]]
    /\ UNCHANGED <<registered, attempted, hints, environment, delivered>>

\* Save the player computed from the document read at the start.
SubmitSave(w) ==
    LET job == work[w]
        score == CalculateScore(job.right, job.used)
    IN
    /\ job.pc = "save"
    /\ profile' = [profile EXCEPT ![job.player] =
                     [score |-> job.seen.score + score,
                      streak |-> NextStreak(job.seen.streak, job.right)]]
    /\ KeepScore(job, score)
    /\ work' = [work EXCEPT ![w] = [@ EXCEPT !.pc = "record"]]
    /\ UNCHANGED <<registered, attempted, hints, environment, delivered>>

\* Mutant: only a correct attempt is recorded ("existence, not correctness",
\* ports.py:48).
Bug_RecordOnlyCorrect(w) ==
    /\ work[w].pc = "record"
    /\ attempted' = IF work[w].right THEN attempted \cup {Key(w)} ELSE attempted
    /\ Finished(w)
    /\ UNCHANGED <<registered, profile, hints, environment, scored, delivered>>

\* Record the attempt and answer.
SubmitRecord(w) ==
    /\ work[w].pc = "record"
    /\ attempted' = attempted \cup {Key(w)}
    /\ Finished(w)
    /\ UNCHANGED <<registered, profile, hints, environment, scored, delivered>>

-----------------------------------------------------------------------------
(***************************************************************************)
(* RequestHint.                                                            *)
(***************************************************************************)
\* Mutant: one hint too many.
Bug_CapOffByOne(used) == used <= MaxHints

\* HintPolicy.can_request_hint
CanRequestHint(used) == used < MaxHints

\* Get the case, check the player exists.
HintStart(w, p, c) ==
    /\ Serve(w, p)
    /\ work' = [work EXCEPT ![w] = [IdleJob(p, c) EXCEPT !.pc = "hint_count"]]
    /\ UNCHANGED <<docs, crashes, expiries, scored, delivered>>

\* count_for_case and the policy: 409 or on to the assistant.
HintCount(w) ==
    LET used == Len(hints[Key(w)]) IN
    /\ work[w].pc = "hint_count"
    /\ IF CanRequestHint(used)
       THEN work' = [work EXCEPT ![w] = [@ EXCEPT !.pc = "hint_generate", !.used = used]]
       ELSE Finished(w)
    /\ UNCHANGED <<docs, environment, scored, delivered>>

\* Mutants: the fallback text is answered without a record; the level recorded
\* is the number of hints already used.
Bug_FallbackUnrecorded(w) ==
    /\ work[w].pc = "hint_generate"
    /\ work' = [work EXCEPT ![w] = [@ EXCEPT !.pc = "hint_answer"]]
    /\ UNCHANGED <<docs, environment, scored, delivered>>
Bug_RecordOldLevel(w) ==
    /\ work[w].pc = "hint_generate"
    /\ hints' = [hints EXCEPT ![Key(w)] = Append(@, work[w].used)]
    /\ work' = [work EXCEPT ![w] = [@ EXCEPT !.pc = "hint_answer"]]
    /\ UNCHANGED <<registered, profile, attempted, environment, scored, delivered>>

\* The assistant's text (or the fallback) is there: record the hint.
HintRecord(w) ==
    /\ work[w].pc = "hint_generate"
    /\ hints' = [hints EXCEPT ![Key(w)] = Append(@, work[w].used + 1)]
    /\ work' = [work EXCEPT ![w] = [@ EXCEPT !.pc = "hint_answer"]]
    /\ UNCHANGED <<registered, profile, attempted, environment, scored, delivered>>

\* Answer: only now does the player see the hint.
HintAnswer(w) ==
    /\ work[w].pc = "hint_answer"
    /\ delivered' = [delivered EXCEPT ![Key(w)] = @ + 1]
    /\ Finished(w)
    /\ UNCHANGED <<docs, environment, scored>>

-----------------------------------------------------------------------------
\* The instance stops, or a repository call raises, between two steps.
Crash(w) ==
    /\ crashes < MaxCrashes
    /\ Busy(w)
    /\ crashes' = crashes + 1
    /\ Finished(w)
    /\ UNCHANGED <<docs, expiries, overlapped, scored, delivered>>

\* 180 days later the TTL policy deletes what a player did in a case: the last
\* of its attempts, or its oldest hint request.
ExpireAttempts(k) ==
    /\ expiries < MaxExpiries
    /\ k \in attempted
    /\ expiries' = expiries + 1
    /\ attempted' = attempted \ {k}
    /\ UNCHANGED <<registered, profile, hints, work, crashes, overlapped, scored, delivered>>

ExpireHint(k) ==
    /\ expiries < MaxExpiries
    /\ hints[k] # <<>>
    /\ expiries' = expiries + 1
    /\ hints' = [hints EXCEPT ![k] = Tail(@)]
    /\ UNCHANGED <<registered, profile, attempted, work, crashes, overlapped, scored, delivered>>

Next ==
    \/ \E p \in Players : CreatePlayer(p)
    \/ \E w \in Workers, p \in Players, c \in Cases :
          \/ \E right \in BOOLEAN : SubmitStart(w, p, c, right)
          \/ HintStart(w, p, c)
    \/ \E w \in Workers :
          \/ SubmitExists(w) \/ SubmitCount(w) \/ SubmitSave(w) \/ SubmitRecord(w)
          \/ HintCount(w) \/ HintRecord(w) \/ HintAnswer(w)
          \/ Crash(w)
    \/ \E k \in Players \X Cases : ExpireAttempts(k) \/ ExpireHint(k)

Spec == Init /\ [][Next]_vars

-----------------------------------------------------------------------------
(***************************************************************************)
(* Properties of overlapping calls.                                        *)
(***************************************************************************)
\* The cap on hints is read long before the hint is recorded, so it is not
\* exact; but it is overshot by at most one hint per concurrent thread.
HintOvershootBounded ==
    \A k \in Players \X Cases : Len(hints[k]) <= MaxHints + Cardinality(Workers) - 1

\* Whatever overlaps or is cut off, no hint is free: an attempt that scores is
\* charged for every hint the player had seen when the submission arrived (as
\* long as none of their records expired).
DeliveredHintsAreCharged ==
    expiries = 0 =>
        \A w \in Workers : work[w].pc \in {"save", "record"} => work[w].used >= work[w].due

\* Overlapping saves may lose points (the later one overwrites), but never
\* invent them: the total is at most what the scored answers were worth, each
\* of them 0 when wrong and between the floor and the maximum when right,
\* however many hints the player squeezed past the cap.
PointsAreNeverInvented ==
    \A p \in Players :
        /\ profile[p].score <= Earned(p)
        /\ \A i \in DOMAIN scored[p] :
              scored[p][i].score \in IF scored[p][i].right THEN MinScore..MaxScore ELSE {0}

(***************************************************************************)
(* Properties of a player who makes one call at a time.                    *)
(***************************************************************************)
\* Two overlapping calls of one player never happened.
Serial(p) == p \notin overlapped

\* The attempts of p that counted are about different cases.
ScoredOnce(p) ==
    \A i, j \in DOMAIN scored[p] : scored[p][i].case = scored[p][j].case => i = j

\* "Only the first attempt at a given case affects score/streak"
\* (submit_solution.py:61).
ScoredOncePerCase == \A p \in Players : ScoredOnce(p)

\* What of it the code achieves, one call at a time: a case is scored again only
\* because a call was cut off between its save and its record, or because an
\* attempt expired, and each of these lets in one scored save too many, whatever
\* becomes of the repeated calls.
ScoredCases(p) == {scored[p][i].case : i \in DOMAIN scored[p]}
RescoredOnlyForCause ==
    \A p \in Players : Serial(p) =>
        Len(scored[p]) <= Cardinality(ScoredCases(p)) + crashes + expiries

\* rate_limiting.py:44 calls HintPolicy's per-case cap "a genuinely
\* cluster-wide backstop".
HintCapIsClusterWide == \A k \in Players \X Cases : Len(hints[k]) <= MaxHints

\* Hints escalate, also when calls are cut off: the recorded levels are 1, 2, 3
\* without gap or repeat.  An expired hint lets later ones start again at a lower
\* level, or leaves old ones at a higher one, by one level for each.
HintLevelsEscalate ==
    \A p \in Players, c \in Cases : Serial(p) =>
        \A i \in DOMAIN hints[<<p, c>>] : hints[<<p, c>>][i] \in i..(i + expiries)

\* A player who makes one call at a time loses no points either, whatever is
\* cut off between two steps.
NoPointsAreLost == \A p \in Players : Serial(p) => profile[p].score = Earned(p)

\* The stored streak is the run of correct answers at the end of everything
\* that was scored, whatever is cut off or expires.
StreakIsTheWinningRun ==
    \A p \in Players : Serial(p) =>
        LET n == Len(scored[p])
            s == profile[p].streak
        IN  /\ s <= n
            /\ \A i \in (n - s + 1)..n : scored[p][i].right
            /\ s < n => ~scored[p][n - s].right

\* The profile of such a player is what its scored answers make it.
SerialProfileIsExact == NoPointsAreLost /\ StreakIsTheWinningRun
=============================================================================
