--------------------------- MODULE PlayerGameProofs ---------------------------
(***************************************************************************)
(* Theorems of PlayerGame, for every number of players, cases and threads  *)
(* and whatever overlaps, is cut off or expires.                           *)
(***************************************************************************)
EXTENDS PlayerGame, FiniteSetTheorems, TLAPS

Keys == Players \X Cases

\* The shape of every step of a thread: its own job changes, to a job.
OwnStep(w) ==
    /\ work'[w] \in Job
    /\ work' = [work EXCEPT ![w] = work'[w]]

-----------------------------------------------------------------------------
(***************************************************************************)
(* Types.                                                                  *)
(***************************************************************************)
LEMMA ScoreType ==
    ASSUME NEW correct \in BOOLEAN, NEW used \in Nat
    PROVE  CalculateScore(correct, used) \in Nat
<1>1. PICK penalty \in Nat : penalty = used * HintPenalty
  BY PolicyAssumption
<1> QED
  BY <1>1, PolicyAssumption DEF CalculateScore

LEMMA WorthType ==
    ASSUME NEW saves \in Seq(Scored)
    PROVE  Worth(saves) \in Nat
<1>1. CASE saves # <<>>
  <2>1. saves[Len(saves)] \in Scored
    BY <1>1
  <2> QED
    BY <1>1, <2>1 DEF Worth, Scored
<1> QED
  BY <1>1 DEF Worth

LEMMA EarnedType ==
    ASSUME TypeOK, NEW p \in Players
    PROVE  Earned(p) \in Nat
BY WorthType DEF Earned, TypeOK

LEMMA KeyType ==
    ASSUME TypeOK, NEW w \in Workers
    PROVE  /\ work[w] \in Job
           /\ Key(w) \in Keys
           /\ hints[Key(w)] \in Seq(Nat)
           /\ Len(hints[Key(w)]) \in Nat
           /\ delivered[Key(w)] \in Nat
BY DEF TypeOK, Job, Key, Keys

LEMMA IdleJobType ==
    ASSUME NEW p \in Players, NEW c \in Cases
    PROVE  IdleJob(p, c) \in Job
BY DEF IdleJob, Job, Profile, NewProfile

LEMMA FinishedStep ==
    ASSUME TypeOK, NEW w \in Workers, Finished(w)
    PROVE  OwnStep(w) /\ work'[w].pc = "idle"
<1>1. work[w].player \in Players /\ work[w].case \in Cases
  BY KeyType DEF Job
<1> QED
  BY <1>1, IdleJobType DEF Finished, OwnStep, TypeOK, IdleJob

LEMMA StartStep ==
    ASSUME TypeOK, NEW w \in Workers, NEW p \in Players, NEW c \in Cases
    PROVE  /\ \A right \in BOOLEAN : SubmitStart(w, p, c, right) =>
                 /\ OwnStep(w)
                 /\ work'[w].pc = "exists"
                 /\ work'[w].player = p /\ work'[w].case = c
                 /\ work'[w].due = delivered[<<p, c>>]
           /\ HintStart(w, p, c) => OwnStep(w) /\ work'[w].pc = "hint_count"
<1>1. profile[p] \in Profile /\ delivered[<<p, c>>] \in Nat
  BY DEF TypeOK
<1>2. ASSUME NEW right \in BOOLEAN, SubmitStart(w, p, c, right)
      PROVE  /\ OwnStep(w)
             /\ work'[w].pc = "exists"
             /\ work'[w].player = p /\ work'[w].case = c
             /\ work'[w].due = delivered[<<p, c>>]
  BY <1>1, <1>2 DEF SubmitStart, OwnStep, TypeOK, IdleJob, Job, Profile, NewProfile
<1>3. ASSUME HintStart(w, p, c) PROVE OwnStep(w) /\ work'[w].pc = "hint_count"
  BY <1>3 DEF HintStart, OwnStep, TypeOK, IdleJob, Job, Profile, NewProfile
<1> QED
  BY <1>2, <1>3

\* What each later step makes of its thread's job.
LEMMA JobStep ==
    ASSUME TypeOK, NEW w \in Workers
    PROVE  /\ SubmitExists(w) =>
                 /\ OwnStep(w)
                 /\ \E found \in BOOLEAN :
                       work'[w] = [work[w] EXCEPT !.pc = "count", !.solved = found]
           /\ SubmitCount(w) =>
                 /\ OwnStep(w)
                 /\ work'[w] = [work[w] EXCEPT !.pc = IF work[w].solved THEN "record" ELSE "save",
                                               !.used = Len(hints[Key(w)])]
           /\ SubmitSave(w) => OwnStep(w) /\ work'[w] = [work[w] EXCEPT !.pc = "record"]
           /\ HintRecord(w) => OwnStep(w) /\ work'[w] = [work[w] EXCEPT !.pc = "hint_answer"]
           /\ HintCount(w) =>
                 /\ OwnStep(w)
                 /\ \/ /\ Len(hints[Key(w)]) < MaxHints
                       /\ work'[w] = [work[w] EXCEPT !.pc = "hint_generate",
                                                     !.used = Len(hints[Key(w)])]
                    \/ work'[w].pc = "idle"
<1> USE DEF OwnStep
<1>1. work \in [Workers -> Job] /\ work[w] \in Job /\ Len(hints[Key(w)]) \in Nat
  BY KeyType DEF TypeOK
<1>2. ASSUME SubmitExists(w)
      PROVE  /\ OwnStep(w)
             /\ \E found \in BOOLEAN :
                   work'[w] = [work[w] EXCEPT !.pc = "count", !.solved = found]
  <2> DEFINE found == Key(w) \in attempted
  <2>1. found \in BOOLEAN
    OBVIOUS
  <2>2. work' = [work EXCEPT ![w] = [work[w] EXCEPT !.pc = "count", !.solved = found]]
    BY <1>2 DEF SubmitExists
  <2> HIDE DEF found
  <2>3. [work[w] EXCEPT !.pc = "count", !.solved = found] \in Job
    BY <1>1, <2>1 DEF Job
  <2>4. work'[w] = [work[w] EXCEPT !.pc = "count", !.solved = found]
    BY <1>1, <2>2
  <2> QED
    BY <1>1, <2>1, <2>2, <2>3, <2>4
<1>3. ASSUME SubmitCount(w)
      PROVE  /\ OwnStep(w)
             /\ work'[w] = [work[w] EXCEPT !.pc = IF work[w].solved THEN "record" ELSE "save",
                                           !.used = Len(hints[Key(w)])]
  BY <1>1, <1>3 DEF SubmitCount, Job
<1>4. ASSUME SubmitSave(w)
      PROVE  OwnStep(w) /\ work'[w] = [work[w] EXCEPT !.pc = "record"]
  BY <1>1, <1>4 DEF SubmitSave, Job
<1>5. ASSUME HintRecord(w)
      PROVE  OwnStep(w) /\ work'[w] = [work[w] EXCEPT !.pc = "hint_answer"]
  BY <1>1, <1>5 DEF HintRecord, Job
<1>6. ASSUME HintCount(w)
      PROVE  /\ OwnStep(w)
             /\ \/ /\ Len(hints[Key(w)]) < MaxHints
                   /\ work'[w] = [work[w] EXCEPT !.pc = "hint_generate",
                                                 !.used = Len(hints[Key(w)])]
                \/ work'[w].pc = "idle"
  <2>1. CASE CanRequestHint(Len(hints[Key(w)]))
    <3> DEFINE job == [work[w] EXCEPT !.pc = "hint_generate", !.used = Len(hints[Key(w)])]
    <3>1. work' = [work EXCEPT ![w] = job]
      BY <1>6, <2>1 DEF HintCount
    <3>2. job \in Job
      BY <1>1 DEF Job
    <3>3. Len(hints[Key(w)]) < MaxHints
      BY <2>1 DEF CanRequestHint
    <3> HIDE DEF job
    <3>4. work'[w] = job /\ OwnStep(w)
      BY <1>1, <3>1, <3>2
    <3> QED
      BY <3>3, <3>4 DEF job
  <2>2. CASE ~CanRequestHint(Len(hints[Key(w)]))
    BY <1>6, <2>2, FinishedStep DEF HintCount
  <2> QED
    BY <2>1, <2>2, Zenon
<1> QED
  BY <1>2, <1>3, <1>4, <1>5, <1>6

\* Documents and locals keep their types: in particular no total score or
\* streak is ever negative, however many hints overlapping calls recorded.
THEOREM PlayerGameTypeOK == Spec => []TypeOK
<1>1. Init => TypeOK
  <2> SUFFICES ASSUME Init PROVE TypeOK
    OBVIOUS
  <2>1. PICK p \in Players, c \in Cases : work = [w \in Workers |-> IdleJob(p, c)]
    BY DEF Init
  <2>2. work \in [Workers -> Job]
    BY <2>1, IdleJobType
  <2> QED
    BY <2>2 DEF Init, TypeOK, Profile, NewProfile
<1>2. ASSUME TypeOK, [Next]_vars PROVE TypeOK'
  <2> USE <1>2 DEF docs, environment
  <2>1. CASE UNCHANGED vars
    BY <2>1 DEF vars, TypeOK
  <2>2. ASSUME NEW p \in Players, CreatePlayer(p) PROVE TypeOK'
    BY <2>2 DEF CreatePlayer, TypeOK, Profile, NewProfile
  <2>3. ASSUME NEW w \in Workers, OwnStep(w) PROVE work' \in [Workers -> Job]
    BY <2>3 DEF OwnStep, TypeOK
  <2>4. ASSUME NEW w \in Workers, NEW p \in Players, NEW c \in Cases,
               \/ \E right \in BOOLEAN : SubmitStart(w, p, c, right)
               \/ HintStart(w, p, c)
        PROVE  TypeOK'
    <3>1. work' \in [Workers -> Job]
      BY <2>3, <2>4, StartStep
    <3> QED
      BY <2>4, <3>1 DEF SubmitStart, HintStart, Serve, TypeOK
  <2>5. ASSUME NEW w \in Workers, SubmitExists(w) \/ SubmitCount(w) \/ HintCount(w)
        PROVE  TypeOK'
    <3>1. work' \in [Workers -> Job]
      BY <2>3, <2>5, JobStep
    <3> QED
      BY <2>5, <3>1 DEF SubmitExists, SubmitCount, HintCount, TypeOK
  <2>6. ASSUME NEW w \in Workers, SubmitSave(w) PROVE TypeOK'
    <3> DEFINE job == work[w]
               score == CalculateScore(job.right, job.used)
    <3>1. work' \in [Workers -> Job]
      BY <2>3, <2>6, JobStep
    <3>2. /\ job.player \in Players /\ job.case \in Cases /\ job.right \in BOOLEAN
          /\ job.seen.score \in Nat /\ job.seen.streak \in Nat /\ job.used \in Nat
      BY KeyType DEF Job, Profile
    <3>3. score \in Nat
      BY <3>2, ScoreType
    <3> HIDE DEF score
    <3>4. NextStreak(job.seen.streak, job.right) \in Nat /\ job.seen.score + score \in Nat
      BY <3>2, <3>3 DEF NextStreak
    <3>5. profile' \in [Players -> Profile]
      <4>1. [score |-> job.seen.score + score,
             streak |-> NextStreak(job.seen.streak, job.right)] \in Profile
        BY <3>4 DEF Profile
      <4> QED
        BY <2>6, <3>2, <4>1 DEF SubmitSave, TypeOK, score
    <3>6. scored' \in [Players -> Seq(Scored)]
      <4> DEFINE save == [case |-> job.case, right |-> job.right, score |-> score,
                          total |-> Earned(job.player) + score]
      <4>1. save \in Scored
        BY <3>2, <3>3, EarnedType DEF Scored
      <4>2. scored' = [scored EXCEPT ![job.player] = Append(@, save)]
        BY <2>6 DEF SubmitSave, KeepScore, score
      <4> HIDE DEF save
      <4>3. Append(scored[job.player], save) \in Seq(Scored)
        BY <3>2, <4>1 DEF TypeOK
      <4> QED
        BY <3>2, <4>2, <4>3 DEF TypeOK
    <3> QED
      BY <2>6, <3>1, <3>5, <3>6 DEF SubmitSave, TypeOK
  <2>7. ASSUME NEW w \in Workers, SubmitRecord(w) PROVE TypeOK'
    <3>1. work' \in [Workers -> Job]
      BY <2>3, <2>7, FinishedStep DEF SubmitRecord
    <3> QED
      BY <2>7, <3>1, KeyType DEF SubmitRecord, TypeOK, Keys
  <2>8. ASSUME NEW w \in Workers, HintRecord(w) PROVE TypeOK'
    <3>1. work' \in [Workers -> Job]
      BY <2>3, <2>8, JobStep
    <3>2. hints' \in [Players \X Cases -> Seq(Nat)]
      <4>1. work[w].used + 1 \in Nat
        BY KeyType DEF Job
      <4>2. Append(hints[Key(w)], work[w].used + 1) \in Seq(Nat)
        BY <4>1, KeyType
      <4> QED
        BY <2>8, <4>2, KeyType DEF HintRecord, TypeOK, Keys
    <3> QED
      BY <2>8, <3>1, <3>2 DEF HintRecord, TypeOK
  <2>9. ASSUME NEW w \in Workers, HintAnswer(w) PROVE TypeOK'
    <3>1. work' \in [Workers -> Job]
      BY <2>3, <2>9, FinishedStep DEF HintAnswer
    <3>2. delivered' \in [Players \X Cases -> Nat]
      <4>1. delivered[Key(w)] + 1 \in Nat
        BY KeyType
      <4> QED
        BY <2>9, <4>1 DEF HintAnswer, TypeOK
    <3> QED
      BY <2>9, <3>1, <3>2 DEF HintAnswer, TypeOK
  <2>10. ASSUME NEW w \in Workers, Crash(w) PROVE TypeOK'
    <3>1. work' \in [Workers -> Job]
      BY <2>3, <2>10, FinishedStep DEF Crash
    <3>2. crashes' \in Nat
      BY <2>10 DEF Crash, TypeOK
    <3> QED
      BY <2>10, <3>1, <3>2 DEF Crash, TypeOK
  <2>11. ASSUME NEW k \in Players \X Cases, ExpireAttempts(k) \/ ExpireHint(k) PROVE TypeOK'
    <3> expiries' \in Nat
      BY <2>11 DEF ExpireAttempts, ExpireHint, TypeOK
    <3>1. CASE ExpireAttempts(k)
      BY <3>1 DEF ExpireAttempts, TypeOK
    <3>2. CASE ExpireHint(k)
      <4>1. hints[k] \in Seq(Nat) /\ hints[k] # <<>>
        BY <3>2 DEF ExpireHint, TypeOK
      <4>2. Tail(hints[k]) \in Seq(Nat)
        BY <4>1
      <4> QED
        BY <3>2, <4>2 DEF ExpireHint, TypeOK
    <3> QED
      BY <2>11, <3>1, <3>2
  <2> QED
    BY <1>2, <2>1, <2>2, <2>4, <2>5, <2>6, <2>7, <2>8, <2>9, <2>10, <2>11 DEF Next
<1> QED
  BY <1>1, <1>2, PTL DEF Spec

-----------------------------------------------------------------------------
(***************************************************************************)
(* The threads between the read and the record of a hint, and between the  *)
(* record and the answer.  They are what the two invariants below count.   *)
(***************************************************************************)
In(pc, k) == {w \in Workers : work[w].pc = pc /\ Key(w) = k}

LEMMA InFinite ==
    ASSUME NEW pc, NEW k
    PROVE  IsFiniteSet(In(pc, k)) /\ Cardinality(In(pc, k)) \in Nat
           /\ Cardinality(In(pc, k)) <= Cardinality(Workers)
<1>1. In(pc, k) \subseteq Workers
  BY DEF In
<1> QED
  BY <1>1, WorkersAssumption, FS_Subset, FS_CardinalityType

\* A thread that steps somewhere else joins no group.
LEMMA InShrinks ==
    ASSUME TypeOK, NEW pc, NEW k, NEW w \in Workers, OwnStep(w), work'[w].pc # pc
    PROVE  /\ In(pc, k)' = In(pc, k) \ {w}
           /\ Cardinality(In(pc, k))' \in Nat
           /\ Cardinality(In(pc, k))' <= Cardinality(In(pc, k))
           /\ w \in In(pc, k) => Cardinality(In(pc, k))' = Cardinality(In(pc, k)) - 1
<1>1. \A v \in Workers \ {w} : work'[v] = work[v]
  BY DEF OwnStep, TypeOK
<1>2. In(pc, k)' = In(pc, k) \ {w}
  BY <1>1 DEF In, Key
<1>3. /\ IsFiniteSet(In(pc, k) \ {w})
      /\ Cardinality(In(pc, k) \ {w}) =
            IF w \in In(pc, k) THEN Cardinality(In(pc, k)) - 1 ELSE Cardinality(In(pc, k))
  BY InFinite, FS_RemoveElement
<1> QED
  BY <1>2, <1>3, InFinite, FS_CardinalityType

\* A thread joins at most one group, by one.
LEMMA InGrows ==
    ASSUME TypeOK, NEW pc, NEW k, NEW w \in Workers, OwnStep(w)
    PROVE  /\ Cardinality(In(pc, k))' \in Nat
           /\ Cardinality(In(pc, k))' <= Cardinality(Workers)
           /\ Cardinality(In(pc, k))' <= Cardinality(In(pc, k)) + 1
           /\ work'[w].player = work[w].player /\ work'[w].case = work[w].case /\ k # Key(w) =>
                Cardinality(In(pc, k))' <= Cardinality(In(pc, k))
<1>1. \A v \in Workers \ {w} : work'[v] = work[v]
  BY DEF OwnStep, TypeOK
<1>2. In(pc, k)' \subseteq In(pc, k) \cup {w}
  BY <1>1 DEF In, Key
<1>3. In(pc, k)' \subseteq Workers
  BY DEF In
<1>4. IsFiniteSet(In(pc, k) \cup {w}) /\ Cardinality(In(pc, k) \cup {w}) <= Cardinality(In(pc, k)) + 1
  <2>1. /\ IsFiniteSet(In(pc, k) \cup {w})
        /\ Cardinality(In(pc, k) \cup {w}) =
              IF w \in In(pc, k) THEN Cardinality(In(pc, k)) ELSE Cardinality(In(pc, k)) + 1
    BY InFinite, FS_AddElement
  <2> QED
    BY <2>1, InFinite
<1>5. Cardinality(In(pc, k))' \in Nat
  BY <1>3, WorkersAssumption, FS_Subset, FS_CardinalityType
<1>6. Cardinality(In(pc, k))' <= Cardinality(Workers)
  BY <1>3, WorkersAssumption, FS_Subset
<1>7. Cardinality(In(pc, k))' <= Cardinality(In(pc, k)) + 1
  <2>1. Cardinality(In(pc, k))' <= Cardinality(In(pc, k) \cup {w})
    BY <1>2, <1>4, FS_Subset
  <2>2. Cardinality(In(pc, k) \cup {w}) \in Nat
    BY <1>4, FS_CardinalityType
  <2> QED
    BY <1>4, <1>5, <2>1, <2>2, InFinite
<1>8. ASSUME work'[w].player = work[w].player, work'[w].case = work[w].case, k # Key(w)
      PROVE  Cardinality(In(pc, k))' <= Cardinality(In(pc, k))
  <2>1. In(pc, k)' \subseteq In(pc, k)
    BY <1>1, <1>8 DEF In, Key
  <2> QED
    BY <2>1, InFinite, FS_Subset
<1> QED
  BY <1>5, <1>6, <1>7, <1>8

\* Steps that touch neither a hint document nor an answer: they only move one
\* thread, and not into the middle of a hint.
Quiet(w) ==
    /\ OwnStep(w)
    /\ UNCHANGED <<hints, delivered>>
    /\ work'[w].pc \notin {"hint_generate", "hint_answer"}

LEMMA QuietSteps ==
    ASSUME TypeOK, NEW w \in Workers
    PROVE  /\ \A p \in Players, c \in Cases :
                 (\E right \in BOOLEAN : SubmitStart(w, p, c, right)) \/ HintStart(w, p, c) => Quiet(w)
           /\ SubmitExists(w) \/ SubmitCount(w) \/ SubmitSave(w) \/ SubmitRecord(w) \/ Crash(w) => Quiet(w)
<1> USE DEF Quiet, docs
<1>1. work[w] \in Job
  BY KeyType
<1>2. ASSUME NEW p \in Players, NEW c \in Cases,
             (\E right \in BOOLEAN : SubmitStart(w, p, c, right)) \/ HintStart(w, p, c)
      PROVE  Quiet(w)
  <2>1. OwnStep(w) /\ work'[w].pc \in {"exists", "hint_count"}
    BY <1>2, StartStep
  <2> QED
    BY <1>2, <2>1 DEF SubmitStart, HintStart
<1>3. ASSUME SubmitExists(w) PROVE Quiet(w)
  <2>1. OwnStep(w) /\ work'[w].pc = "count"
    BY <1>1, <1>3, JobStep DEF Job
  <2> QED
    BY <1>3, <2>1 DEF SubmitExists
<1>4. ASSUME SubmitCount(w) PROVE Quiet(w)
  <2>1. OwnStep(w) /\ work'[w].pc \in {"record", "save"}
    BY <1>1, <1>4, JobStep DEF Job
  <2> QED
    BY <1>4, <2>1 DEF SubmitCount
<1>5. ASSUME SubmitSave(w) PROVE Quiet(w)
  <2>1. OwnStep(w) /\ work'[w].pc = "record"
    BY <1>1, <1>5, JobStep DEF Job
  <2> QED
    BY <1>5, <2>1 DEF SubmitSave
<1>6. ASSUME SubmitRecord(w) \/ Crash(w) PROVE Quiet(w)
  <2>1. OwnStep(w) /\ work'[w].pc = "idle"
    BY <1>6, FinishedStep DEF SubmitRecord, Crash
  <2> QED
    BY <1>6, <2>1 DEF SubmitRecord, Crash
<1> QED
  BY <1>2, <1>3, <1>4, <1>5, <1>6

-----------------------------------------------------------------------------
(***************************************************************************)
(* The cap on hints under overlapping calls.  A thread between the policy  *)
(* check and the record holds a claim to one more document, so what is     *)
(* bounded is the documents together with the claims.                      *)
(***************************************************************************)
HintsAndClaims ==
    \A k \in Keys :
        Len(hints[k]) + Cardinality(In("hint_generate", k)) <= MaxHints - 1 + Cardinality(Workers)

LEMMA HintsAndClaimsStep ==
    ASSUME TypeOK, TypeOK', HintsAndClaims, [Next]_vars
    PROVE  HintsAndClaims'
<1> SUFFICES ASSUME NEW k \in Keys
             PROVE  Len(hints'[k]) + Cardinality(In("hint_generate", k))'
                       <= MaxHints - 1 + Cardinality(Workers)
  BY DEF HintsAndClaims
<1> DEFINE claims == Cardinality(In("hint_generate", k))
<1>1. /\ claims \in Nat /\ Cardinality(Workers) \in Nat /\ MaxHints \in Nat
      /\ hints[k] \in Seq(Nat) /\ Len(hints[k]) \in Nat
  BY InFinite, WorkersAssumption, PolicyAssumption, FS_CardinalityType DEF TypeOK, Keys
<1>2. Len(hints[k]) + claims <= MaxHints - 1 + Cardinality(Workers)
  BY DEF HintsAndClaims
<1>3. CASE hints' = hints /\ work' = work
  <2>1. claims' = claims
    BY <1>3 DEF In, Key
  <2> QED
    BY <1>2, <1>3, <2>1
<1>4. ASSUME NEW w \in Workers, Quiet(w) PROVE Len(hints'[k]) + claims' <= MaxHints - 1 + Cardinality(Workers)
  <2>1. claims' \in Nat /\ claims' <= claims /\ hints' = hints
    BY <1>4, InShrinks DEF Quiet
  <2> HIDE DEF claims
  <2> QED
    BY <1>1, <1>2, <2>1
<1>5. ASSUME NEW w \in Workers, HintCount(w) PROVE Len(hints'[k]) + claims' <= MaxHints - 1 + Cardinality(Workers)
  <2>1. OwnStep(w) /\ hints' = hints /\ work[w] \in Job
    BY <1>5, JobStep, KeyType DEF HintCount, docs
  <2>2. CASE work'[w].pc = "idle"
    <3>1. claims' \in Nat /\ claims' <= claims
      BY <2>1, <2>2, InShrinks
    <3> HIDE DEF claims
    <3> QED
      BY <1>1, <1>2, <2>1, <3>1
  <2>3. CASE /\ Len(hints[Key(w)]) < MaxHints
             /\ work'[w] = [work[w] EXCEPT !.pc = "hint_generate", !.used = Len(hints[Key(w)])]
    <3>1. work'[w].player = work[w].player /\ work'[w].case = work[w].case
      BY <2>1, <2>3 DEF Job
    <3>2. claims' \in Nat /\ claims' <= Cardinality(Workers) /\ (k # Key(w) => claims' <= claims)
      BY <2>1, <3>1, InGrows
    <3> HIDE DEF claims
    <3>3. CASE k = Key(w)
      BY <1>1, <2>1, <2>3, <3>2, <3>3
    <3>4. CASE k # Key(w)
      BY <1>1, <1>2, <2>1, <3>2, <3>4
    <3> QED
      BY <3>3, <3>4
  <2> QED
    BY <1>5, <2>2, <2>3, JobStep
<1>6. ASSUME NEW w \in Workers, HintRecord(w) PROVE Len(hints'[k]) + claims' <= MaxHints - 1 + Cardinality(Workers)
  <2>1. OwnStep(w) /\ work'[w].pc = "hint_answer"
    BY <1>6, JobStep, KeyType DEF Job
  <2>2. claims' \in Nat /\ claims' <= claims /\ (w \in In("hint_generate", k) => claims' = claims - 1)
    BY <2>1, InShrinks
  <2>3. CASE k = Key(w)
    <3>1. w \in In("hint_generate", k)
      BY <1>6, <2>3 DEF HintRecord, In
    <3>2. hints'[k] = Append(hints[k], work[w].used + 1)
      BY <1>6, <2>3, KeyType DEF HintRecord, TypeOK, Keys
    <3>3. work[w].used + 1 \in Nat
      BY KeyType DEF Job
    <3>4. Len(hints'[k]) = Len(hints[k]) + 1
      BY <1>1, <3>2, <3>3
    <3> HIDE DEF claims
    <3> QED
      BY <1>1, <1>2, <2>2, <3>1, <3>4
  <2>4. CASE k # Key(w)
    <3>1. hints'[k] = hints[k]
      BY <1>6, <2>4, KeyType DEF HintRecord, TypeOK, Keys
    <3> HIDE DEF claims
    <3> QED
      BY <1>1, <1>2, <2>2, <3>1
  <2> QED
    BY <2>3, <2>4
<1>7. ASSUME NEW w \in Workers, HintAnswer(w) PROVE Len(hints'[k]) + claims' <= MaxHints - 1 + Cardinality(Workers)
  <2>1. OwnStep(w) /\ work'[w].pc = "idle" /\ hints' = hints
    BY <1>7, FinishedStep DEF HintAnswer, docs
  <2>2. claims' \in Nat /\ claims' <= claims
    BY <2>1, InShrinks
  <2> HIDE DEF claims
  <2> QED
    BY <1>1, <1>2, <2>1, <2>2
<1>8. ASSUME NEW j \in Players \X Cases, ExpireHint(j) PROVE Len(hints'[k]) + claims' <= MaxHints - 1 + Cardinality(Workers)
  <2>1. claims' = claims
    BY <1>8 DEF ExpireHint, In, Key
  <2>2. Len(hints'[k]) \in Nat /\ Len(hints'[k]) <= Len(hints[k])
    <3>1. CASE k = j
      <4>1. hints'[k] = Tail(hints[k]) /\ hints[k] # <<>>
        BY <1>8, <3>1 DEF ExpireHint, TypeOK
      <4> QED
        BY <1>1, <4>1
    <3>2. CASE k # j
      BY <1>1, <1>8, <3>2 DEF ExpireHint, TypeOK
    <3> QED
      BY <3>1, <3>2
  <2> HIDE DEF claims
  <2> QED
    BY <1>1, <1>2, <2>1, <2>2
<1>9. ASSUME \/ UNCHANGED vars
             \/ \E p \in Players : CreatePlayer(p)
             \/ \E j \in Players \X Cases : ExpireAttempts(j)
      PROVE  hints' = hints /\ work' = work
  BY <1>9 DEF vars, docs, CreatePlayer, ExpireAttempts
<1> QED
  BY <1>3, <1>4, <1>5, <1>6, <1>7, <1>8, <1>9, QuietSteps DEF Next

\* The cap on hints is not exact, but is never overshot by more than one hint
\* for every other thread, over all instances.
THEOREM HintOvershootIsBounded == Spec => []HintOvershootBounded
<1>1. Init => HintsAndClaims
  <2> SUFFICES ASSUME Init, NEW k \in Keys
               PROVE  Len(hints[k]) + Cardinality(In("hint_generate", k))
                         <= MaxHints - 1 + Cardinality(Workers)
    BY DEF HintsAndClaims
  <2>1. Len(hints[k]) = 0
    BY DEF Init, Keys
  <2>2. Cardinality(In("hint_generate", k)) <= Cardinality(Workers)
        /\ Cardinality(In("hint_generate", k)) \in Nat
    BY InFinite
  <2> QED
    BY <2>1, <2>2, PolicyAssumption, WorkersAssumption, FS_CardinalityType
<1>2. TypeOK /\ HintsAndClaims => HintOvershootBounded
  <2> SUFFICES ASSUME TypeOK, HintsAndClaims, NEW k \in Players \X Cases
               PROVE  Len(hints[k]) <= MaxHints + Cardinality(Workers) - 1
    BY DEF HintOvershootBounded
  <2>1. Len(hints[k]) + Cardinality(In("hint_generate", k)) <= MaxHints - 1 + Cardinality(Workers)
    BY DEF HintsAndClaims, Keys
  <2>2. /\ Len(hints[k]) \in Nat /\ Cardinality(Workers) \in Nat
        /\ Cardinality(In("hint_generate", k)) \in Nat
    BY InFinite, WorkersAssumption, FS_CardinalityType DEF TypeOK
  <2> QED
    BY <2>1, <2>2, PolicyAssumption
<1> QED
  BY <1>1, <1>2, HintsAndClaimsStep, PlayerGameTypeOK, PTL DEF Spec

-----------------------------------------------------------------------------
(***************************************************************************)
(* No hint is free.  A hint is answered only by a thread that has recorded *)
(* it, so the documents cover what the player has seen and what is about   *)
(* to be answered; and a submission counts the documents after it arrived. *)
(***************************************************************************)
AnswersBacked ==
    \A k \in Keys : delivered[k] + Cardinality(In("hint_answer", k)) <= Len(hints[k])

Submitting == {"exists", "count", "save", "record"}

DueCovered ==
    \A w \in Workers :
        /\ work[w].pc \in Submitting => work[w].due <= delivered[Key(w)]
        /\ work[w].pc \in {"save", "record"} => work[w].due <= work[w].used

LEMMA AnswersBackedStep ==
    ASSUME TypeOK, TypeOK', AnswersBacked, [Next]_vars, expiries' = 0
    PROVE  AnswersBacked' /\ \A k \in Keys : delivered[k] <= delivered'[k]
<1> SUFFICES ASSUME NEW k \in Keys
             PROVE  /\ delivered'[k] + Cardinality(In("hint_answer", k))' <= Len(hints'[k])
                    /\ delivered[k] <= delivered'[k]
  BY DEF AnswersBacked
<1> DEFINE due == Cardinality(In("hint_answer", k))
           Backed == delivered'[k] + due' <= Len(hints'[k]) /\ delivered[k] <= delivered'[k]
<1>1. /\ due \in Nat /\ delivered[k] \in Nat
      /\ hints[k] \in Seq(Nat) /\ Len(hints[k]) \in Nat
  BY InFinite DEF TypeOK, Keys
<1>2. delivered[k] + due <= Len(hints[k])
  BY DEF AnswersBacked
<1>3. CASE hints' = hints /\ work' = work /\ delivered' = delivered
  <2>1. due' = due
    BY <1>3 DEF In, Key
  <2> QED
    BY <1>1, <1>2, <1>3, <2>1
<1>4. ASSUME NEW w \in Workers, OwnStep(w), UNCHANGED <<hints, delivered>>,
             work'[w].pc # "hint_answer"
      PROVE  Backed
  <2>1. due' \in Nat /\ due' <= due
    BY <1>4, InShrinks
  <2> HIDE DEF due
  <2> QED
    BY <1>1, <1>2, <1>4, <2>1
<1>5. ASSUME NEW w \in Workers, HintCount(w) PROVE Backed
  <2>1. OwnStep(w) /\ work'[w].pc # "hint_answer"
    <3>1. OwnStep(w) /\ (work'[w].pc = "idle" \/ work'[w] = [work[w] EXCEPT !.pc = "hint_generate",
                                                                  !.used = Len(hints[Key(w)])])
      BY <1>5, JobStep
    <3>2. work[w] \in Job
      BY KeyType
    <3> QED
      BY <3>1, <3>2 DEF Job
  <2>2. UNCHANGED <<hints, delivered>>
    BY <1>5 DEF HintCount, docs
  <2> QED
    BY <1>4, <2>1, <2>2
<1>6. ASSUME NEW w \in Workers, HintRecord(w) PROVE Backed
  <2>1. OwnStep(w) /\ work'[w] = [work[w] EXCEPT !.pc = "hint_answer"] /\ work[w] \in Job
    BY <1>6, JobStep, KeyType
  <2>2. work'[w].player = work[w].player /\ work'[w].case = work[w].case
    BY <2>1 DEF Job
  <2>3. due' \in Nat /\ due' <= due + 1 /\ (k # Key(w) => due' <= due)
    BY <2>1, <2>2, InGrows
  <2>4. delivered' = delivered
    BY <1>6 DEF HintRecord
  <2>5. CASE k = Key(w)
    <3>1. hints'[k] = Append(hints[k], work[w].used + 1)
      BY <1>6, <2>5, KeyType DEF HintRecord, TypeOK, Keys
    <3>2. work[w].used + 1 \in Nat
      BY KeyType DEF Job
    <3>3. Len(hints'[k]) = Len(hints[k]) + 1
      BY <1>1, <3>1, <3>2
    <3> HIDE DEF due
    <3> QED
      BY <1>1, <1>2, <2>3, <2>4, <3>3
  <2>6. CASE k # Key(w)
    <3>1. hints'[k] = hints[k]
      BY <1>6, <2>6, KeyType DEF HintRecord, TypeOK, Keys
    <3> HIDE DEF due
    <3> QED
      BY <1>1, <1>2, <2>3, <2>4, <2>6, <3>1
  <2> QED
    BY <2>5, <2>6
<1>7. ASSUME NEW w \in Workers, HintAnswer(w) PROVE Backed
  <2>1. OwnStep(w) /\ work'[w].pc = "idle" /\ hints' = hints
    BY <1>7, FinishedStep DEF HintAnswer, docs
  <2>2. due' \in Nat /\ due' <= due /\ (w \in In("hint_answer", k) => due' = due - 1)
    BY <2>1, InShrinks
  <2>3. CASE k = Key(w)
    <3>1. w \in In("hint_answer", k)
      BY <1>7, <2>3 DEF HintAnswer, In
    <3>2. delivered'[k] = delivered[k] + 1
      BY <1>7, <2>3, KeyType DEF HintAnswer, TypeOK, Keys
    <3> HIDE DEF due
    <3> QED
      BY <1>1, <1>2, <2>1, <2>2, <3>1, <3>2
  <2>4. CASE k # Key(w)
    <3>1. delivered'[k] = delivered[k]
      BY <1>7, <2>4, KeyType DEF HintAnswer, TypeOK, Keys
    <3> HIDE DEF due
    <3> QED
      BY <1>1, <1>2, <2>1, <2>2, <3>1
  <2> QED
    BY <2>3, <2>4
<1>8. ASSUME NEW j \in Players \X Cases, ExpireHint(j) \/ ExpireAttempts(j) PROVE FALSE
  <2>1. expiries' = expiries + 1 /\ expiries \in Nat
    BY <1>8 DEF ExpireHint, ExpireAttempts, TypeOK
  <2> QED
    BY <2>1
<1>9. ASSUME UNCHANGED vars \/ \E p \in Players : CreatePlayer(p)
      PROVE  hints' = hints /\ work' = work /\ delivered' = delivered
  BY <1>9 DEF vars, docs, CreatePlayer
<1>10. ASSUME NEW w \in Workers, Quiet(w) PROVE Backed
  BY <1>4, <1>10 DEF Quiet
<1> QED
  BY <1>1, <1>3, <1>5, <1>6, <1>7, <1>8, <1>9, <1>10, QuietSteps DEF Next

LEMMA DueCoveredStep ==
    ASSUME TypeOK, TypeOK', AnswersBacked, DueCovered, [Next]_vars,
           \A k \in Keys : delivered[k] <= delivered'[k]
    PROVE  DueCovered'
<1> SUFFICES ASSUME NEW v \in Workers
             PROVE  /\ work'[v].pc \in Submitting => work'[v].due <= delivered'[Key(v)']
                    /\ work'[v].pc \in {"save", "record"} => work'[v].due <= work'[v].used
  BY DEF DueCovered, Key
<1> DEFINE Covered == /\ work'[v].pc \in Submitting => work'[v].due <= delivered'[Key(v)']
                      /\ work'[v].pc \in {"save", "record"} => work'[v].due <= work'[v].used
<1>1. /\ work[v] \in Job /\ work[v].due \in Nat /\ work[v].used \in Nat
      /\ Key(v) \in Keys /\ delivered[Key(v)] \in Nat /\ delivered'[Key(v)] \in Nat
      /\ delivered[Key(v)] <= delivered'[Key(v)]
  BY KeyType DEF Job, TypeOK, Keys
<1>2. /\ work[v].pc \in Submitting => work[v].due <= delivered[Key(v)]
      /\ work[v].pc \in {"save", "record"} => work[v].due <= work[v].used
  BY DEF DueCovered
<1>3. CASE work'[v] = work[v]
  BY <1>1, <1>2, <1>3 DEF Key
<1>4. CASE work'[v].pc \notin Submitting
  BY <1>4 DEF Submitting
<1>5. ASSUME NEW w \in Workers, OwnStep(w), w # v PROVE work'[v] = work[v]
  BY <1>5 DEF OwnStep, TypeOK
<1>6. ASSUME NEW p \in Players, NEW c \in Cases, NEW right \in BOOLEAN, SubmitStart(v, p, c, right)
      PROVE  Covered
  <2>1. /\ work'[v].pc = "exists" /\ work'[v].player = p /\ work'[v].case = c
        /\ work'[v].due = delivered[<<p, c>>]
    BY <1>6, StartStep
  <2>2. delivered[<<p, c>>] \in Nat /\ delivered' = delivered
    BY <1>6 DEF SubmitStart, docs, TypeOK
  <2> QED
    BY <2>1, <2>2 DEF Key
<1>7. CASE SubmitExists(v)
  <2>1. work'[v].pc = "count" /\ work'[v].due = work[v].due
        /\ work'[v].player = work[v].player /\ work'[v].case = work[v].case
    BY <1>1, <1>7, JobStep DEF Job
  <2>2. work[v].pc \in Submitting
    BY <1>7 DEF SubmitExists, Submitting
  <2> QED
    BY <1>1, <1>2, <2>1, <2>2 DEF Key
<1>8. CASE SubmitCount(v)
  <2>1. /\ work'[v].pc \in {"save", "record"} /\ work'[v].due = work[v].due
        /\ work'[v].used = Len(hints[Key(v)])
        /\ work'[v].player = work[v].player /\ work'[v].case = work[v].case
    BY <1>1, <1>8, JobStep DEF Job
  <2>2. work[v].pc \in Submitting
    BY <1>8 DEF SubmitCount, Submitting
  <2>3. delivered[Key(v)] <= Len(hints[Key(v)])
    <3> DEFINE answering == Cardinality(In("hint_answer", Key(v)))
    <3>1. delivered[Key(v)] + answering <= Len(hints[Key(v)])
      BY <1>1 DEF AnswersBacked
    <3>2. answering \in Nat /\ Len(hints[Key(v)]) \in Nat
      BY InFinite, KeyType
    <3> HIDE DEF answering
    <3> QED
      BY <1>1, <3>1, <3>2
  <2>4. Len(hints[Key(v)]) \in Nat
    BY KeyType
  <2> QED
    BY <1>1, <1>2, <2>1, <2>2, <2>3, <2>4 DEF Key
<1>9. CASE SubmitSave(v)
  <2>1. /\ work'[v].pc = "record" /\ work'[v].due = work[v].due /\ work'[v].used = work[v].used
        /\ work'[v].player = work[v].player /\ work'[v].case = work[v].case
    BY <1>1, <1>9, JobStep DEF Job
  <2>2. work[v].pc \in Submitting /\ work[v].pc = "save"
    BY <1>9 DEF SubmitSave, Submitting
  <2> QED
    BY <1>1, <1>2, <2>1, <2>2 DEF Key
<1>10. ASSUME \/ SubmitRecord(v) \/ Crash(v) \/ HintCount(v) \/ HintRecord(v) \/ HintAnswer(v)
              \/ \E p \in Players, c \in Cases : HintStart(v, p, c)
       PROVE  work'[v].pc \notin Submitting
  <2>1. work'[v].pc \in {"idle", "hint_count", "hint_generate", "hint_answer"}
    BY <1>1, <1>10, JobStep, FinishedStep, StartStep
       DEF SubmitRecord, Crash, HintAnswer, Job
  <2> QED
    BY <2>1 DEF Submitting
<1>11. ASSUME \/ UNCHANGED vars
              \/ \E p \in Players : CreatePlayer(p)
              \/ \E j \in Players \X Cases : ExpireAttempts(j) \/ ExpireHint(j)
       PROVE  work' = work
  BY <1>11 DEF vars, CreatePlayer, ExpireAttempts, ExpireHint
<1>12. ASSUME NEW w \in Workers,
              \/ \E p \in Players, c \in Cases :
                    (\E right \in BOOLEAN : SubmitStart(w, p, c, right)) \/ HintStart(w, p, c)
              \/ SubmitExists(w) \/ SubmitCount(w) \/ SubmitSave(w) \/ SubmitRecord(w)
              \/ HintCount(w) \/ HintRecord(w) \/ HintAnswer(w) \/ Crash(w)
       PROVE  OwnStep(w)
  <2>1. CASE \E p \in Players, c \in Cases :
                (\E right \in BOOLEAN : SubmitStart(w, p, c, right)) \/ HintStart(w, p, c)
    BY <2>1, StartStep
  <2>2. CASE SubmitExists(w) \/ SubmitCount(w) \/ SubmitSave(w) \/ HintCount(w) \/ HintRecord(w)
    BY <2>2, JobStep
  <2>3. CASE SubmitRecord(w) \/ HintAnswer(w) \/ Crash(w)
    BY <2>3, FinishedStep DEF SubmitRecord, HintAnswer, Crash
  <2> QED
    BY <1>12, <2>1, <2>2, <2>3
<1> QED
  <2>1. CASE \/ UNCHANGED vars
             \/ \E p \in Players : CreatePlayer(p)
             \/ \E j \in Players \X Cases : ExpireAttempts(j) \/ ExpireHint(j)
    BY <1>3, <1>11, <2>1
  <2>2. ASSUME NEW w \in Workers,
               \/ \E p \in Players, c \in Cases :
                     (\E right \in BOOLEAN : SubmitStart(w, p, c, right)) \/ HintStart(w, p, c)
               \/ SubmitExists(w) \/ SubmitCount(w) \/ SubmitSave(w) \/ SubmitRecord(w)
               \/ HintCount(w) \/ HintRecord(w) \/ HintAnswer(w) \/ Crash(w)
        PROVE  Covered
    <3>1. CASE w # v
      BY <1>3, <1>5, <1>12, <2>2, <3>1
    <3>2. CASE w = v
      BY <1>4, <1>6, <1>7, <1>8, <1>9, <1>10, <2>2, <3>2
    <3> QED
      BY <3>1, <3>2
  <2> QED
    BY <2>1, <2>2 DEF Next

\* No document comes back: a history without deletion had none before.
LEMMA ExpiriesOnlyGrow ==
    ASSUME TypeOK, TypeOK', [Next]_vars, expiries' = 0
    PROVE  expiries = 0
<1>1. expiries \in Nat /\ expiries' \in Nat
  BY DEF TypeOK
<1>2. expiries' = expiries \/ expiries' = expiries + 1
  BY DEF Next, vars, environment, docs, CreatePlayer, SubmitStart, SubmitExists, SubmitCount,
         SubmitSave, SubmitRecord, HintStart, HintCount, HintRecord, HintAnswer, Crash,
         ExpireAttempts, ExpireHint
<1> QED
  BY <1>1, <1>2

\* As long as no hint request has expired, a scoring attempt is charged for
\* every hint the player had seen when it arrived.
THEOREM SeenHintsAreCharged == Spec => []DeliveredHintsAreCharged
<1> DEFINE Charged == expiries = 0 => AnswersBacked /\ DueCovered
<1>1. Init => Charged
  <2> SUFFICES ASSUME Init PROVE AnswersBacked /\ DueCovered
    OBVIOUS
  <2>1. PICK p \in Players, c \in Cases : work = [w \in Workers |-> IdleJob(p, c)]
    BY DEF Init
  <2>2. \A w \in Workers : work[w].pc = "idle"
    BY <2>1 DEF IdleJob
  <2>3. \A k \in Keys : In("hint_answer", k) = {}
    BY <2>2 DEF In
  <2>4. \A k \in Keys : delivered[k] = 0 /\ Len(hints[k]) = 0
    BY DEF Init, Keys
  <2>5. AnswersBacked
    <3>1. \A k \in Keys : Cardinality(In("hint_answer", k)) = 0
      <4>1. Cardinality({}) = 0
        BY FS_EmptySet
      <4> QED
        BY <2>3, <4>1
    <3> QED
      BY <2>4, <3>1 DEF AnswersBacked
  <2>6. DueCovered
    BY <2>2 DEF DueCovered, Submitting
  <2> QED
    BY <2>5, <2>6
<1>2. TypeOK /\ Charged => DeliveredHintsAreCharged
  <2> SUFFICES ASSUME TypeOK, DueCovered, NEW w \in Workers, work[w].pc \in {"save", "record"}
               PROVE  work[w].used >= work[w].due
    BY DEF DeliveredHintsAreCharged
  <2>1. work[w].used \in Nat /\ work[w].due \in Nat
    BY KeyType DEF Job
  <2> QED
    BY <2>1 DEF DueCovered
<1>3. TypeOK /\ TypeOK' /\ Charged /\ [Next]_vars => Charged'
  BY AnswersBackedStep, DueCoveredStep, ExpiriesOnlyGrow
<1> HIDE DEF Charged
<1> QED
  BY <1>1, <1>2, <1>3, PlayerGameTypeOK, PTL DEF Spec

-----------------------------------------------------------------------------
(***************************************************************************)
(* Points.  A save adds what the attempt was worth to a copy of the        *)
(* profile that may be old, and what was earned only grows.                *)
(***************************************************************************)
Reading == {"exists", "count", "save"}

\* The first step of a call, and all later ones.
Starts(w, p) ==
    \E c \in Cases : (\E right \in BOOLEAN : SubmitStart(w, p, c, right)) \/ HintStart(w, p, c)

Moves(w) ==
    \/ SubmitExists(w) \/ SubmitCount(w) \/ SubmitSave(w) \/ SubmitRecord(w)
    \/ HintCount(w) \/ HintRecord(w) \/ HintAnswer(w) \/ Crash(w)

LEMMA StartsStep ==
    ASSUME TypeOK, NEW w \in Workers, NEW p \in Players, Starts(w, p)
    PROVE  /\ OwnStep(w)
           /\ ~Busy(w) /\ Busy(w)'
           /\ p \in registered
           /\ work'[w].player = p
           /\ \/ work'[w].pc = "exists" /\ work'[w].seen = profile[p]
              \/ work'[w].pc = "hint_count"
           /\ UNCHANGED <<docs, crashes, expiries, scored>>
           /\ overlapped' = IF \E v \in Workers : Busy(v) /\ work[v].player = p
                            THEN overlapped \cup {p} ELSE overlapped
<1>1. PICK c \in Cases : (\E right \in BOOLEAN : SubmitStart(w, p, c, right)) \/ HintStart(w, p, c)
  BY DEF Starts
<1>2. Serve(w, p) /\ UNCHANGED <<docs, crashes, expiries, scored>>
  BY <1>1 DEF SubmitStart, HintStart
<1>3. OwnStep(w)
  BY <1>1, StartStep
<1>4. /\ work'[w].player = p
      /\ \/ work'[w].pc = "exists" /\ work'[w].seen = profile[p]
         \/ work'[w].pc = "hint_count"
  BY <1>1 DEF SubmitStart, HintStart, TypeOK, IdleJob
<1> QED
  BY <1>2, <1>3, <1>4 DEF Serve, Busy

LEMMA MovesStep ==
    ASSUME TypeOK, NEW w \in Workers, Moves(w)
    PROVE  /\ OwnStep(w)
           /\ Busy(w)
           /\ work'[w].player = work[w].player
           /\ work'[w].case = work[w].case
           /\ work'[w].pc \in Reading => work[w].pc \in Reading /\ work'[w].seen = work[w].seen
           /\ UNCHANGED <<registered, overlapped, expiries>>
           /\ ~SubmitSave(w) => UNCHANGED <<profile, scored>>
<1>1. work[w] \in Job
  BY KeyType
<1>2. /\ Busy(w)
      /\ UNCHANGED <<registered, overlapped, expiries>>
      /\ ~SubmitSave(w) => UNCHANGED <<profile, scored>>
  BY DEF Moves, Busy, docs, environment, SubmitExists, SubmitCount, SubmitSave, SubmitRecord,
         HintCount, HintRecord, HintAnswer, Crash
<1>3. CASE SubmitExists(w) \/ SubmitCount(w) \/ SubmitSave(w) \/ HintRecord(w)
  BY <1>1, <1>2, <1>3, JobStep DEF Job, Reading, SubmitExists, SubmitCount, SubmitSave, HintRecord
<1>4. ASSUME Finished(w)
      PROVE  /\ OwnStep(w) /\ work'[w].pc = "idle"
             /\ work'[w].player = work[w].player /\ work'[w].case = work[w].case
  BY <1>4, FinishedStep DEF Finished, IdleJob, TypeOK
<1>5. CASE HintCount(w)
  <2>1. CASE CanRequestHint(Len(hints[Key(w)]))
    <3>1. work'[w] = [work[w] EXCEPT !.pc = "hint_generate", !.used = Len(hints[Key(w)])]
      BY <1>5, <2>1 DEF HintCount, TypeOK
    <3>2. OwnStep(w)
      BY <1>5, JobStep
    <3> QED
      BY <1>1, <1>2, <3>1, <3>2 DEF Reading, Job
  <2>2. CASE ~CanRequestHint(Len(hints[Key(w)]))
    <3>1. Finished(w)
      BY <1>5, <2>2 DEF HintCount
    <3> QED
      BY <1>2, <1>4, <3>1 DEF Reading
  <2> QED
    BY <2>1, <2>2
<1>6. CASE SubmitRecord(w) \/ HintAnswer(w) \/ Crash(w)
  BY <1>2, <1>4, <1>6 DEF SubmitRecord, HintAnswer, Crash, Reading
<1> QED
  BY <1>3, <1>5, <1>6 DEF Moves

\* A step is a new player, a call's start or one of its moves, or an expiry.
LEMMA Steps ==
    ASSUME [Next]_vars
    PROVE  \/ UNCHANGED vars
           \/ \E p \in Players : CreatePlayer(p)
           \/ \E w \in Workers, p \in Players : Starts(w, p)
           \/ \E w \in Workers : Moves(w)
           \/ \E k \in Players \X Cases : ExpireAttempts(k) \/ ExpireHint(k)
BY DEF Next, Starts, Moves

LEMMA OthersStay ==
    ASSUME TypeOK, NEW w \in Workers, OwnStep(w)
    PROVE  \A v \in Workers \ {w} : work'[v] = work[v]
BY DEF OwnStep, TypeOK

LEMMA SaveStep ==
    ASSUME TypeOK, NEW w \in Workers, SubmitSave(w)
    PROVE  LET p == work[w].player
               score == CalculateScore(work[w].right, work[w].used)
           IN  /\ p \in Players /\ score \in Nat
               /\ profile'[p] = [score |-> work[w].seen.score + score,
                                 streak |-> NextStreak(work[w].seen.streak, work[w].right)]
               /\ Len(scored'[p]) = Len(scored[p]) + 1
               /\ \A i \in 1..Len(scored[p]) : scored'[p][i] = scored[p][i]
               /\ scored'[p][Len(scored[p]) + 1] =
                     [case |-> work[w].case, right |-> work[w].right, score |-> score,
                      total |-> Earned(p) + score]
               /\ Worth(scored'[p]) = Worth(scored[p]) + score
               /\ \A q \in Players \ {p} : profile'[q] = profile[q] /\ scored'[q] = scored[q]
<1> DEFINE p == work[w].player
           score == CalculateScore(work[w].right, work[w].used)
           save == [case |-> work[w].case, right |-> work[w].right, score |-> score,
                    total |-> Earned(p) + score]
<1>1. /\ p \in Players /\ work[w].case \in Cases /\ work[w].right \in BOOLEAN
      /\ work[w].used \in Nat
  BY KeyType DEF Job
<1>2. score \in Nat
  BY <1>1, ScoreType
<1>3. Earned(p) \in Nat
  BY <1>1, EarnedType
<1> HIDE DEF score
<1>4. save \in Scored /\ save.total = Earned(p) + score
  BY <1>1, <1>2, <1>3 DEF Scored
<1>5. /\ profile' = [profile EXCEPT ![p] =
                       [score |-> work[w].seen.score + score,
                        streak |-> NextStreak(work[w].seen.streak, work[w].right)]]
      /\ scored' = [scored EXCEPT ![p] = Append(@, save)]
  BY DEF SubmitSave, KeepScore, score
<1> HIDE DEF save
<1>6. scored'[p] = Append(scored[p], save) /\ scored[p] \in Seq(Scored)
  BY <1>1, <1>5 DEF TypeOK
<1>7. /\ Len(scored'[p]) = Len(scored[p]) + 1
      /\ \A i \in 1..Len(scored[p]) : scored'[p][i] = scored[p][i]
      /\ scored'[p][Len(scored[p]) + 1] = save
      /\ scored'[p] # <<>>
  BY <1>4, <1>6
<1>8. Worth(scored'[p]) = Worth(scored[p]) + score
  BY <1>4, <1>6, <1>7 DEF Worth, Earned
<1>9. /\ profile'[p] = [score |-> work[w].seen.score + score,
                         streak |-> NextStreak(work[w].seen.streak, work[w].right)]
      /\ \A q \in Players \ {p} : profile'[q] = profile[q] /\ scored'[q] = scored[q]
  BY <1>1, <1>5 DEF TypeOK
<1> QED
  BY <1>1, <1>2, <1>7, <1>8, <1>9 DEF score, save

\* A thread only serves players there are, and those start from nothing.
PlayersKnown ==
    /\ \A w \in Workers : Busy(w) => work[w].player \in registered
    /\ \A p \in Players \ registered : profile[p] = NewProfile

PlayerPoints(p) ==
    /\ profile[p].score <= Earned(p)
    /\ \A i \in DOMAIN scored[p] :
          scored[p][i].score \in IF scored[p][i].right THEN MinScore..MaxScore ELSE {0}

\* However old a thread's copy of the profile is, its points were earned.
SeenIsEarned ==
    \A w \in Workers :
        work[w].pc \in Reading => work[w].seen.score <= Earned(work[w].player)

PointsIInv ==
    /\ PlayersKnown /\ SeenIsEarned
    /\ \A p \in Players : PlayerPoints(p)

LEMMA PlayersKnownStep ==
    ASSUME TypeOK, PlayersKnown, [Next]_vars
    PROVE  PlayersKnown'
<1>1. CASE \/ UNCHANGED vars
           \/ \E k \in Players \X Cases : ExpireAttempts(k) \/ ExpireHint(k)
  BY <1>1 DEF PlayersKnown, vars, docs, ExpireAttempts, ExpireHint, Busy
<1>2. ASSUME NEW p \in Players, CreatePlayer(p) PROVE PlayersKnown'
  BY <1>2 DEF CreatePlayer, PlayersKnown, Busy, TypeOK
<1>3. ASSUME NEW w \in Workers, NEW p \in Players, Starts(w, p) PROVE PlayersKnown'
  BY <1>3, StartsStep, OthersStay DEF PlayersKnown, Busy, docs
<1>4. ASSUME NEW w \in Workers, Moves(w) PROVE PlayersKnown'
  <2>1. \A v \in Workers : Busy(v)' => Busy(v) /\ work'[v].player = work[v].player
    BY <1>4, MovesStep, OthersStay DEF Busy
  <2>2. registered' = registered /\ \A v \in Workers : Busy(v)' => work'[v].player \in registered
    BY <1>4, <2>1, MovesStep DEF PlayersKnown
  <2>3. work[w].player \in registered
    BY <1>4, MovesStep DEF PlayersKnown
  <2>4. \A p \in Players \ registered : profile'[p] = profile[p]
    BY <1>4, <2>3, MovesStep, SaveStep
  <2> QED
    BY <2>2, <2>4 DEF PlayersKnown
<1> QED
  BY <1>1, <1>2, <1>3, <1>4, Steps

\* A scored answer is worth its place in the policy's range, whatever its hints
\* cost.
LEMMA ScoreRange ==
    ASSUME NEW correct \in BOOLEAN, NEW used \in Nat
    PROVE  CalculateScore(correct, used) \in IF correct THEN MinScore..MaxScore ELSE {0}
<1>1. PICK penalty \in Nat : penalty = used * HintPenalty
  BY PolicyAssumption
<1> QED
  BY <1>1, PolicyAssumption DEF CalculateScore

LEMMA EarnedGrows ==
    ASSUME TypeOK, TypeOK', [Next]_vars, NEW p \in Players
    PROVE  Earned(p) \in Nat /\ Earned(p)' \in Nat /\ Earned(p) <= Earned(p)'
<1>1. Earned(p) \in Nat /\ Earned(p)' \in Nat
  BY WorthType DEF Earned, TypeOK
<1>2. CASE scored' = scored
  BY <1>1, <1>2 DEF Earned
<1>3. ASSUME NEW w \in Workers, SubmitSave(w) PROVE Earned(p) <= Earned(p)'
  <2> DEFINE score == CalculateScore(work[w].right, work[w].used)
  <2>1. /\ score \in Nat
        /\ p = work[w].player => Worth(scored'[p]) = Worth(scored[p]) + score
        /\ p # work[w].player => scored'[p] = scored[p]
    BY <1>3, SaveStep
  <2> HIDE DEF score
  <2> QED
    BY <1>1, <2>1 DEF Earned
<1>4. ASSUME \A w \in Workers : ~SubmitSave(w) PROVE scored' = scored
  <2>1. ASSUME NEW w \in Workers, Moves(w) PROVE scored' = scored
    BY <1>4, <2>1, MovesStep
  <2>2. ASSUME NEW w \in Workers, NEW q \in Players, Starts(w, q) PROVE scored' = scored
    BY <2>2, StartsStep
  <2> QED
    BY <2>1, <2>2, Steps DEF vars, CreatePlayer, ExpireAttempts, ExpireHint
<1> QED
  BY <1>1, <1>2, <1>3, <1>4

LEMMA PointsStep ==
    ASSUME TypeOK, TypeOK', PointsIInv, [Next]_vars
    PROVE  PointsIInv'
<1>1. PlayersKnown'
  BY PlayersKnownStep DEF PointsIInv
<1>2. SeenIsEarned'
  <2> SUFFICES ASSUME NEW v \in Workers, work'[v].pc \in Reading
               PROVE  work'[v].seen.score <= Earned(work[v].player)'
    BY DEF SeenIsEarned
  <2>1. /\ work'[v].player \in Players /\ work'[v].seen.score \in Nat
        /\ work[v].player \in Players /\ work[v].seen.score \in Nat
    BY KeyType DEF TypeOK, Job, Profile
  <2>2. ASSUME NEW q \in Players
        PROVE  Earned(q) \in Nat /\ Earned(q)' \in Nat /\ Earned(q) <= Earned(q)'
    BY EarnedGrows
  <2>3. CASE /\ work[v].pc \in Reading /\ work'[v].seen = work[v].seen
             /\ work'[v].player = work[v].player
    <3>1. work[v].seen.score <= Earned(work[v].player)
      BY <2>3 DEF PointsIInv, SeenIsEarned
    <3>2. PICK q \in Players : q = work[v].player
      BY <2>1
    <3>3. work'[v].seen.score <= Earned(q)'
      BY <2>1, <2>2, <2>3, <3>1, <3>2
    <3> QED
      BY <2>3, <3>2, <3>3 DEF Earned
  <2>4. CASE work' = work
    BY <2>3, <2>4
  <2>5. ASSUME NEW w \in Workers, Moves(w)
        PROVE  /\ work[v].pc \in Reading /\ work'[v].seen = work[v].seen
               /\ work'[v].player = work[v].player
    BY <2>5, MovesStep, OthersStay
  <2>6. ASSUME NEW w \in Workers, NEW p \in Players, Starts(w, p)
        PROVE  work'[v].seen.score <= Earned(work[v].player)'
    <3>1. CASE v = w
      <4>1. /\ work'[v].seen = profile[p] /\ work'[v].player = p
            /\ scored' = scored
        BY <2>6, <3>1, StartsStep DEF Reading
      <4>2. profile[p].score <= Earned(p)
        BY DEF PointsIInv, PlayerPoints
      <4> QED
        BY <4>1, <4>2 DEF Earned
    <3>2. CASE v # w
      BY <2>3, <2>6, <3>2, StartsStep, OthersStay
    <3> QED
      BY <3>1, <3>2
  <2> QED
    BY <2>3, <2>4, <2>5, <2>6, Steps DEF vars, CreatePlayer, ExpireAttempts, ExpireHint
<1>3. ASSUME NEW p \in Players PROVE PlayerPoints(p)'
  <2>1. PlayerPoints(p)
    BY DEF PointsIInv
  <2>2. CASE profile'[p] = profile[p] /\ scored'[p] = scored[p]
    BY <2>1, <2>2 DEF PlayerPoints, Earned
  <2>3. ASSUME NEW w \in Workers, SubmitSave(w), p = work[w].player PROVE PlayerPoints(p)'
    <3> DEFINE score == CalculateScore(work[w].right, work[w].used)
    <3>1. /\ work[w].right \in BOOLEAN /\ work[w].used \in Nat /\ work[w].seen.score \in Nat
      BY KeyType DEF Job, Profile
    <3>2. score \in IF work[w].right THEN MinScore..MaxScore ELSE {0}
      BY <3>1, ScoreRange
    <3>8. /\ score \in Nat
          /\ Worth(scored'[work[w].player]) = Worth(scored[work[w].player]) + score
          /\ profile'[work[w].player] =
                [score |-> work[w].seen.score + score,
                 streak |-> NextStreak(work[w].seen.streak, work[w].right)]
          /\ Len(scored'[work[w].player]) = Len(scored[work[w].player]) + 1
          /\ \A i \in 1..Len(scored[work[w].player]) :
                scored'[work[w].player][i] = scored[work[w].player][i]
          /\ scored'[work[w].player][Len(scored[work[w].player]) + 1] =
                [case |-> work[w].case, right |-> work[w].right, score |-> score,
                 total |-> Earned(work[w].player) + score]
      BY <2>3, SaveStep
    <3> HIDE DEF score
    <3>3. /\ score \in Nat
          /\ Worth(scored'[p]) = Worth(scored[p]) + score
          /\ profile'[p].score = work[w].seen.score + score
          /\ Len(scored'[p]) = Len(scored[p]) + 1
          /\ \A i \in 1..Len(scored[p]) : scored'[p][i] = scored[p][i]
          /\ scored'[p][Len(scored[p]) + 1].right = work[w].right
          /\ scored'[p][Len(scored[p]) + 1].score = score
      BY <2>3, <3>8
    <3>4. work[w].seen.score <= Earned(p) /\ Earned(p) \in Nat
      BY <2>3, EarnedType DEF PointsIInv, SeenIsEarned, SubmitSave, Reading
    <3>5. profile'[p].score <= Earned(p)'
      BY <3>1, <3>3, <3>4 DEF Earned
    <3>6. /\ DOMAIN scored[p] = 1..Len(scored[p]) /\ DOMAIN scored'[p] = 1..Len(scored'[p])
          /\ Len(scored[p]) \in Nat
      BY DEF TypeOK
    <3>7. ASSUME NEW i \in DOMAIN scored'[p]
          PROVE  scored'[p][i].score \in IF scored'[p][i].right THEN MinScore..MaxScore ELSE {0}
      <4>1. CASE i = Len(scored[p]) + 1
        BY <3>2, <3>3, <4>1
      <4>2. CASE i \in 1..Len(scored[p])
        BY <2>1, <3>3, <3>6, <4>2 DEF PlayerPoints
      <4> QED
        BY <3>3, <3>6, <4>1, <4>2
    <3> QED
      BY <3>5, <3>7 DEF PlayerPoints
  <2>4. ASSUME NEW w \in Workers, SubmitSave(w) PROVE PlayerPoints(p)'
    BY <2>2, <2>3, <2>4, SaveStep
  <2>5. ASSUME NEW w \in Workers, Moves(w) PROVE PlayerPoints(p)'
    BY <2>2, <2>4, <2>5, MovesStep
  <2>6. ASSUME NEW q \in Players, CreatePlayer(q) PROVE PlayerPoints(p)'
    BY <2>2, <2>6 DEF CreatePlayer, PointsIInv, PlayersKnown, TypeOK
  <2>7. ASSUME NEW w \in Workers, NEW q \in Players, Starts(w, q) PROVE PlayerPoints(p)'
    BY <2>2, <2>7, StartsStep DEF docs
  <2> QED
    BY <2>2, <2>5, <2>6, <2>7, Steps DEF vars, docs, ExpireAttempts, ExpireHint
<1> QED
  BY <1>1, <1>2, <1>3 DEF PointsIInv

LEMMA PointsInvariance == Spec => []PointsIInv
<1>1. Init => PointsIInv
  <2> SUFFICES ASSUME Init PROVE PointsIInv
    OBVIOUS
  <2>1. PICK p \in Players, c \in Cases : work = [w \in Workers |-> IdleJob(p, c)]
    BY DEF Init
  <2>2. \A w \in Workers : work[w].pc = "idle"
    BY <2>1 DEF IdleJob
  <2> QED
    BY <2>2 DEF Init, PointsIInv, PlayersKnown, SeenIsEarned, PlayerPoints, Busy, Reading,
                NewProfile, Earned, Worth
<1>2. TypeOK /\ TypeOK' /\ PointsIInv /\ [Next]_vars => PointsIInv'
  BY PointsStep
<1> QED
  BY <1>1, <1>2, PlayerGameTypeOK, PTL DEF Spec

\* However many saves of a player overlap, its total never exceeds what its
\* answers were worth, and each was worth 0 or a score of the policy's range.
THEOREM PointsAreEarned == Spec => []PointsAreNeverInvented
<1>1. PointsIInv => PointsAreNeverInvented
  BY DEF PointsIInv, PlayerPoints, PointsAreNeverInvented
<1> QED
  BY <1>1, PointsInvariance, PTL

-----------------------------------------------------------------------------
(***************************************************************************)
(* A player who makes one call at a time.  Whatever other players' calls   *)
(* do leaves that player's documents and call alone, so that what matters  *)
(* is the step of the one call there is.                                   *)
(***************************************************************************)
CallsOf(p) == {w \in Workers : Busy(w) /\ work[w].player = p}

OneCall(p) == \A v, w \in CallsOf(p) : v = w

Untouched(p) ==
    /\ CallsOf(p)' = CallsOf(p)
    /\ \A v \in CallsOf(p) : work'[v] = work[v]
    /\ profile'[p] = profile[p] /\ scored'[p] = scored[p]
    /\ \A c \in Cases :
          /\ hints'[<<p, c>>] = hints[<<p, c>>]
          /\ <<p, c>> \in attempted' <=> <<p, c>> \in attempted

\* What a call writes are documents of its player.
LEMMA MovesWrites ==
    ASSUME TypeOK, NEW w \in Workers, Moves(w), NEW p \in Players, work[w].player # p
    PROVE  /\ profile'[p] = profile[p] /\ scored'[p] = scored[p]
           /\ \A c \in Cases :
                 /\ hints'[<<p, c>>] = hints[<<p, c>>]
                 /\ <<p, c>> \in attempted' <=> <<p, c>> \in attempted
<1>1. Key(w) \in Keys /\ Key(w)[1] # p
  BY KeyType DEF Key
<1>2. profile'[p] = profile[p] /\ scored'[p] = scored[p]
  BY MovesStep, SaveStep
<1>3. \A c \in Cases : <<p, c>> \in Keys /\ <<p, c>> # Key(w)
  BY DEF Key, Keys
<1>4. hints' = hints \/ HintRecord(w)
  BY DEF Moves, docs, SubmitExists, SubmitCount, SubmitSave, SubmitRecord, HintCount, HintAnswer, Crash
<1>5. attempted' = attempted \/ SubmitRecord(w)
  BY DEF Moves, docs, SubmitExists, SubmitCount, SubmitSave, HintRecord, HintCount, HintAnswer, Crash
<1>6. HintRecord(w) => \A k \in Keys \ {Key(w)} : hints'[k] = hints[k]
  BY <1>1 DEF HintRecord, TypeOK, Keys
<1>7. SubmitRecord(w) => \A k \in Keys \ {Key(w)} : k \in attempted' <=> k \in attempted
  BY DEF SubmitRecord
<1> QED
  BY <1>2, <1>3, <1>4, <1>5, <1>6, <1>7

LEMMA OthersCallsStay ==
    ASSUME TypeOK, NEW w \in Workers, OwnStep(w), NEW p \in Players,
           Busy(w) => work[w].player # p,
           Busy(w)' => work'[w].player # p
    PROVE  /\ CallsOf(p)' = CallsOf(p)
           /\ \A v \in CallsOf(p) : work'[v] = work[v]
<1>1. \A v \in Workers : v # w => work'[v] = work[v]
  BY OthersStay
<1>2. ASSUME NEW v \in Workers
      PROVE  Busy(v)' /\ work'[v].player = p <=> Busy(v) /\ work[v].player = p
  BY <1>1 DEF Busy
<1> QED
  BY <1>1, <1>2 DEF CallsOf

\* From the point of view of a player who makes one call at a time.
LEMMA SerialSteps ==
    ASSUME TypeOK, PlayersKnown, [Next]_vars, NEW p \in Players, Serial(p)'
    PROVE  /\ Serial(p)
           /\ \/ Untouched(p)
              \/ /\ CallsOf(p) = {}
                 /\ \E w \in Workers : Starts(w, p) /\ CallsOf(p)' = {w}
              \/ \E w \in CallsOf(p) :
                    /\ Moves(w)
                    /\ OneCall(p) => CallsOf(p) = {w} /\ CallsOf(p)' \subseteq {w}
              \/ \E c \in Cases : ExpireAttempts(<<p, c>>) \/ ExpireHint(<<p, c>>)
<1>1. CASE UNCHANGED vars
  BY <1>1 DEF vars, docs, environment, Untouched, CallsOf, Busy, Serial
<1>2. ASSUME NEW q \in Players, CreatePlayer(q) PROVE Serial(p) /\ Untouched(p)
  <2>1. profile'[p] = profile[p]
    BY <1>2 DEF CreatePlayer, PlayersKnown, TypeOK
  <2> QED
    BY <1>2, <2>1 DEF CreatePlayer, environment, Untouched, CallsOf, Busy, Serial
<1>3. ASSUME NEW w \in Workers, NEW q \in Players, q # p, Starts(w, q)
      PROVE  Serial(p) /\ Untouched(p)
  <2>1. /\ CallsOf(p)' = CallsOf(p)
        /\ \A v \in CallsOf(p) : work'[v] = work[v]
    BY <1>3, StartsStep, OthersCallsStay
  <2>2. UNCHANGED <<docs, scored>> /\ overlapped \subseteq overlapped'
    BY <1>3, StartsStep
  <2> QED
    BY <2>1, <2>2 DEF Untouched, docs, Serial
<1>4. ASSUME NEW w \in Workers, Starts(w, p)
      PROVE  Serial(p) /\ CallsOf(p) = {} /\ CallsOf(p)' = {w}
  <2>1. ~\E v \in Workers : Busy(v) /\ work[v].player = p
    BY <1>4, StartsStep DEF Serial
  <2>2. overlapped' = overlapped
    BY <1>4, <2>1, StartsStep
  <2>3. CallsOf(p) = {}
    BY <2>1 DEF CallsOf
  <2>4. /\ Busy(w)' /\ work'[w].player = p
        /\ \A v \in Workers \ {w} : work'[v] = work[v]
    BY <1>4, StartsStep, OthersStay
  <2>5. CallsOf(p)' = {w}
    BY <2>1, <2>4 DEF CallsOf, Busy
  <2> QED
    BY <2>2, <2>3, <2>5 DEF Serial
<1>5. ASSUME NEW w \in Workers, Moves(w), work[w].player # p
      PROVE  Serial(p) /\ Untouched(p)
  <2>1. /\ CallsOf(p)' = CallsOf(p)
        /\ \A v \in CallsOf(p) : work'[v] = work[v]
    BY <1>5, MovesStep, OthersCallsStay
  <2> QED
    BY <1>5, <2>1, MovesStep, MovesWrites DEF Untouched, Serial
<1>6. ASSUME NEW w \in Workers, Moves(w), work[w].player = p
      PROVE  /\ Serial(p) /\ w \in CallsOf(p)
             /\ OneCall(p) => CallsOf(p) = {w} /\ CallsOf(p)' \subseteq {w}
  <2>1. w \in CallsOf(p) /\ Serial(p)
    BY <1>6, MovesStep DEF CallsOf, Serial
  <2>2. \A v \in Workers \ {w} : work'[v] = work[v]
    BY <1>6, MovesStep, OthersStay
  <2>3. OneCall(p) => CallsOf(p) = {w}
    BY <2>1 DEF OneCall
  <2>4. CallsOf(p)' \subseteq CallsOf(p) \cup {w}
    BY <2>2 DEF CallsOf, Busy
  <2> QED
    BY <2>1, <2>3, <2>4
<1>7. ASSUME NEW k \in Keys, ExpireAttempts(k) \/ ExpireHint(k), k[1] # p
      PROVE  Serial(p) /\ Untouched(p)
  <2>1. /\ UNCHANGED <<profile, scored, work, overlapped>>
        /\ \A j \in Keys \ {k} : hints'[j] = hints[j] /\ (j \in attempted' <=> j \in attempted)
    BY <1>7 DEF ExpireAttempts, ExpireHint, TypeOK, Keys
  <2>2. \A c \in Cases : <<p, c>> \in Keys \ {k}
    BY <1>7 DEF Keys
  <2> QED
    BY <2>1, <2>2 DEF Untouched, Serial, CallsOf, Busy
<1>8. ASSUME NEW k \in Keys, ExpireAttempts(k) \/ ExpireHint(k), k[1] = p
      PROVE  /\ Serial(p)
             /\ \E c \in Cases : ExpireAttempts(<<p, c>>) \/ ExpireHint(<<p, c>>)
  <2>1. PICK c \in Cases : k = <<p, c>>
    BY <1>8 DEF Keys
  <2> QED
    BY <1>8, <2>1 DEF Serial, ExpireAttempts, ExpireHint
<1> QED
  BY <1>1, <1>2, <1>3, <1>4, <1>5, <1>6, <1>7, <1>8, Steps DEF Keys

\* The one call's copy of the profile is the profile.
CurrentCopy(p) == \A w \in CallsOf(p) : work[w].pc \in Reading => work[w].seen = profile[p]

\* The last s of some saves, and no more of them, were right.
RunOf(saves, s) ==
    /\ s <= Len(saves)
    /\ \A i \in (Len(saves) - s + 1)..Len(saves) : saves[i].right
    /\ s < Len(saves) => ~saves[Len(saves) - s].right

WinningRun(p) == RunOf(scored[p], profile[p].streak)

SerialIInv ==
    \A p \in Players : Serial(p) =>
        /\ OneCall(p) /\ CurrentCopy(p)
        /\ profile[p].score = Earned(p)
        /\ WinningRun(p)

\* One more answer continues the run or ends it.
LEMMA RunStep ==
    ASSUME NEW old, NEW new, NEW n \in Nat, NEW s \in Nat, NEW right \in BOOLEAN,
           Len(old) = n, Len(new) = n + 1,
           \A i \in 1..n : new[i] = old[i],
           new[n + 1].right = right,
           RunOf(old, s)
    PROVE  RunOf(new, NextStreak(s, right))
<1>1. /\ s <= n
      /\ \A i \in (n - s + 1)..n : old[i].right
      /\ s < n => ~old[n - s].right
  BY DEF RunOf
<1>2. CASE right
  <2>1. NextStreak(s, right) = s + 1
    BY <1>2 DEF NextStreak
  <2>2. ASSUME NEW i \in (n + 1 - (s + 1) + 1)..(n + 1) PROVE new[i].right
    <3>1. i = n + 1 \/ (i \in (n - s + 1)..n /\ i \in 1..n)
      BY <1>1, <2>2
    <3> QED
      BY <1>1, <1>2, <3>1
  <2>3. s + 1 < n + 1 => ~new[n + 1 - (s + 1)].right
    <3> SUFFICES ASSUME s + 1 < n + 1 PROVE ~new[n + 1 - (s + 1)].right
      OBVIOUS
    <3>1. n + 1 - (s + 1) = n - s /\ n - s \in 1..n /\ s < n
      BY <1>1
    <3> QED
      BY <1>1, <3>1
  <2>4. s + 1 <= n + 1
    BY <1>1
  <2> QED
    BY <2>1, <2>2, <2>3, <2>4 DEF RunOf
<1>3. CASE ~right
  <2>1. NextStreak(s, right) = 0
    BY <1>3 DEF NextStreak
  <2>2. (n + 1 - 0 + 1)..(n + 1) = {} /\ n + 1 - 0 = n + 1 /\ 0 <= n + 1
    OBVIOUS
  <2> QED
    BY <1>3, <2>1, <2>2 DEF RunOf
<1> QED
  BY <1>2, <1>3

LEMMA SerialStep ==
    ASSUME TypeOK, TypeOK', PlayersKnown, SerialIInv, [Next]_vars
    PROVE  SerialIInv'
<1> SUFFICES ASSUME NEW p \in Players, Serial(p)'
             PROVE  (OneCall(p) /\ CurrentCopy(p) /\ profile[p].score = Earned(p) /\ WinningRun(p))'
  BY DEF SerialIInv
<1> DEFINE Exact == OneCall(p) /\ CurrentCopy(p) /\ profile[p].score = Earned(p) /\ WinningRun(p)
<1>1. Exact
  BY SerialSteps DEF SerialIInv
<1>2. CASE Untouched(p)
  <2>1. OneCall(p)' /\ CurrentCopy(p)'
    BY <1>1, <1>2 DEF Untouched, OneCall, CurrentCopy
  <2> QED
    BY <1>1, <1>2, <2>1 DEF Untouched, Earned, WinningRun
<1>3. ASSUME NEW w \in Workers, Starts(w, p), CallsOf(p)' = {w} PROVE Exact'
  <2>1. /\ UNCHANGED <<docs, scored>>
        /\ work'[w].pc \in Reading => work'[w].seen = profile[p]
    BY <1>3, StartsStep DEF Reading
  <2>2. OneCall(p)' /\ CurrentCopy(p)'
    BY <1>3, <2>1 DEF OneCall, CurrentCopy, docs
  <2> QED
    BY <1>1, <2>1, <2>2 DEF Earned, WinningRun, docs
<1>4. ASSUME NEW w \in CallsOf(p), Moves(w), OneCall(p) => CallsOf(p) = {w} /\ CallsOf(p)' \subseteq {w}
      PROVE  Exact'
  <2>1. /\ w \in Workers /\ work[w].player = p
        /\ CallsOf(p) = {w} /\ CallsOf(p)' \subseteq {w}
    BY <1>1, <1>4 DEF CallsOf
  <2>2. OneCall(p)'
    BY <2>1 DEF OneCall
  <2>3. CASE ~SubmitSave(w)
    <3>1. /\ UNCHANGED <<profile, scored>>
          /\ work'[w].pc \in Reading => work[w].pc \in Reading /\ work'[w].seen = work[w].seen
      BY <1>4, <2>1, <2>3, MovesStep
    <3>2. CurrentCopy(p)'
      BY <1>1, <2>1, <3>1 DEF CurrentCopy
    <3> QED
      BY <1>1, <2>2, <3>1, <3>2 DEF Earned, WinningRun
  <2>4. CASE SubmitSave(w)
    <3> DEFINE score == CalculateScore(work[w].right, work[w].used)
    <3>1. work[w].seen = profile[p] /\ work[w].pc = "save"
      BY <1>1, <1>4, <2>4 DEF CurrentCopy, SubmitSave, Reading
    <3>2. work'[w].pc = "record"
      BY <2>1, <2>4, JobStep, KeyType DEF Job
    <3>3. CurrentCopy(p)'
      BY <2>1, <3>2 DEF CurrentCopy, Reading
    <3>4. /\ profile'[work[w].player] =
                [score |-> work[w].seen.score + score,
                 streak |-> NextStreak(work[w].seen.streak, work[w].right)]
          /\ Worth(scored'[work[w].player]) = Worth(scored[work[w].player]) + score
          /\ Len(scored'[work[w].player]) = Len(scored[work[w].player]) + 1
          /\ \A i \in 1..Len(scored[work[w].player]) :
                scored'[work[w].player][i] = scored[work[w].player][i]
          /\ scored'[work[w].player][Len(scored[work[w].player]) + 1] =
                [case |-> work[w].case, right |-> work[w].right, score |-> score,
                 total |-> Earned(work[w].player) + score]
      BY <2>1, <2>4, SaveStep
    <3> HIDE DEF score
    <3>5. profile'[p].score = Worth(scored'[p])
      BY <1>1, <2>1, <3>1, <3>4 DEF Earned
    <3>6. WinningRun(p)'
      <4>1. /\ Len(scored[p]) \in Nat /\ profile[p].streak \in Nat
            /\ work[w].right \in BOOLEAN
        <5>1. scored[p] \in Seq(Scored) /\ profile[p] \in Profile
          BY DEF TypeOK
        <5>2. work[w] \in Job
          BY <2>1, KeyType
        <5>3. Len(scored[p]) \in Nat
          BY <5>1
        <5> QED
          BY <5>1, <5>2, <5>3 DEF Profile, Job
      <4>2. /\ Len(scored'[p]) = Len(scored[p]) + 1
            /\ \A i \in 1..Len(scored[p]) : scored'[p][i] = scored[p][i]
            /\ scored'[p][Len(scored[p]) + 1].right = work[w].right
            /\ profile'[p].streak = NextStreak(profile[p].streak, work[w].right)
        BY <2>1, <3>1, <3>4
      <4>3. RunOf(scored[p], profile[p].streak)
        BY <1>1 DEF WinningRun
      <4>4. RunOf(scored'[p], NextStreak(profile[p].streak, work[w].right))
        BY <4>1, <4>2, <4>3, RunStep
      <4> QED
        BY <4>2, <4>4 DEF WinningRun
    <3> QED
      BY <2>2, <3>3, <3>5, <3>6 DEF Earned
  <2> QED
    BY <2>3, <2>4
<1>5. ASSUME NEW c \in Cases, ExpireAttempts(<<p, c>>) \/ ExpireHint(<<p, c>>) PROVE Exact'
  <2>1. UNCHANGED <<profile, scored, work>>
    BY <1>5 DEF ExpireAttempts, ExpireHint
  <2>2. OneCall(p)' /\ CurrentCopy(p)'
    BY <1>1, <2>1 DEF OneCall, CurrentCopy, CallsOf, Busy
  <2> QED
    BY <1>1, <2>1, <2>2 DEF Earned, WinningRun
<1> QED
  BY <1>2, <1>3, <1>4, <1>5, SerialSteps

LEMMA InitIdle ==
    ASSUME Init
    PROVE  /\ \A w \in Workers : work[w].pc = "idle"
           /\ \A p \in Players : CallsOf(p) = {}
<1>1. PICK p \in Players, c \in Cases : work = [w \in Workers |-> IdleJob(p, c)]
  BY DEF Init
<1>2. \A w \in Workers : work[w].pc = "idle"
  BY <1>1 DEF IdleJob
<1> QED
  BY <1>2 DEF CallsOf, Busy

LEMMA SerialInvariance == Spec => []SerialIInv
<1>1. Init => SerialIInv
  BY InitIdle DEF Init, SerialIInv, OneCall, CurrentCopy, WinningRun, RunOf, Earned, Worth, NewProfile
<1>2. TypeOK /\ TypeOK' /\ PointsIInv /\ SerialIInv /\ [Next]_vars => SerialIInv'
  BY SerialStep DEF PointsIInv
<1> QED
  BY <1>1, <1>2, PlayerGameTypeOK, PointsInvariance, PTL DEF Spec

\* The total of a player who makes one call at a time is the sum of what its
\* answers were worth, and its streak the run of correct ones at their end,
\* whatever is cut off or expires and whatever others do meanwhile.
THEOREM SerialProfilesAreExact == Spec => []SerialProfileIsExact
<1>1. SerialIInv => SerialProfileIsExact
  BY DEF SerialIInv, SerialProfileIsExact, NoPointsAreLost, StreakIsTheWinningRun, WinningRun, RunOf
<1> QED
  BY <1>1, SerialInvariance, PTL

-----------------------------------------------------------------------------
(***************************************************************************)
(* The gate before the score.  It is shut for a scored case that has an    *)
(* attempt, and as good as shut while the call that scored it is about to  *)
(* record one.  Only a call cut off or an expiry opens it again, each for  *)
(* one case; and a save that repeats a case goes through an open gate and  *)
(* shuts it.  So with every open gate a repeat is still to be expected.    *)
(***************************************************************************)
Recording(p) == {work[w].case : w \in {v \in CallsOf(p) : work[v].pc = "record"}}

Ungated(p) == {c \in ScoredCases(p) : <<p, c>> \notin attempted /\ c \notin Recording(p)}

RepeatsCaused(p) ==
    Len(scored[p]) + Cardinality(Ungated(p)) <= Cardinality(ScoredCases(p)) + crashes + expiries

\* A call that found no attempt is still right when it saves.
GateHeld(p) ==
    \A w \in CallsOf(p) :
        (work[w].pc = "count" /\ ~work[w].solved) \/ work[w].pc = "save" => Key(w) \notin attempted

GateIInv == \A p \in Players : Serial(p) => RepeatsCaused(p) /\ GateHeld(p)

LEMMA EnvironmentGrows ==
    ASSUME TypeOK, TypeOK', [Next]_vars
    PROVE  /\ crashes \in Nat /\ crashes' \in Nat /\ crashes <= crashes'
           /\ expiries \in Nat /\ expiries' \in Nat /\ expiries <= expiries'
<1>1. /\ crashes' = crashes \/ crashes' = crashes + 1
      /\ expiries' = expiries \/ expiries' = expiries + 1
  BY DEF Next, vars, environment, docs, CreatePlayer, SubmitStart, SubmitExists, SubmitCount,
         SubmitSave, SubmitRecord, HintStart, HintCount, HintRecord, HintAnswer, Crash,
         ExpireAttempts, ExpireHint
<1> QED
  BY <1>1 DEF TypeOK

\* Cardinalities of parts of a finite set.
LEMMA PartsOfFinite ==
    ASSUME NEW S, IsFiniteSet(S), NEW U \in SUBSET S, NEW V \in SUBSET S, NEW c
    PROVE  /\ Cardinality(S) \in Nat /\ Cardinality(U) \in Nat /\ Cardinality(V) \in Nat
           /\ V \subseteq U => Cardinality(V) <= Cardinality(U)
           /\ V \subseteq U \cup {c} => Cardinality(V) <= Cardinality(U) + 1
           /\ V \subseteq U /\ c \in U /\ c \notin V => Cardinality(V) + 1 <= Cardinality(U)
<1>1. IsFiniteSet(U) /\ IsFiniteSet(V)
  BY FS_Subset
<1>2. Cardinality(S) \in Nat /\ Cardinality(U) \in Nat /\ Cardinality(V) \in Nat
  BY <1>1, FS_CardinalityType
<1>3. V \subseteq U => Cardinality(V) <= Cardinality(U)
  BY <1>1, FS_Subset
<1>4. ASSUME V \subseteq U \cup {c}
      PROVE  Cardinality(V) <= Cardinality(U) + 1
  <2>1. IsFiniteSet(U \cup {c}) /\ Cardinality(U \cup {c}) \in {Cardinality(U), Cardinality(U) + 1}
    BY <1>1, FS_AddElement
  <2>2. Cardinality(V) <= Cardinality(U \cup {c})
    BY <1>4, <2>1, FS_Subset
  <2> QED
    BY <1>2, <2>1, <2>2
<1>5. ASSUME V \subseteq U, c \in U, c \notin V
      PROVE  Cardinality(V) + 1 <= Cardinality(U)
  <2>1. Cardinality(V \cup {c}) = Cardinality(V) + 1
    BY <1>1, <1>5, FS_AddElement
  <2>2. V \cup {c} \in SUBSET U
    BY <1>5
  <2>3. Cardinality(V \cup {c}) <= Cardinality(U)
    BY <1>1, <2>2, FS_Subset
  <2> QED
    BY <2>1, <2>3
<1> QED
  BY <1>2, <1>3, <1>4, <1>5

LEMMA ScoredCasesType ==
    ASSUME TypeOK, NEW p \in Players
    PROVE  /\ IsFiniteSet(ScoredCases(p)) /\ ScoredCases(p) \subseteq Cases
           /\ Len(scored[p]) \in Nat /\ DOMAIN scored[p] = 1..Len(scored[p])
<1>1. scored[p] \in Seq(Scored)
  BY DEF TypeOK
<1>2. Len(scored[p]) \in Nat /\ DOMAIN scored[p] = 1..Len(scored[p])
  BY <1>1
<1>3. ScoredCases(p) \subseteq Cases
  <2>1. \A i \in DOMAIN scored[p] : scored[p][i] \in Scored
    BY <1>1
  <2> QED
    BY <2>1 DEF ScoredCases, Scored
<1>4. IsFiniteSet(ScoredCases(p))
  <2> DEFINE f == [i \in DOMAIN scored[p] |-> scored[p][i].case]
  <2>1. IsFiniteSet(DOMAIN scored[p])
    BY <1>2, FS_Interval
  <2>2. f \in Surjection(DOMAIN scored[p], ScoredCases(p))
    BY DEF Surjection, ScoredCases
  <2> HIDE DEF f
  <2> QED
    BY <2>1, <2>2, FS_Surjection
<1> QED
  BY <1>2, <1>3, <1>4

\* A step that scores nothing opens no gate, or one for a cause of its own.
LEMMA CauseKept ==
    ASSUME TypeOK, TypeOK', [Next]_vars, NEW p \in Players, RepeatsCaused(p), scored'[p] = scored[p],
           NEW c,
           \/ Ungated(p)' \subseteq Ungated(p)
           \/ /\ Ungated(p)' \subseteq Ungated(p) \cup {c}
              /\ crashes' + expiries' > crashes + expiries
    PROVE  RepeatsCaused(p)'
<1> DEFINE S == ScoredCases(p)
           U == Ungated(p)
           V == Ungated(p)'
<1>1. ScoredCases(p)' = S
  BY DEF ScoredCases
<1>2. IsFiniteSet(S) /\ Len(scored[p]) \in Nat
  BY ScoredCasesType
<1>3. U \in SUBSET S /\ V \in SUBSET S
  BY <1>1 DEF Ungated
<1>4. /\ Cardinality(S) \in Nat /\ Cardinality(U) \in Nat /\ Cardinality(V) \in Nat
      /\ V \subseteq U => Cardinality(V) <= Cardinality(U)
      /\ V \subseteq U \cup {c} => Cardinality(V) <= Cardinality(U) + 1
  <2> HIDE DEF S, U, V
  <2> QED
    BY <1>2, <1>3, PartsOfFinite
<1>5. Len(scored[p]) + Cardinality(U) <= Cardinality(S) + crashes + expiries
  BY DEF RepeatsCaused
<1>6. Len(scored[p]) + Cardinality(V) <= Cardinality(S) + crashes' + expiries'
  <2>1. \/ V \subseteq U
        \/ V \subseteq U \cup {c} /\ crashes' + expiries' > crashes + expiries
    OBVIOUS
  <2> HIDE DEF S, U, V
  <2> QED
    BY <1>2, <1>4, <1>5, <2>1, EnvironmentGrows
<1> QED
  BY <1>1, <1>6 DEF RepeatsCaused

LEMMA GateSave ==
    ASSUME TypeOK, TypeOK', NEW w \in Workers, SubmitSave(w), NEW p \in Players, p = work[w].player,
           CallsOf(p) = {w}, CallsOf(p)' \subseteq {w}, RepeatsCaused(p), GateHeld(p)
    PROVE  (RepeatsCaused(p) /\ GateHeld(p))'
<1> DEFINE n == Len(scored[p])
           c == work[w].case
           S == ScoredCases(p)
           U == Ungated(p)
           V == Ungated(p)'
<1>1. /\ Len(scored'[p]) = n + 1 /\ scored'[p][n + 1].case = c
      /\ \A i \in 1..n : scored'[p][i] = scored[p][i]
  <2> DEFINE score == CalculateScore(work[w].right, work[w].used)
  <2>1. /\ Len(scored'[work[w].player]) = Len(scored[work[w].player]) + 1
        /\ \A i \in 1..Len(scored[work[w].player]) :
              scored'[work[w].player][i] = scored[work[w].player][i]
        /\ scored'[work[w].player][Len(scored[work[w].player]) + 1] =
              [case |-> work[w].case, right |-> work[w].right, score |-> score,
               total |-> Earned(work[w].player) + score]
    BY SaveStep
  <2> HIDE DEF score
  <2> QED
    BY <2>1
<1>2. /\ n \in Nat /\ DOMAIN scored[p] = 1..n /\ DOMAIN scored'[p] = 1..(n + 1)
      /\ IsFiniteSet(S)
  <2>1. scored'[p] \in Seq(Scored)
    BY DEF TypeOK
  <2>2. DOMAIN scored'[p] = 1..Len(scored'[p])
    BY <2>1
  <2> QED
    BY <1>1, <2>2, ScoredCasesType
<1>3. /\ work[w].pc = "save" /\ work'[w].pc = "record" /\ work'[w].case = c
      /\ work'[w].player = p /\ UNCHANGED <<attempted, crashes, expiries>>
  <2>1. work[w] \in Job /\ work'[w] = [work[w] EXCEPT !.pc = "record"]
    BY JobStep, KeyType
  <2> QED
    BY <2>1 DEF SubmitSave, Job, environment
<1>4. <<p, c>> \notin attempted
  BY <1>3 DEF GateHeld, Key
<1> HIDE DEF n, c
<1>5. ScoredCases(p)' = S \cup {c}
  <2>1. (n + 1) \in DOMAIN scored'[p] /\ 1..n \subseteq 1..(n + 1)
        /\ \A i \in 1..(n + 1) : i \in 1..n \/ i = n + 1
    BY <1>2
  <2> QED
    BY <1>1, <1>2, <2>1 DEF ScoredCases
<1>6. Recording(p) = {} /\ Recording(p)' = {c}
  <2>1. CallsOf(p)' = {w}
    BY <1>3 DEF CallsOf, Busy
  <2> QED
    BY <1>3, <2>1 DEF Recording
<1>7. /\ U \in SUBSET S /\ V \in SUBSET S
      /\ V \subseteq U /\ c \notin V
      /\ c \in S => c \in U
  BY <1>3, <1>4, <1>5, <1>6 DEF Ungated
<1>8. n + Cardinality(U) <= Cardinality(S) + crashes + expiries
  BY DEF RepeatsCaused, n
<1>9. Cardinality(ScoredCases(p)') = IF c \in S THEN Cardinality(S) ELSE Cardinality(S) + 1
  BY <1>2, <1>5, FS_AddElement
<1>10. n + 1 + Cardinality(V) <= Cardinality(ScoredCases(p)') + crashes' + expiries'
  <2> DEFINE T == ScoredCases(p)'
  <2>1. Cardinality(T) = IF c \in S THEN Cardinality(S) ELSE Cardinality(S) + 1
    BY <1>9
  <2>2. n \in Nat /\ crashes \in Nat /\ expiries \in Nat /\ crashes' = crashes /\ expiries' = expiries
    BY <1>2, <1>3 DEF TypeOK
  <2> HIDE DEF S, U, V, T
  <2>3. /\ Cardinality(S) \in Nat /\ Cardinality(U) \in Nat /\ Cardinality(V) \in Nat
        /\ Cardinality(V) <= Cardinality(U)
        /\ c \in S => Cardinality(V) + 1 <= Cardinality(U)
    BY <1>2, <1>7, PartsOfFinite
  <2>4. n + 1 + Cardinality(V) <= Cardinality(T) + crashes + expiries
    BY <1>8, <2>1, <2>2, <2>3
  <2> QED
    BY <2>2, <2>4 DEF T
<1>11. RepeatsCaused(p)'
  BY <1>1, <1>10 DEF RepeatsCaused
<1>12. GateHeld(p)'
  <2>1. \A v \in CallsOf(p)' : work'[v].pc = "record"
    BY <1>3
  <2> QED
    BY <2>1 DEF GateHeld
<1> QED
  BY <1>11, <1>12

LEMMA GateStep ==
    ASSUME TypeOK, TypeOK', PlayersKnown, SerialIInv, GateIInv, [Next]_vars
    PROVE  GateIInv'
<1> SUFFICES ASSUME NEW p \in Players, Serial(p)'
             PROVE  (RepeatsCaused(p) /\ GateHeld(p))'
  BY DEF GateIInv
<1> DEFINE Kept == RepeatsCaused(p) /\ GateHeld(p)
<1>1. Serial(p) /\ OneCall(p) /\ RepeatsCaused(p) /\ GateHeld(p)
  BY SerialSteps DEF GateIInv, SerialIInv
<1>2. ScoredCases(p) \subseteq Cases
  BY ScoredCasesType
<1>3. scored'[p] = scored[p] => ScoredCases(p)' = ScoredCases(p)
  BY DEF ScoredCases
<1>4. CASE Untouched(p)
  <2>1. \A v \in CallsOf(p) : Key(v) \in Keys /\ Key(v)[1] = p /\ Key(v)' = Key(v)
    <3> SUFFICES ASSUME NEW v \in CallsOf(p)
                 PROVE  Key(v) \in Keys /\ Key(v)[1] = p /\ Key(v)' = Key(v)
      OBVIOUS
    <3>1. v \in Workers /\ work[v].player = p /\ work'[v] = work[v]
      BY <1>4 DEF CallsOf, Untouched
    <3>2. Key(v) \in Keys
      BY <3>1, KeyType
    <3> QED
      BY <3>1, <3>2 DEF Key
  <2>2. \A v \in CallsOf(p) : Key(v) \in attempted' <=> Key(v) \in attempted
    BY <1>4, <2>1 DEF Untouched, Keys
  <2>3. GateHeld(p)'
    BY <1>1, <1>4, <2>1, <2>2 DEF Untouched, GateHeld
  <2>4. Recording(p)' = Recording(p)
    BY <1>4 DEF Untouched, Recording
  <2>5. Ungated(p)' \subseteq Ungated(p)
    BY <1>2, <1>3, <1>4, <2>4 DEF Untouched, Ungated
  <2>6. scored'[p] = scored[p]
    BY <1>4 DEF Untouched
  <2> QED
    BY <1>1, <2>3, <2>5, <2>6, CauseKept
<1>5. ASSUME NEW w \in Workers, Starts(w, p), CallsOf(p) = {}, CallsOf(p)' = {w} PROVE Kept'
  <2>1. /\ scored' = scored /\ attempted' = attempted
        /\ work'[w].pc \notin {"count", "save"}
    BY <1>5, StartsStep DEF docs
  <2>2. Recording(p) = {}
    BY <1>5 DEF Recording
  <2>3. Ungated(p)' \subseteq Ungated(p)
    BY <1>3, <2>1, <2>2 DEF Ungated
  <2>4. GateHeld(p)'
    BY <1>5, <2>1 DEF GateHeld
  <2> QED
    BY <1>1, <2>1, <2>3, <2>4, CauseKept
<1>6. ASSUME NEW w \in Workers, Moves(w), work[w].player = p,
             CallsOf(p) = {w}, CallsOf(p)' \subseteq {w}
      PROVE  Kept'
  <2>1. work[w] \in Job /\ Key(w) \in Keys /\ Key(w) = <<p, work[w].case>>
    BY <1>6, KeyType DEF Key
  <2>2. /\ Recording(p) = IF work[w].pc = "record" THEN {work[w].case} ELSE {}
        /\ (work[w].pc = "count" /\ ~work[w].solved) \/ work[w].pc = "save" => Key(w) \notin attempted
    BY <1>1, <1>6 DEF Recording, GateHeld
  <2>3. CASE SubmitSave(w)
    BY <1>1, <1>6, <2>3, GateSave
  <2>4. CASE SubmitRecord(w)
    <3>1. /\ scored' = scored /\ attempted' = attempted \cup {Key(w)}
          /\ work[w].pc = "record" /\ work'[w].pc = "idle"
      BY <2>4, FinishedStep DEF SubmitRecord
    <3>2. \A v \in CallsOf(p)' : work'[v].pc = "idle"
      BY <1>6, <3>1
    <3>3. GateHeld(p)'
      BY <3>2 DEF GateHeld
    <3>4. Ungated(p)' \subseteq Ungated(p)
      BY <1>3, <2>1, <2>2, <3>1 DEF Ungated
    <3> QED
      BY <1>1, <3>1, <3>3, <3>4, CauseKept
  <2>5. CASE SubmitExists(w)
    <3>1. /\ scored' = scored /\ attempted' = attempted /\ work[w].pc = "exists"
      BY <2>5 DEF SubmitExists, docs
    <3>2. /\ work'[w].solved = (Key(w) \in attempted) /\ work'[w].pc = "count" /\ Key(w)' = Key(w)
      BY <2>1, <2>5 DEF SubmitExists, TypeOK, Job, Key
    <3>3. GateHeld(p)'
      BY <1>6, <3>1, <3>2 DEF GateHeld
    <3>4. Ungated(p)' \subseteq Ungated(p)
      BY <1>3, <2>2, <3>1 DEF Ungated
    <3> QED
      BY <1>1, <3>1, <3>3, <3>4, CauseKept
  <2>6. CASE SubmitCount(w)
    <3>1. /\ scored' = scored /\ attempted' = attempted /\ work[w].pc = "count"
      BY <2>6 DEF SubmitCount, docs
    <3>2. work'[w] = [work[w] EXCEPT !.pc = IF work[w].solved THEN "record" ELSE "save",
                                     !.used = Len(hints[Key(w)])]
      BY <2>6, JobStep
    <3>3. /\ work'[w].pc = (IF work[w].solved THEN "record" ELSE "save") /\ Key(w)' = Key(w)
      BY <2>1, <3>2 DEF Job, Key
    <3>4. GateHeld(p)'
      BY <1>6, <2>2, <3>1, <3>3 DEF GateHeld
    <3>5. Ungated(p)' \subseteq Ungated(p)
      BY <1>3, <2>2, <3>1 DEF Ungated
    <3> QED
      BY <1>1, <3>1, <3>4, <3>5, CauseKept
  <2>7. CASE HintCount(w) \/ HintRecord(w) \/ HintAnswer(w)
    <3>1. /\ scored' = scored /\ attempted' = attempted /\ work[w].pc # "record"
      BY <2>7 DEF HintCount, HintRecord, HintAnswer, docs
    <3>2. work'[w].pc \in {"idle", "hint_generate", "hint_answer"}
      BY <2>1, <2>7, JobStep, FinishedStep DEF HintAnswer, Job
    <3>3. GateHeld(p)'
      BY <1>6, <3>2 DEF GateHeld
    <3>4. Ungated(p)' \subseteq Ungated(p)
      BY <1>3, <2>2, <3>1 DEF Ungated
    <3> QED
      BY <1>1, <3>1, <3>3, <3>4, CauseKept
  <2>8. CASE Crash(w)
    <3>1. /\ scored' = scored /\ attempted' = attempted /\ work'[w].pc = "idle"
          /\ crashes' = crashes + 1 /\ expiries' = expiries
      BY <2>8, FinishedStep DEF Crash, docs
    <3>2. GateHeld(p)'
      BY <1>6, <3>1 DEF GateHeld
    <3>3. Ungated(p)' \subseteq Ungated(p) \cup {work[w].case}
      BY <1>3, <2>2, <3>1 DEF Ungated
    <3>4. crashes' + expiries' > crashes + expiries
      BY <3>1 DEF TypeOK
    <3> QED
      BY <1>1, <3>1, <3>2, <3>3, <3>4, CauseKept
  <2> QED
    BY <1>6, <2>3, <2>4, <2>5, <2>6, <2>7, <2>8 DEF Moves
<1>7. ASSUME NEW c \in Cases, ExpireAttempts(<<p, c>>) \/ ExpireHint(<<p, c>>) PROVE Kept'
  <2>1. /\ scored' = scored /\ work' = work /\ attempted \ {<<p, c>>} \subseteq attempted'
        /\ attempted' \subseteq attempted
        /\ crashes' = crashes /\ expiries' = expiries + 1
    BY <1>7 DEF ExpireAttempts, ExpireHint
  <2>2. CallsOf(p)' = CallsOf(p) /\ Recording(p)' = Recording(p) /\ \A w \in Workers : Key(w)' = Key(w)
    BY <2>1 DEF CallsOf, Busy, Recording, Key
  <2>3. GateHeld(p)'
    BY <1>1, <2>1, <2>2 DEF GateHeld, CallsOf
  <2>4. Ungated(p)' \subseteq Ungated(p) \cup {c}
    BY <1>3, <2>1, <2>2 DEF Ungated
  <2>5. crashes' + expiries' > crashes + expiries
    BY <2>1 DEF TypeOK
  <2> QED
    BY <1>1, <2>1, <2>3, <2>4, <2>5, CauseKept
<1> QED
  <2>1. ASSUME NEW w \in CallsOf(p), Moves(w),
               OneCall(p) => CallsOf(p) = {w} /\ CallsOf(p)' \subseteq {w}
        PROVE  Kept'
    BY <1>1, <1>6, <2>1 DEF CallsOf
  <2> QED
    BY <1>4, <1>5, <1>7, <2>1, SerialSteps

\* A player who makes one call at a time is scored once per case, and once more
\* for each call that was cut off and each document that expired, at most,
\* whatever other players do meanwhile.
THEOREM RescoringNeedsACause == Spec => []RescoredOnlyForCause
<1>1. Init => GateIInv
  <2> SUFFICES ASSUME Init, NEW p \in Players PROVE RepeatsCaused(p) /\ GateHeld(p)
    BY DEF GateIInv
  <2>1. scored[p] = <<>> /\ CallsOf(p) = {} /\ crashes = 0 /\ expiries = 0
    BY InitIdle DEF Init
  <2>2. ScoredCases(p) = {} /\ Ungated(p) = {}
    BY <2>1 DEF ScoredCases, Ungated
  <2> QED
    BY <2>1, <2>2, FS_EmptySet DEF RepeatsCaused, GateHeld
<1>2. TypeOK /\ TypeOK' /\ PointsIInv /\ SerialIInv /\ GateIInv /\ [Next]_vars => GateIInv'
  BY GateStep DEF PointsIInv
<1>3. TypeOK /\ GateIInv => RescoredOnlyForCause
  <2> SUFFICES ASSUME TypeOK, NEW p \in Players, RepeatsCaused(p)
               PROVE  Len(scored[p]) <= Cardinality(ScoredCases(p)) + crashes + expiries
    BY DEF GateIInv, RescoredOnlyForCause
  <2>1. Cardinality(ScoredCases(p)) \in Nat /\ Cardinality(Ungated(p)) \in Nat
    <3>1. IsFiniteSet(ScoredCases(p)) /\ Ungated(p) \in SUBSET ScoredCases(p)
      BY ScoredCasesType DEF Ungated
    <3> QED
      BY <3>1, PartsOfFinite
  <2> QED
    BY <2>1, ScoredCasesType DEF RepeatsCaused, TypeOK
<1> QED
  BY <1>1, <1>2, <1>3, PlayerGameTypeOK, PointsInvariance, SerialInvariance, PTL DEF Spec

-----------------------------------------------------------------------------
(***************************************************************************)
(* Levels of hints.  The number of hints that the one call has read is the *)
(* number there is when it records the next one, or larger by what expired *)
(* meanwhile.                                                              *)
(***************************************************************************)
Escalates(levels, slack) == \A i \in DOMAIN levels : levels[i] \in i..(i + slack)

LevelsKept(p) ==
    /\ \A c \in Cases : Escalates(hints[<<p, c>>], expiries)
    /\ \A w \in CallsOf(p) : work[w].pc = "hint_generate" =>
          work[w].used \in Len(hints[Key(w)])..(Len(hints[Key(w)]) + expiries)

LevelsIInv == \A p \in Players : Serial(p) => LevelsKept(p)

LEMMA MoreSlack ==
    ASSUME NEW levels \in Seq(Nat), NEW e \in Nat, NEW f \in Nat, e <= f, Escalates(levels, e)
    PROVE  Escalates(levels, f)
<1>1. ASSUME NEW i \in DOMAIN levels PROVE levels[i] \in i..(i + f)
  <2>1. i \in Nat /\ levels[i] \in Nat /\ levels[i] \in i..(i + e)
    BY DEF Escalates
  <2> QED
    BY <2>1
<1> QED
  BY <1>1 DEF Escalates

LEMMA OneLevelMore ==
    ASSUME NEW levels \in Seq(Nat), NEW e \in Nat, Escalates(levels, e),
           NEW used \in Len(levels)..(Len(levels) + e)
    PROVE  Escalates(Append(levels, used + 1), e)
<1> DEFINE more == Append(levels, used + 1)
<1>1. /\ Len(levels) \in Nat /\ DOMAIN levels = 1..Len(levels)
      /\ DOMAIN more = 1..(Len(levels) + 1)
      /\ more[Len(levels) + 1] = used + 1
      /\ \A i \in 1..Len(levels) : more[i] = levels[i]
  OBVIOUS
<1> HIDE DEF more
<1>2. ASSUME NEW i \in DOMAIN more PROVE more[i] \in i..(i + e)
  <2>1. i = Len(levels) + 1 \/ i \in 1..Len(levels)
    BY <1>1
  <2> QED
    BY <1>1, <2>1 DEF Escalates
<1> QED
  BY <1>2 DEF Escalates, more

LEMMA OneLevelLess ==
    ASSUME NEW levels \in Seq(Nat), NEW e \in Nat, Escalates(levels, e), levels # <<>>
    PROVE  /\ Escalates(Tail(levels), e + 1)
           /\ Len(Tail(levels)) + 1 = Len(levels) /\ Len(Tail(levels)) \in Nat
<1>1. /\ Len(levels) \in Nat /\ DOMAIN levels = 1..Len(levels)
      /\ Len(Tail(levels)) + 1 = Len(levels) /\ Len(Tail(levels)) \in Nat
      /\ DOMAIN Tail(levels) = 1..Len(Tail(levels))
      /\ \A i \in 1..Len(Tail(levels)) : Tail(levels)[i] = levels[i + 1]
  OBVIOUS
<1>2. ASSUME NEW i \in DOMAIN Tail(levels) PROVE Tail(levels)[i] \in i..(i + (e + 1))
  <2>1. i \in Nat /\ i + 1 \in DOMAIN levels /\ Tail(levels)[i] = levels[i + 1]
    BY <1>1
  <2>2. levels[i + 1] \in (i + 1)..(i + 1 + e)
    BY <2>1 DEF Escalates
  <2> QED
    BY <2>1, <2>2
<1> QED
  BY <1>1, <1>2 DEF Escalates

LEMMA OneHintLess ==
    ASSUME NEW before \in Nat, NEW after \in Nat, before = after \/ before = after + 1,
           NEW e \in Nat, NEW used \in before..(before + e)
    PROVE  used \in after..(after + (e + 1))
  OBVIOUS

LEMMA LevelsStep ==
    ASSUME TypeOK, TypeOK', PlayersKnown, SerialIInv, LevelsIInv, [Next]_vars
    PROVE  LevelsIInv'
<1> SUFFICES ASSUME NEW p \in Players, Serial(p)'
             PROVE  LevelsKept(p)'
  BY DEF LevelsIInv
<1>1. expiries \in Nat /\ expiries' \in Nat /\ expiries <= expiries'
  BY EnvironmentGrows
<1>2. Serial(p) /\ OneCall(p) /\ LevelsKept(p)
  BY SerialSteps DEF LevelsIInv, SerialIInv
<1>3. \A c \in Cases : /\ hints[<<p, c>>] \in Seq(Nat) /\ Len(hints[<<p, c>>]) \in Nat
                       /\ Escalates(hints[<<p, c>>], expiries')
  <2> SUFFICES ASSUME NEW c \in Cases
               PROVE  /\ hints[<<p, c>>] \in Seq(Nat) /\ Len(hints[<<p, c>>]) \in Nat
                      /\ Escalates(hints[<<p, c>>], expiries')
    OBVIOUS
  <2>1. hints[<<p, c>>] \in Seq(Nat)
    BY DEF TypeOK
  <2> QED
    BY <1>1, <1>2, <2>1, MoreSlack DEF LevelsKept
<1>4. CASE Untouched(p)
  <2>1. ASSUME NEW v \in CallsOf(p)'
        PROVE  /\ v \in CallsOf(p) /\ hints'[Key(v)'] = hints[Key(v)]
               /\ work'[v] = work[v] /\ Key(v)' = Key(v) /\ Len(hints[Key(v)]) \in Nat
    <3>1. v \in CallsOf(p)
      BY <1>4 DEF Untouched
    <3>2. v \in Workers /\ work[v].player = p /\ work'[v] = work[v]
      BY <1>4, <3>1 DEF CallsOf, Untouched
    <3>3. work[v].case \in Cases /\ Len(hints[Key(v)]) \in Nat
      BY <3>2, KeyType DEF Job
    <3> QED
      BY <1>4, <3>1, <3>2, <3>3 DEF Untouched, Key
  <2>2. ASSUME NEW v \in CallsOf(p)', work'[v].pc = "hint_generate"
        PROVE  work'[v].used \in Len(hints'[Key(v)'])..(Len(hints'[Key(v)']) + expiries')
    <3>1. work[v].used \in Len(hints[Key(v)])..(Len(hints[Key(v)]) + expiries)
      BY <1>2, <2>1, <2>2 DEF LevelsKept
    <3>2. Len(hints[Key(v)]) \in Nat
      BY <2>1
    <3>3. work[v].used \in Len(hints[Key(v)])..(Len(hints[Key(v)]) + expiries')
      BY <1>1, <3>1, <3>2
    <3> QED
      BY <2>1, <3>3
  <2>3. \A c \in Cases : Escalates(hints'[<<p, c>>], expiries')
    BY <1>3, <1>4 DEF Untouched
  <2> QED
    BY <2>2, <2>3 DEF LevelsKept
<1>5. ASSUME NEW w \in Workers, Starts(w, p), CallsOf(p)' = {w} PROVE LevelsKept(p)'
  <2>1. hints' = hints /\ work'[w].pc # "hint_generate"
    BY <1>5, StartsStep DEF docs
  <2> QED
    BY <1>3, <1>5, <2>1 DEF LevelsKept
<1>6. ASSUME NEW w \in Workers, Moves(w), work[w].player = p,
             CallsOf(p) = {w}, CallsOf(p)' \subseteq {w}
      PROVE  LevelsKept(p)'
  <2>1. /\ work[w] \in Job /\ Key(w) \in Keys /\ Key(w) = <<p, work[w].case>>
        /\ expiries' = expiries
    BY <1>6, KeyType, MovesStep DEF Key
  <2>2. CASE HintRecord(w)
    <3>1. /\ work[w].pc = "hint_generate" /\ work'[w].pc = "hint_answer"
          /\ hints' = [hints EXCEPT ![Key(w)] = Append(@, work[w].used + 1)]
      <4>1. work'[w] = [work[w] EXCEPT !.pc = "hint_answer"]
        BY <2>2, JobStep
      <4> QED
        BY <2>1, <2>2, <4>1 DEF HintRecord, Job
    <3>2. work[w].used \in Len(hints[Key(w)])..(Len(hints[Key(w)]) + expiries)
      BY <1>2, <1>6, <3>1 DEF LevelsKept
    <3>3. hints'[Key(w)] = Append(hints[Key(w)], work[w].used + 1)
      BY <2>1, <3>1 DEF TypeOK, Keys
    <3>4. Escalates(hints'[Key(w)], expiries)
      <4>1. Escalates(hints[Key(w)], expiries) /\ hints[Key(w)] \in Seq(Nat)
        BY <1>2, <2>1, KeyType DEF LevelsKept, Job
      <4> QED
        BY <1>1, <3>2, <3>3, <4>1, OneLevelMore
    <3>5. ASSUME NEW c \in Cases PROVE Escalates(hints'[<<p, c>>], expiries')
      <4>1. CASE <<p, c>> = Key(w)
        BY <2>1, <3>4, <4>1
      <4>2. CASE <<p, c>> # Key(w)
        <5>1. hints'[<<p, c>>] = hints[<<p, c>>]
          BY <3>1, <4>2 DEF TypeOK
        <5> QED
          BY <1>3, <5>1
      <4> QED
        BY <4>1, <4>2
    <3> QED
      BY <1>6, <3>1, <3>5 DEF LevelsKept
  <2>3. CASE HintCount(w)
    <3>1. hints' = hints
      BY <2>3 DEF HintCount, docs
    <3>2. \/ work'[w] = [work[w] EXCEPT !.pc = "hint_generate", !.used = Len(hints[Key(w)])]
          \/ work'[w].pc = "idle"
      BY <2>3, JobStep
    <3>3. work'[w].pc = "hint_generate" =>
            Key(w)' = Key(w) /\ work'[w].used = Len(hints[Key(w)])
      BY <2>1, <3>2 DEF Key, Job
    <3>4. Len(hints[Key(w)]) \in Len(hints[Key(w)])..(Len(hints[Key(w)]) + expiries)
      <4>1. Len(hints[Key(w)]) \in Nat
        BY KeyType
      <4> QED
        BY <1>1, <4>1
    <3>5. \A v \in CallsOf(p)' : work'[v].pc = "hint_generate" =>
             work'[v].used \in Len(hints'[Key(v)'])..(Len(hints'[Key(v)']) + expiries')
      BY <1>6, <2>1, <3>1, <3>3, <3>4
    <3> QED
      BY <1>3, <3>1, <3>5 DEF LevelsKept
  <2>4. CASE SubmitExists(w) \/ SubmitCount(w) \/ SubmitSave(w) \/ SubmitRecord(w) \/ HintAnswer(w) \/ Crash(w)
    <3>1. hints' = hints
      BY <2>4 DEF SubmitExists, SubmitCount, SubmitSave, SubmitRecord, HintAnswer, Crash, docs
    <3>2. work'[w].pc # "hint_generate"
      BY <2>1, <2>4, JobStep, FinishedStep DEF SubmitRecord, HintAnswer, Crash, Job
    <3> QED
      BY <1>3, <1>6, <3>1, <3>2 DEF LevelsKept
  <2> QED
    BY <1>6, <2>2, <2>3, <2>4 DEF Moves
<1>7. ASSUME NEW c \in Cases, ExpireAttempts(<<p, c>>) PROVE LevelsKept(p)'
  <2>1. /\ hints' = hints /\ work' = work
        /\ CallsOf(p)' = CallsOf(p) /\ \A v \in Workers : Key(v)' = Key(v)
    BY <1>7 DEF ExpireAttempts, CallsOf, Busy, Key
  <2>2. ASSUME NEW v \in CallsOf(p), work[v].pc = "hint_generate"
        PROVE  work[v].used \in Len(hints[Key(v)])..(Len(hints[Key(v)]) + expiries')
    <3>1. work[v].used \in Len(hints[Key(v)])..(Len(hints[Key(v)]) + expiries)
      BY <1>2, <2>2 DEF LevelsKept
    <3>2. Len(hints[Key(v)]) \in Nat
      BY KeyType DEF CallsOf
    <3> QED
      BY <1>1, <3>1, <3>2
  <2>3. \A v \in CallsOf(p)' : work'[v].pc = "hint_generate" =>
           work'[v].used \in Len(hints'[Key(v)'])..(Len(hints'[Key(v)']) + expiries')
    BY <2>1, <2>2 DEF CallsOf
  <2> QED
    BY <1>3, <2>1, <2>3 DEF LevelsKept
<1>8. ASSUME NEW c \in Cases, ExpireHint(<<p, c>>) PROVE LevelsKept(p)'
  <2> DEFINE k == <<p, c>>
  <2>1. /\ work' = work /\ expiries' = expiries + 1 /\ hints[k] # <<>>
        /\ CallsOf(p)' = CallsOf(p) /\ \A v \in Workers : Key(v)' = Key(v)
    BY <1>8 DEF ExpireHint, CallsOf, Busy, Key
  <2>2. /\ hints'[k] = Tail(hints[k])
        /\ \A j \in Keys \ {k} : hints'[j] = hints[j]
    BY <1>8 DEF ExpireHint, TypeOK, Keys
  <2>3. /\ Escalates(hints'[k], expiries')
        /\ Len(hints'[k]) + 1 = Len(hints[k]) /\ Len(hints'[k]) \in Nat
    <3>1. Escalates(hints[k], expiries) /\ hints[k] \in Seq(Nat)
      BY <1>2, <1>3 DEF LevelsKept
    <3> HIDE DEF k
    <3> QED
      BY <1>1, <2>1, <2>2, <3>1, OneLevelLess
  <2>4. ASSUME NEW v \in CallsOf(p), work[v].pc = "hint_generate"
        PROVE  work[v].used \in Len(hints'[Key(v)])..(Len(hints'[Key(v)]) + expiries')
    <3>1. work[v].used \in Len(hints[Key(v)])..(Len(hints[Key(v)]) + expiries)
      BY <1>2, <2>4 DEF LevelsKept
    <3>2. Key(v) \in Keys /\ Len(hints[Key(v)]) \in Nat
      BY KeyType DEF CallsOf
    <3>3. /\ Len(hints'[Key(v)]) \in Nat
          /\ \/ Len(hints[Key(v)]) = Len(hints'[Key(v)])
             \/ Len(hints[Key(v)]) = Len(hints'[Key(v)]) + 1
      BY <2>2, <2>3, <3>2
    <3> HIDE DEF k
    <3>4. work[v].used \in Len(hints'[Key(v)])..(Len(hints'[Key(v)]) + (expiries + 1))
      BY <1>1, <3>1, <3>2, <3>3, OneHintLess
    <3> QED
      BY <2>1, <3>4
  <2>5. \A v \in CallsOf(p)' : work'[v].pc = "hint_generate" =>
           work'[v].used \in Len(hints'[Key(v)'])..(Len(hints'[Key(v)']) + expiries')
    BY <2>1, <2>4 DEF CallsOf
  <2>6. ASSUME NEW d \in Cases PROVE Escalates(hints'[<<p, d>>], expiries')
    <3>1. CASE d = c
      BY <2>3, <3>1
    <3>2. CASE d # c
      <4>1. <<p, d>> \in Keys \ {k}
        BY <3>2 DEF Keys
      <4>2. hints'[<<p, d>>] = hints[<<p, d>>]
        BY <2>2, <4>1
      <4> QED
        BY <1>3, <4>2
    <3> QED
      BY <3>1, <3>2
  <2> QED
    BY <2>5, <2>6 DEF LevelsKept
<1> QED
  <2>1. ASSUME NEW w \in CallsOf(p), Moves(w),
               OneCall(p) => CallsOf(p) = {w} /\ CallsOf(p)' \subseteq {w}
        PROVE  LevelsKept(p)'
    BY <1>2, <1>6, <2>1 DEF CallsOf
  <2> QED
    BY <1>4, <1>5, <1>7, <1>8, <2>1, SerialSteps

\* The hints of a player who makes one call at a time have the levels 1, 2, 3
\* without gap or repeat, wherever calls are cut off, and are off by one level
\* at most for each hint request that expired.
THEOREM HintsEscalate == Spec => []HintLevelsEscalate
<1>1. Init => LevelsIInv
  BY InitIdle DEF Init, LevelsIInv, LevelsKept, Escalates
<1>2. TypeOK /\ TypeOK' /\ PointsIInv /\ SerialIInv /\ LevelsIInv /\ [Next]_vars => LevelsIInv'
  BY LevelsStep DEF PointsIInv
<1>3. LevelsIInv => HintLevelsEscalate
  BY DEF LevelsIInv, LevelsKept, Escalates, HintLevelsEscalate
<1> QED
  BY <1>1, <1>2, <1>3, PlayerGameTypeOK, PointsInvariance, SerialInvariance, PTL DEF Spec
=============================================================================
