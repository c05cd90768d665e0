-------------------------- MODULE CaseLifecycleProofs --------------------------
(***************************************************************************)
(* Theorems of CaseLifecycle and DailySchedule, for every catalog, number  *)
(* of threads, days, crashes, retries and slips.                           *)
(***************************************************************************)
EXTENDS DailySchedule, FiniteSetTheorems, TLAPS

\* One thread takes a step; the other jobs keep still.
OwnStep(w) ==
    /\ job'[w] \in Job
    /\ job' = [job EXCEPT ![w] = job'[w]]

\* What each action makes of the job of its thread, and of the flag.
LEMMA ServeStep ==
    ASSUME TypeOK, NEW w \in Callers, NEW j \in Job, Serve(w, j)
    PROVE  /\ OwnStep(w) /\ job'[w] = j /\ job[w].pc = "idle"
           /\ overlapped' \in BOOLEAN
           /\ ~overlapped' => ~overlapped /\ \A v \in Callers : job[v].pc = "idle"
BY DEF TypeOK, Serve, OwnStep

LEMMA IdleJobType == IdleJob \in Job
BY DEF IdleJob, Job

LEMMA ReturnStep ==
    ASSUME TypeOK, NEW w \in Callers, Return(w)
    PROVE  OwnStep(w) /\ job'[w] = IdleJob
BY IdleJobType DEF TypeOK, Return, OwnStep

LEMMA JobOnType ==
    ASSUME NEW c \in Cases, NEW step \in {"approve", "reject", "publish"}
    PROVE  /\ JobOn(step, c) \in Job /\ JobOn(step, c).pc = step /\ JobOn(step, c).case = c
           /\ JobOn(step, c).auto = FALSE
BY DEF JobOn, IdleJob, Job

LEMMA NextJobType ==
    ASSUME NEW S \in SUBSET Curated
    PROVE  /\ NextJob(S) \in Job /\ NextJob(S).pc = "next_daily" /\ NextJob(S).eligible = S
           /\ NextJob(S).auto = TRUE
BY DEF NextJob, IdleJob, Job, Cases

LEMMA NextListStep ==
    ASSUME NEW w \in Callers, NextList(w)
    PROVE  \E S \in SUBSET Curated : Serve(w, NextJob(S)) /\ S = {c \in Curated : IsEligible(c)}
BY DEF NextList

LEMMA MoveStep ==
    ASSUME TypeOK, NEW w \in Callers
    PROVE  /\ PublishRead(w) =>
                /\ OwnStep(w)
                /\ \/ IsEligible(job[w].case) /\ job'[w] = [job[w] EXCEPT !.pc = "publish_save"] /\ unhandled' = unhandled
                   \/ ~IsEligible(job[w].case) /\ job'[w] = IdleJob
           /\ PublishSave(w) => OwnStep(w) /\ job'[w] = [job[w] EXCEPT !.pc = "set_daily"]
           /\ NextChoose(w) =>
                /\ OwnStep(w)
                /\ \E c \in job[w].eligible : job'[w] = [job[w] EXCEPT !.pc = "publish", !.case = c]
<1>1. job \in [Callers -> Job] /\ job[w] \in Job
  BY DEF TypeOK
<1>2. ASSUME PublishRead(w)
      PROVE  /\ OwnStep(w)
             /\ \/ IsEligible(job[w].case) /\ job'[w] = [job[w] EXCEPT !.pc = "publish_save"] /\ unhandled' = unhandled
                \/ ~IsEligible(job[w].case) /\ job'[w] = IdleJob
  <2>1. CASE ~IsEligible(job[w].case) /\ Return(w)
    BY <2>1, ReturnStep
  <2>2. CASE IsEligible(job[w].case) /\ job' = [job EXCEPT ![w] = [@ EXCEPT !.pc = "publish_save"]] /\ unhandled' = unhandled
    BY <1>1, <2>2 DEF OwnStep, Job
  <2> QED
    BY <1>2, <2>1, <2>2 DEF PublishRead
<1>3. ASSUME PublishSave(w) PROVE OwnStep(w) /\ job'[w] = [job[w] EXCEPT !.pc = "set_daily"]
  BY <1>1, <1>3 DEF PublishSave, OwnStep, Job
<1>4. ASSUME NextChoose(w)
      PROVE  /\ OwnStep(w)
             /\ \E c \in job[w].eligible : job'[w] = [job[w] EXCEPT !.pc = "publish", !.case = c]
  <2>1. PICK c \in job[w].eligible :
              job' = [job EXCEPT ![w] = [@ EXCEPT !.pc = "publish", !.case = c]]
    BY <1>4 DEF NextChoose, Oldest
  <2>2. c \in Cases
    BY <1>1 DEF Job
  <2> QED
    BY <1>1, <2>1, <2>2 DEF OwnStep, Job
<1> QED
  BY <1>2, <1>3, <1>4

-----------------------------------------------------------------------------
\* Statuses, pointers and jobs keep their types.
THEOREM CaseLifecycleTypeOK == Spec => []TypeOK
<1>1. Init => TypeOK
  <2> SUFFICES ASSUME Init PROVE TypeOK
    OBVIOUS
  <2>1. today \in Days
    BY LifecycleBoundsAssumption DEF Init, Days
  <2>2. \A w \in Callers : job[w] = IdleJob /\ job[w].pc = "idle"
    BY DEF Init, IdleJob
  <2>3. job \in [Callers -> Job]
    BY IdleJobType DEF Init
  <2> QED
    BY <2>1, <2>2, <2>3 DEF Init, TypeOK
<1>2. ASSUME TypeOK, [Next]_vars PROVE TypeOK'
  <2> USE <1>2
  <2>1. CASE UNCHANGED vars
    BY <2>1 DEF vars, TypeOK
  <2> DEFINE JobsOK == /\ job \in [Callers -> Job]
                       /\ \A w \in Callers : job[w].pc \in {"idle", "next_daily"} \/ job[w].case # NoCase
  <2>2. ASSUME NEW w \in Callers, OwnStep(w), job'[w].pc \in {"idle", "next_daily"} \/ job'[w].case # NoCase
        PROVE  JobsOK'
    BY <2>2 DEF OwnStep, TypeOK
  <2>3. ASSUME NEW w \in Callers, Return(w) PROVE JobsOK'
    BY <2>2, <2>3, ReturnStep DEF IdleJob
  <2>4. ASSUME NEW w \in Callers, NEW c \in Cases, ApproveRead(w, c) \/ RejectRead(w, c) \/ PublishStart(w, c)
        PROVE  TypeOK'
    <3>1. PICK step \in {"approve", "reject", "publish"} : Serve(w, JobOn(step, c))
      BY <2>4 DEF ApproveRead, RejectRead, PublishStart
    <3>2. c # NoCase
      BY CatalogAssumption
    <3>3. JobsOK' /\ overlapped' \in BOOLEAN
      <4>1. JobOn(step, c) \in Job /\ JobOn(step, c).case = c
        BY JobOnType
      <4>2. OwnStep(w) /\ job'[w] = JobOn(step, c) /\ overlapped' \in BOOLEAN
        BY <3>1, <4>1, ServeStep
      <4> QED
        BY <2>2, <3>2, <4>1, <4>2
    <3> QED
      BY <2>4, <3>3 DEF ApproveRead, RejectRead, PublishStart, TypeOK
  <2>5. ASSUME NEW w \in Callers, NextList(w) PROVE TypeOK'
    <3>1. PICK S \in SUBSET Curated : Serve(w, NextJob(S))
      BY <2>5, NextListStep
    <3>2. JobsOK' /\ overlapped' \in BOOLEAN
      <4>1. NextJob(S) \in Job /\ NextJob(S).pc = "next_daily"
        BY NextJobType
      <4>2. OwnStep(w) /\ job'[w] = NextJob(S) /\ overlapped' \in BOOLEAN
        BY <3>1, <4>1, ServeStep
      <4> QED
        BY <2>2, <4>1, <4>2
    <3> QED
      BY <2>5, <3>2 DEF NextList, TypeOK
  <2>6. ASSUME NEW w \in Callers, DecisionSave(w) PROVE TypeOK'
    <3>1. JobsOK'
      BY <2>3, <2>6 DEF DecisionSave
    <3>2. status' \in [Cases -> Status]
      BY <2>6 DEF DecisionSave, TypeOK, Status
    <3> QED
      BY <2>6, <3>1, <3>2 DEF DecisionSave, TypeOK
  <2>7. ASSUME NEW w \in Callers, PublishRead(w) PROVE TypeOK'
    <3>1. job[w] \in Job /\ job[w].case # NoCase
      BY <2>7 DEF TypeOK, PublishRead
    <3>2. OwnStep(w) /\ (job'[w].pc = "idle" \/ job'[w].case = job[w].case)
      <4>1. CASE job'[w] = [job[w] EXCEPT !.pc = "publish_save"]
        BY <2>7, <3>1, <4>1, MoveStep DEF Job
      <4>2. CASE job'[w] = IdleJob
        <5>1. job'[w].pc = "idle"
          BY <4>2 DEF IdleJob
        <5>2. OwnStep(w)
          BY <2>7, MoveStep
        <5> QED
          BY <5>1, <5>2
      <4>3. job'[w] = [job[w] EXCEPT !.pc = "publish_save"] \/ job'[w] = IdleJob
        BY <2>7, MoveStep
      <4> QED
        BY <4>1, <4>2, <4>3
    <3>3. JobsOK'
      BY <2>2, <3>1, <3>2
    <3>4. unhandled' \in BOOLEAN
      BY <2>7 DEF PublishRead, TypeOK
    <3> QED
      BY <2>7, <3>3, <3>4 DEF PublishRead, TypeOK
  <2>8. ASSUME NEW w \in Callers, PublishSave(w) PROVE TypeOK'
    <3>1. job[w] \in Job /\ job[w].case # NoCase
      BY <2>8 DEF TypeOK, PublishSave
    <3>2. job[w].case \in Cases
      BY <3>1 DEF Job
    <3>3. JobsOK'
      BY <2>2, <2>8, <3>1, MoveStep DEF Job
    <3>4. status' \in [Cases -> Status]
      BY <2>8 DEF PublishSave, TypeOK, Status
    <3> QED
      BY <2>8, <3>2, <3>3, <3>4 DEF PublishSave, TypeOK
  <2>9. ASSUME NEW w \in Callers, SetDaily(w) PROVE TypeOK'
    <3>1. JobsOK'
      BY <2>3, <2>9 DEF SetDaily
    <3>2. job[w].case \in Cases \cup {NoCase}
      BY DEF TypeOK, Job
    <3>3. daily' \in [Days -> Cases \cup {NoCase}] /\ picked' \in [Days -> Cases \cup {NoCase}]
      BY <2>9, <3>2 DEF SetDaily, TypeOK
    <3> QED
      BY <2>9, <3>1, <3>3 DEF SetDaily, TypeOK
  <2>10. ASSUME NEW w \in Callers, NextChoose(w) PROVE TypeOK'
    <3>1. PICK c \in job[w].eligible : job'[w] = [job[w] EXCEPT !.pc = "publish", !.case = c]
      BY <2>10, MoveStep
    <3>2. job[w] \in Job /\ c # NoCase
      BY CatalogAssumption DEF TypeOK, Job
    <3>3. JobsOK'
      BY <2>2, <2>10, <3>1, <3>2, MoveStep DEF Job
    <3> QED
      BY <2>10, <3>3 DEF NextChoose, TypeOK
  <2>11. ASSUME NEW c \in Generated, SaveGenerated(c) PROVE TypeOK'
    <3>1. c \in Cases
      BY DEF Cases
    <3>2. status' \in [Cases -> Status]
      BY <2>11 DEF SaveGenerated, TypeOK, Status
    <3> QED
      BY <2>11, <3>1, <3>2 DEF SaveGenerated, TypeOK
  <2>12. ASSUME NEW w \in Callers, Crash(w) PROVE TypeOK'
    <3>1. JobsOK'
      BY <2>3, <2>12 DEF Crash
    <3>2. crashes' \in Nat
      BY <2>12 DEF Crash, TypeOK
    <3> QED
      BY <2>12, <3>1, <3>2 DEF Crash, TypeOK
  <2>13. CASE NextDay
    <3>1. today' \in Days
      BY <2>13, LifecycleBoundsAssumption DEF NextDay, TypeOK, Days
    <3> QED
      BY <2>13, <3>1 DEF NextDay, TypeOK
  <2> QED
    BY <2>1, <2>4, <2>5, <2>6, <2>7, <2>8, <2>9, <2>10, <2>11, <2>12, <2>13 DEF Next
<1> QED
  BY <1>1, <1>2, PTL DEF Spec

-----------------------------------------------------------------------------
(***************************************************************************)
(* Whatever overlaps: a call past the policy holds a sound case, and what  *)
(* the scheduler's call holds comes from its list of curated cases.        *)
(***************************************************************************)
JobVetted(w) ==
    /\ job[w].pc = "publish_save" => job[w].case \in Sound
    /\ job[w].pc = "set_daily" => job[w].case \in vetted \cap Sound
JobCurated(w) ==
    job[w].auto => /\ job[w].eligible \subseteq Curated
                   /\ job[w].pc # "next_daily" => job[w].case \in Curated
VettedInv ==
    /\ \A w \in Callers : JobVetted(w) /\ JobCurated(w)
    /\ OnlyVettedCasesAreDaily
    /\ SchedulerPicksCurated

\* The jobs of the other threads stay as they are, and vetted only grows.
LEMMA OthersStayVetted ==
    ASSUME TypeOK, VettedInv, vetted \subseteq vetted', NEW w \in Callers, OwnStep(w),
           JobVetted(w)', JobCurated(w)'
    PROVE  \A v \in Callers : JobVetted(v)' /\ JobCurated(v)'
<1> SUFFICES ASSUME NEW v \in Callers, v # w PROVE JobVetted(v)' /\ JobCurated(v)'
  OBVIOUS
<1>1. job'[v] = job[v]
  BY DEF OwnStep, TypeOK
<1> QED
  BY <1>1 DEF VettedInv, JobVetted, JobCurated

LEMMA IdleIsVetted ==
    ASSUME NEW w \in Callers, job'[w] = IdleJob
    PROVE  JobVetted(w)' /\ JobCurated(w)'
BY DEF IdleJob, JobVetted, JobCurated

LEMMA VettedInvariant == Spec => []VettedInv
<1>1. Init => VettedInv
  <2> SUFFICES ASSUME Init PROVE VettedInv
    OBVIOUS
  <2>1. \A w \in Callers : job[w].pc = "idle" /\ job[w].auto = FALSE
    BY DEF Init, IdleJob
  <2>2. OnlyVettedCasesAreDaily /\ SchedulerPicksCurated
    BY DEF Init, OnlyVettedCasesAreDaily, SchedulerPicksCurated
  <2> QED
    BY <2>1, <2>2 DEF VettedInv, JobVetted, JobCurated
<1>2. ASSUME TypeOK, VettedInv, [Next]_vars PROVE VettedInv'
  <2> USE <1>2
  <2> DEFINE DaysOK == OnlyVettedCasesAreDaily /\ SchedulerPicksCurated
  <2>1. ASSUME UNCHANGED <<daily, picked>>, vetted \subseteq vetted' PROVE DaysOK'
    BY <2>1 DEF VettedInv, OnlyVettedCasesAreDaily, SchedulerPicksCurated
  <2>2. ASSUME UNCHANGED <<daily, picked, job>>, vetted \subseteq vetted' PROVE VettedInv'
    BY <2>1, <2>2 DEF VettedInv, JobVetted, JobCurated
  <2>3. ASSUME NEW w \in Callers, UNCHANGED <<daily, picked>>, vetted \subseteq vetted',
               OwnStep(w), JobVetted(w)', JobCurated(w)'
        PROVE  VettedInv'
    BY <2>1, <2>3, OthersStayVetted DEF VettedInv
  <2>4. CASE UNCHANGED vars
    BY <2>2, <2>4 DEF vars
  <2>5. ASSUME NEW w \in Callers, NEW c \in Cases, ApproveRead(w, c) \/ RejectRead(w, c) \/ PublishStart(w, c)
        PROVE  VettedInv'
    <3>1. PICK step \in {"approve", "reject", "publish"} : Serve(w, JobOn(step, c))
      BY <2>5 DEF ApproveRead, RejectRead, PublishStart
    <3>2. JobOn(step, c) \in Job /\ JobOn(step, c).pc = step /\ JobOn(step, c).auto = FALSE
      BY JobOnType
    <3>3. OwnStep(w) /\ job'[w] = JobOn(step, c)
      BY <3>1, <3>2, ServeStep
    <3>4. JobVetted(w)' /\ JobCurated(w)'
      BY <3>2, <3>3 DEF JobVetted, JobCurated
    <3>5. UNCHANGED <<daily, picked, vetted>>
      BY <2>5 DEF ApproveRead, RejectRead, PublishStart
    <3> QED
      BY <2>3, <3>3, <3>4, <3>5
  <2>6. ASSUME NEW w \in Callers, NextList(w) PROVE VettedInv'
    <3>1. PICK S \in SUBSET Curated : Serve(w, NextJob(S))
      BY <2>6, NextListStep
    <3>2. NextJob(S) \in Job /\ NextJob(S).pc = "next_daily" /\ NextJob(S).eligible = S
      BY NextJobType
    <3>3. OwnStep(w) /\ job'[w] = NextJob(S)
      BY <3>1, <3>2, ServeStep
    <3>4. JobVetted(w)' /\ JobCurated(w)'
      BY <3>2, <3>3 DEF JobVetted, JobCurated
    <3> QED
      BY <2>3, <2>6, <3>3, <3>4 DEF NextList
  <2>7. ASSUME NEW w \in Callers, Return(w), UNCHANGED <<daily, picked, vetted>> PROVE VettedInv'
    BY <2>3, <2>7, ReturnStep, IdleIsVetted
  <2>8. ASSUME NEW w \in Callers, PublishRead(w) PROVE VettedInv'
    <3>1. job[w] \in Job /\ JobCurated(w)
      BY DEF TypeOK, VettedInv
    <3>2. CASE IsEligible(job[w].case) /\ job'[w] = [job[w] EXCEPT !.pc = "publish_save"]
      <4>1. JobVetted(w)' /\ JobCurated(w)'
        BY <2>8, <3>1, <3>2 DEF PublishRead, JobVetted, JobCurated, IsEligible, Job
      <4> QED
        BY <2>3, <2>8, <4>1, MoveStep DEF PublishRead
    <3>3. CASE job'[w] = IdleJob
      <4>1. OwnStep(w)
        BY <2>8, MoveStep
      <4> QED
        BY <2>3, <2>8, <3>3, <4>1, IdleIsVetted DEF PublishRead
    <3> QED
      BY <2>8, <3>2, <3>3, MoveStep
  <2>9. ASSUME NEW w \in Callers, PublishSave(w) PROVE VettedInv'
    <3>1. job[w] \in Job /\ JobVetted(w) /\ JobCurated(w)
      BY DEF TypeOK, VettedInv
    <3>2. OwnStep(w) /\ job'[w] = [job[w] EXCEPT !.pc = "set_daily"]
      BY <2>9, MoveStep
    <3>3. JobVetted(w)' /\ JobCurated(w)'
      BY <2>9, <3>1, <3>2 DEF PublishSave, JobVetted, JobCurated, Job
    <3> QED
      BY <2>3, <2>9, <3>2, <3>3 DEF PublishSave
  <2>10. ASSUME NEW w \in Callers, SetDaily(w) PROVE VettedInv'
    <3>1. job[w].case \in vetted \cap Sound /\ (job[w].auto => job[w].case \in Curated)
      BY <2>10 DEF SetDaily, VettedInv, JobVetted, JobCurated
    <3>2. OnlyVettedCasesAreDaily'
      BY <2>10, <3>1 DEF SetDaily, TypeOK, VettedInv, OnlyVettedCasesAreDaily
    <3>3. SchedulerPicksCurated'
      BY <2>10, <3>1 DEF SetDaily, TypeOK, VettedInv, SchedulerPicksCurated
    <3>4. OwnStep(w) /\ job'[w] = IdleJob
      BY <2>10, ReturnStep DEF SetDaily
    <3>5. vetted' = vetted
      BY <2>10 DEF SetDaily
    <3>6. \A v \in Callers : JobVetted(v)' /\ JobCurated(v)'
      BY <3>4, <3>5, OthersStayVetted, IdleIsVetted
    <3> QED
      BY <3>2, <3>3, <3>6 DEF VettedInv
  <2>11. ASSUME NEW w \in Callers, NextChoose(w) PROVE VettedInv'
    <3>1. PICK c \in job[w].eligible : job'[w] = [job[w] EXCEPT !.pc = "publish", !.case = c]
      BY <2>11, MoveStep
    <3>2. job[w] \in Job /\ JobCurated(w)
      BY DEF TypeOK, VettedInv
    <3>3. JobVetted(w)' /\ JobCurated(w)'
      BY <3>1, <3>2 DEF JobVetted, JobCurated, Job
    <3> QED
      BY <2>3, <2>11, <3>3, MoveStep DEF NextChoose
  <2>12. ASSUME NEW c \in Generated, SaveGenerated(c) PROVE VettedInv'
    BY <2>2, <2>12 DEF SaveGenerated
  <2>13. ASSUME NEW w \in Callers, DecisionSave(w) \/ Crash(w) PROVE VettedInv'
    BY <2>7, <2>13 DEF DecisionSave, Crash
  <2>14. CASE NextDay
    BY <2>2, <2>14 DEF NextDay
  <2> QED
    BY <2>4, <2>5, <2>6, <2>8, <2>9, <2>10, <2>11, <2>12, <2>13, <2>14 DEF Next
<1> QED
  BY <1>1, <1>2, CaseLifecycleTypeOK, PTL DEF Spec

\* Whatever overlaps or is cut off, no case is put before all players that
\* did not pass the publish policy.
THEOREM OnlyVettedAreDaily == Spec => []OnlyVettedCasesAreDaily
<1>1. VettedInv => OnlyVettedCasesAreDaily
  BY DEF VettedInv
<1> QED
  BY <1>1, VettedInvariant, PTL

\* The scheduler never features a generated case.
THEOREM SchedulerFeaturesCurated == Spec => []SchedulerPicksCurated
<1>1. VettedInv => SchedulerPicksCurated
  BY DEF VettedInv
<1> QED
  BY <1>1, VettedInvariant, PTL

-----------------------------------------------------------------------------
(***************************************************************************)
(* While calls do not overlap: at most one thread is busy, and what its    *)
(* call read is still true, because nobody else moves an existing case.    *)
(***************************************************************************)
StillTrue(w) ==
    /\ job[w].pc \in {"approve", "reject"} => status[job[w].case] = "draft"
    /\ job[w].pc = "publish" /\ job[w].auto => IsEligible(job[w].case)
    /\ job[w].pc = "publish_save" => IsEligible(job[w].case)
    /\ job[w].pc = "set_daily" => status[job[w].case] = "live"
    /\ job[w].pc = "next_daily" => \A c \in job[w].eligible : IsEligible(c)
OneAtATime == \A v, w \in Callers : job[v].pc # "idle" /\ job[w].pc # "idle" => v = w
DailyIsLive == \A d \in Days : daily[d] # NoCase => status[daily[d]] = "live"
SerialInv ==
    ~overlapped =>
        /\ OneAtATime
        /\ \A w \in Callers : StillTrue(w)
        /\ DailyIsLive
        /\ ~unhandled

\* A step of the only busy thread.
LEMMA AloneStep ==
    ASSUME TypeOK, NEW w \in Callers, OwnStep(w), \A v \in Callers : v # w => job[v].pc = "idle",
           StillTrue(w)', DailyIsLive', ~unhandled'
    PROVE  SerialInv'
<1>1. \A v \in Callers : v # w => job'[v].pc = "idle"
  BY DEF OwnStep, TypeOK
<1>2. \A v \in Callers : StillTrue(v)'
  <2> SUFFICES ASSUME NEW v \in Callers, v # w PROVE StillTrue(v)'
    OBVIOUS
  <2>1. job'[v].pc = "idle"
    BY <1>1
  <2> QED
    BY <2>1 DEF StillTrue
<1>3. OneAtATime'
  BY <1>1 DEF OneAtATime
<1> QED
  BY <1>2, <1>3 DEF SerialInv

LEMMA OthersIdle ==
    ASSUME SerialInv, ~overlapped, NEW w \in Callers, job[w].pc # "idle"
    PROVE  \A v \in Callers : v # w => job[v].pc = "idle"
BY DEF SerialInv, OneAtATime

LEMMA SerialInvariant == Spec => []SerialInv
<1>1. Init => SerialInv
  <2> SUFFICES ASSUME Init PROVE SerialInv
    OBVIOUS
  <2>1. \A w \in Callers : job[w].pc = "idle"
    BY DEF Init, IdleJob
  <2>2. \A w \in Callers : StillTrue(w)
    BY <2>1 DEF StillTrue
  <2> QED
    BY <2>1, <2>2 DEF Init, SerialInv, OneAtATime, DailyIsLive
<1>2. ASSUME TypeOK, SerialInv, [Next]_vars PROVE SerialInv'
  <2> USE <1>2
  <2> SUFFICES ASSUME ~overlapped' PROVE SerialInv'
    BY DEF SerialInv
  <2>1. ASSUME UNCHANGED <<status, daily, job, overlapped, unhandled>> PROVE SerialInv'
    <3>1. \A c : IsEligible(c) <=> IsEligible(c)'
      BY <2>1 DEF IsEligible
    <3>2. \A w \in Callers : StillTrue(w) => StillTrue(w)'
      BY <2>1, <3>1 DEF StillTrue
    <3> QED
      BY <2>1, <3>2 DEF SerialInv, OneAtATime, DailyIsLive
  <2>2. CASE UNCHANGED vars
    BY <2>1, <2>2 DEF vars
  <2>3. ASSUME ~overlapped
        PROVE  OneAtATime /\ (\A w \in Callers : StillTrue(w)) /\ DailyIsLive /\ ~unhandled
    BY <2>3 DEF SerialInv
  \* Idle threads promise nothing.
  <2>4. ASSUME NEW w \in Callers, job'[w] = IdleJob PROVE StillTrue(w)'
    BY <2>4 DEF IdleJob, StillTrue
  <2>5. ASSUME NEW w \in Callers, NEW c \in Cases, ApproveRead(w, c) \/ RejectRead(w, c) \/ PublishStart(w, c)
        PROVE  SerialInv'
    <3>1. PICK step \in {"approve", "reject", "publish"} :
                  Serve(w, JobOn(step, c)) /\ (step # "publish" => status[c] = "draft")
      BY <2>5 DEF ApproveRead, RejectRead, PublishStart
    <3>2. /\ JobOn(step, c) \in Job /\ JobOn(step, c).pc = step /\ JobOn(step, c).case = c
          /\ JobOn(step, c).auto = FALSE
      BY JobOnType
    <3>3. /\ OwnStep(w) /\ job'[w] = JobOn(step, c) /\ ~overlapped
          /\ \A v \in Callers : job[v].pc = "idle"
      BY <3>1, <3>2, ServeStep
    <3>4. UNCHANGED <<status, daily, unhandled>>
      BY <2>5 DEF ApproveRead, RejectRead, PublishStart
    <3>5. StillTrue(w)'
      BY <3>1, <3>2, <3>3, <3>4 DEF StillTrue
    <3>6. DailyIsLive' /\ ~unhandled'
      BY <2>3, <3>3, <3>4 DEF DailyIsLive
    <3> QED
      BY <3>3, <3>5, <3>6, AloneStep
  <2>6. ASSUME NEW w \in Callers, NextList(w) PROVE SerialInv'
    <3>1. PICK S \in SUBSET Curated : Serve(w, NextJob(S)) /\ S = {c \in Curated : IsEligible(c)}
      BY <2>6, NextListStep
    <3>2. NextJob(S) \in Job /\ NextJob(S).pc = "next_daily" /\ NextJob(S).eligible = S
      BY NextJobType
    <3>3. /\ OwnStep(w) /\ job'[w] = NextJob(S) /\ ~overlapped
          /\ \A v \in Callers : job[v].pc = "idle"
      BY <3>1, <3>2, ServeStep
    <3>4. UNCHANGED <<status, daily, unhandled>>
      BY <2>6 DEF NextList
    <3>5. \A c \in S : IsEligible(c)'
      BY <3>1, <3>4 DEF IsEligible
    <3>6. StillTrue(w)'
      BY <3>2, <3>3, <3>5 DEF StillTrue
    <3>7. DailyIsLive' /\ ~unhandled'
      BY <2>3, <3>3, <3>4 DEF DailyIsLive
    <3> QED
      BY <3>3, <3>6, <3>7, AloneStep
  \* From here on the stepping thread was the busy one.
  <2>7. ASSUME NEW w \in Callers, job[w].pc # "idle", overlapped' = overlapped, OwnStep(w),
               StillTrue(w)', DailyIsLive', ~unhandled'
        PROVE  SerialInv'
    <3>1. \A v \in Callers : v # w => job[v].pc = "idle"
      BY <2>7, OthersIdle
    <3> QED
      BY <2>7, <3>1, AloneStep
  <2>8. ASSUME NEW w \in Callers, DecisionSave(w) PROVE SerialInv'
    <3>1. ~overlapped /\ overlapped' = overlapped
      BY <2>8 DEF DecisionSave
    <3>2. OwnStep(w) /\ job'[w] = IdleJob
      BY <2>8, ReturnStep DEF DecisionSave
    <3>3. status[job[w].case] = "draft"
      BY <2>3, <2>8, <3>1 DEF DecisionSave, StillTrue
    <3>4. DailyIsLive' /\ ~unhandled'
      BY <2>3, <2>8, <3>1, <3>3 DEF DecisionSave, DailyIsLive, TypeOK
    <3> QED
      BY <2>4, <2>7, <2>8, <3>1, <3>2, <3>4 DEF DecisionSave
  <2>9. ASSUME NEW w \in Callers, PublishRead(w) PROVE SerialInv'
    <3>1. ~overlapped /\ overlapped' = overlapped /\ UNCHANGED <<status, daily>> /\ job[w].pc = "publish"
      BY <2>9 DEF PublishRead
    <3>2. StillTrue(w) /\ DailyIsLive'
      BY <2>3, <3>1 DEF DailyIsLive
    <3>3. CASE IsEligible(job[w].case) /\ job'[w] = [job[w] EXCEPT !.pc = "publish_save"] /\ unhandled' = unhandled
      <4>1. job[w] \in Job /\ IsEligible(job[w].case)'
        BY <3>1, <3>3 DEF TypeOK, IsEligible
      <4>2. job'[w].pc = "publish_save" /\ job'[w].case = job[w].case
        BY <3>3, <4>1 DEF Job
      <4>3. StillTrue(w)'
        BY <4>1, <4>2 DEF StillTrue, IsEligible
      <4> QED
        BY <2>3, <2>7, <2>9, <3>1, <3>2, <3>3, <4>3, MoveStep
    <3>4. CASE ~IsEligible(job[w].case) /\ job'[w] = IdleJob
      <4>1. ~job[w].auto
        BY <3>1, <3>2, <3>4 DEF StillTrue
      <4>2. ~unhandled'
        BY <2>3, <2>9, <3>1, <4>1 DEF PublishRead
      <4>3. OwnStep(w)
        BY <2>9, MoveStep
      <4> QED
        BY <2>4, <2>7, <3>1, <3>2, <3>4, <4>2, <4>3
    <3> QED
      BY <2>9, <3>3, <3>4, MoveStep
  <2>10. ASSUME NEW w \in Callers, PublishSave(w) PROVE SerialInv'
    <3>1. ~overlapped /\ overlapped' = overlapped /\ UNCHANGED <<daily, unhandled>> /\ job[w].pc = "publish_save"
      BY <2>10 DEF PublishSave
    <3>2. job[w] \in Job /\ job[w].case \in Cases
      BY <3>1 DEF TypeOK, Job
    <3>3. OwnStep(w) /\ job'[w].pc = "set_daily" /\ job'[w].case = job[w].case
      BY <2>10, <3>2, MoveStep DEF Job
    <3>4. status' = [status EXCEPT ![job[w].case] = "live"]
      BY <2>10 DEF PublishSave
    <3>5. StillTrue(w)'
      BY <3>2, <3>3, <3>4 DEF StillTrue, TypeOK
    <3>6. DailyIsLive'
      BY <2>3, <3>1, <3>4 DEF DailyIsLive, TypeOK
    <3> QED
      BY <2>3, <2>7, <3>1, <3>3, <3>5, <3>6
  <2>11. ASSUME NEW w \in Callers, SetDaily(w) PROVE SerialInv'
    <3>1. ~overlapped /\ overlapped' = overlapped /\ UNCHANGED <<status, unhandled>> /\ job[w].pc = "set_daily"
      BY <2>11 DEF SetDaily
    <3>2. OwnStep(w) /\ job'[w] = IdleJob
      BY <2>11, ReturnStep DEF SetDaily
    <3>3. status[job[w].case] = "live"
      BY <2>3, <3>1 DEF StillTrue
    <3>4. daily' = [daily EXCEPT ![today] = job[w].case]
      BY <2>11 DEF SetDaily
    <3>5. DailyIsLive'
      BY <2>3, <3>1, <3>3, <3>4 DEF DailyIsLive, TypeOK
    <3> QED
      BY <2>3, <2>4, <2>7, <3>1, <3>2, <3>5
  <2>12. ASSUME NEW w \in Callers, NextChoose(w) PROVE SerialInv'
    <3>1. ~overlapped /\ overlapped' = overlapped /\ UNCHANGED <<status, daily, unhandled>> /\ job[w].pc = "next_daily"
      BY <2>12 DEF NextChoose
    <3>2. PICK c \in job[w].eligible : job'[w] = [job[w] EXCEPT !.pc = "publish", !.case = c]
      BY <2>12, MoveStep
    <3>3. job[w] \in Job /\ IsEligible(c)
      BY <2>3, <3>1 DEF TypeOK, StillTrue
    <3>4. OwnStep(w) /\ job'[w].pc = "publish" /\ job'[w].case = c
      BY <2>12, <3>2, <3>3, MoveStep DEF Job
    <3>5. IsEligible(c)'
      BY <3>1, <3>3 DEF IsEligible
    <3>6. StillTrue(w)'
      BY <3>4, <3>5 DEF StillTrue
    <3>7. DailyIsLive'
      BY <2>3, <3>1 DEF DailyIsLive
    <3> QED
      BY <2>3, <2>7, <3>1, <3>4, <3>6, <3>7
  <2>13. ASSUME NEW c \in Generated, SaveGenerated(c) PROVE SerialInv'
    <3>1. ~overlapped /\ UNCHANGED <<daily, job, unhandled>> /\ status[c] = "absent"
      BY <2>13 DEF SaveGenerated
    <3>2. status' = [status EXCEPT ![c] = "live"]
      BY <2>13 DEF SaveGenerated
    <3>3. \A e : IsEligible(e) => e \in Cases /\ status'[e] = status[e]
      BY <3>1, <3>2, CatalogAssumption DEF IsEligible, TypeOK
    <3>4. \A e : IsEligible(e) => IsEligible(e)'
      BY <3>3 DEF IsEligible
    <3>5. ASSUME NEW w \in Callers PROVE StillTrue(w)'
      <4>1. StillTrue(w)
        BY <2>3, <3>1
      <4>2. job[w].pc \in {"idle", "next_daily"} \/ job[w].case \in Cases
        BY DEF TypeOK, Job
      <4>3. \A e \in Cases : status[e] \in {"draft", "live"} => status'[e] = status[e]
        BY <3>1, <3>2 DEF TypeOK
      <4> QED
        BY <3>1, <3>4, <4>1, <4>2, <4>3 DEF StillTrue
    <3>6. DailyIsLive'
      BY <2>3, <3>1, <3>2 DEF DailyIsLive, TypeOK
    <3>7. OneAtATime'
      BY <2>3, <3>1 DEF OneAtATime
    <3> QED
      BY <2>3, <3>1, <3>5, <3>6, <3>7 DEF SerialInv
  <2>14. ASSUME NEW w \in Callers, Crash(w) PROVE SerialInv'
    <3>1. ~overlapped /\ overlapped' = overlapped /\ UNCHANGED <<status, daily, unhandled>> /\ job[w].pc # "idle"
      BY <2>14 DEF Crash
    <3>2. OwnStep(w) /\ job'[w] = IdleJob
      BY <2>14, ReturnStep DEF Crash
    <3>3. DailyIsLive'
      BY <2>3, <3>1 DEF DailyIsLive
    <3> QED
      BY <2>3, <2>4, <2>7, <3>1, <3>2, <3>3
  <2>15. CASE NextDay
    BY <2>1, <2>15 DEF NextDay
  <2> QED
    BY <2>2, <2>5, <2>6, <2>8, <2>9, <2>10, <2>11, <2>12, <2>13, <2>14, <2>15 DEF Next
<1> QED
  BY <1>1, <1>2, CaseLifecycleTypeOK, PTL DEF Spec

\* For an administrator who makes one call at a time, today's case and every
\* earlier day's are live: GET /cases/daily and GET /cases/{id} agree.
THEOREM DailyCasesAreVisible == Spec => []DailyCaseIsVisible
<1>1. SerialInv => DailyCaseIsVisible
  BY DEF SerialInv, DailyIsLive, DailyCaseIsVisible
<1> QED
  BY <1>1, SerialInvariant, PTL

(***************************************************************************)
(* What is on the scheduler's list, whatever overlaps: a sound case that   *)
(* has once been approved is approved, live or rejected ever after.        *)
(***************************************************************************)
Decided(c) == c \in Sound /\ status[c] \in {"approved", "live", "rejected"}

JobListed(w) ==
    /\ job[w].pc = "next_daily" => \A c \in job[w].eligible : Decided(c)
    /\ job[w].pc = "publish" /\ job[w].auto => Decided(job[w].case)

ListedInv == \A w \in Callers : JobListed(w)

LEMMA DecidedStays ==
    ASSUME TypeOK, [Next]_vars, NEW c \in Cases, Decided(c)
    PROVE  Decided(c)'
<1>1. \/ UNCHANGED status
      \/ \E d \in Cases, s \in {"approved", "rejected", "live"} : status' = [status EXCEPT ![d] = s]
  <2>1. ASSUME NEW w \in Callers, DecisionSave(w) \/ PublishSave(w)
        PROVE  \E d \in Cases, s \in {"approved", "rejected", "live"} : status' = [status EXCEPT ![d] = s]
    <3>1. job[w] \in Job /\ job[w].case # NoCase
      BY <2>1 DEF TypeOK, DecisionSave, PublishSave
    <3>2. job[w].case \in Cases
      BY <3>1 DEF Job
    <3>3. \E s \in {"approved", "rejected", "live"} : status' = [status EXCEPT ![job[w].case] = s]
      BY <2>1 DEF DecisionSave, PublishSave
    <3> QED
      BY <3>2, <3>3
  <2>2. ASSUME NEW d \in Generated, SaveGenerated(d)
        PROVE  d \in Cases /\ status' = [status EXCEPT ![d] = "live"]
    BY <2>2 DEF SaveGenerated, Cases
  <2> QED
    BY <2>1, <2>2
    DEF Next, vars, ApproveRead, RejectRead, PublishStart, PublishRead, SetDaily, NextList, NextChoose,
        Crash, NextDay
<1>2. status'[c] = status[c] \/ status'[c] \in {"approved", "rejected", "live"}
  BY <1>1 DEF TypeOK
<1> QED
  BY <1>2 DEF Decided

\* The other threads' lists stay as good as they were.
LEMMA OthersStayListed ==
    ASSUME TypeOK, ListedInv, [Next]_vars, NEW w \in Callers, OwnStep(w), JobListed(w)'
    PROVE  ListedInv'
<1> SUFFICES ASSUME NEW v \in Callers, v # w PROVE JobListed(v)'
  BY DEF ListedInv
<1>1. job'[v] = job[v] /\ job[v] \in Job /\ JobListed(v)
  BY DEF OwnStep, TypeOK, ListedInv
<1>2. /\ job[v].eligible \subseteq Cases
      /\ job[v].pc = "publish" => job[v].case \in Cases
  BY <1>1 DEF TypeOK, Job
<1> QED
  BY <1>1, <1>2, DecidedStays DEF JobListed

LEMMA ListedInvariant == Spec => []ListedInv
<1>1. Init => ListedInv
  BY DEF Init, IdleJob, ListedInv, JobListed
<1>2. ASSUME TypeOK, ListedInv, [Next]_vars PROVE ListedInv'
  <2> USE <1>2
  <2>1. ASSUME UNCHANGED job PROVE ListedInv'
    <3> SUFFICES ASSUME NEW v \in Callers PROVE JobListed(v)'
      BY DEF ListedInv
    <3>1. job'[v] = job[v] /\ job[v] \in Job /\ JobListed(v)
      BY <2>1 DEF TypeOK, ListedInv
    <3>2. /\ job[v].eligible \subseteq Cases
          /\ job[v].pc = "publish" => job[v].case \in Cases
      BY <3>1 DEF TypeOK, Job
    <3> QED
      BY <3>1, <3>2, DecidedStays DEF JobListed
  <2>2. ASSUME NEW w \in Callers, OwnStep(w), job'[w].pc \notin {"next_daily", "publish"} PROVE ListedInv'
    BY <2>2, OthersStayListed DEF JobListed
  <2>3. ASSUME NEW w \in Callers, NEW c \in Cases, ApproveRead(w, c) \/ RejectRead(w, c) \/ PublishStart(w, c)
        PROVE  ListedInv'
    <3>1. PICK step \in {"approve", "reject", "publish"} : Serve(w, JobOn(step, c))
      BY <2>3 DEF ApproveRead, RejectRead, PublishStart
    <3>2. JobOn(step, c) \in Job /\ JobOn(step, c).pc = step /\ JobOn(step, c).auto = FALSE
      BY JobOnType
    <3>3. OwnStep(w) /\ job'[w] = JobOn(step, c)
      BY <3>1, <3>2, ServeStep
    <3>4. JobListed(w)'
      BY <3>2, <3>3 DEF JobListed
    <3> QED
      BY <3>3, <3>4, OthersStayListed
  <2>4. ASSUME NEW w \in Callers, NextList(w) PROVE ListedInv'
    <3>1. PICK S \in SUBSET Curated : Serve(w, NextJob(S)) /\ S = {c \in Curated : IsEligible(c)}
      BY <2>4, NextListStep
    <3>2. NextJob(S) \in Job /\ NextJob(S).pc = "next_daily" /\ NextJob(S).eligible = S
      BY NextJobType
    <3>3. OwnStep(w) /\ job'[w] = NextJob(S)
      BY <3>1, <3>2, ServeStep
    <3>4. status' = status
      BY <2>4 DEF NextList
    <3>5. JobListed(w)'
      BY <3>1, <3>2, <3>3, <3>4 DEF JobListed, IsEligible, Decided
    <3> QED
      BY <3>3, <3>5, OthersStayListed
  <2>5. ASSUME NEW w \in Callers, NextChoose(w) PROVE ListedInv'
    <3>1. PICK c \in job[w].eligible : job'[w] = [job[w] EXCEPT !.pc = "publish", !.case = c]
      BY <2>5, MoveStep
    <3>2. /\ job[w] \in Job /\ job[w].pc = "next_daily" /\ JobListed(w)
          /\ status' = status
      BY <2>5 DEF NextChoose, TypeOK, ListedInv
    <3>3. job'[w].pc = "publish" /\ job'[w].case = c
      BY <3>1, <3>2 DEF Job
    <3>4. JobListed(w)'
      BY <3>2, <3>3 DEF JobListed, Decided
    <3> QED
      BY <2>5, <3>4, MoveStep, OthersStayListed
  <2>6. ASSUME NEW w \in Callers, PublishRead(w) \/ PublishSave(w) PROVE ListedInv'
    <3>1. job[w] \in Job
      BY DEF TypeOK
    <3>2. /\ OwnStep(w)
          /\ \/ \E step \in {"publish_save", "set_daily"} : job'[w] = [job[w] EXCEPT !.pc = step]
             \/ job'[w] = IdleJob
      BY <2>6, MoveStep
    <3>3. job'[w].pc \in {"publish_save", "set_daily", "idle"}
      BY <3>1, <3>2 DEF Job, IdleJob
    <3> QED
      BY <2>2, <3>2, <3>3
  <2>7. ASSUME NEW w \in Callers, Return(w) PROVE ListedInv'
    <3>1. OwnStep(w) /\ job'[w] = IdleJob
      BY <2>7, ReturnStep
    <3>2. job'[w].pc = "idle"
      BY <3>1 DEF IdleJob
    <3> QED
      BY <2>2, <3>1, <3>2
  <2>8. ASSUME NEW w \in Callers, DecisionSave(w) \/ SetDaily(w) \/ Crash(w) PROVE ListedInv'
    BY <2>7, <2>8 DEF DecisionSave, SetDaily, Crash
  <2>9. CASE NextDay \/ UNCHANGED vars \/ \E c \in Generated : SaveGenerated(c)
    BY <2>1, <2>9 DEF NextDay, vars, SaveGenerated
  <2> QED
    BY <2>3, <2>4, <2>5, <2>6, <2>8, <2>9 DEF Next
<1> QED
  BY <1>1, <1>2, CaseLifecycleTypeOK, PTL DEF Spec

\* The case publish-next-daily chose is still publishable when it publishes it,
\* unless calls overlapped and it was rejected.
THEOREM ChoiceIsPublishable == Spec => []SchedulerChoiceIsPublishable
<1>1. ASSUME TypeOK, SerialInv, ListedInv PROVE SchedulerChoiceIsPublishable
  <2>1. overlapped \in BOOLEAN /\ unhandled \in BOOLEAN
    BY <1>1 DEF TypeOK
  <2>2. ASSUME NEW w \in Callers, job[w].auto, job[w].pc = "publish", ~overlapped
        PROVE  IsEligible(job[w].case)
    BY <1>1, <2>2 DEF SerialInv, StillTrue
  <2>3. ASSUME NEW w \in Callers, job[w].auto, job[w].pc = "publish"
        PROVE  IsEligible(job[w].case) \/ (job[w].case \in Sound /\ status[job[w].case] = "rejected")
    BY <1>1, <2>3 DEF ListedInv, JobListed, Decided, IsEligible
  <2>4. unhandled => overlapped
    BY <1>1, <2>1 DEF SerialInv
  <2> QED
    BY <2>1, <2>2, <2>3, <2>4 DEF SchedulerChoiceIsPublishable
<1> QED
  BY <1>1, CaseLifecycleTypeOK, SerialInvariant, ListedInvariant, PTL

\* No case leaves the lifecycle draft -> approved/rejected -> live.
THEOREM SerialCallsFollowLifecycle == Spec => LifecycleUnlessOverlapped
<1> DEFINE Follows == \A c \in Cases : status'[c] = status[c] \/ LifecycleStep(c)
<1>1. ASSUME TypeOK, SerialInv, [Next]_vars, ~overlapped' PROVE Follows
  <2> USE <1>1
  <2>1. ASSUME UNCHANGED status PROVE Follows
    BY <2>1
  <2>2. ASSUME NEW w \in Callers, DecisionSave(w) PROVE Follows
    <3>1. status[job[w].case] = "draft"
      BY <2>2 DEF DecisionSave, SerialInv, StillTrue
    <3> QED
      BY <2>2, <3>1 DEF DecisionSave, TypeOK, LifecycleStep
  <2>3. ASSUME NEW w \in Callers, PublishSave(w) PROVE Follows
    <3>1. status[job[w].case] \in {"approved", "live"}
      BY <2>3 DEF PublishSave, SerialInv, StillTrue, IsEligible
    <3> QED
      BY <2>3, <3>1 DEF PublishSave, TypeOK, LifecycleStep
  <2>4. ASSUME NEW c \in Generated, SaveGenerated(c) PROVE Follows
    BY <2>4 DEF SaveGenerated, TypeOK, LifecycleStep
  <2> QED
    BY <2>1, <2>2, <2>3, <2>4
    DEF Next, vars, ApproveRead, RejectRead, PublishStart, PublishRead, SetDaily, NextList, NextChoose,
        Crash, NextDay
<1>2. ASSUME TypeOK, SerialInv, [Next]_vars
      PROVE  [~overlapped' => \A c \in Cases : status'[c] = status[c] \/ LifecycleStep(c)]_vars
  BY <1>1, <1>2
<1> QED
  BY <1>2, SerialInvariant, CaseLifecycleTypeOK, PTL DEF Spec, LifecycleUnlessOverlapped

-----------------------------------------------------------------------------
(***************************************************************************)
(* The scheduler's choice between its choosing and its set_daily: not the  *)
(* case of the current day, also if a day without a case begins meanwhile. *)
(***************************************************************************)
Rotating(w) ==
    /\ job[w].auto /\ job[w].pc \in {"publish", "publish_save", "set_daily"}
    /\ Cardinality(job[w].eligible) > 1
    => job[w].case # daily[today]
RotateInv ==
    /\ \A d \in Days : d > today => daily[d] = NoCase
    /\ ~overlapped => \A w \in Callers : Rotating(w)

LEMMA RotateInvariant == Spec => []RotateInv
<1>1. Init => RotateInv
  <2> SUFFICES ASSUME Init PROVE RotateInv
    OBVIOUS
  <2>1. \A w \in Callers : job[w].pc = "idle"
    BY DEF Init, IdleJob
  <2>2. \A w \in Callers : Rotating(w)
    BY <2>1 DEF Rotating
  <2> QED
    BY <2>2 DEF Init, RotateInv
<1>2. ASSUME TypeOK, SerialInv, RotateInv, [Next]_vars PROVE RotateInv'
  <2> USE <1>2
  <2> DEFINE FutureOpen == \A d \in Days : d > today => daily[d] = NoCase
  <2>1. ASSUME UNCHANGED <<today, daily>> PROVE FutureOpen'
    BY <2>1 DEF RotateInv
  \* The other threads are idle, or this step overlaps.
  <2>2. ASSUME NEW w \in Callers, OwnStep(w), FutureOpen',
               ~overlapped' => ~overlapped /\ Rotating(w)' /\ \A v \in Callers : v # w => job[v].pc = "idle"
        PROVE  RotateInv'
    <3> SUFFICES ASSUME ~overlapped', NEW v \in Callers, v # w PROVE Rotating(v)'
      BY <2>2 DEF RotateInv
    <3>1. job'[v].pc = "idle"
      BY <2>2 DEF OwnStep, TypeOK
    <3> QED
      BY <3>1 DEF Rotating
  <2>3. ASSUME NEW w \in Callers, OwnStep(w), UNCHANGED <<today, daily>>, overlapped' = overlapped,
               job[w].pc # "idle", ~overlapped => Rotating(w)'
        PROVE  RotateInv'
    BY <2>1, <2>2, <2>3, OthersIdle
  <2>4. ASSUME NEW w \in Callers, job'[w].pc \notin {"publish", "publish_save", "set_daily"} \/ ~job'[w].auto
        PROVE  Rotating(w)'
    BY <2>4 DEF Rotating
  <2>5. ASSUME NEW w \in Callers, Return(w) PROVE OwnStep(w) /\ Rotating(w)'
    <3>1. OwnStep(w) /\ job'[w] = IdleJob
      BY <2>5, ReturnStep
    <3> QED
      BY <2>4, <3>1 DEF IdleJob
  <2>6. ASSUME UNCHANGED <<today, daily, job, overlapped>> PROVE RotateInv'
    BY <2>6 DEF RotateInv, Rotating
  <2>7. ASSUME NEW w \in Callers, NEW c \in Cases, ApproveRead(w, c) \/ RejectRead(w, c) \/ PublishStart(w, c)
        PROVE  RotateInv'
    <3>1. PICK step \in {"approve", "reject", "publish"} : Serve(w, JobOn(step, c))
      BY <2>7 DEF ApproveRead, RejectRead, PublishStart
    <3>2. JobOn(step, c) \in Job /\ JobOn(step, c).auto = FALSE
      BY JobOnType
    <3>3. /\ OwnStep(w) /\ job'[w] = JobOn(step, c)
          /\ ~overlapped' => ~overlapped /\ \A v \in Callers : job[v].pc = "idle"
      BY <3>1, <3>2, ServeStep
    <3>4. UNCHANGED <<today, daily>>
      BY <2>7 DEF ApproveRead, RejectRead, PublishStart
    <3>5. Rotating(w)'
      BY <2>4, <3>2, <3>3
    <3> QED
      BY <2>1, <2>2, <3>3, <3>4, <3>5
  <2>8. ASSUME NEW w \in Callers, NextList(w) PROVE RotateInv'
    <3>1. PICK S \in SUBSET Curated : Serve(w, NextJob(S))
      BY <2>8, NextListStep
    <3>2. NextJob(S) \in Job /\ NextJob(S).pc = "next_daily"
      BY NextJobType
    <3>3. /\ OwnStep(w) /\ job'[w] = NextJob(S)
          /\ ~overlapped' => ~overlapped /\ \A v \in Callers : job[v].pc = "idle"
      BY <3>1, <3>2, ServeStep
    <3>4. UNCHANGED <<today, daily>>
      BY <2>8 DEF NextList
    <3>5. Rotating(w)'
      BY <2>4, <3>2, <3>3
    <3> QED
      BY <2>1, <2>2, <3>3, <3>4, <3>5
  <2>9. ASSUME NEW w \in Callers, DecisionSave(w) \/ Crash(w) PROVE RotateInv'
    BY <2>3, <2>5, <2>9 DEF DecisionSave, Crash
  \* Moving on inside PublishDailyCase keeps the case and the list.
  <2>10. ASSUME NEW w \in Callers, NEW step \in {"publish_save", "set_daily"},
                job[w].pc \in {"publish", "publish_save"}, UNCHANGED <<today, daily>>,
                job'[w] = [job[w] EXCEPT !.pc = step], ~overlapped
         PROVE  Rotating(w)'
    <3>1. job[w] \in Job
      BY DEF TypeOK
    <3>2. job'[w].case = job[w].case /\ job'[w].auto = job[w].auto /\ job'[w].eligible = job[w].eligible
      BY <2>10, <3>1 DEF Job
    <3>3. Rotating(w)
      BY <2>10 DEF RotateInv
    <3> QED
      BY <2>10, <3>2, <3>3 DEF Rotating
  <2>11. ASSUME NEW w \in Callers, PublishRead(w) PROVE RotateInv'
    <3>1. UNCHANGED <<today, daily, overlapped>> /\ job[w].pc = "publish" /\ OwnStep(w)
      BY <2>11, MoveStep DEF PublishRead
    <3>2. job'[w] = [job[w] EXCEPT !.pc = "publish_save"] \/ job'[w] = IdleJob
      BY <2>11, MoveStep
    <3>3. CASE job'[w] = IdleJob
      <4>1. Rotating(w)'
        BY <2>4, <3>3 DEF IdleJob
      <4> QED
        BY <2>3, <3>1, <4>1
    <3>4. CASE job'[w] = [job[w] EXCEPT !.pc = "publish_save"]
      BY <2>3, <2>10, <3>1, <3>4
    <3> QED
      BY <3>2, <3>3, <3>4
  <2>12. ASSUME NEW w \in Callers, PublishSave(w) PROVE RotateInv'
    <3>1. UNCHANGED <<today, daily, overlapped>> /\ job[w].pc = "publish_save"
      BY <2>12 DEF PublishSave
    <3>2. OwnStep(w) /\ job'[w] = [job[w] EXCEPT !.pc = "set_daily"]
      BY <2>12, MoveStep
    <3> QED
      BY <2>3, <2>10, <3>1, <3>2
  <2>13. ASSUME NEW w \in Callers, SetDaily(w) PROVE RotateInv'
    <3>1. /\ daily' = [daily EXCEPT ![today] = job[w].case] /\ job[w].pc = "set_daily"
          /\ UNCHANGED <<today, overlapped>> /\ OwnStep(w) /\ Rotating(w)'
      BY <2>5, <2>13 DEF SetDaily
    <3>2. FutureOpen'
      BY <3>1 DEF RotateInv, TypeOK, Days
    <3> QED
      BY <2>2, <3>1, <3>2, OthersIdle
  <2>14. ASSUME NEW w \in Callers, NextChoose(w) PROVE RotateInv'
    <3> DEFINE others == job[w].eligible \ {daily[today]}
    <3>1. PICK c \in job[w].eligible :
                  /\ job' = [job EXCEPT ![w] = [@ EXCEPT !.pc = "publish", !.case = c]]
                  /\ others = {} \/ c \in others
      BY <2>14 DEF NextChoose, Oldest
    <3>2. job[w] \in Job /\ c \in Cases
      BY DEF TypeOK, Job
    <3>3. OwnStep(w) /\ job'[w].case = c /\ job'[w].eligible = job[w].eligible
      BY <2>14, <3>1, <3>2, MoveStep DEF TypeOK, Job
    <3>4. ASSUME others = {} PROVE ~(Cardinality(job[w].eligible) > 1)
      <4>1. job[w].eligible = {daily[today]}
        BY <3>1, <3>4
      <4>2. Cardinality({daily[today]}) = 1
        BY FS_Singleton
      <4> QED
        BY <4>1, <4>2
    <3>5. UNCHANGED <<today, daily, overlapped>> /\ job[w].pc # "idle"
      BY <2>14 DEF NextChoose
    <3>6. Rotating(w)'
      BY <3>1, <3>3, <3>4, <3>5 DEF Rotating
    <3> QED
      BY <2>3, <3>3, <3>5, <3>6
  <2>15. ASSUME NEW c \in Generated, SaveGenerated(c) PROVE RotateInv'
    BY <2>6, <2>15 DEF SaveGenerated
  \* The day that begins has no case yet.
  <2>16. CASE NextDay
    <3>1. today \in Nat /\ today' = today + 1 /\ today' \in Days /\ UNCHANGED <<daily, job, overlapped>>
      BY <2>16, LifecycleBoundsAssumption DEF NextDay, TypeOK, Days
    <3>2. daily'[today'] = NoCase /\ FutureOpen'
      BY <3>1 DEF RotateInv, Days
    <3>3. \A w \in Callers : job[w].pc \in {"publish", "publish_save", "set_daily"} => job[w].case # NoCase
      BY DEF TypeOK
    <3>4. \A w \in Callers : Rotating(w)'
      BY <3>1, <3>2, <3>3 DEF Rotating
    <3> QED
      BY <3>2, <3>4 DEF RotateInv
  <2>17. CASE UNCHANGED vars
    BY <2>6, <2>17 DEF vars
  <2> QED
    BY <2>7, <2>8, <2>9, <2>11, <2>12, <2>13, <2>14, <2>15, <2>16, <2>17 DEF Next
<1> QED
  BY <1>1, <1>2, CaseLifecycleTypeOK, SerialInvariant, PTL DEF Spec

\* publish-next-daily moves on from today's case when its list has another
\* one, whatever midnight or player generation does meanwhile.
THEOREM SchedulerRotates == Spec => RotatesAwayFromToday
<1>1. ASSUME TypeOK, RotateInv, NEW w \in Callers, ~overlapped, job[w].auto,
             Cardinality(job[w].eligible) > 1, SetDaily(w)
      PROVE  daily'[today] # daily[today]
  BY <1>1 DEF RotateInv, Rotating, SetDaily, TypeOK
<1>2. ASSUME TypeOK, RotateInv
      PROVE  [\A w \in Callers :
                ~overlapped /\ job[w].auto /\ Cardinality(job[w].eligible) > 1 /\ SetDaily(w)
                => daily'[today] # daily[today]]_vars
  BY <1>1, <1>2
<1> QED
  BY <1>2, RotateInvariant, CaseLifecycleTypeOK, PTL DEF Spec, RotatesAwayFromToday

\* Whatever overlaps the scheduler chooses curated cases, and what it chose can
\* be published unless a call that overlapped has rejected it.
THEOREM SchedulerAlwaysChoosesWell == Spec => []SchedulerChoosesWell
  BY SchedulerFeaturesCurated, ChoiceIsPublishable, PTL DEF SchedulerChoosesWell

-----------------------------------------------------------------------------
(***************************************************************************)
(* The scheduler's job.                                                    *)
(***************************************************************************)
LEMMA StepIsNext ==
    ASSUME NEW w \in Callers, Step(w) \/ Crash(w) \/ NextList(w)
    PROVE  Next
BY DEF Step, Next

\* However the job fires, gives up and retries, and whatever administrators
\* do beside it, the catalog takes only steps of CaseLifecycle: every theorem
\* above is one of the schedule too.
THEOREM ScheduleImplementsLifecycle == ScheduleSpec => Spec
<1>1. ScheduleInit => Init
  BY DEF ScheduleInit
<1>2. [ScheduleNext]_scheduleVars => [Next]_vars
  <2> SUFFICES ASSUME [ScheduleNext]_scheduleVars PROVE [Next]_vars
    OBVIOUS
  <2>1. CASE UNCHANGED scheduleVars
    BY <2>1 DEF scheduleVars
  <2>2. CASE Fire \/ AttemptRefused \/ AttemptLost \/ DeadlinePasses
    BY <2>2 DEF Fire, AttemptRefused, AttemptLost, DeadlinePasses
  <2>3. CASE Midnight
    BY <2>3 DEF Midnight, Next
  <2>4. ASSUME NEW w \in Callers, Attempt(w) \/ Proceed(w) \/ Stop(w) PROVE Next
    BY <2>4, StepIsNext DEF Attempt, Proceed, Stop
  <2>5. ASSUME NEW w \in Callers, AnswerLost(w) PROVE Next
    BY <2>5, StepIsNext DEF AnswerLost, Step
  <2>6. ASSUME NEW w \in Callers, NEW c \in Cases, Edit(w, c) PROVE Next
    BY <2>6 DEF Edit, Next
  <2>7. ASSUME NEW c \in Generated, CaseGenerated(c) PROVE Next
    BY <2>7 DEF CaseGenerated, Next
  <2> QED
    BY <2>1, <2>2, <2>3, <2>4, <2>5, <2>6, <2>7 DEF ScheduleNext
<1> QED
  BY <1>1, <1>2, PTL DEF ScheduleSpec, Spec

\* A firing may change the daily case once, once more for every slip, and it
\* owes one change less for every abandoned attempt that still runs.
Owed == IF phase = "done" THEN slips + 1 ELSE slips

ScheduleInv ==
    /\ slips \in Nat /\ moves \in Nat
    /\ late \subseteq Callers /\ IsFiniteSet(late)
    /\ attempt \in Callers \cup {NoCaller}
    /\ attempt # NoCaller <=> phase = "calling"
    /\ attempt \notin late
    /\ \A w \in late \cup {attempt} : w \in Callers => job[w].pc # "idle"
    /\ moves + Cardinality(late) <= Owed

LEMMA LateType == ASSUME ScheduleInv PROVE Cardinality(late) \in Nat
BY FS_CardinalityType DEF ScheduleInv

\* A thread's step keeps the other threads' calls, and only the last step of a
\* call, set_daily, touches the daily case.
LEMMA ThreadStep ==
    ASSUME TypeOK, NEW w \in Callers, Step(w) \/ Crash(w)
    PROVE  /\ OwnStep(w)
           /\ job[w].pc # "idle"
           /\ SetDaily(w) => job'[w].pc = "idle" /\ job[w].pc = "set_daily"
           /\ daily' # daily => SetDaily(w)
<1>1. job[w] \in Job
  BY DEF TypeOK
<1>2. CASE NextChoose(w)
  BY <1>2, MoveStep DEF NextChoose, SetDaily
<1>3. CASE PublishRead(w)
  BY <1>3, MoveStep DEF PublishRead, SetDaily
<1>4. CASE PublishSave(w)
  BY <1>4, MoveStep DEF PublishSave, SetDaily
<1>5. CASE SetDaily(w)
  BY <1>5, ReturnStep DEF SetDaily, IdleJob
<1>6. CASE DecisionSave(w)
  BY <1>6, ReturnStep DEF DecisionSave, SetDaily, IdleJob
<1>7. CASE Crash(w)
  BY <1>7, ReturnStep DEF Crash, SetDaily, IdleJob
<1> QED
  BY <1>2, <1>3, <1>4, <1>5, <1>6, <1>7 DEF Step

\* What the end, or the going on, of a firing's call does to its account.
LEMMA AnswerStep ==
    ASSUME TypeOK, ScheduleInv, NEW w \in Callers, NEW ok \in BOOLEAN,
           OwnStep(w), job[w].pc # "idle", job'[w].pc = "idle", Answer(w, ok),
           slips' \in Nat, moves' \in Nat, slips' >= slips,
           \/ moves' = moves
           \/ moves' = moves + 1 /\ w \in late \cup {attempt} /\ (ok \/ w # attempt \/ slips' = slips + 1)
    PROVE  ScheduleInv'
<1>1. NoCaller \notin Callers /\ Cardinality(late) \in Nat
  BY ScheduleAssumption, LateType
<1>2. \A v \in Callers \ {w} : job'[v] = job[v]
  BY DEF OwnStep, TypeOK
<1>3. CASE w = attempt
  <2>1. phase = "calling" /\ w \notin late /\ attempt' = NoCaller /\ late' = late
    BY <1>1, <1>3 DEF ScheduleInv, Answer, Failed
  <2>2. phase' \in {"done", "due"} /\ (ok => phase' = "done")
    BY <1>3 DEF Answer, Failed
  <2>3. moves + Cardinality(late) <= slips
    BY <2>1 DEF ScheduleInv, Owed
  <2>4. moves' + Cardinality(late) <= Owed'
    <3>1. CASE moves' = moves
      BY <1>1, <2>2, <2>3, <3>1 DEF Owed, ScheduleInv
    <3>2. CASE moves' = moves + 1 /\ ok
      BY <1>1, <2>2, <2>3, <3>2 DEF Owed, ScheduleInv
    <3>3. CASE moves' = moves + 1 /\ slips' = slips + 1
      BY <1>1, <2>2, <2>3, <3>3 DEF Owed, ScheduleInv
    <3> QED
      BY <1>3, <3>1, <3>2, <3>3
  <2>5. \A v \in late' \cup {attempt'} : v \in Callers => job'[v].pc # "idle"
    BY <1>1, <1>2, <1>3, <2>1 DEF ScheduleInv
  <2> QED
    BY <1>1, <2>1, <2>2, <2>4, <2>5 DEF ScheduleInv
<1>4. CASE w # attempt
  <2>1. late' = late \ {w} /\ UNCHANGED <<phase, attempt>>
    BY <1>4 DEF Answer
  <2>2. /\ IsFiniteSet(late \ {w})
        /\ Cardinality(late \ {w}) = IF w \in late THEN Cardinality(late) - 1 ELSE Cardinality(late)
    BY FS_RemoveElement DEF ScheduleInv
  <2>3. moves' + Cardinality(late') <= moves + Cardinality(late)
    BY <1>1, <1>4, <2>1, <2>2 DEF ScheduleInv
  <2>4. Cardinality(late') \in Nat
    BY <2>1, <2>2, FS_CardinalityType
  <2>5. moves' + Cardinality(late') <= Owed'
    BY <1>1, <2>1, <2>3, <2>4 DEF ScheduleInv, Owed
  <2>6. \A v \in late' \cup {attempt'} : v \in Callers => job'[v].pc # "idle"
    BY <1>2, <1>4, <2>1 DEF ScheduleInv
  <2> QED
    BY <2>1, <2>2, <2>5, <2>6 DEF ScheduleInv
<1> QED
  BY <1>3, <1>4

LEMMA ScheduleInvStep ==
    ASSUME TypeOK, ScheduleInv, [ScheduleNext]_scheduleVars
    PROVE  ScheduleInv'
<1>1. NoCaller \notin Callers /\ Cardinality(late) \in Nat
  BY ScheduleAssumption, LateType
<1> slips \in Nat /\ moves \in Nat
  BY DEF ScheduleInv
<1>2. CASE UNCHANGED scheduleVars
  BY <1>2 DEF scheduleVars, firing, vars, Owed, ScheduleInv
<1>3. CASE Fire
  BY <1>1, <1>3 DEF Fire, vars, Owed, ScheduleInv
<1>4. CASE AttemptRefused
  BY <1>1, <1>4 DEF AttemptRefused, Failed, vars, Owed, ScheduleInv
<1>5. CASE AttemptLost
  BY <1>1, <1>5 DEF AttemptLost, Slip, Failed, vars, Owed, ScheduleInv
<1>6. CASE DeadlinePasses
  <2>1. attempt \in Callers /\ attempt \notin late /\ late' = late \cup {attempt}
    BY <1>1, <1>6 DEF DeadlinePasses, ScheduleInv
  <2>2. IsFiniteSet(late') /\ Cardinality(late') = Cardinality(late) + 1
    BY <2>1, FS_AddElement DEF ScheduleInv
  <2>3. slips' = slips + 1 /\ moves' = moves /\ attempt' = NoCaller /\ phase' \in {"due", "done"} /\ job' = job
    BY <1>6 DEF DeadlinePasses, Slip, Failed, vars
  <2>4. phase = "calling"
    BY <1>6 DEF DeadlinePasses
  <2> QED
    BY <1>1, <2>1, <2>2, <2>3, <2>4 DEF Owed, ScheduleInv
<1>7. CASE Midnight
  <2>1. late = {} /\ phase' = "waiting" /\ slips' = 0 /\ moves' = 0 /\ job' = job
        /\ UNCHANGED <<attempt, late>> /\ phase = "done"
    BY <1>7 DEF Midnight, NextDay
  <2>2. Cardinality(late') = 0
    BY <2>1, FS_EmptySet
  <2> QED
    BY <1>1, <2>1, <2>2 DEF Owed, ScheduleInv
<1>8. ASSUME NEW w \in Callers, Attempt(w) PROVE ScheduleInv'
  <2>1. PICK S \in SUBSET Curated : Serve(w, NextJob(S))
    BY <1>8, NextListStep DEF Attempt
  <2> DEFINE j == NextJob(S)
  <2>2. j \in Job /\ j.pc = "next_daily"
    BY NextJobType
  <2>3. Serve(w, j)
    BY <2>1
  <2> HIDE DEF j
  <2>4. OwnStep(w) /\ job'[w].pc = "next_daily" /\ job[w].pc = "idle"
    BY <2>2, <2>3, ServeStep
  <2>5. w \notin late /\ \A v \in Callers \ {w} : job'[v] = job[v]
    BY <2>4 DEF OwnStep, TypeOK, ScheduleInv
  <2>6. phase = "due" /\ phase' = "calling" /\ attempt' = w /\ UNCHANGED <<late, slips, moves>>
    BY <1>8 DEF Attempt
  <2> QED
    BY <1>1, <2>4, <2>5, <2>6 DEF Owed, ScheduleInv
<1>9. ASSUME NEW w \in Callers, Proceed(w) PROVE ScheduleInv'
  <2>1. /\ OwnStep(w) /\ job[w].pc # "idle" /\ slips' = slips
        /\ SetDaily(w) => job'[w].pc = "idle" /\ job[w].pc = "set_daily"
        /\ daily' # daily => SetDaily(w)
    BY <1>9, ThreadStep DEF Proceed
  <2>2. \/ moves' = moves
        \/ moves' = moves + 1 /\ w \in late \cup {attempt} /\ SetDaily(w)
    BY <1>9, <2>1 DEF Proceed, CountMoves
  <2>3. CASE job'[w].pc = "idle"
    <3>1. Answer(w, job[w].pc = "set_daily")
      BY <1>9, <2>3 DEF Proceed
    <3>2. ScheduleInv'
      <4> DEFINE ok == job[w].pc = "set_daily"
      <4>1. ok \in BOOLEAN /\ Answer(w, ok) /\ (SetDaily(w) => ok)
        BY <2>1, <3>1
      <4> HIDE DEF ok
      <4> QED
        BY <2>1, <2>2, <2>3, <4>1, AnswerStep
    <3> QED
      BY <3>2
  <2>4. CASE job'[w].pc # "idle"
    <3>1. UNCHANGED <<phase, attempt, late, moves, slips>>
      BY <1>9, <2>1, <2>2, <2>4 DEF Proceed
    <3>2. \A v \in Callers \ {w} : job'[v] = job[v]
      BY <2>1 DEF OwnStep, TypeOK
    <3> QED
      BY <2>4, <3>1, <3>2 DEF Owed, ScheduleInv
  <2> QED
    BY <2>3, <2>4
<1>10. ASSUME NEW w \in Callers, AnswerLost(w) PROVE ScheduleInv'
  <2>1. OwnStep(w) /\ job[w].pc # "idle" /\ job'[w].pc = "idle"
    BY <1>10, ThreadStep DEF AnswerLost, Step
  <2>2. slips' = slips + 1 /\ Answer(w, FALSE) /\ w = attempt
    BY <1>10 DEF AnswerLost, Slip
  <2>3. moves' = moves \/ (moves' = moves + 1 /\ w \in late \cup {attempt})
    BY <1>10 DEF AnswerLost, CountMoves
  <2>4. slips' \in Nat /\ moves' \in Nat /\ slips' >= slips
    BY <2>2, <2>3
  <2> QED
    BY <2>1, <2>2, <2>3, <2>4, AnswerStep
<1>11. ASSUME NEW w \in Callers, Stop(w) PROVE ScheduleInv'
  <2>1. OwnStep(w) /\ job[w].pc # "idle" /\ job'[w].pc = "idle"
    BY <1>11, ThreadStep, ReturnStep DEF Stop, Crash, IdleJob
  <2>2. Answer(w, FALSE) /\ slips' = slips /\ moves' = moves
    BY <1>11 DEF Stop
  <2>3. slips' \in Nat /\ moves' \in Nat /\ slips' >= slips
    BY <2>2
  <2> QED
    BY <2>1, <2>2, <2>3, AnswerStep
<1>12. ASSUME NEW w \in Callers, NEW c \in Cases, Edit(w, c) PROVE ScheduleInv'
  <2>1. \E j \in Job : Serve(w, j) /\ j.pc # "idle"
    BY <1>12, JobOnType DEF Edit, ApproveRead, RejectRead, PublishStart
  <2>2. OwnStep(w) /\ job'[w].pc # "idle"
    BY <2>1, ServeStep
  <2>3. \A v \in Callers \ {w} : job'[v] = job[v]
    BY <2>2 DEF OwnStep, TypeOK
  <2> QED
    BY <1>12, <2>2, <2>3 DEF Edit, firing, Owed, ScheduleInv
<1>13. ASSUME NEW c \in Generated, CaseGenerated(c) PROVE ScheduleInv'
  BY <1>13 DEF CaseGenerated, SaveGenerated, firing, Owed, ScheduleInv
<1> QED
  BY <1>2, <1>3, <1>4, <1>5, <1>6, <1>7, <1>8, <1>9, <1>10, <1>11, <1>12, <1>13 DEF ScheduleNext

\* The daily case players see changes once per firing, plus at most once for
\* each lost request, lost answer or missed deadline of it.
THEOREM OneChangePerFiring == ScheduleSpec => []ReplacedOnlyAfterASlip
<1>1. ScheduleInit => ScheduleInv
  <2>1. Cardinality({}) = 0 /\ IsFiniteSet({})
    BY FS_EmptySet
  <2> QED
    BY <2>1, ScheduleAssumption DEF ScheduleInit, ScheduleInv, Owed
<1>2. ScheduleInv => ReplacedOnlyAfterASlip
  BY LateType DEF ScheduleInv, Owed, ReplacedOnlyAfterASlip
<1> QED
  BY <1>1, <1>2, ScheduleInvStep, ScheduleImplementsLifecycle, CaseLifecycleTypeOK, PTL DEF ScheduleSpec
=============================================================================
