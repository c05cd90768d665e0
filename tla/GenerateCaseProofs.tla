------------------------- MODULE GenerateCaseProofs --------------------------
(***************************************************************************)
(* Theorems about GenerateCase for any finite set of requests, any number  *)
(* of attempts, any caps and any number of days.                           *)
(***************************************************************************)
EXTENDS GenerateCase, FiniteSetTheorems, TLAPS

LEMMA DaysFact == Days \subseteq Nat /\ 1 \in Days /\ 1 \in Attempts /\ Attempts \subseteq Nat
  BY BoundsAssumption DEF Days, Attempts

\* Every step keeps the types; in particular no request starts more than
\* MaxAttempts attempts.
LEMMA TypeStep == TypeOK /\ [Next]_vars => TypeOK'
<1> SUFFICES ASSUME TypeOK, [Next]_vars PROVE TypeOK'
  OBVIOUS
<1> USE DaysFact DEF TypeOK
<1>1. CASE UNCHANGED vars
  BY <1>1 DEF vars, quota
<1>2. CASE NextDay
  BY <1>2, BoundsAssumption DEF NextDay, Days, quota
<1>3. ASSUME NEW r \in Requests, NextAttempt(r)
      PROVE  /\ pc' \in [Requests -> Stage] /\ ending' \in [Requests -> Ending]
             /\ attempt' \in [Requests -> Attempts]
  BY <1>3, BoundsAssumption DEF NextAttempt, EndWith, Stage, Ending, Attempts
<1>4. ASSUME NEW r \in Requests, NEW e \in Ending, EndWith(r, e)
      PROVE  pc' \in [Requests -> Stage] /\ ending' \in [Requests -> Ending]
  BY <1>4 DEF EndWith, Stage
<1>5. ASSUME NEW r \in Requests, NEW s \in Stage, Continue(r, s)
      PROVE  pc' \in [Requests -> Stage]
  BY <1>5 DEF Continue, Stage
<1>6. \A s \in {"check", "reserve", "generate", "logic", "safety", "consume", "save", "end"} : s \in Stage
  BY DEF Stage
<1>7. \A e \in {"refused", "quota_rejected", "failed", "slot_lost", "done"} : e \in Ending
  BY DEF Ending
<1>8. ASSUME NEW r \in Requests, Request(r) PROVE TypeOK'
  BY <1>8, <1>6, <1>7 DEF Request, quota
<1>9. ASSUME NEW r \in Requests, PreCheck(r) PROVE TypeOK'
  BY <1>9, <1>4, <1>5, <1>6, <1>7 DEF PreCheck, quota
<1>10. ASSUME NEW r \in Requests, ReserveAttempt(r) PROVE TypeOK'
  <2>1. pc' \in [Requests -> Stage]
    BY <1>10, <1>5, <1>6 DEF ReserveAttempt
  <2>2. attemptCount' \in [Days -> Nat]
    <3>1. attemptCount' = [attemptCount EXCEPT ![day[r]] = attemptCount[day[r]] + 1]
      BY <1>10 DEF ReserveAttempt
    <3>2. day[r] \in Days
      OBVIOUS
    <3>3. attemptCount[day[r]] \in Nat
      BY <3>2
    <3>4. attemptCount[day[r]] + 1 \in Nat
      BY <3>3
    <3> QED
      BY <3>1, <3>2, <3>4
  <2>3. reserved' \subseteq Requests \X Attempts
    BY <1>10 DEF ReserveAttempt
  <2> QED
    BY <1>10, <2>1, <2>2, <2>3 DEF ReserveAttempt
<1>11. ASSUME NEW r \in Requests, ReserveRefused(r) PROVE TypeOK'
  BY <1>11, <1>4, <1>7 DEF ReserveRefused, quota
<1>12. ASSUME NEW r \in Requests, GenerateNothing(r) PROVE TypeOK'
  BY <1>12, <1>3 DEF GenerateNothing, quota
<1>13. ASSUME NEW r \in Requests, GenerateCandidate(r) PROVE TypeOK'
  BY <1>13, <1>5, <1>6 DEF GenerateCandidate, quota
<1>14. ASSUME NEW r \in Requests, LogicCheck(r) PROVE TypeOK'
  BY <1>14, <1>3, <1>5, <1>6 DEF LogicCheck, quota
<1>15. ASSUME NEW r \in Requests, SafetyCheck(r) PROVE TypeOK'
  BY <1>15, <1>3, <1>5, <1>6 DEF SafetyCheck, quota
<1>16. ASSUME NEW r \in Requests, ConsumeSuccess(r) PROVE TypeOK'
  <2>1. pc' \in [Requests -> Stage]
    BY <1>16, <1>5, <1>6 DEF ConsumeSuccess
  <2>2. successCount' \in [Days -> Nat]
    <3>1. successCount' = [successCount EXCEPT ![day[r]] = successCount[day[r]] + 1]
      BY <1>16 DEF ConsumeSuccess
    <3>2. day[r] \in Days
      OBVIOUS
    <3>3. successCount[day[r]] \in Nat
      BY <3>2
    <3>4. successCount[day[r]] + 1 \in Nat
      BY <3>3
    <3> QED
      BY <3>1, <3>2, <3>4
  <2> QED
    BY <1>16, <2>1, <2>2 DEF ConsumeSuccess
<1>17. ASSUME NEW r \in Requests, ConsumeRefused(r) PROVE TypeOK'
  BY <1>17, <1>4, <1>7 DEF ConsumeRefused, quota
<1>18. ASSUME NEW r \in Requests, SaveCase(r) PROVE TypeOK'
  BY <1>18, <1>4, <1>7 DEF SaveCase, Case, quota
<1>19. ASSUME NEW r \in Requests, Disconnect(r) \/ Abandon(r) PROVE TypeOK'
  BY <1>19, <1>6 DEF Disconnect, Abandon, quota
<1> QED
  BY <1>1, <1>2, <1>8, <1>9, <1>10, <1>11, <1>12, <1>13, <1>14, <1>15, <1>16,
     <1>17, <1>18, <1>19 DEF Next, Advance

LEMMA TypeInit == Init => TypeOK
  BY DaysFact, BoundsAssumption DEF Init, TypeOK, Days, Stage, Ending

\* The types hold in every reachable state.
THEOREM GenerateCaseTypeOK == Spec => []TypeOK
  BY TypeInit, TypeStep, PTL DEF Spec

-----------------------------------------------------------------------------
(***************************************************************************)
(* The inductive invariant.  The counters of a day ARE the number of       *)
(* attempts reserved and slots won on that day's budget; a request cannot  *)
(* reach the generator without having reserved its current attempt, nor    *)
(* the repository without having won a slot, and what it carries past a    *)
(* gate is free of the flaws the gate looks for.                           *)
(***************************************************************************)
Counted ==
    \A d \in Days :
        /\ attemptCount[d] = Cardinality(AttemptsOf(d)) /\ attemptCount[d] <= AttemptCap
        /\ successCount[d] = Cardinality(WinnersOf(d)) /\ successCount[d] <= SuccessCap

ReservedInOrder == \A a \in reserved : a[2] <= attempt[a[1]]

\* What the stage of a request says about its attempts, slot and candidate.
RequestInv(r) ==
    /\ pc[r] # "end" => ending[r] = "none"
    /\ pc[r] \in {"idle", "check"} => \A a \in reserved : a[1] # r
    /\ pc[r] = "reserve" => <<r, attempt[r]>> \notin reserved
    /\ pc[r] = "generate" => <<r, attempt[r]>> \in reserved
    /\ pc[r] = "safety" => flaws[r] \cap {"logic", "consistency"} = {}
    /\ pc[r] \in {"consume", "save"} => flaws[r] = {}
    /\ pc[r] = "save" => r \in winners
    /\ r \in winners =>
          \/ pc[r] = "save"
          \/ pc[r] = "end" /\ \E c \in saved : c.req = r
          \/ pc[r] = "end" /\ ~attached[r] /\ ending[r] = "none"
    /\ ending[r] = "done" => \E c \in saved : c.req = r

CaseInv(c) ==
    /\ c.req \in winners
    /\ pc[c.req] = "end"
    /\ c.day = day[c.req]
    /\ c.flaws = {}
    /\ ending[c.req] = "done" \/ ~attached[c.req]

IInv ==
    /\ TypeOK
    /\ Counted
    /\ called \subseteq reserved
    /\ ReservedInOrder
    /\ \A r \in Requests : RequestInv(r)
    /\ \A c \in saved : CaseInv(c)
    /\ OneCasePerRequest

-----------------------------------------------------------------------------
LEMMA InitIInv == Init => IInv
<1> SUFFICES ASSUME Init PROVE IInv
  OBVIOUS
<1>1. TypeOK
  BY TypeInit
<1>2. Counted
  <2>1. \A d \in Days : AttemptsOf(d) = {} /\ WinnersOf(d) = {}
    BY DEF Init, AttemptsOf, WinnersOf
  <2> QED
    BY <2>1, FS_EmptySet, BoundsAssumption DEF Init, Counted
<1> QED
  BY <1>1, <1>2 DEF Init, IInv, ReservedInOrder, RequestInv, CaseInv, OneCasePerRequest

\* The sets the counters count are finite.
LEMMA FiniteHistories ==
  ASSUME TypeOK, NEW d \in Days
  PROVE  IsFiniteSet(AttemptsOf(d)) /\ IsFiniteSet(WinnersOf(d)) /\ IsFiniteSet(reserved)
<1>1. IsFiniteSet(Requests \X Attempts)
  <2>1. IsFiniteSet(1..MaxAttempts)
    BY BoundsAssumption, FS_Interval
  <2> QED
    BY <2>1, RequestsAssumption, FS_Product DEF Attempts
<1>2. AttemptsOf(d) \subseteq Requests \X Attempts /\ reserved \subseteq Requests \X Attempts
  BY DEF TypeOK, AttemptsOf
<1>3. WinnersOf(d) \subseteq Requests
  BY DEF TypeOK, WinnersOf
<1> QED
  BY <1>1, <1>2, <1>3, RequestsAssumption, FS_Subset

\* A step that counts nothing and moves no request to another day.
LEMMA UncountedStep ==
  ASSUME Counted, UNCHANGED <<quota, day>>
  PROVE  Counted'
<1>1. \A d \in Days : AttemptsOf(d)' = AttemptsOf(d) /\ WinnersOf(d)' = WinnersOf(d)
  BY DEF quota, AttemptsOf, WinnersOf
<1> QED
  BY <1>1 DEF Counted, quota

\* A request that arrives brings no attempts and no slot from another day.
LEMMA RequestCounts ==
  ASSUME IInv, NEW r \in Requests, Request(r)
  PROVE  Counted'
<1>1. /\ \A a \in reserved : a[1] # r
      /\ r \notin winners
      /\ \A q \in Requests : q # r => day'[q] = day[q]
      /\ reserved \subseteq Requests \X Attempts /\ winners \subseteq Requests
  BY DEF Request, IInv, RequestInv, TypeOK
<1>2. UNCHANGED quota
  BY DEF Request
<1>3. ASSUME NEW d \in Days PROVE AttemptsOf(d)' = AttemptsOf(d) /\ WinnersOf(d)' = WinnersOf(d)
  <2>1. AttemptsOf(d)' = AttemptsOf(d)
    <3>1. \A a \in reserved : a[1] \in Requests /\ day'[a[1]] = day[a[1]]
      BY <1>1
    <3> QED
      BY <1>2, <3>1 DEF quota, AttemptsOf
  <2>2. WinnersOf(d)' = WinnersOf(d)
    <3>1. \A q \in winners : day'[q] = day[q]
      BY <1>1
    <3> QED
      BY <1>2, <3>1 DEF quota, WinnersOf
  <2> QED
    BY <2>1, <2>2
<1> QED
  BY <1>2, <1>3 DEF IInv, Counted, quota

\* Reserving counts one new attempt, on the request's own day.
LEMMA ReserveCounts ==
  ASSUME IInv, NEW r \in Requests, ReserveAttempt(r)
  PROVE  Counted'
<1> DEFINE a == <<r, attempt[r]>>
<1>1. /\ pc[r] = "reserve" /\ attemptCount[day[r]] < AttemptCap
      /\ attemptCount' = [attemptCount EXCEPT ![day[r]] = attemptCount[day[r]] + 1]
      /\ reserved' = reserved \cup {a}
      /\ UNCHANGED <<successCount, winners, day>>
  BY DEF ReserveAttempt
<1>2. TypeOK /\ Counted /\ a \notin reserved
  BY <1>1 DEF IInv, RequestInv
<1>3. /\ day[r] \in Days /\ attemptCount \in [Days -> Nat] /\ AttemptCap \in Nat
      /\ a[1] = r
  BY <1>2, BoundsAssumption DEF TypeOK
<1>4. ASSUME NEW d \in Days
      PROVE /\ attemptCount'[d] = Cardinality(AttemptsOf(d)') /\ attemptCount'[d] <= AttemptCap
            /\ successCount'[d] = Cardinality(WinnersOf(d)') /\ successCount'[d] <= SuccessCap
  <2>1. WinnersOf(d)' = WinnersOf(d)
    BY <1>1 DEF WinnersOf
  <2>2. CASE d = day[r]
    <3>1. AttemptsOf(d)' = AttemptsOf(d) \cup {a}
      BY <1>1, <1>3, <2>2 DEF AttemptsOf
    <3>2. a \notin AttemptsOf(d)
      BY <1>2 DEF AttemptsOf
    <3>3. Cardinality(AttemptsOf(d)') = Cardinality(AttemptsOf(d)) + 1
      BY <1>2, <3>1, <3>2, FiniteHistories, FS_AddElement
    <3> QED
      BY <1>1, <1>2, <1>3, <2>1, <2>2, <3>3 DEF Counted
  <2>3. CASE d # day[r]
    <3>1. AttemptsOf(d)' = AttemptsOf(d)
      BY <1>1, <1>3, <2>3 DEF AttemptsOf
    <3> QED
      BY <1>1, <1>2, <1>3, <2>1, <2>3, <3>1 DEF Counted
  <2> QED
    BY <2>2, <2>3
<1> QED
  BY <1>4 DEF Counted

\* Winning counts one new slot, on the request's own day.
LEMMA ConsumeCounts ==
  ASSUME IInv, NEW r \in Requests, ConsumeSuccess(r)
  PROVE  Counted'
<1>1. /\ pc[r] = "consume" /\ successCount[day[r]] < SuccessCap
      /\ successCount' = [successCount EXCEPT ![day[r]] = successCount[day[r]] + 1]
      /\ winners' = winners \cup {r}
      /\ UNCHANGED <<attemptCount, reserved, day>>
  BY DEF ConsumeSuccess
<1>2. TypeOK /\ Counted /\ r \notin winners
  BY <1>1 DEF IInv, RequestInv
<1>3. day[r] \in Days /\ successCount \in [Days -> Nat] /\ SuccessCap \in Nat
  BY <1>2, BoundsAssumption DEF TypeOK
<1>4. ASSUME NEW d \in Days
      PROVE /\ attemptCount'[d] = Cardinality(AttemptsOf(d)') /\ attemptCount'[d] <= AttemptCap
            /\ successCount'[d] = Cardinality(WinnersOf(d)') /\ successCount'[d] <= SuccessCap
  <2>1. AttemptsOf(d)' = AttemptsOf(d)
    BY <1>1 DEF AttemptsOf
  <2>2. CASE d = day[r]
    <3>1. WinnersOf(d)' = WinnersOf(d) \cup {r}
      BY <1>1, <1>3, <2>2 DEF WinnersOf
    <3>2. r \notin WinnersOf(d)
      BY <1>2 DEF WinnersOf
    <3>3. Cardinality(WinnersOf(d)') = Cardinality(WinnersOf(d)) + 1
      BY <1>2, <3>1, <3>2, FiniteHistories, FS_AddElement
    <3> QED
      BY <1>1, <1>2, <1>3, <2>1, <2>2, <3>3 DEF Counted
  <2>3. CASE d # day[r]
    <3>1. WinnersOf(d)' = WinnersOf(d)
      BY <1>1, <2>3 DEF WinnersOf
    <3> QED
      BY <1>1, <1>2, <1>3, <2>1, <2>3, <3>1 DEF Counted
  <2> QED
    BY <2>2, <2>3
<1> QED
  BY <1>4 DEF Counted

-----------------------------------------------------------------------------
(***************************************************************************)
(* A step of request r touches nothing of another request, and of the      *)
(* shared sets only what is r's.                                           *)
(***************************************************************************)
Local(r) ==
    /\ pc[r] # "end"
    /\ \A q \in Requests \ {r} :
          /\ pc'[q] = pc[q] /\ attached'[q] = attached[q] /\ day'[q] = day[q]
          /\ attempt'[q] = attempt[q] /\ flaws'[q] = flaws[q] /\ ending'[q] = ending[q]
    /\ winners \subseteq winners' /\ winners' \subseteq winners \cup {r}
    /\ reserved \subseteq reserved'
    /\ reserved' \subseteq reserved \cup {<<r, attempt[r]>>}
    /\ saved \subseteq saved'

LEMMA LocalStep ==
  ASSUME TypeOK, NEW r \in Requests,
         Request(r) \/ Advance(r) \/ Disconnect(r) \/ Abandon(r)
  PROVE  Local(r)
<1> USE DEF TypeOK, Local, quota
<1>1. CASE Request(r)
  BY <1>1 DEF Request
<1>2. CASE PreCheck(r)
  BY <1>2 DEF PreCheck, EndWith, Continue
<1>3. CASE ReserveAttempt(r)
  BY <1>3 DEF ReserveAttempt, Continue
<1>4. CASE ReserveRefused(r)
  BY <1>4 DEF ReserveRefused, EndWith
<1>5. CASE GenerateNothing(r)
  BY <1>5 DEF GenerateNothing, NextAttempt, EndWith
<1>6. CASE GenerateCandidate(r)
  BY <1>6 DEF GenerateCandidate, Continue
<1>7. CASE LogicCheck(r)
  BY <1>7 DEF LogicCheck, NextAttempt, EndWith, Continue
<1>8. CASE SafetyCheck(r)
  BY <1>8 DEF SafetyCheck, NextAttempt, EndWith, Continue
<1>9. CASE ConsumeSuccess(r)
  BY <1>9 DEF ConsumeSuccess, Continue
<1>10. CASE ConsumeRefused(r)
  BY <1>10 DEF ConsumeRefused, EndWith
<1>11. CASE SaveCase(r)
  BY <1>11 DEF SaveCase, EndWith
<1>12. CASE Disconnect(r) \/ Abandon(r)
  BY <1>12 DEF Disconnect, Abandon
<1> QED
  BY <1>1, <1>2, <1>3, <1>4, <1>5, <1>6, <1>7, <1>8, <1>9, <1>10, <1>11, <1>12 DEF Advance

\* So the other requests keep their part of the invariant, and so do the
\* cases already saved, whose requests have ended.
LEMMA OthersKeep ==
  ASSUME IInv, NEW r \in Requests, Local(r)
  PROVE  /\ \A q \in Requests \ {r} : RequestInv(q)'
         /\ \A c \in saved : CaseInv(c)'
<1>1. ASSUME NEW q \in Requests \ {r} PROVE RequestInv(q)'
  <2>1. RequestInv(q)
    BY DEF IInv
  <2>2. \A a : a[1] = q => (a \in reserved' <=> a \in reserved)
    BY DEF Local
  <2>3. (q \in winners' <=> q \in winners) /\ saved \subseteq saved'
    BY DEF Local
  <2>4. /\ pc'[q] = pc[q] /\ attached'[q] = attached[q]
        /\ attempt'[q] = attempt[q] /\ flaws'[q] = flaws[q] /\ ending'[q] = ending[q]
    BY DEF Local
  <2> QED
    BY <2>1, <2>2, <2>3, <2>4 DEF RequestInv
<1>2. ASSUME NEW c \in saved PROVE CaseInv(c)'
  <2>1. CaseInv(c) /\ c.req \in Requests
    BY DEF IInv, TypeOK, Case
  <2>2. c.req # r
    BY <2>1 DEF CaseInv, Local
  <2> QED
    BY <2>1, <2>2 DEF CaseInv, Local
<1> QED
  BY <1>1, <1>2

-----------------------------------------------------------------------------
\* The request's own part, action by action.
OwnInv(r) ==
    /\ RequestInv(r)
    /\ \A c \in saved : c.req = r => CaseInv(c)
    /\ called \subseteq reserved
    /\ ReservedInOrder
    /\ OneCasePerRequest

\* Going on to the next attempt: all reserved attempts lie behind it.
LEMMA NextAttemptStep ==
  ASSUME TypeOK, NEW r \in Requests, RequestInv(r), ReservedInOrder,
         pc[r] \in {"generate", "logic", "safety"}, NextAttempt(r),
         UNCHANGED <<reserved, winners, saved, attached>>
  PROVE  RequestInv(r)' /\ ReservedInOrder'
<1>1. attempt \in [Requests -> Attempts] /\ Attempts \subseteq Nat /\ reserved \subseteq Requests \X Attempts
  BY DaysFact DEF TypeOK
<1>2. pc \in [Requests -> Stage] /\ ending \in [Requests -> Ending]
  BY DEF TypeOK
<1>3. r \notin winners /\ ending[r] = "none"
  BY DEF RequestInv
<1>4. CASE attached[r] /\ attempt[r] < MaxAttempts
  <2>1. /\ pc' = [pc EXCEPT ![r] = "reserve"] /\ ending' = ending
        /\ attempt' = [attempt EXCEPT ![r] = attempt[r] + 1]
    BY <1>4 DEF NextAttempt
  <2>2. attempt[r] \in Nat /\ pc'[r] = "reserve" /\ attempt'[r] = attempt[r] + 1 /\ ending'[r] = "none"
    BY <1>1, <1>2, <1>3, <2>1
  <2>3. <<r, attempt[r] + 1>> \notin reserved
    BY <2>2 DEF ReservedInOrder
  <2>4. RequestInv(r)'
    BY <1>3, <2>2, <2>3 DEF RequestInv
  <2>5. ASSUME NEW a \in reserved PROVE a[2] <= attempt'[a[1]]
    <3>1. a[1] \in Requests /\ a[2] \in Nat /\ a[2] <= attempt[a[1]] /\ attempt[a[1]] \in Nat
      BY <1>1 DEF ReservedInOrder
    <3> QED
      BY <1>1, <2>1, <2>2, <3>1
  <2> QED
    BY <2>4, <2>5 DEF ReservedInOrder
<1>5. CASE ~(attached[r] /\ attempt[r] < MaxAttempts)
  <2>1. /\ pc'[r] = "end" /\ attempt' = attempt
        /\ ending'[r] \in {"failed", "none"}
    BY <1>2, <1>3, <1>5 DEF NextAttempt, EndWith
  <2> QED
    BY <1>3, <2>1 DEF RequestInv, ReservedInOrder
<1> QED
  BY <1>4, <1>5

LEMMA OwnStep ==
  ASSUME IInv, NEW r \in Requests, Local(r),
         Request(r) \/ Advance(r) \/ Disconnect(r) \/ Abandon(r)
  PROVE  OwnInv(r)'
<1>1. /\ TypeOK /\ RequestInv(r) /\ ReservedInOrder /\ OneCasePerRequest
      /\ called \subseteq reserved
      /\ \A c \in saved : CaseInv(c) /\ c.req # r
  BY DEF IInv, CaseInv, Local
<1>2. \A n \in Nat : n + 1 \in Nat /\ n < n + 1
  OBVIOUS
<1>3. attempt \in [Requests -> Attempts] /\ Attempts \subseteq Nat /\ reserved \subseteq Requests \X Attempts
  BY <1>1, DaysFact DEF TypeOK
<1> USE <1>1 DEF OwnInv, TypeOK, RequestInv, ReservedInOrder, quota
<1>4. CASE Request(r)
  BY <1>4 DEF Request, CaseInv, OneCasePerRequest
<1>5. CASE PreCheck(r)
  BY <1>5 DEF PreCheck, EndWith, Continue, OneCasePerRequest
<1>6. CASE ReserveAttempt(r)
  <2>1. /\ pc[r] = "reserve" /\ reserved' = reserved \cup {<<r, attempt[r]>>}
        /\ pc'[r] \in {"generate", "end"}
        /\ UNCHANGED <<winners, attached, attempt, flaws, ending, saved, called>>
    BY <1>6 DEF ReserveAttempt, Continue
  <2>2. r \notin winners /\ ending[r] = "none"
    BY <2>1
  <2>3. RequestInv(r)'
    BY <2>1, <2>2
  <2>4. ReservedInOrder'
    <3>1. ASSUME NEW a \in reserved' PROVE a[2] <= attempt[a[1]]
      <4>1. attempt[r] \in Nat
        BY <1>3
      <4>2. CASE a = <<r, attempt[r]>>
        <5>1. a[1] = r /\ a[2] = attempt[r]
          BY <4>2
        <5> QED
          BY <4>1, <5>1
      <4>3. CASE a \in reserved
        BY <4>3
      <4> QED
        BY <2>1, <4>2, <4>3
    <3> QED
      BY <2>1, <3>1
  <2> QED
    BY <2>1, <2>3, <2>4 DEF OneCasePerRequest
<1>7. CASE ReserveRefused(r)
  BY <1>7 DEF ReserveRefused, EndWith, OneCasePerRequest
<1>8. CASE GenerateNothing(r)
  <2>1. RequestInv(r)' /\ ReservedInOrder'
    BY <1>8, NextAttemptStep DEF GenerateNothing
  <2> QED
    BY <1>8, <2>1 DEF GenerateNothing, OneCasePerRequest
<1>9. CASE GenerateCandidate(r)
  BY <1>9 DEF GenerateCandidate, Continue, OneCasePerRequest
<1>10. CASE LogicCheck(r)
  <2>1. CASE flaws[r] \cap {"logic", "consistency"} = {}
    BY <1>10, <2>1 DEF LogicCheck, Continue, OneCasePerRequest
  <2>2. CASE flaws[r] \cap {"logic", "consistency"} # {}
    <3>1. RequestInv(r)' /\ ReservedInOrder'
      BY <1>10, <2>2, NextAttemptStep DEF LogicCheck
    <3> QED
      BY <1>10, <3>1 DEF LogicCheck, OneCasePerRequest
  <2> QED
    BY <2>1, <2>2
<1>11. CASE SafetyCheck(r)
  <2>1. CASE "safety" \notin flaws[r]
    <3>1. flaws[r] = {}
      BY <1>11, <2>1 DEF SafetyCheck, Gates
    <3> QED
      BY <1>11, <2>1, <3>1 DEF SafetyCheck, Continue, OneCasePerRequest
  <2>2. CASE "safety" \in flaws[r]
    <3>1. RequestInv(r)' /\ ReservedInOrder'
      BY <1>11, <2>2, NextAttemptStep DEF SafetyCheck
    <3> QED
      BY <1>11, <3>1 DEF SafetyCheck, OneCasePerRequest
  <2> QED
    BY <2>1, <2>2
<1>12. CASE ConsumeSuccess(r)
  BY <1>12 DEF ConsumeSuccess, Continue, OneCasePerRequest
<1>13. CASE ConsumeRefused(r)
  BY <1>13 DEF ConsumeRefused, EndWith, OneCasePerRequest
<1>14. CASE SaveCase(r)
  <2> DEFINE new == [req |-> r, attempt |-> attempt[r], day |-> day[r], flaws |-> flaws[r]]
  <2>1. /\ pc[r] = "save" /\ saved' = saved \cup {new} /\ pc'[r] = "end"
        /\ ending'[r] = IF attached[r] THEN "done" ELSE ending[r]
        /\ UNCHANGED <<reserved, winners, attached, day, attempt, flaws, called>>
    BY <1>14 DEF SaveCase, EndWith
  <2>2. r \in winners /\ flaws[r] = {} /\ ending[r] = "none"
    BY <2>1
  <2>3. new.req = r /\ new \in saved'
    BY <2>1
  <2>4. RequestInv(r)'
    BY <2>1, <2>2, <2>3
  <2>5. CaseInv(new)'
    BY <2>1, <2>2 DEF CaseInv
  <2>6. \A c \in saved' : c.req = r => c = new
    BY <2>1
  <2>7. OneCasePerRequest'
    BY <2>1, <2>3, <2>6 DEF OneCasePerRequest
  <2> QED
    BY <2>1, <2>4, <2>5, <2>6, <2>7
<1>15. CASE Disconnect(r) \/ Abandon(r)
  BY <1>15 DEF Disconnect, Abandon, OneCasePerRequest
<1> QED
  BY <1>4, <1>5, <1>6, <1>7, <1>8, <1>9, <1>10, <1>11, <1>12, <1>13, <1>14, <1>15 DEF Advance

LEMMA NextIInv == IInv /\ [Next]_vars => IInv'
<1> SUFFICES ASSUME IInv, [Next]_vars PROVE IInv'
  OBVIOUS
<1>1. TypeOK /\ TypeOK'
  BY TypeStep DEF IInv
<1>2. CASE UNCHANGED vars \/ NextDay
  <2>1. UNCHANGED <<quota, day, pc, attached, attempt, flaws, ending, saved, called>>
    BY <1>2 DEF vars, NextDay, quota
  <2>2. Counted'
    BY <2>1, UncountedStep DEF IInv
  <2> QED
    BY <1>1, <2>1, <2>2
    DEF IInv, ReservedInOrder, RequestInv, CaseInv, OneCasePerRequest, quota
<1>3. ASSUME NEW r \in Requests,
             Request(r) \/ Advance(r) \/ Disconnect(r) \/ Abandon(r)
      PROVE  IInv'
  <2>1. Local(r)
    BY <1>1, <1>3, LocalStep
  <2>2. OwnInv(r)'
    BY <1>3, <2>1, OwnStep
  <2>3. \A q \in Requests : RequestInv(q)'
    BY <2>1, <2>2, OthersKeep DEF OwnInv
  <2>4. \A c \in saved' : CaseInv(c)'
    <3>1. \A c \in saved' : c \in saved \/ c.req = r
      BY <1>1, <1>3 DEF Request, Advance, Disconnect, Abandon, PreCheck,
         ReserveAttempt, ReserveRefused, GenerateNothing, GenerateCandidate,
         LogicCheck, SafetyCheck, ConsumeSuccess, ConsumeRefused, SaveCase
    <3> QED
      BY <2>1, <2>2, <3>1, OthersKeep DEF OwnInv
  <2>5. Counted'
    <3>1. CASE Request(r)
      BY <3>1, RequestCounts
    <3>2. CASE ReserveAttempt(r)
      BY <3>2, ReserveCounts
    <3>3. CASE ConsumeSuccess(r)
      BY <3>3, ConsumeCounts
    <3>4. CASE \/ PreCheck(r) \/ ReserveRefused(r) \/ GenerateNothing(r)
              \/ GenerateCandidate(r) \/ LogicCheck(r) \/ SafetyCheck(r)
              \/ ConsumeRefused(r) \/ SaveCase(r) \/ Disconnect(r) \/ Abandon(r)
      <4>1. UNCHANGED <<quota, day>>
        BY <3>4 DEF PreCheck, ReserveRefused, GenerateNothing, GenerateCandidate,
           LogicCheck, SafetyCheck, ConsumeRefused, SaveCase, Disconnect, Abandon
      <4> QED
        BY <4>1, UncountedStep DEF IInv
    <3> QED
      BY <1>3, <3>1, <3>2, <3>3, <3>4 DEF Advance
  <2> QED
    BY <1>1, <2>2, <2>3, <2>4, <2>5 DEF IInv, OwnInv
<1> QED
  BY <1>2, <1>3 DEF Next

LEMMA SpecIInv == Spec => []IInv
  BY InitIInv, NextIInv, PTL DEF Spec

-----------------------------------------------------------------------------
LEMMA BudgetLemma == IInv => ModelCallsWithinBudget
<1> SUFFICES ASSUME IInv, NEW d \in Days PROVE Cardinality(CallsOf(d)) <= AttemptCap
  BY DEF ModelCallsWithinBudget
<1>1. CallsOf(d) \subseteq AttemptsOf(d) /\ IsFiniteSet(AttemptsOf(d))
  BY FiniteHistories DEF IInv, CallsOf, AttemptsOf
<1>2. Cardinality(CallsOf(d)) <= Cardinality(AttemptsOf(d)) /\ IsFiniteSet(CallsOf(d))
  BY <1>1, FS_Subset
<1>3. Cardinality(CallsOf(d)) \in Nat /\ Cardinality(AttemptsOf(d)) \in Nat
  BY <1>1, <1>2, FS_CardinalityType
<1>4. Cardinality(AttemptsOf(d)) <= AttemptCap
  BY DEF IInv, Counted
<1> QED
  BY <1>2, <1>3, <1>4, BoundsAssumption

LEMMA SavedLemma == IInv => SavedWithinBudget
<1> SUFFICES ASSUME IInv, NEW d \in Days PROVE Cardinality(SavedOn(d)) <= SuccessCap
  BY DEF SavedWithinBudget
<1> DEFINE f == [c \in SavedOn(d) |-> c.req]
<1>1. f \in [SavedOn(d) -> WinnersOf(d)]
  BY DEF IInv, SavedOn, WinnersOf, CaseInv
<1>2. \A c1, c2 \in SavedOn(d) : f[c1] = f[c2] => c1 = c2
  BY DEF IInv, OneCasePerRequest, SavedOn
<1>3. f \in Injection(SavedOn(d), WinnersOf(d))
  BY <1>1, <1>2 DEF Injection, IsInjective
<1>4. IsFiniteSet(WinnersOf(d))
  BY FiniteHistories DEF IInv
<1>5. Cardinality(SavedOn(d)) <= Cardinality(WinnersOf(d)) /\ IsFiniteSet(SavedOn(d))
  BY <1>3, <1>4, FS_Injection
<1>6. Cardinality(SavedOn(d)) \in Nat /\ Cardinality(WinnersOf(d)) \in Nat
  BY <1>4, <1>5, FS_CardinalityType
<1>7. Cardinality(WinnersOf(d)) <= SuccessCap
  BY DEF IInv, Counted
<1> QED
  BY <1>5, <1>6, <1>7, BoundsAssumption

\* No day's budget ever pays for more generator calls than attempt_cap, for
\* any number of concurrent requests, disconnects and midnights.
THEOREM CallsStayWithinBudget == Spec => []ModelCallsWithinBudget
  BY SpecIInv, BudgetLemma, PTL

\* No day's budget ever brings more than success_cap live cases.
THEOREM SavedStaysWithinBudget == Spec => []SavedWithinBudget
  BY SpecIInv, SavedLemma, PTL

\* Whatever reaches the repository has passed every gate.
THEOREM LiveCasesAreFlawless == Spec => []OnlyFlawlessCasesAreLive
<1>1. IInv => OnlyFlawlessCasesAreLive
  BY DEF IInv, CaseInv, OnlyFlawlessCasesAreLive
<1> QED
  BY <1>1, SpecIInv, PTL

\* The stream never announces a case that is not there, and hides one only
\* from a client that left.
THEOREM AnnouncedIsSaved == Spec => []DoneMeansSaved
<1>1. IInv => DoneMeansSaved
  <2> SUFFICES ASSUME IInv, NEW r \in Requests
               PROVE  /\ ending[r] = "done" => \E c \in saved : c.req = r
                      /\ \A c \in saved : c.req = r => ending[r] = "done" \/ ~attached[r]
    BY DEF DoneMeansSaved
  <2>1. ending[r] = "done" => \E c \in saved : c.req = r
    BY DEF IInv, RequestInv
  <2>2. ASSUME NEW c \in saved, c.req = r PROVE ending[r] = "done" \/ ~attached[r]
    <3>1. ending[c.req] = "done" \/ ~attached[c.req]
      BY DEF IInv, CaseInv
    <3> QED
      BY <2>2, <3>1, Zenon
  <2> QED
    BY <2>1, <2>2
<1> QED
  BY <1>1, SpecIInv, PTL

\* A success slot is only ever wasted by an interruption between taking the
\* slot and saving the case.
THEOREM SlotsAreAccountedFor == Spec => []SlotLostOnlyByInterruption
<1>1. IInv => SlotLostOnlyByInterruption
  <2> SUFFICES ASSUME IInv, NEW r \in winners
               PROVE  \/ pc[r] = "save"
                      \/ \E c \in saved : c.req = r
                      \/ pc[r] = "end" /\ ~attached[r] /\ ending[r] = "none"
    BY DEF SlotLostOnlyByInterruption
  <2>1. RequestInv(r)
    BY DEF IInv, TypeOK
  <2> QED
    BY <2>1 DEF RequestInv
<1> QED
  BY <1>1, SpecIInv, PTL

\* Both budgets of a day.
THEOREM BudgetsAlwaysHold == Spec => []BudgetsHold
  BY CallsStayWithinBudget, SavedStaysWithinBudget, PTL DEF BudgetsHold

\* No request brings a second case, and none brings a flawed one.
THEOREM OneFlawlessCaseAtMost == Spec => []OneFlawlessCaseEach
<1>1. IInv => OneCasePerRequest
  BY DEF IInv
<1> QED
  BY <1>1, SpecIInv, LiveCasesAreFlawless, PTL DEF OneFlawlessCaseEach

\* What the end of a request says about its case and its slot is so.
THEOREM OutcomesAreAlwaysHonest == Spec => []OutcomesAreHonest
  BY AnnouncedIsSaved, SlotsAreAccountedFor, PTL DEF OutcomesAreHonest

-----------------------------------------------------------------------------
(***************************************************************************)
(* The way of a request.  Beside IInv the mapping needs that a request has *)
(* not counted an attempt before its pre-check.                            *)
(***************************************************************************)
FirstAttempt(r) == pc[r] \in {"idle", "check"} => attempt[r] = 1
FirstAttempts == \A r \in Requests : FirstAttempt(r)

LEMMA FirstAttemptStep ==
  ASSUME TypeOK, NEW r \in Requests, FirstAttempt(r), [Next]_vars
  PROVE  FirstAttempt(r)'
<1> USE DEF TypeOK, FirstAttempt, quota
<1>1. CASE UNCHANGED vars \/ NextDay
  BY <1>1 DEF vars, NextDay
<1>2. ASSUME NEW q \in Requests, q # r, Local(q)
      PROVE  FirstAttempt(r)'
  BY <1>2 DEF Local
<1>3. CASE Request(r)
  BY <1>3 DEF Request
<1>4. CASE Advance(r)
  BY <1>4 DEF Advance, PreCheck, ReserveAttempt, ReserveRefused, GenerateNothing,
     GenerateCandidate, LogicCheck, SafetyCheck, ConsumeSuccess, ConsumeRefused,
     SaveCase, NextAttempt, EndWith, Continue
<1>5. CASE Disconnect(r) \/ Abandon(r)
  BY <1>5 DEF Disconnect, Abandon
<1> QED
  BY <1>1, <1>2, <1>3, <1>4, <1>5, LocalStep DEF Next

\* The place of a request, stage by stage.
LEMMA PlaceOf ==
  ASSUME NEW n \in Nat, NEW e
  PROVE  /\ \A s \in {"idle", "check"} : PathOf(s, n, e) = Path!Start
         /\ n = 1 => PathOf("reserve", n, e) = Path!Start
         /\ n # 1 => PathOf("reserve", n, e) = [step |-> "rejected", attempt |-> n - 1]
         /\ PathOf("generate", n, e) = [step |-> "generating", attempt |-> n]
         /\ PathOf("logic", n, e) = [step |-> "logic_check", attempt |-> n]
         /\ PathOf("safety", n, e) = [step |-> "safety_check", attempt |-> n]
         /\ \A s \in {"consume", "save"} : PathOf(s, n, e) = [step |-> "saving", attempt |-> n]
         /\ PathOf("end", n, "refused") = Path!Start
         /\ PathOf("end", n, "none") = Path!Out("interrupted")
         /\ e \notin {"refused", "none"} => PathOf("end", n, e) = Path!Out(e)
  BY DEF PathOf, Path!Start, Path!Out

Place(r) == PathOf(pc[r], attempt[r], ending[r])
Places == [r \in Requests |-> PathOf(pc[r], attempt[r], ending[r])]

\* A move of one request is a move on the path.
LEMMA PlaceMoves ==
  ASSUME NEW r \in Requests, Local(r)
  PROVE  Places[r] = Place(r) /\ Places' = [Places EXCEPT ![r] = Place(r)']
<1>1. \A q \in Requests \ {r} : Place(q)' = Place(q)
  BY DEF Local, Place
<1> QED
  BY <1>1 DEF Places, Place

\* A request that ends without a last event was interrupted, wherever it was.
LEMMA Interrupted ==
  ASSUME TypeOK, TypeOK', NEW r \in Requests, Local(r), ending[r] = "none",
         pc'[r] = "end", ending'[r] = "none"
  PROVE  Path!Interrupt(r)
<1>1. pc[r] \in Stage \ {"end"} /\ attempt[r] \in Nat /\ attempt'[r] \in Nat
  BY DaysFact DEF TypeOK, Local
<1>2. Place(r)' = Path!Out("interrupted")
  BY <1>1, PlaceOf DEF Place
<1>3. Place(r).step \notin Path!Final
  <2>1. ASSUME NEW n \in Nat, NEW s \in Stage \ {"end"}
        PROVE  PathOf(s, n, "none").step \in {"start", "rejected", "saving"} \cup Path!Judged
    BY PlaceOf DEF Stage, Path!Start, Path!Judged
  <2> QED
    BY <1>1, <2>1 DEF Place, Path!Final, Path!Judged
<1> QED
  BY <1>2, <1>3, PlaceMoves DEF Path!Interrupt, Path!Move, Places

\* `continue`, or the end of the last attempt.
LEMMA NextAttemptPath ==
  ASSUME TypeOK, TypeOK', NEW r \in Requests, Local(r), ending[r] = "none",
         pc[r] \in {"generate", "logic", "safety"}, NextAttempt(r)
  PROVE  Path!Next
<1>1. /\ attempt[r] \in Attempts /\ attempt[r] \in Nat /\ MaxAttempts \in Nat
      /\ pc \in [Requests -> Stage] /\ attempt \in [Requests -> Attempts]
      /\ ending \in [Requests -> Ending]
  BY DaysFact, BoundsAssumption DEF TypeOK
<1>2. Place(r).step \in Path!Judged /\ Place(r).attempt = attempt[r]
  BY <1>1, PlaceOf DEF Place, Path!Judged
<1>3. CASE attached[r] /\ attempt[r] < MaxAttempts
  <2>1. pc'[r] = "reserve" /\ attempt'[r] = attempt[r] + 1
    BY <1>1, <1>3 DEF NextAttempt
  <2>2. attempt'[r] \in Nat /\ attempt'[r] # 1 /\ attempt'[r] - 1 = attempt[r]
    BY <1>1, <2>1 DEF Attempts
  <2>3. Place(r)' = [step |-> "rejected", attempt |-> attempt[r]]
    BY <2>1, <2>2, PlaceOf DEF Place
  <2>4. Place(r)' = [Place(r) EXCEPT !.step = "rejected"]
    <3>1. Place(r) = [step |-> Place(r).step, attempt |-> attempt[r]]
      BY <1>1, <1>2, PlaceOf DEF Place
    <3> QED
      BY <2>3, <3>1
  <2>5. Path!Reject(r)
    BY <1>2, <2>4, PlaceMoves DEF Path!Reject, Path!Move, Places
  <2> QED
    BY <2>5 DEF Path!Next
<1>4. CASE attached[r] /\ ~(attempt[r] < MaxAttempts)
  <2>1. pc'[r] = "end" /\ ending'[r] = "failed" /\ attempt' = attempt /\ attempt[r] = MaxAttempts
    BY <1>1, <1>4 DEF NextAttempt, EndWith, Attempts
  <2>2. Place(r)' = Path!Out("failed")
    BY <1>1, <2>1, PlaceOf DEF Place
  <2>3. Path!GiveUp(r)
    BY <1>2, <2>1, <2>2, PlaceMoves DEF Path!GiveUp, Path!Move, Places
  <2> QED
    BY <2>3 DEF Path!Next
<1>5. CASE ~attached[r]
  <2>1. pc'[r] = "end" /\ ending'[r] = "none"
    BY <1>1, <1>5 DEF NextAttempt, EndWith
  <2> QED
    BY <2>1, Interrupted DEF Path!Next
<1> QED
  BY <1>3, <1>4, <1>5

\* The stream ends with event e: a move to its place, or an interruption.
LEMMA EndPath ==
  ASSUME TypeOK, TypeOK', NEW r \in Requests, Local(r), ending[r] = "none",
         NEW e \in {"quota_rejected", "slot_lost", "done"}, EndWith(r, e)
  PROVE  Path!Interrupt(r) \/ Path!Move(r, Path!Out(e))
<1>1. /\ pc'[r] = "end" /\ ending'[r] \in {e, "none"} /\ attempt'[r] \in Nat
  BY DaysFact DEF TypeOK, EndWith
<1>2. CASE ending'[r] = "none"
  BY <1>1, <1>2, Interrupted
<1>3. CASE ending'[r] = e
  <2>1. Place(r)' = Path!Out(e)
    BY <1>1, <1>3, PlaceOf DEF Place
  <2> QED
    BY <2>1, PlaceMoves DEF Path!Move, Places
<1> QED
  BY <1>1, <1>2, <1>3

\* An attempt passes a step.
LEMMA PassPath ==
  ASSUME NEW r \in Requests, Local(r), NEW n, NEW from \in Path!Judged,
         Place(r) = [step |-> from, attempt |-> n],
         Place(r)' = [step |-> Path!Successor[from], attempt |-> n]
  PROVE  Path!Next
<1>1. Place(r).step = from /\ [Place(r) EXCEPT !.step = Path!Successor[from]] = Place(r)'
  OBVIOUS
<1>2. Path!Pass(r)
  BY <1>1, PlaceMoves DEF Path!Pass, Path!Move, Places
<1> QED
  BY <1>2 DEF Path!Next

\* Every step of a request is a step of its path, or keeps its place.
LEMMA PathStep ==
  ASSUME IInv, IInv', NEW r \in Requests, FirstAttempt(r), Local(r),
         Request(r) \/ Advance(r) \/ Disconnect(r) \/ Abandon(r)
  PROVE  Path!Next \/ UNCHANGED Places
<1>1. /\ TypeOK /\ TypeOK' /\ ending[r] = "none" /\ (pc'[r] # "end" => ending'[r] = "none")
      /\ attempt[r] \in Attempts /\ attempt[r] \in Nat /\ attempt'[r] \in Nat
  BY DaysFact DEF IInv, RequestInv, Local, TypeOK
<1>2. pc \in [Requests -> Stage] /\ ending \in [Requests -> Ending] /\ MaxAttempts \in Nat
  BY <1>1, BoundsAssumption DEF TypeOK
<1> HIDE DEF TypeOK
<1>3. ASSUME Place(r)' = Place(r) PROVE UNCHANGED Places
  BY <1>3, PlaceMoves DEF Places
<1>4. ASSUME NEW s \in Stage, Continue(r, s), UNCHANGED <<attempt, ending>>
      PROVE  pc'[r] = s \/ Path!Interrupt(r)
  <2>1. CASE attached[r]
    BY <1>2, <1>4, <2>1 DEF Continue
  <2>2. CASE ~attached[r]
    BY <1>1, <1>2, <1>4, <2>2, Interrupted DEF Continue
  <2> QED
    BY <2>1, <2>2
<1>5. ASSUME Path!Interrupt(r) PROVE Path!Next
  BY <1>5 DEF Path!Next
<1>6. CASE Request(r)
  <2>1. pc[r] = "idle" /\ \/ pc'[r] = "check"
                          \/ pc'[r] = "end" /\ ending'[r] = "refused"
    BY <1>2, <1>6 DEF Request
  <2>2. Place(r) = Path!Start /\ Place(r)' = Path!Start
    BY <1>1, <2>1, PlaceOf DEF Place
  <2> QED
    BY <1>3, <2>2
<1>7. CASE PreCheck(r)
  <2>1. pc[r] = "check" /\ attempt[r] = 1 /\ attempt' = attempt /\ Place(r) = Path!Start
    BY <1>1, <1>7, PlaceOf DEF PreCheck, FirstAttempt, Place
  <2>2. CASE Exhausted(day[r])
    <3>1. EndWith(r, "quota_rejected")
      BY <1>7, <2>2 DEF PreCheck
    <3>2. Place(r).step = "start" /\ Place(r).attempt = 0 /\ 0 < MaxAttempts
      BY <2>1, BoundsAssumption DEF Path!Start
    <3>3. Path!Move(r, Path!Out("quota_rejected")) => Path!RefuseQuota(r)
      BY <3>2, PlaceMoves DEF Path!RefuseQuota, Places
    <3> QED
      BY <1>1, <1>5, <3>1, <3>3, EndPath DEF Path!Next
  <2>3. CASE ~Exhausted(day[r])
    <3>1. Continue(r, "reserve") /\ UNCHANGED <<attempt, ending>>
      BY <1>7, <2>3 DEF PreCheck
    <3>2. CASE pc'[r] = "reserve"
      <4>1. Place(r)' = Path!Start
        BY <1>1, <2>1, <3>2, PlaceOf DEF Place
      <4> QED
        BY <1>3, <2>1, <4>1
    <3> QED
      BY <1>4, <1>5, <3>1, <3>2 DEF Stage
  <2> QED
    BY <2>2, <2>3
<1>8. CASE ReserveAttempt(r) \/ ReserveRefused(r)
  <2>1. /\ pc[r] = "reserve" /\ attempt' = attempt
        /\ Place(r).step \in {"start", "rejected"} /\ Place(r).attempt = attempt[r] - 1
        /\ Place(r).attempt < MaxAttempts /\ Place(r).attempt + 1 = attempt[r]
    <3>1. pc[r] = "reserve" /\ attempt' = attempt
      BY <1>8 DEF ReserveAttempt, ReserveRefused
    <3>2. attempt[r] - 1 < MaxAttempts /\ attempt[r] - 1 + 1 = attempt[r]
      BY <1>1, <1>2 DEF Attempts
    <3>3. Place(r).step \in {"start", "rejected"} /\ Place(r).attempt = attempt[r] - 1
      BY <1>1, <3>1, PlaceOf DEF Place, Path!Start
    <3> QED
      BY <3>1, <3>2, <3>3
  <2>2. CASE ReserveAttempt(r)
    <3>1. Continue(r, "generate") /\ UNCHANGED <<attempt, ending>>
      BY <2>2 DEF ReserveAttempt
    <3>2. CASE pc'[r] = "generate"
      <4>1. Place(r)' = [step |-> "generating", attempt |-> Place(r).attempt + 1]
        BY <1>1, <2>1, <3>2, PlaceOf DEF Place
      <4>2. Path!Reserve(r)
        BY <2>1, <4>1, PlaceMoves DEF Path!Reserve, Path!Move, Places
      <4> QED
        BY <4>2 DEF Path!Next
    <3> QED
      BY <1>4, <1>5, <3>1, <3>2 DEF Stage
  <2>3. CASE ReserveRefused(r)
    <3>1. EndWith(r, "quota_rejected")
      BY <2>3 DEF ReserveRefused
    <3>2. Path!Move(r, Path!Out("quota_rejected")) => Path!RefuseQuota(r)
      BY <2>1, PlaceMoves DEF Path!RefuseQuota, Places
    <3> QED
      BY <1>1, <1>5, <3>1, <3>2, EndPath DEF Path!Next
  <2> QED
    BY <1>8, <2>2, <2>3
<1>9. CASE GenerateCandidate(r)
  <2>1. pc[r] = "generate" /\ Continue(r, "logic") /\ UNCHANGED <<attempt, ending>>
    BY <1>9 DEF GenerateCandidate
  <2>2. CASE pc'[r] = "logic"
    <3>1. Place(r) = [step |-> "generating", attempt |-> attempt[r]]
          /\ Place(r)' = [step |-> "logic_check", attempt |-> attempt[r]]
      BY <1>1, <2>1, <2>2, PlaceOf DEF Place
    <3>2. Path!Successor["generating"] = "logic_check" /\ "generating" \in Path!Judged
      BY DEF Path!Successor, Path!Judged
    <3> QED
      BY <3>1, <3>2, PassPath
  <2> QED
    BY <1>4, <1>5, <2>1, <2>2 DEF Stage
<1>10. CASE GenerateNothing(r)
  BY <1>1, <1>10, NextAttemptPath DEF GenerateNothing
<1>11. CASE LogicCheck(r)
  <2>1. CASE flaws[r] \cap {"logic", "consistency"} = {}
    <3>1. pc[r] = "logic" /\ Continue(r, "safety") /\ UNCHANGED <<attempt, ending>>
      BY <1>11, <2>1 DEF LogicCheck
    <3>2. CASE pc'[r] = "safety"
      <4>1. Place(r) = [step |-> "logic_check", attempt |-> attempt[r]]
            /\ Place(r)' = [step |-> "safety_check", attempt |-> attempt[r]]
        BY <1>1, <3>1, <3>2, PlaceOf DEF Place
      <4>2. Path!Successor["logic_check"] = "safety_check" /\ "logic_check" \in Path!Judged
        BY DEF Path!Successor, Path!Judged
      <4> QED
        BY <4>1, <4>2, PassPath
    <3> QED
      BY <1>4, <1>5, <3>1, <3>2 DEF Stage
  <2>2. CASE flaws[r] \cap {"logic", "consistency"} # {}
    BY <1>1, <1>11, <2>2, NextAttemptPath DEF LogicCheck
  <2> QED
    BY <2>1, <2>2
<1>12. CASE SafetyCheck(r)
  <2>1. CASE "safety" \notin flaws[r]
    <3>1. pc[r] = "safety" /\ Continue(r, "consume") /\ UNCHANGED <<attempt, ending>>
      BY <1>12, <2>1 DEF SafetyCheck
    <3>2. CASE pc'[r] = "consume"
      <4>1. Place(r) = [step |-> "safety_check", attempt |-> attempt[r]]
            /\ Place(r)' = [step |-> "saving", attempt |-> attempt[r]]
        BY <1>1, <3>1, <3>2, PlaceOf DEF Place
      <4>2. Path!Successor["safety_check"] = "saving" /\ "safety_check" \in Path!Judged
        BY DEF Path!Successor, Path!Judged
      <4> QED
        BY <4>1, <4>2, PassPath
    <3> QED
      BY <1>4, <1>5, <3>1, <3>2 DEF Stage
  <2>2. CASE "safety" \in flaws[r]
    BY <1>1, <1>12, <2>2, NextAttemptPath DEF SafetyCheck
  <2> QED
    BY <2>1, <2>2
<1>13. CASE ConsumeSuccess(r)
  <2>1. pc[r] = "consume" /\ Continue(r, "save") /\ UNCHANGED <<attempt, ending>>
    BY <1>13 DEF ConsumeSuccess
  <2>2. CASE pc'[r] = "save"
    <3>1. Place(r)' = Place(r)
      BY <1>1, <2>1, <2>2, PlaceOf DEF Place
    <3> QED
      BY <1>3, <3>1
  <2> QED
    BY <1>4, <1>5, <2>1, <2>2 DEF Stage
<1>14. CASE ConsumeRefused(r) \/ SaveCase(r)
  <2>1. pc[r] \in {"consume", "save"}
    BY <1>14 DEF ConsumeRefused, SaveCase
  <2>2. Place(r).step = "saving"
    BY <1>1, <2>1, PlaceOf DEF Place
  <2>3. \/ Path!Interrupt(r)
        \/ Path!Move(r, Path!Out("slot_lost")) \/ Path!Move(r, Path!Out("done"))
    BY <1>1, <1>14, EndPath DEF ConsumeRefused, SaveCase
  <2>4. CASE Path!Move(r, Path!Out("slot_lost"))
    BY <2>2, <2>4, PlaceMoves DEF Path!LoseSlot, Path!Next, Places
  <2>5. CASE Path!Move(r, Path!Out("done"))
    BY <2>2, <2>5, PlaceMoves DEF Path!Save, Path!Next, Places
  <2> QED
    BY <1>5, <2>3, <2>4, <2>5
<1>15. CASE Disconnect(r)
  <2>1. UNCHANGED <<pc, attempt, ending>>
    BY <1>15 DEF Disconnect
  <2> QED
    BY <1>3, <2>1 DEF Place
<1>16. CASE Abandon(r)
  <2>1. pc'[r] = "end" /\ ending'[r] = "none"
    BY <1>1, <1>2, <1>16 DEF Abandon
  <2> QED
    BY <1>1, <1>5, <2>1, Interrupted
<1> QED
  BY <1>6, <1>7, <1>8, <1>9, <1>10, <1>11, <1>12, <1>13, <1>14, <1>15, <1>16 DEF Advance

\* Every request takes the way of GenerationPath, whatever overlaps with it,
\* is refused or is cut off.
THEOREM RequestsFollowThePath == Spec => ImplementsGenerationPath
<1>1. Init => Path!Init
  <2> SUFFICES ASSUME Init PROVE Path!Init
    OBVIOUS
  <2>1. \A r \in Requests : PathOf(pc[r], attempt[r], ending[r]) = Path!Start
    BY PlaceOf DEF Init
  <2> QED
    BY <2>1 DEF Path!Init
<1>2. Init => FirstAttempts
  BY DEF Init, FirstAttempts, FirstAttempt
<1>3. IInv /\ FirstAttempts /\ [Next]_vars => FirstAttempts'
  BY FirstAttemptStep DEF IInv, FirstAttempts
<1>4. IInv /\ IInv' /\ FirstAttempts /\ [Next]_vars => [Path!Next]_Places
  <2> SUFFICES ASSUME IInv, IInv', FirstAttempts, [Next]_vars
               PROVE  Path!Next \/ UNCHANGED Places
    OBVIOUS
  <2>1. CASE UNCHANGED vars \/ NextDay
    BY <2>1 DEF vars, NextDay, Places
  <2>2. ASSUME NEW r \in Requests,
               Request(r) \/ Advance(r) \/ Disconnect(r) \/ Abandon(r)
        PROVE  Path!Next \/ UNCHANGED Places
    <3>1. Local(r)
      BY <2>2, LocalStep DEF IInv
    <3> QED
      BY <2>2, <3>1, PathStep DEF FirstAttempts
  <2> QED
    BY <2>1, <2>2 DEF Next
<1> QED
  BY <1>1, <1>2, <1>3, <1>4, SpecIInv, PTL DEF Spec, ImplementsGenerationPath, Path!Spec, Places
=============================================================================
