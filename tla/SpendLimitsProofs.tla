-------------------------- MODULE SpendLimitsProofs --------------------------
(***************************************************************************)
(* Theorems about the two limits on what the public may spend: DailyQuota  *)
(* for any callers, fields, caps and max_attempts, and RateLimit for any   *)
(* instances, clients, headers, limits and windows.                        *)
(***************************************************************************)
EXTENDS DailyQuota, RateLimit, FiniteSetTheorems, TLAPS

\* Every step keeps the types: a transaction never runs more often than
\* max_attempts and never remembers anything but a counter and a version.
THEOREM DailyQuotaTypeOK == Spec => []TypeOK
<1>1. Init => TypeOK
  BY TriesAssumption DEF Init, TypeOK, Tx, IdleTx
<1>2. ASSUME TypeOK, [Next]_vars PROVE TypeOK'
  <2> USE <1>2 DEF TypeOK
  <2>1. CASE UNCHANGED vars
    BY <2>1 DEF vars
  <2>2. ASSUME NEW c \in Callers, NEW f \in Fields, TryIncrement(c, f) PROVE TypeOK'
    BY <2>2, TriesAssumption DEF TryIncrement, Tx
  <2>3. ASSUME NEW c \in Callers, Read(c) PROVE TypeOK'
    BY <2>3 DEF Read, Tx
  <2>4. ASSUME NEW c \in Callers, Commit(c) PROVE TypeOK'
    BY <2>4 DEF Commit, Tx
  <2>5. ASSUME NEW c \in Callers, Abort(c) PROVE TypeOK'
    <3>1. CASE tx[c].tries < MaxTries
      <4>1. tx' = [tx EXCEPT ![c] = [@ EXCEPT !.state = "read", !.tries = tx[c].tries + 1]]
        BY <2>5, <3>1, TriesAssumption DEF Abort, Tx
      <4>2. tx[c] \in Tx /\ tx[c].tries + 1 \in Nat
        BY DEF Tx
      <4>3. [tx[c] EXCEPT !.state = "read", !.tries = tx[c].tries + 1] \in Tx
        BY <4>2 DEF Tx
      <4>4. tx' \in [Callers -> Tx]
        BY <4>1, <4>3
      <4>5. \A d \in Callers : tx'[d].tries <= MaxTries
        BY <3>1, <4>1, TriesAssumption DEF Tx
      <4> QED
        BY <2>5, <4>4, <4>5 DEF Abort
    <3>2. CASE tx[c].tries >= MaxTries
      BY <2>5, <3>2, TriesAssumption DEF Abort, Tx
    <3> QED
      BY <2>5, <3>1, <3>2 DEF Abort
  <2>6. ASSUME NEW c \in Callers, Answer(c) \/ Crash(c) PROVE TypeOK'
    BY <2>6, TriesAssumption DEF Answer, Crash, IdleTx, Tx
  <2> QED
    BY <1>2, <2>1, <2>2, <2>3, <2>4, <2>5, <2>6 DEF Next
<1> QED
  BY <1>1, <1>2, PTL DEF Spec

-----------------------------------------------------------------------------
(***************************************************************************)
(* The inductive invariant.  A snapshot whose version is still current     *)
(* shows the current counter, so the cap check made on it still holds when *)
(* the write commits; and every abort without SpuriousAborts stands for a  *)
(* commit that happened between the read and the abort.                    *)
(***************************************************************************)
SnapshotSound(c) ==
    tx[c].state = "commit" =>
        /\ tx[c].seen < Cap[tx[c].field]
        /\ tx[c].seenVersion <= version
        /\ tx[c].seenVersion = version => tx[c].seen = doc[tx[c].field]

AbortsCounted(c) ==
    ~SpuriousAborts =>
        /\ tx[c].state = "read" => version + 1 >= tx[c].since + tx[c].tries
        /\ tx[c].state = "commit" => tx[c].seenVersion + 1 >= tx[c].since + tx[c].tries

IInv ==
    /\ TypeOK
    /\ CapRespected
    /\ FullIsStillFull
    /\ ContentionMeansProgress
    /\ \A c \in Callers : SnapshotSound(c) /\ AbortsCounted(c)

LEMMA InitIInv == Init => IInv
  BY CapAssumption, TriesAssumption
  DEF Init, IInv, TypeOK, Tx, IdleTx, CapRespected, FullIsStillFull,
      ContentionMeansProgress, SnapshotSound, AbortsCounted

\* What an abort does to its own transaction, and to no other.
LEMMA AbortStep ==
  ASSUME TypeOK, NEW c \in Callers, Abort(c)
  PROVE  /\ tx[c].state = "commit"
         /\ UNCHANGED <<doc, version>>
         /\ version # tx[c].seenVersion \/ SpuriousAborts
         /\ \A d \in Callers \ {c} : tx'[d] = tx[d]
         /\ tx'[c].since = tx[c].since /\ tx'[c].field = tx[c].field
         /\ \/ tx'[c].state = "read" /\ tx'[c].tries = tx[c].tries + 1
            \/ tx'[c].state = "contention" /\ tx[c].tries >= MaxTries
  BY DEF Abort, TypeOK, Tx

LEMMA NextIInv == IInv /\ [Next]_vars /\ TypeOK' => IInv'
<1> SUFFICES ASSUME IInv, [Next]_vars, TypeOK' PROVE IInv'
  OBVIOUS
<1> USE CapAssumption, TriesAssumption
    DEF IInv, TypeOK, Tx, CapRespected, FullIsStillFull,
        ContentionMeansProgress, SnapshotSound, AbortsCounted
<1>1. CASE UNCHANGED vars
  BY <1>1 DEF vars
<1>2. ASSUME NEW c \in Callers, NEW f \in Fields, TryIncrement(c, f) PROVE IInv'
  BY <1>2 DEF TryIncrement
<1>3. ASSUME NEW c \in Callers, Read(c) PROVE IInv'
  BY <1>3 DEF Read, AtCap
<1>4. ASSUME NEW c \in Callers, Commit(c) PROVE IInv'
  BY <1>4 DEF Commit
<1>5. ASSUME NEW c \in Callers, Abort(c) PROVE IInv'
  <2>1. /\ tx[c].since \in Nat /\ tx[c].tries \in Nat
        /\ tx[c].seenVersion \in Nat /\ version \in Nat
    OBVIOUS
  <2>2. tx[c].state = "commit" /\ (version # tx[c].seenVersion \/ SpuriousAborts)
    BY <1>5, AbortStep
  <2>3. /\ tx[c].seenVersion <= version
        /\ ~SpuriousAborts => tx[c].seenVersion + 1 >= tx[c].since + tx[c].tries
    BY <2>2
  <2>4. ~SpuriousAborts => version >= tx[c].since + tx[c].tries
    <3> HIDE DEF IInv
    <3> QED BY <2>1, <2>2, <2>3
  <2>5. SnapshotSound(c)' /\ AbortsCounted(c)'
    BY <1>5, <2>1, <2>4, AbortStep
  <2>6. ContentionMeansProgress'
    <3>1. version' = version /\ \A d \in Callers \ {c} : tx'[d] = tx[d]
      BY <1>5, AbortStep
    <3>2. tx'[c].since = tx[c].since
      BY <1>5, AbortStep
    <3>3. tx'[c].state = "contention" => tx[c].tries >= MaxTries
      BY <1>5, AbortStep
    <3> QED
      BY <2>1, <2>4, <3>1, <3>2, <3>3
  <2>7. CapRespected' /\ FullIsStillFull'
    BY <1>5 DEF Abort
  <2>8. ASSUME NEW d \in Callers \ {c} PROVE SnapshotSound(d)' /\ AbortsCounted(d)'
    BY <1>5, AbortStep
  <2> QED
    BY <2>5, <2>6, <2>7, <2>8
<1>6. ASSUME NEW c \in Callers, Answer(c) \/ Crash(c) PROVE IInv'
  BY <1>6 DEF Answer, Crash, IdleTx
<1> QED
  BY <1>1, <1>2, <1>3, <1>4, <1>5, <1>6 DEF Next

LEMMA SpecIInv == Spec => []IInv
  BY InitIInv, NextIInv, DailyQuotaTypeOK, PTL DEF Spec

\* However many threads of however many instances race, the stored counters
\* of a day stay within attempt_cap and success_cap.
THEOREM CapIsRespected == Spec => []CapRespected
  BY SpecIInv, PTL DEF IInv

\* A False that was decided by the cap check is still right when it arrives.
THEOREM FullStaysFull == Spec => []FullIsStillFull
  BY SpecIInv, PTL DEF IInv

\* A caller that fails closed has lost against max_attempts other commits.
THEOREM RefusedOnlyUnderContention == Spec => []ContentionMeansProgress
  BY SpecIInv, PTL DEF IInv

-----------------------------------------------------------------------------
LEMMA RefineInit == Init => Atomic!Init
  BY DEF Init, IdleTx, Observed, Atomic!Init, Atomic!Idle

LEMMA RefineNext == IInv /\ IInv' /\ [Next]_vars => [Atomic!Next]_(Atomic!vars)
<1> SUFFICES ASSUME IInv, IInv', [Next]_vars PROVE [Atomic!Next]_(Atomic!vars)
  OBVIOUS
<1> DEFINE answer == [c \in Callers |-> Observed(tx[c])]
<1>0. TypeOK /\ TypeOK'
  BY DEF IInv
<1>1. CASE UNCHANGED vars
  BY <1>1 DEF vars, Atomic!vars
<1>2. ASSUME NEW c \in Callers, NEW f \in Fields, TryIncrement(c, f)
      PROVE Atomic!Call(c, f)
  BY <1>0, <1>2 DEF TryIncrement, Atomic!Call, Observed, TypeOK, Tx
<1>3. ASSUME NEW c \in Callers, Read(c)
      PROVE Atomic!Deny(c) \/ UNCHANGED Atomic!vars
  BY <1>0, <1>3 DEF Read, Atomic!Deny, Atomic!vars, Observed, TypeOK, Tx
<1>4. ASSUME NEW c \in Callers, Commit(c) PROVE Atomic!Grant(c)
  <2>1. tx[c].seen = doc[tx[c].field] /\ tx[c].seen < Cap[tx[c].field]
    BY <1>4 DEF Commit, IInv, SnapshotSound
  <2> QED
    BY <1>0, <1>4, <2>1 DEF Commit, Atomic!Grant, Observed, TypeOK, Tx
<1>5. ASSUME NEW c \in Callers, Abort(c)
      PROVE Atomic!Deny(c) \/ UNCHANGED Atomic!vars
  <2>1. /\ tx[c].state = "commit" /\ doc' = doc
        /\ \A d \in Callers \ {c} : tx'[d] = tx[d]
        /\ tx'[c].field = tx[c].field
        /\ tx'[c].state \in {"read", "contention"}
    BY <1>0, <1>5, AbortStep
  <2>2. CASE tx'[c].state = "read"
    BY <2>1, <2>2 DEF Atomic!vars, Observed
  <2>3. CASE tx'[c].state = "contention"
    BY <2>1, <2>3 DEF Atomic!Deny, Observed
  <2> QED
    BY <2>1, <2>2, <2>3
<1>6. ASSUME NEW c \in Callers, Answer(c) \/ Crash(c) PROVE Atomic!Finish(c)
  <2>1. /\ tx[c].state # "idle" /\ doc' = doc
        /\ tx' = [tx EXCEPT ![c] = IdleTx(tx[c].field)]
    BY <1>6 DEF Answer, Crash
  <2>2. tx[c].state \in {"read", "commit", "granted", "full", "contention"}
    BY <1>0, <2>1 DEF TypeOK, Tx
  <2>3. Observed(tx[c]).state # "idle" /\ Observed(tx[c]).field = tx[c].field
    BY <2>2 DEF Observed
  <2>4. Observed(IdleTx(tx[c].field)) = Atomic!Idle(tx[c].field)
    BY DEF Observed, IdleTx, Atomic!Idle
  <2>5. answer' = [answer EXCEPT ![c] = Atomic!Idle(tx[c].field)]
    BY <1>0, <2>1, <2>4 DEF TypeOK
  <2> QED
    BY <2>1, <2>3, <2>5 DEF Atomic!Finish
<1> QED
  BY <1>1, <1>2, <1>3, <1>4, <1>5, <1>6 DEF Next, Atomic!Next

\* Callers may reason as if each try_* call were one indivisible step: the
\* commit is the step that grants, and a refusal changes nothing.
THEOREM TransactionsAreAtomic == Spec => ImplementsAtomicQuota
  BY RefineInit, RefineNext, SpecIInv, PTL DEF Spec, ImplementsAtomicQuota, Atomic!Spec

\* Both halves of the exact cap, for any number of threads and instances.
THEOREM CapIsExactAlways == Spec => []CapIsExact
  BY CapIsRespected, FullStaysFull, PTL DEF CapIsExact

-----------------------------------------------------------------------------
(***************************************************************************)
(* RateLimit.                                                              *)
(***************************************************************************)
\* What rounding down means.
LEMMA Division ==
  ASSUME NEW a \in Nat, NEW n \in Nat \ {0}
  PROVE  /\ a \div n \in Nat
         /\ n * (a \div n) <= a
         /\ a < n * (a \div n) + n
  BY SMTT(30)

Fleet == IF MaxInstances > 1 THEN MaxInstances ELSE 1
Share == PerInstanceLimit(Intended)

\* The shares of a whole fleet cover the limit, and exceed it by less than one
\* request for each instance.
LEMMA SharesCoverTheLimit ==
  /\ Fleet \in Nat \ {0} /\ Share \in Nat \ {0}
  /\ Fleet * Share >= Intended
  /\ Fleet * (Share - 1) < Intended
<1> DEFINE a == Intended + Fleet - 1
<1>1. Fleet \in Nat \ {0} /\ a \in Nat /\ Intended \in Nat \ {0} /\ Share = a \div Fleet
  BY LimitAssumption DEF Fleet, Share, PerInstanceLimit
<1> HIDE DEF Fleet
<1>2. Share \in Nat /\ Fleet * Share <= a /\ a < Fleet * Share + Fleet
  BY <1>1, Division
<1> HIDE DEF Share
<1>3. Fleet * Share >= Intended
  BY <1>1, <1>2
<1>4. Share # 0
  BY <1>1, <1>3
<1>5. Fleet * (Share - 1) = Fleet * Share - Fleet
  BY <1>1, <1>2
<1>6. Fleet * Share \in Nat
  BY <1>1, <1>2
<1> DEFINE x == Fleet * Share
           y == Fleet * (Share - 1)
<1>7. y < Intended
  <2>1. x \in Nat /\ x <= Intended + Fleet - 1 /\ y = x - Fleet
    BY <1>2, <1>5, <1>6
  <2> HIDE DEF x, y
  <2> QED
    BY <1>1, <2>1
<1> QED
  BY <1>1, <1>2, <1>3, <1>4, <1>7

\* Whatever a request's header said before it reached the first trusted proxy,
\* _client_ip takes the address that proxy saw for the caller's.
THEOREM KeyIsTheCaller ==
  ASSUME NEW c \in Clients, NEW f \in Forwarded
  PROVE  ClientIp(Header(f, c)) = c
<1> DEFINE h == TrustedProxyHops
           l == Len(f)
           w == [k \in 1..h |-> IF k = 1 THEN c ELSE Peer]
           all == Header(f, c)
           hops == Hops(all)
           last == l + 1..l + h
<1>1. h \in Nat \ {0}
  BY LimitAssumption DEF TrustedProxyHops
<1> HIDE DEF h
<1>2. f \in Seq(Address \cup {Blank}) /\ l \in Nat /\ c \in Address /\ Peer \in Address /\ Blank \notin Address
  BY CallersAssumption DEF Address
<1>3. w \in Seq(Address) /\ Len(w) = h /\ w[1] = c /\ \A k \in 1..h : w[k] \in Address
  BY <1>1, <1>2
<1>4. all = f \o w
  BY DEF Header, h
<1> HIDE DEF w
<1>5. /\ DOMAIN all = 1..l + h
      /\ \A k \in 1..h : all[l + k] = w[k]
  <2>1. f \in Seq(Address \cup {Blank}) /\ w \in Seq(Address \cup {Blank})
    BY <1>2, <1>3
  <2>2. Len(all) = l + h /\ all \in Seq(Address \cup {Blank})
    <3>1. f \o w \in Seq(Address \cup {Blank}) /\ Len(f \o w) = Len(f) + Len(w)
      BY <2>1
    <3> QED
      BY <1>3, <1>4, <3>1
  <2>3. \A k \in 1..h : all[l + k] = w[k]
    BY <1>1, <1>2, <1>3, <1>4, <2>1
  <2> QED
    BY <2>2, <2>3
<1> HIDE DEF all, l
<1>6. hops \subseteq 1..l + h /\ last \subseteq hops
  <2>1. ASSUME NEW j \in last PROVE j \in hops
    <3>1. j - l \in 1..h /\ l + (j - l) = j /\ j \in 1..l + h
      BY <1>1, <1>2
    <3>2. all[j] = w[j - l]
      BY <1>5, <3>1
    <3> QED
      BY <1>2, <1>3, <1>5, <3>1, <3>2 DEF Hops
  <2> QED
    BY <1>5, <2>1 DEF Hops
<1>7. /\ IsFiniteSet(hops) /\ IsFiniteSet(last)
      /\ Cardinality(last) = h /\ Cardinality(hops) \in Nat /\ Cardinality(hops) >= h
  <2>1. IsFiniteSet(1..l + h) /\ IsFiniteSet(last) /\ Cardinality(last) = h
    BY <1>1, <1>2, FS_Interval
  <2>2. IsFiniteSet(hops)
    BY <1>6, <2>1, FS_Subset
  <2>3. Cardinality(hops) \in Nat /\ Cardinality(last) <= Cardinality(hops)
    BY <1>6, <2>2, FS_Subset, FS_CardinalityType
  <2> QED
    BY <1>1, <2>1, <2>2, <2>3
<1> DEFINE after(j) == {k \in hops : k >= j}
<1>8. l + 1 \in hops /\ after(l + 1) = last
  BY <1>1, <1>2, <1>6
<1>9. ASSUME NEW j \in hops, Cardinality(after(j)) = h PROVE j = l + 1
  <2>1. IsFiniteSet(after(j)) /\ j \in 1..l + h
    BY <1>6, <1>7, FS_Subset
  <2>2. CASE j <= l + 1
    <3>1. last \subseteq after(j) /\ j \in after(j)
      BY <1>1, <1>2, <1>6, <2>1, <2>2
    <3>2. last = after(j)
      BY <1>7, <1>9, <2>1, <3>1, FS_Subset
    <3> QED
      BY <1>1, <1>2, <2>1, <2>2, <3>1, <3>2
  <2>3. CASE j > l + 1
    <3>1. after(j) \subseteq last /\ l + 1 \notin after(j)
      BY <1>1, <1>2, <1>6, <2>1, <2>3
    <3>2. after(j) = last
      BY <1>7, <1>9, <3>1, FS_Subset
    <3> QED
      BY <1>1, <1>2, <3>1, <3>2
  <2> QED
    BY <1>2, <2>1, <2>2, <2>3
<1>10. (CHOOSE j \in hops : Cardinality(after(j)) = h) = l + 1
  BY <1>7, <1>8, <1>9
<1>11. all[l + 1] = c
  BY <1>1, <1>3, <1>5
<1>12. (IF h < Cardinality(hops) THEN h ELSE Cardinality(hops)) = h
  BY <1>1, <1>7
<1> HIDE DEF hops
<1>13. hops # {}
  BY <1>8
<1> QED
  BY <1>10, <1>11, <1>12, <1>13 DEF ClientIp, hops, h, all

-----------------------------------------------------------------------------
Counter == [count : Nat, until : Nat]
Counted(i, c) ==
    IF store[i][c].count = 0 THEN [count |-> 1, until |-> clock + Window]
                             ELSE [store[i][c] EXCEPT !.count = @ + 1]

\* A request counts against its caller, and only on the instance it reached.
LEMMA HitCountsTheCaller ==
  ASSUME LimitTypeOK, NEW i \in Instances, NEW c \in Clients, NEW f \in Forwarded, Hit(i, c, f)
  PROVE  /\ \/ store' = [store EXCEPT ![i][c] = Counted(i, c)]
            \/ store' = store /\ store[i][c].count > Share
         /\ UNCHANGED <<clock, restarts>>
         /\ Counted(i, c).count <= Share =>
               /\ store' = [store EXCEPT ![i][c] = Counted(i, c)]
               /\ refusedBy' = Nobody
               /\ c = Watched => admitted' = [admitted EXCEPT ![i] = Append(@, clock)]
         /\ Counted(i, c).count > Share => UNCHANGED admitted
         /\ c # Watched => UNCHANGED admitted /\ refusedBy' = Nobody
         /\ Counted(i, c).count > Share /\ c = Watched => refusedBy' = i
         /\ Counted(i, c) \in Counter
<1>1. ClientIp(Header(f, c)) = c
  BY KeyIsTheCaller
<1>2. c \in Address
  BY DEF Address
<1>3. store[i][c] \in Counter /\ clock \in Nat /\ Window \in Nat
  BY <1>2, LimitAssumption DEF LimitTypeOK, Counter
<1>4. Counted(i, c) \in Counter
  BY <1>3 DEF Counted, Counter
<1>5. Share \in Nat
  BY SharesCoverTheLimit
<1> HIDE DEF Counter
<1>6. Counted(i, c).count \in Nat
  BY <1>4 DEF Counter
<1> QED
  BY <1>1, <1>4, <1>5, <1>6 DEF Hit, Counted, Share

\* Every step keeps the types.
LEMMA LimitTypesKept ==
  ASSUME LimitTypeOK, [LimitNext]_limitVars
  PROVE  LimitTypeOK'
<1>1. CASE UNCHANGED limitVars
  BY <1>1 DEF limitVars, LimitTypeOK
<1>2. CASE Tick
  <2>1. clock' \in 0..LastTime /\ NoRequests \in Counter
    BY <1>2, LimitAssumption DEF Tick, LimitTypeOK, NoRequests, Counter
  <2>2. store' \in [Instances -> [Address -> Counter]]
    <3>1. store \in [Instances -> [Address -> Counter]]
      BY DEF LimitTypeOK, Counter
    <3> QED
      BY <1>2, <2>1, <3>1 DEF Tick
  <2> QED
    BY <1>2, <2>1, <2>2 DEF Tick, LimitTypeOK, Counter
<1>3. ASSUME NEW i \in Instances, Restart(i) PROVE LimitTypeOK'
  <2>1. NoRequests \in Counter
    BY DEF NoRequests, Counter
  <2>2. [a \in Address |-> NoRequests] \in [Address -> Counter]
    BY <2>1
  <2> QED
    BY <1>3, <2>2 DEF Restart, LimitTypeOK, Counter
<1>4. ASSUME NEW i \in Instances, NEW c \in Clients, NEW f \in Forwarded, Hit(i, c, f) PROVE LimitTypeOK'
  <2>1. store' \in [Instances -> [Address -> Counter]]
    <3>1. store \in [Instances -> [Address -> Counter]]
      BY DEF LimitTypeOK, Counter
    <3>2. Counted(i, c) \in Counter
      BY <1>4, HitCountsTheCaller
    <3>3. store' = store \/ store' = [store EXCEPT ![i][c] = Counted(i, c)]
      BY <1>4, HitCountsTheCaller
    <3> QED
      BY <3>1, <3>2, <3>3
  <2>2. admitted' \in [Instances -> Seq(0..LastTime)]
    <3>1. admitted' = admitted \/ admitted' = [admitted EXCEPT ![i] = Append(@, clock)]
      BY <1>4 DEF Hit
    <3>2. admitted[i] \in Seq(0..LastTime) /\ clock \in 0..LastTime
      BY DEF LimitTypeOK
    <3>3. Append(admitted[i], clock) \in Seq(0..LastTime)
      BY <3>2
    <3> QED
      BY <3>1, <3>3 DEF LimitTypeOK
  <2>3. refusedBy' \in Instances \cup {Nobody} /\ UNCHANGED <<clock, restarts>>
    BY <1>4 DEF Hit
  <2> QED
    BY <2>1, <2>2, <2>3 DEF LimitTypeOK, Counter
<1> QED
  BY <1>1, <1>2, <1>3, <1>4 DEF LimitNext

\* They hold at first.
LEMMA LimitTypesHoldAtFirst == LimitInit => LimitTypeOK
<1>1. NoRequests \in Counter
  BY DEF NoRequests, Counter
<1>2. LimitInit => store \in [Instances -> [Address -> Counter]]
  BY <1>1 DEF LimitInit
<1> QED
  BY <1>2, LimitAssumption DEF LimitInit, LimitTypeOK, Counter

\* Clocks, counters and histories keep their types.
THEOREM RateLimitTypeOK == LimitSpec => []LimitTypeOK
  BY LimitTypesHoldAtFirst, LimitTypesKept, PTL DEF LimitSpec

-----------------------------------------------------------------------------
(***************************************************************************)
(* A refusal is earned.  While the watched client's counter on an instance *)
(* runs, the last requests it let in, as many as it has counted up to the  *)
(* share, fell into the counter's window; and who has just been refused is *)
(* beyond the share.                                                       *)
(***************************************************************************)
Mine(i) == store[i][Watched]
Kept(i) == IF Mine(i).count < Share THEN Mine(i).count ELSE Share
CountedInWindow(i) ==
    Mine(i).count > 0 =>
        /\ clock < Mine(i).until /\ Mine(i).until <= clock + Window
        /\ Kept(i) <= Len(admitted[i])
        /\ \A k \in 1..Len(admitted[i]) :
              k > Len(admitted[i]) - Kept(i) =>
                 Mine(i).until - Window <= admitted[i][k] /\ admitted[i][k] <= clock

EarnedInv ==
    /\ \A i \in Instances : CountedInWindow(i)
    /\ refusedBy # Nobody => Mine(refusedBy).count > Share

\* What the types say of one instance's counter and history.
LEMMA TypesOfMine ==
  ASSUME LimitTypeOK, NEW i \in Instances
  PROVE  /\ Mine(i) \in Counter /\ Mine(i).count \in Nat /\ Mine(i).until \in Nat
         /\ admitted[i] \in Seq(0..LastTime) /\ Len(admitted[i]) \in Nat
         /\ DOMAIN admitted[i] = 1..Len(admitted[i])
         /\ \A k \in 1..Len(admitted[i]) : admitted[i][k] \in Nat
         /\ clock \in Nat /\ Share \in Nat \ {0} /\ Window \in Nat \ {0}
         /\ Watched \in Address /\ Watched \in Clients
<1>1. Watched \in Address /\ Watched \in Clients /\ Share \in Nat \ {0} /\ Window \in Nat \ {0}
  BY CallersAssumption, LimitAssumption, SharesCoverTheLimit DEF Address
<1>2. Mine(i) \in Counter
  BY <1>1 DEF Mine, LimitTypeOK, Counter
<1>3. admitted[i] \in Seq(0..LastTime) /\ clock \in Nat
  BY LimitAssumption DEF LimitTypeOK
<1>4. \A k \in 1..Len(admitted[i]) : admitted[i][k] \in 0..LastTime
  <2>1. ASSUME NEW S, NEW s \in Seq(S), NEW k \in 1..Len(s) PROVE s[k] \in S
    OBVIOUS
  <2> QED
    BY <1>3, <2>1
<1> QED
  BY <1>1, <1>2, <1>3, <1>4, LimitAssumption DEF Counter

\* A request of the watched client on instance i.
LEMMA EarnedHit ==
  ASSUME LimitTypeOK, LimitTypeOK', EarnedInv, NEW i \in Instances, NEW f \in Forwarded, Hit(i, Watched, f)
  PROVE  EarnedInv'
<1> DEFINE new == Counted(i, Watched)
           n == Len(admitted[i])
<1>1. Watched \in Clients /\ Watched \in Address
  BY CallersAssumption DEF Address
<1>2. /\ new \in Counter /\ UNCHANGED clock
      /\ new.count = Mine(i).count + 1
      /\ new.until = IF Mine(i).count = 0 THEN clock + Window ELSE Mine(i).until
  <2>1. new \in Counter /\ UNCHANGED clock
    BY <1>1, HitCountsTheCaller
  <2>2. Mine(i) \in Counter
    BY TypesOfMine
  <2> QED
    BY <2>1, <2>2 DEF Counted, Mine, Counter
<1> HIDE DEF new
<1>3. ASSUME NEW j \in Instances, j # i PROVE CountedInWindow(j)'
  <2>1. store' = store \/ store' = [store EXCEPT ![i][Watched] = new]
    BY <1>1, HitCountsTheCaller DEF new
  <2>2. Mine(j)' = Mine(j)
    BY <1>3, <2>1, TypesOfMine DEF Mine, LimitTypeOK
  <2>3. admitted' = admitted \/ admitted' = [admitted EXCEPT ![i] = Append(@, clock)]
    BY DEF Hit
  <2>4. admitted'[j] = admitted[j]
    BY <1>3, <2>3 DEF LimitTypeOK
  <2> QED
    BY <1>2, <2>2, <2>4 DEF EarnedInv, CountedInWindow, Kept
<1>4. CASE new.count <= Share
  <2>1. /\ store' = [store EXCEPT ![i][Watched] = new] /\ refusedBy' = Nobody
        /\ admitted' = [admitted EXCEPT ![i] = Append(@, clock)]
    BY <1>1, <1>4, HitCountsTheCaller DEF new
  <2>2. Mine(i)' = new
    BY <1>1, <2>1 DEF Mine, LimitTypeOK
  <2>3. admitted'[i] = Append(admitted[i], clock)
    BY <2>1 DEF LimitTypeOK
  <2>4. Len(admitted'[i]) = n + 1 /\ admitted'[i][n + 1] = clock /\ \A k \in 1..n : admitted'[i][k] = admitted[i][k]
    BY <2>3, TypesOfMine
  <2> DEFINE a == admitted'[i]
             m == Mine(i).count
  <2>5. /\ m \in Nat /\ n \in Nat /\ clock \in Nat /\ Window \in Nat \ {0} /\ Share \in Nat \ {0}
        /\ \A k \in 1..n : admitted[i][k] \in Nat
        /\ Mine(i).until \in Nat
    BY TypesOfMine
  <2>6. Kept(i)' = m + 1 /\ Kept(i) = m
    BY <1>2, <1>4, <2>2, <2>5, TypesOfMine DEF Kept, Share, PerInstanceLimit
  <2>7. CASE m = 0
    <3>1. new.until = clock + Window
      BY <1>2, <2>7
    <3>2. \A k \in 1..n + 1 : k > (n + 1) - 1 => new.until - Window <= a[k] /\ a[k] <= clock
      BY <2>4, <2>5, <3>1
    <3> HIDE DEF a, n
    <3>3. CountedInWindow(i)'
      BY <1>2, <2>2, <2>4, <2>5, <2>6, <2>7, <3>1, <3>2 DEF CountedInWindow, a
    <3> QED
      BY <1>3, <2>1, <3>3 DEF EarnedInv
  <2>8. CASE m # 0
    <3>1. /\ new.until = Mine(i).until /\ clock < Mine(i).until /\ Mine(i).until <= clock + Window /\ m <= n
          /\ \A k \in 1..n : k > n - m => Mine(i).until - Window <= admitted[i][k] /\ admitted[i][k] <= clock
      BY <1>2, <2>5, <2>6, <2>8 DEF EarnedInv, CountedInWindow
    <3>2. ASSUME NEW k \in 1..n + 1, k > (n + 1) - (m + 1)
          PROVE  new.until - Window <= a[k] /\ a[k] <= clock
      <4>1. CASE k = n + 1
        BY <2>4, <2>5, <3>1, <4>1
      <4>2. CASE k # n + 1
        <5>1. k \in 1..n /\ k > n - m
          BY <2>5, <3>2, <4>2
        <5> QED
          BY <2>4, <3>1, <5>1
      <4> QED
        BY <4>1, <4>2
    <3> HIDE DEF a, n
    <3>3. CountedInWindow(i)'
      BY <1>2, <2>2, <2>4, <2>5, <2>6, <3>1, <3>2 DEF CountedInWindow, a
    <3> QED
      BY <1>3, <2>1, <3>3 DEF EarnedInv
  <2> QED
    BY <2>7, <2>8
<1>5. CASE new.count > Share
  <2>1. /\ admitted' = admitted /\ refusedBy' = i
        /\ \/ store' = [store EXCEPT ![i][Watched] = new]
           \/ store' = store /\ Mine(i).count > Share
    BY <1>1, <1>5, HitCountsTheCaller DEF new, Mine
  <2>2. Mine(i).count \in Nat /\ Share \in Nat \ {0} /\ Mine(i).count >= Share
    BY <1>2, <1>5, TypesOfMine
  <2>3. Mine(i)'.count > Share /\ Mine(i)'.until = Mine(i).until /\ Mine(i)'.count \in Nat
    <3>1. CASE store' = [store EXCEPT ![i][Watched] = new]
      <4>1. Mine(i)' = new
        BY <1>1, <3>1 DEF Mine, LimitTypeOK
      <4> QED
        BY <1>2, <1>5, <2>2, <4>1 DEF Counter
    <3>2. CASE store' = store /\ Mine(i).count > Share
      BY <2>2, <3>2 DEF Mine
    <3> QED
      BY <2>1, <3>1, <3>2
  <2>4. Kept(i) = Share /\ Kept(i)' = Share
    BY <2>2, <2>3 DEF Kept, Share, PerInstanceLimit
  <2>5. CountedInWindow(i)'
    BY <1>2, <2>1, <2>2, <2>3, <2>4 DEF EarnedInv, CountedInWindow
  <2>6. Share' = Share
    BY DEF Share, PerInstanceLimit
  <2> QED
    BY <1>3, <2>1, <2>3, <2>5, <2>6 DEF EarnedInv
<1> QED
  BY <1>2, <1>4, <1>5, TypesOfMine DEF Counter

\* Every step keeps the counters of the watched client explained by what it got.
LEMMA EarnedStep ==
  ASSUME LimitTypeOK, LimitTypeOK', EarnedInv, [LimitNext]_limitVars
  PROVE  EarnedInv'
<1>1. CASE UNCHANGED limitVars
  BY <1>1 DEF limitVars, EarnedInv, CountedInWindow, Kept, Mine
<1>2. CASE Tick
  <2>1. clock' = clock + 1 /\ refusedBy' = Nobody /\ UNCHANGED admitted
    BY <1>2 DEF Tick
  <2>2. ASSUME NEW i \in Instances PROVE CountedInWindow(i)'
    <3>1. Mine(i)' = IF Mine(i).until <= clock + 1 THEN NoRequests ELSE Mine(i)
      BY <1>2, TypesOfMine DEF Tick, Mine
    <3>2. CASE Mine(i).until <= clock + 1
      BY <3>1, <3>2 DEF NoRequests, CountedInWindow
    <3>3. CASE ~(Mine(i).until <= clock + 1)
      <4>1. Mine(i)' = Mine(i) /\ Kept(i)' = Kept(i)
        BY <3>1, <3>3 DEF Kept
      <4>2. admitted'[i] = admitted[i]
        BY <2>1
      <4>3. CountedInWindow(i)
        BY DEF EarnedInv
      <4>4. /\ Mine(i).until \in Nat /\ clock \in Nat /\ Window \in Nat
            /\ \A k \in 1..Len(admitted[i]) : admitted[i][k] \in Nat
        BY TypesOfMine
      <4> QED
        BY <2>1, <3>3, <4>1, <4>2, <4>3, <4>4 DEF CountedInWindow
    <3> QED
      BY <3>2, <3>3
  <2> QED
    BY <2>1, <2>2 DEF EarnedInv
<1>3. ASSUME NEW j \in Instances, Restart(j) PROVE EarnedInv'
  <2>1. /\ refusedBy' = Nobody /\ UNCHANGED <<clock, admitted>>
        /\ store' = [store EXCEPT ![j] = [a \in Address |-> NoRequests]]
    BY <1>3 DEF Restart
  <2>2. ASSUME NEW i \in Instances PROVE CountedInWindow(i)'
    <3>1. CASE i = j
      <4>1. Mine(i)' = NoRequests
        BY <2>1, <3>1, TypesOfMine DEF Mine, LimitTypeOK
      <4> QED
        BY <4>1 DEF CountedInWindow, NoRequests
    <3>2. CASE i # j
      <4>1. Mine(i)' = Mine(i)
        BY <2>1, <3>2 DEF Mine, LimitTypeOK
      <4> QED
        BY <2>1, <4>1 DEF EarnedInv, CountedInWindow, Kept
    <3> QED
      BY <3>1, <3>2
  <2> QED
    BY <2>1, <2>2 DEF EarnedInv
<1>4. ASSUME NEW j \in Instances, NEW c \in Clients, NEW f \in Forwarded, Hit(j, c, f), c # Watched
      PROVE  EarnedInv'
  <2>1. /\ UNCHANGED <<clock, admitted>> /\ refusedBy' = Nobody
        /\ store' = store \/ store' = [store EXCEPT ![j][c] = Counted(j, c)]
    BY <1>4, HitCountsTheCaller
  <2>2. ASSUME NEW i \in Instances PROVE Mine(i)' = Mine(i)
    BY <1>4, <2>1, TypesOfMine DEF Mine, LimitTypeOK
  <2> QED
    BY <2>1, <2>2 DEF EarnedInv, CountedInWindow, Kept
<1> QED
  BY <1>1, <1>2, <1>3, <1>4, EarnedHit DEF LimitNext

\* A counter beyond the share stands for a whole share let in within the window.
LEMMA EarnedShown ==
  ASSUME LimitTypeOK, EarnedInv, Fleet <= Cardinality(Instances)
  PROVE  RefusalIsEarned
<1> SUFFICES ASSUME refusedBy # Nobody
             PROVE  Cardinality(Within(refusedBy, clock - Window + 1)) * Cardinality(Instances) >= Intended
  BY DEF RefusalIsEarned
<1> DEFINE i == refusedBy
           n == Len(admitted[i])
           S == Within(i, clock - Window + 1)
           K == (n - Share + 1)..n
<1>1. i \in Instances /\ Mine(i).count > Share
  BY DEF LimitTypeOK, EarnedInv
<1> HIDE DEF i
<1>2. /\ Mine(i).count \in Nat /\ Mine(i).until \in Nat /\ n \in Nat /\ clock \in Nat
      /\ Share \in Nat \ {0} /\ Window \in Nat \ {0} /\ DOMAIN admitted[i] = 1..n
      /\ \A k \in 1..n : admitted[i][k] \in Nat
  BY <1>1, TypesOfMine
<1>3. Kept(i) = Share
  BY <1>1, <1>2 DEF Kept
<1>4. /\ clock < Mine(i).until /\ Share <= n
      /\ \A k \in 1..n : k > n - Share => Mine(i).until - Window <= admitted[i][k] /\ admitted[i][k] <= clock
  BY <1>1, <1>2, <1>3 DEF EarnedInv, CountedInWindow
<1>5. ASSUME NEW k \in K PROVE k \in S
  <2>1. k \in 1..n /\ k > n - Share
    BY <1>2, <1>4
  <2>2. admitted[i][k] \in Nat /\ Mine(i).until - Window <= admitted[i][k] /\ admitted[i][k] <= clock
    BY <1>2, <1>4, <2>1
  <2>3. admitted[i][k] \in (clock - Window + 1)..((clock - Window + 1) + Window - 1)
    BY <1>2, <1>4, <2>2
  <2> QED
    BY <1>2, <2>1, <2>3 DEF Within
<1>6. IsFiniteSet(S) /\ Cardinality(S) \in Nat /\ Cardinality(K) <= Cardinality(S)
  <2>1. S \subseteq 1..n /\ IsFiniteSet(1..n)
    BY <1>2, FS_Interval DEF Within
  <2>2. IsFiniteSet(S)
    BY <2>1, FS_Subset
  <2> QED
    BY <1>5, <2>2, FS_Subset, FS_CardinalityType
<1>7. Cardinality(K) = Share
  <2>1. n - Share + 1 \in Int /\ n \in Int /\ ~(n - Share + 1 > n) /\ n - (n - Share + 1) + 1 = Share
    BY <1>2
  <2>2. \A a, b \in Int : ~(a > b) => Cardinality(a..b) = b - a + 1
    BY FS_Interval
  <2> QED
    BY <2>1, <2>2
<1>8. Cardinality(Instances) \in Nat
  BY CallersAssumption, FS_CardinalityType
<1>9. Fleet \in Nat /\ Fleet * Share >= Intended
  BY SharesCoverTheLimit
<1> DEFINE s == Cardinality(S)
           c == Cardinality(Instances)
<1>10. s \in Nat /\ c \in Nat /\ s >= Share /\ c >= Fleet
  BY <1>2, <1>6, <1>7, <1>8, <1>9
<1> HIDE DEF s, c
<1>11. s * c >= Share * Fleet
  <2>1. s * c >= Share * c
    BY <1>2, <1>10
  <2>2. Share * c >= Share * Fleet
    BY <1>2, <1>9, <1>10
  <2> QED
    BY <1>2, <1>9, <1>10, <2>1, <2>2
<1>12. Share * Fleet = Fleet * Share
  BY <1>2, <1>9
<1>13. s * c >= Intended
  BY <1>2, <1>9, <1>10, <1>11, <1>12, LimitAssumption
<1> QED
  BY <1>13 DEF s, c, i

\* With as many instances as the limit was divided by, or more, nobody is
\* refused for what others did or below a fair share.
THEOREM RefusalsAreEarned ==
  ASSUME Fleet <= Cardinality(Instances)
  PROVE  LimitSpec => []RefusalIsEarned
<1> DEFINE Inv == LimitTypeOK /\ EarnedInv
<1>1. LimitInit => Inv
  <2>1. LimitInit => \A i \in Instances : Mine(i).count = 0
    BY CallersAssumption DEF LimitInit, Mine, NoRequests, Address
  <2> QED
    BY <2>1, LimitTypesHoldAtFirst DEF LimitInit, EarnedInv, CountedInWindow
<1>2. Inv /\ [LimitNext]_limitVars => Inv'
  BY LimitTypesKept, EarnedStep
<1>3. Inv => RefusalIsEarned
  BY EarnedShown
<1> QED
  BY <1>1, <1>2, <1>3, PTL DEF LimitSpec

-----------------------------------------------------------------------------
(***************************************************************************)
(* A burst is bounded.  Each request let in can be labelled with the life  *)
(* of its instance (0: the first one, l: the one the l-th restart began),  *)
(* the time its window opened and its number in that window, so that the   *)
(* windows of a life do not overlap, the lives of an instance follow each  *)
(* other, and no two requests of a window have the same number.  A period  *)
(* of a window's length then meets, on each instance, one window that      *)
(* opened before it, without its first request, and one for each life that *)
(* opened within it.                                                       *)
(***************************************************************************)
Label == [life : Nat, open : Int, nth : Nat]

\* The labels g of the requests let in at the times a, by an instance in life l.
Numbered(a, g, l, now) ==
    \A k \in 1..Len(a) :
        /\ g[k].life <= l /\ g[k].nth \in 1..Share
        /\ g[k].open <= a[k] /\ a[k] < g[k].open + Window
        /\ a[k] <= now
        /\ g[k].nth = 1 => a[k] = g[k].open
Apart(a, g) ==
    \A k, m \in 1..Len(a) :
        /\ g[k].life = g[m].life =>
              \/ g[k].open = g[m].open
              \/ g[k].open + Window <= g[m].open
              \/ g[m].open + Window <= g[k].open
        /\ g[k] = g[m] => k = m
        /\ g[k].life < g[m].life => a[k] <= g[m].open
\* Its counter is s.
Running(a, g, l, now, s) ==
    \A k \in 1..Len(a) :
        /\ s.count = 0 /\ g[k].life = l => g[k].open + Window <= now
        /\ s.count # 0 /\ g[k].life = l =>
              \/ g[k].open + Window = s.until /\ g[k].nth <= s.count
              \/ g[k].open + Window + Window <= s.until
        /\ s.count # 0 /\ g[k].life < l => a[k] + Window <= s.until
Labelled(a, g, l, now, s) == Numbered(a, g, l, now) /\ Apart(a, g) /\ Running(a, g, l, now, s)

Owned(tag, owner, life) ==
    \A i \in Instances :
        /\ life[i] # 0 => owner[life[i]] = i
        /\ \A k \in 1..Len(admitted[i]) : tag[i][k].life # 0 => owner[tag[i][k].life] = i

Explained(tag, owner, life) ==
    /\ tag \in [Instances -> [Nat -> Label]] /\ owner \in [Nat -> Instances]
    /\ life \in [Instances -> 0..restarts]
    /\ Owned(tag, owner, life)
    /\ \A i \in Instances : Labelled(admitted[i], tag[i], life[i], clock, Mine(i))

BurstInv == \E tag, owner, life : Explained(tag, owner, life)

\* What the types say of a request's label.
LEMMA TypesOfLabels ==
  ASSUME NEW a \in Seq(0..LastTime), NEW g \in [Nat -> Label]
  PROVE  /\ Len(a) \in Nat
         /\ \A k \in 1..Len(a) :
               a[k] \in Nat /\ g[k].life \in Nat /\ g[k].open \in Int /\ g[k].nth \in Nat
<1>1. Len(a) \in Nat /\ \A k \in 1..Len(a) : a[k] \in Nat /\ k \in Nat
  <2>1. ASSUME NEW S, NEW s \in Seq(S) PROVE Len(s) \in Nat /\ \A k \in 1..Len(s) : s[k] \in S
    OBVIOUS
  <2>2. Len(a) \in Nat /\ \A k \in 1..Len(a) : a[k] \in 0..LastTime
    BY <2>1
  <2> QED
    BY <2>2
<1> SUFFICES ASSUME NEW k \in 1..Len(a)
             PROVE  g[k].life \in Nat /\ g[k].open \in Int /\ g[k].nth \in Nat
  BY <1>1
<1>2. g[k] \in Label
  BY <1>1
<1> QED
  BY <1>2 DEF Label

\* A request let in at the time now takes the counter from s to w and gets the label new.
Admitted(now, s, w, l, new) ==
    /\ w.count = s.count + 1 /\ w.count <= Share
    /\ s.count = 0 => w.until = now + Window
    /\ s.count # 0 => w.until = s.until /\ now < s.until /\ s.until <= now + Window
    /\ new = [life |-> l, open |-> w.until - Window, nth |-> w.count]
Appended(a, g, now, new, b, h) == b = Append(a, now) /\ h = [g EXCEPT ![Len(b)] = new]

\* A request let in gets the label of the window it counts in.
LEMMA LabelledHit ==
  ASSUME NEW a \in Seq(0..LastTime), NEW g \in [Nat -> Label], NEW l \in Nat, NEW now \in Nat,
         NEW s \in Counter, NEW w \in Counter, NEW b \in Seq(0..LastTime), NEW new, NEW h,
         Labelled(a, g, l, now, s), Admitted(now, s, w, l, new), Appended(a, g, now, new, b, h)
  PROVE  new \in Label /\ Labelled(b, h, l, now, w)
<1> DEFINE n == Len(a)
           u == w.until
<1>0. /\ b = Append(a, now) /\ h = [g EXCEPT ![Len(b)] = new]
      /\ w.count = s.count + 1 /\ w.count <= Share
      /\ s.count = 0 => w.until = now + Window
      /\ s.count # 0 => w.until = s.until /\ now < s.until /\ s.until <= now + Window
      /\ new = [life |-> l, open |-> w.until - Window, nth |-> w.count]
  BY DEF Admitted, Appended
<1>1. /\ s.count \in Nat /\ s.until \in Nat /\ n \in Nat /\ Share \in Nat \ {0}
      /\ Window \in Nat \ {0} /\ \A k \in 1..n : a[k] \in Nat
  BY LimitAssumption, SharesCoverTheLimit, TypesOfLabels DEF Counter
<1>2. /\ Len(b) = n + 1 /\ b[n + 1] = now /\ \A k \in 1..n : b[k] = a[k]
  BY <1>0
<1>3. u \in Nat /\ u - Window \in Int /\ w.count \in Nat /\ w.count # 0
  BY <1>0, <1>1 DEF Counter
<1>4. now < u /\ u <= now + Window /\ (s.count # 0 => u = s.until) /\ (s.count = 0 => u = now + Window)
  BY <1>0, <1>1
<1>5. new \in Label /\ new.life = l /\ new.open = u - Window /\ new.nth = w.count
  BY <1>0, <1>3 DEF Label
<1> HIDE DEF u
<1>6. \A k \in 1..n :
         /\ g[k].life \in Nat /\ g[k].open \in Int /\ g[k].nth \in Nat
         /\ g[k].life <= l /\ a[k] <= now
  BY <1>0, <1>1 DEF Labelled, Numbered, Label
<1>7. ASSUME NEW k \in 1..n
      PROVE  /\ g[k].life = l => \/ g[k].open + Window = u /\ g[k].nth < w.count
                                 \/ g[k].open + Window + Window <= u
             /\ g[k].life < l => a[k] + Window <= u
  <2>1. Running(a, g, l, now, s)
    BY DEF Labelled
  <2>2. CASE s.count = 0
    <3>1. g[k].life = l => g[k].open + Window <= now
      BY <2>1, <2>2 DEF Running
    <3> QED
      BY <1>0, <1>1, <1>4, <1>6, <2>2, <3>1
  <2>3. CASE s.count # 0
    <3>1. /\ g[k].life = l => \/ g[k].open + Window = s.until /\ g[k].nth <= s.count
                              \/ g[k].open + Window + Window <= s.until
          /\ g[k].life < l => a[k] + Window <= s.until
      BY <2>1, <2>3 DEF Running
    <3>2. g[k].open \in Int /\ g[k].nth \in Nat /\ a[k] \in Nat
      BY <1>0, <1>1, <1>6
    <3>3. u = s.until /\ s.count \in Nat /\ w.count = s.count + 1
      BY <1>0, <1>1, <1>4, <2>3
    <3>4. g[k].nth <= s.count => g[k].nth < w.count
      BY <3>2, <3>3
    <3> QED
      BY <3>1, <3>3, <3>4
  <2> QED
    BY <2>2, <2>3
<1>10. ASSUME NEW k \in 1..n
       PROVE  /\ g[k].life = l => \/ g[k].open = new.open /\ g[k].nth < new.nth
                                  \/ g[k].open + Window <= new.open
              /\ g[k].life < l => a[k] <= new.open
  <2>1. g[k].open \in Int /\ a[k] \in Int /\ u \in Int /\ Window \in Int
    BY <1>0, <1>1, <1>3, <1>6
  <2>2. /\ g[k].open + Window = u <=> g[k].open = u - Window
        /\ g[k].open + Window + Window <= u <=> g[k].open + Window <= u - Window
        /\ a[k] + Window <= u <=> a[k] <= u - Window
    <3> DEFINE x == g[k].open
               y == a[k]
    <3>1. x \in Int /\ y \in Int
      BY <2>1
    <3> HIDE DEF x, y
    <3>2. /\ x + Window = u <=> x = u - Window
          /\ x + Window + Window <= u <=> x + Window <= u - Window
          /\ y + Window <= u <=> y <= u - Window
      BY <2>1, <3>1
    <3> QED
      BY <3>2 DEF x, y
  <2> QED
    BY <1>5, <1>7, <2>2
<1>8. h[n + 1] = new /\ \A k \in 1..n : h[k] = g[k] /\ h[k] # new
  <2>1. ASSUME NEW k \in 1..n PROVE h[k] = g[k] /\ g[k] # new
    <3>1. h[k] = g[k]
      BY <1>0, <1>1, <1>2
    <3>2. g[k].open \in Int /\ g[k].nth \in Nat
      BY <1>6
    <3>3. new.open \in Int /\ new.nth \in Nat /\ new.life = l
      BY <1>3, <1>5
    <3>4. g[k].life = l /\ g[k].open = new.open => g[k].nth < new.nth
      <4>1. Window \in Nat \ {0}
        BY <1>0, <1>1
      <4>2. ~(g[k].open = new.open /\ g[k].open + Window <= new.open)
        BY <3>2, <3>3, <4>1
      <4> QED
        BY <1>10, <4>2
    <3> QED
      BY <3>1, <3>2, <3>3, <3>4
  <2> QED
    BY <1>0, <1>1, <1>2, <2>1
<1>9. \A k \in 1..n + 1 : k \in 1..n \/ k = n + 1
  BY <1>0, <1>1
<1>11. Numbered(b, h, l, now)
  <2>1. ASSUME NEW k \in 1..n + 1
        PROVE  /\ h[k].life <= l /\ h[k].nth \in 1..Share
               /\ h[k].open <= b[k] /\ b[k] < h[k].open + Window
               /\ b[k] <= now
               /\ h[k].nth = 1 => b[k] = h[k].open
    <3>1. CASE k \in 1..n
      <4>1. h[k] = g[k] /\ b[k] = a[k]
        BY <1>2, <1>8, <3>1
      <4> QED
        BY <3>1, <4>1 DEF Labelled, Numbered
    <3>2. CASE k = n + 1
      <4>1. h[k] = new /\ b[k] = now
        BY <1>2, <1>8, <3>2
      <4>2. w.count = 1 => now = u - Window
        BY <1>0, <1>1, <1>4
      <4> QED
        BY <1>0, <1>1, <1>3, <1>4, <1>5, <4>1, <4>2
    <3> QED
      BY <1>9, <3>1, <3>2
  <2> QED
    BY <1>2, <2>1 DEF Numbered
<1>12. Apart(b, h)
  <2>1. ASSUME NEW k \in 1..n + 1, NEW m \in 1..n + 1
        PROVE  /\ h[k].life = h[m].life =>
                     \/ h[k].open = h[m].open
                     \/ h[k].open + Window <= h[m].open
                     \/ h[m].open + Window <= h[k].open
               /\ h[k] = h[m] => k = m
               /\ h[k].life < h[m].life => b[k] <= h[m].open
    <3>1. CASE k \in 1..n /\ m \in 1..n
      <4>1. h[k] = g[k] /\ h[m] = g[m] /\ b[k] = a[k]
        BY <1>2, <1>8, <3>1
      <4> QED
        BY <3>1, <4>1 DEF Labelled, Apart
    <3>2. CASE k \in 1..n /\ m = n + 1
      <4>1. h[k] = g[k] /\ h[m] = new /\ b[k] = a[k] /\ h[k] # h[m]
        BY <1>2, <1>8, <3>2
      <4>2. g[k].life \in Nat /\ g[k].open \in Int /\ g[k].life <= l /\ a[k] \in Nat
        BY <1>0, <1>1, <1>6, <3>2
      <4> QED
        BY <1>5, <1>10, <3>2, <4>1, <4>2
    <3>3. CASE k = n + 1 /\ m \in 1..n
      <4>1. h[k] = new /\ h[m] = g[m] /\ h[k] # h[m]
        BY <1>8, <3>3
      <4>2. g[m].life \in Nat /\ g[m].open \in Int /\ g[m].life <= l
        BY <1>6, <3>3
      <4> QED
        BY <1>5, <1>10, <3>3, <4>1, <4>2
    <3>4. CASE k = n + 1 /\ m = n + 1
      BY <1>5, <1>8, <3>4
    <3> QED
      BY <1>9, <3>1, <3>2, <3>3, <3>4
  <2> QED
    BY <1>2, <2>1 DEF Apart
<1>13. Running(b, h, l, now, w)
  <2>1. ASSUME NEW k \in 1..n + 1
        PROVE  /\ h[k].life = l =>
                     \/ h[k].open + Window = u /\ h[k].nth <= w.count
                     \/ h[k].open + Window + Window <= u
               /\ h[k].life < l => b[k] + Window <= u
    <3>1. CASE k \in 1..n
      <4>1. h[k] = g[k] /\ b[k] = a[k]
        BY <1>2, <1>8, <3>1
      <4>2. g[k].nth \in Nat
        BY <1>6, <3>1
      <4> QED
        BY <1>3, <1>7, <3>1, <4>1, <4>2
    <3>2. CASE k = n + 1
      <4>1. h[k] = new
        BY <1>8, <3>2
      <4> QED
        BY <1>0, <1>1, <1>3, <1>5, <4>1
    <3> QED
      BY <1>9, <3>1, <3>2
  <2> QED
    BY <1>2, <1>3, <2>1 DEF Running, u
<1> QED
  BY <1>5, <1>11, <1>12, <1>13 DEF Labelled

\* Time passes: a counter whose window is over is dropped.
LEMMA LabelledTick ==
  ASSUME NEW a \in Seq(0..LastTime), NEW g \in [Nat -> Label], NEW l \in Nat, NEW now \in Nat,
         NEW s \in Counter, Labelled(a, g, l, now, s)
  PROVE  Labelled(a, g, l, now + 1, IF s.until <= now + 1 THEN NoRequests ELSE s)
<1>1. /\ s.count \in Nat /\ s.until \in Nat /\ Window \in Nat
      /\ \A k \in 1..Len(a) : a[k] \in Nat /\ g[k].open \in Int
  BY LimitAssumption, TypesOfLabels DEF Counter
<1>2. Numbered(a, g, l, now + 1)
  BY <1>1 DEF Labelled, Numbered
<1>3. ASSUME NEW k \in 1..Len(a), s.until <= now + 1, g[k].life = l
      PROVE  g[k].open + Window <= now + 1
  <2> DEFINE x == g[k].open
  <2>1. x \in Int
    BY <1>1
  <2>2. x + Window <= now \/ x + Window = s.until \/ x + Window + Window <= s.until
    BY <1>3 DEF Labelled, Running
  <2> HIDE DEF x
  <2>3. x + Window <= now + 1
    BY <1>1, <1>3, <2>1, <2>2
  <2> QED
    BY <2>3 DEF x
<1>4. CASE s.until <= now + 1
  BY <1>2, <1>3, <1>4 DEF Labelled, Running, NoRequests
<1>5. CASE ~(s.until <= now + 1)
  <2>1. ASSUME NEW k \in 1..Len(a), g[k].open + Window <= now PROVE g[k].open + Window <= now + 1
    <3> DEFINE x == g[k].open + Window
    <3>1. x \in Int /\ x <= now
      BY <1>1, <2>1
    <3> HIDE DEF x
    <3>2. x <= now + 1
      BY <3>1
    <3> QED
      BY <3>2 DEF x
  <2>2. Running(a, g, l, now + 1, s)
    BY <2>1 DEF Labelled, Running
  <2> QED
    BY <1>2, <1>5, <2>2 DEF Labelled
<1> QED
  BY <1>4, <1>5

\* An instance is replaced: its counters are gone, a new life begins.
LEMMA LabelledRestart ==
  ASSUME NEW a \in Seq(0..LastTime), NEW g \in [Nat -> Label], NEW l \in Nat, NEW now \in Nat,
         NEW s \in Counter, Labelled(a, g, l, now, s), NEW m \in Nat, l < m
  PROVE  Labelled(a, g, m, now, NoRequests)
<1>1. \A k \in 1..Len(a) : g[k].life \in Nat /\ g[k].life <= l
  BY TypesOfLabels DEF Labelled, Numbered
<1> QED
  BY <1>1 DEF Labelled, Numbered, Running, NoRequests

\* A refused request counts too, in a window that is running.
LEMMA LabelledRefused ==
  ASSUME NEW a \in Seq(0..LastTime), NEW g \in [Nat -> Label], NEW l \in Nat, NEW now \in Nat,
         NEW s \in Counter, Labelled(a, g, l, now, s), s.count # 0,
         NEW w \in Counter, w.until = s.until, w.count >= s.count
  PROVE  Labelled(a, g, l, now, w)
<1>1. /\ s.count \in Nat /\ w.count \in Nat /\ w.count # 0
      /\ \A k \in 1..Len(a) : g[k].nth \in Nat
  BY TypesOfLabels DEF Counter
<1> QED
  BY <1>1 DEF Labelled, Running

\* A request of the watched client keeps all requests let in labelled.
LEMMA BurstHit ==
  ASSUME LimitTypeOK, EarnedInv, BurstInv, NEW i \in Instances, NEW f \in Forwarded, Hit(i, Watched, f)
  PROVE  BurstInv'
<1> DEFINE new == Counted(i, Watched)
<1>1. Watched \in Clients /\ Watched \in Address
  BY CallersAssumption DEF Address
<1>2. /\ new \in Counter /\ UNCHANGED <<clock, restarts>>
      /\ new.count = Mine(i).count + 1
      /\ new.until = IF Mine(i).count = 0 THEN clock + Window ELSE Mine(i).until
  <2>1. new \in Counter /\ UNCHANGED <<clock, restarts>>
    BY <1>1, HitCountsTheCaller
  <2>2. Mine(i) \in Counter
    BY TypesOfMine
  <2> QED
    BY <2>1, <2>2 DEF Counted, Mine, Counter
<1> HIDE DEF new
<1>0. PICK tag, owner, life : Explained(tag, owner, life)
  BY DEF BurstInv
<1>3. /\ tag \in [Instances -> [Nat -> Label]] /\ owner \in [Nat -> Instances]
      /\ life \in [Instances -> 0..restarts]
      /\ Owned(tag, owner, life)
      /\ \A j \in Instances : Labelled(admitted[j], tag[j], life[j], clock, Mine(j))
  BY <1>0 DEF Explained
<1>4. \A j \in Instances : /\ admitted[j] \in Seq(0..LastTime) /\ Len(admitted[j]) \in Nat
                            /\ tag[j] \in [Nat -> Label] /\ life[j] \in Nat
                            /\ Mine(j) \in Counter
  <2>1. \A j \in Instances : admitted[j] \in Seq(0..LastTime) /\ Mine(j) \in Counter
    BY TypesOfMine
  <2>3. restarts \in Nat
    BY DEF LimitTypeOK
  <2> QED
    BY <1>3, <2>1, <2>3, TypesOfMine
<1>5. /\ clock \in Nat /\ clock \in 0..LastTime /\ Share \in Nat \ {0} /\ Mine(i).count \in Nat /\ Mine(i).until \in Nat
      /\ Share' = Share
  BY TypesOfMine DEF Share, PerInstanceLimit, LimitTypeOK
<1>6. store' = store \/ store' = [store EXCEPT ![i][Watched] = new]
  BY <1>1, HitCountsTheCaller DEF new
<1>7. ASSUME NEW j \in Instances, j # i PROVE Mine(j)' = Mine(j) /\ admitted'[j] = admitted[j]
  <2>1. admitted' = admitted \/ admitted' = [admitted EXCEPT ![i] = Append(@, clock)]
    BY DEF Hit
  <2> QED
    BY <1>1, <1>6, <1>7, <2>1 DEF Mine, LimitTypeOK
<1>8. CASE new.count <= Share
  <2>1. /\ store' = [store EXCEPT ![i][Watched] = new]
        /\ admitted' = [admitted EXCEPT ![i] = Append(@, clock)]
    BY <1>1, <1>8, HitCountsTheCaller DEF new
  <2>2. Mine(i)' = new /\ admitted'[i] = Append(admitted[i], clock)
    BY <1>1, <2>1 DEF Mine, LimitTypeOK
  <2> DEFINE b == Append(admitted[i], clock)
             lab == [life |-> life[i], open |-> new.until - Window, nth |-> new.count]
             h == [tag[i] EXCEPT ![Len(b)] = lab]
  <2>3. Mine(i).count # 0 => clock < Mine(i).until /\ Mine(i).until <= clock + Window
    BY <1>5 DEF EarnedInv, CountedInWindow
  <2>4. b \in Seq(0..LastTime) /\ Len(b) = Len(admitted[i]) + 1 /\ Len(b) \in Nat
    <3>1. ASSUME NEW S, NEW s \in Seq(S), NEW x \in S
          PROVE  Append(s, x) \in Seq(S) /\ Len(Append(s, x)) = Len(s) + 1 /\ Len(s) \in Nat
      OBVIOUS
    <3> QED
      BY <1>4, <1>5, <3>1
  <2>5. lab \in Label /\ Labelled(b, h, life[i], clock, new)
    <3>1. Labelled(admitted[i], tag[i], life[i], clock, Mine(i))
      BY <1>3
    <3>2. /\ b = Append(admitted[i], clock)
          /\ lab = [life |-> life[i], open |-> new.until - Window, nth |-> new.count]
      OBVIOUS
    <3>5. h = [tag[i] EXCEPT ![Len(b)] = lab]
      <4> HIDE DEF lab, b
      <4> QED
        OBVIOUS
    <3>3. /\ admitted[i] \in Seq(0..LastTime) /\ tag[i] \in [Nat -> Label] /\ life[i] \in Nat
          /\ Mine(i) \in Counter /\ new \in Counter /\ b \in Seq(0..LastTime) /\ clock \in Nat
      BY <1>2, <1>4, <1>5, <2>4
    <3> HIDE DEF h, lab, b
    <3>6. /\ new.count = Mine(i).count + 1
          /\ Mine(i).count = 0 => new.until = clock + Window
          /\ Mine(i).count # 0 => new.until = Mine(i).until
      BY <1>2
    <3> DEFINE a == admitted[i]
               g == tag[i]
               l == life[i]
               s == Mine(i)
    <3>7. /\ a \in Seq(0..LastTime) /\ g \in [Nat -> Label] /\ l \in Nat /\ clock \in Nat /\ s \in Counter
          /\ new \in Counter /\ b \in Seq(0..LastTime) /\ Labelled(a, g, l, clock, s)
      BY <3>1, <3>3
    <3>9. Admitted(clock, s, new, l, lab)
      BY <1>8, <2>3, <3>2, <3>6 DEF Admitted
    <3>10. Appended(a, g, clock, lab, b, h)
      BY <3>2, <3>5 DEF Appended
    <3> HIDE DEF a, g, l, s
    <3>8. lab \in Label /\ Labelled(b, h, l, clock, new)
      BY <3>7, <3>9, <3>10, LabelledHit
    <3> QED
      BY <3>8 DEF l
  <2>6. h \in [Nat -> Label] /\ h[Len(b)] = lab /\ \A k \in 1..Len(admitted[i]) : h[k] = tag[i][k]
    <3> HIDE DEF lab, b
    <3> QED
      BY <1>4, <2>4, <2>5
  <2>7. lab.life = life[i]
    OBVIOUS
  <2> HIDE DEF h, lab, b
  <2>8. PICK tag1 : /\ tag1 \in [Instances -> [Nat -> Label]] /\ tag1[i] = h
                     /\ \A j \in Instances : j # i => tag1[j] = tag[j]
    <3> WITNESS [tag EXCEPT ![i] = h]
    <3> QED
      BY <1>3, <2>6
  <2>9. ASSUME NEW j \in Instances
        PROVE  Labelled(admitted'[j], tag1[j], life[j], clock, Mine(j)')
    <3>1. CASE j = i
      BY <2>2, <2>5, <2>8, <3>1 DEF b
    <3>2. CASE j # i
      BY <1>3, <1>7, <2>8, <3>2
    <3> QED
      BY <3>1, <3>2
  <2>10. ASSUME NEW j \in Instances, NEW k \in 1..Len(admitted'[j]), tag1[j][k].life # 0
         PROVE  owner[tag1[j][k].life] = j
    <3>1. CASE j # i
      <4>1. admitted'[j] = admitted[j] /\ tag1[j] = tag[j]
        BY <1>7, <2>8, <3>1
      <4> QED
        BY <1>3, <2>10, <4>1 DEF Owned
    <3>2. CASE j = i /\ k \in 1..Len(admitted[i])
      <4>1. tag1[j][k] = tag[i][k]
        BY <2>6, <2>8, <3>2
      <4> QED
        BY <1>3, <2>10, <3>2, <4>1 DEF Owned
    <3>3. CASE j = i /\ k \notin 1..Len(admitted[i])
      <4>1. k = Len(b)
        <5>1. k \in 1..Len(b)
          BY <2>2, <3>3 DEF b
        <5> DEFINE n == Len(admitted[i])
        <5>2. n \in Nat /\ Len(b) = n + 1 /\ k \notin 1..n
          BY <1>4, <2>4, <3>3
        <5> HIDE DEF n
        <5> QED
          BY <5>1, <5>2
      <4>2. tag1[j][k].life = life[i]
        BY <2>6, <2>7, <2>8, <3>3, <4>1
      <4> QED
        BY <1>3, <2>10, <3>3, <4>2 DEF Owned
    <3> QED
      BY <3>1, <3>2, <3>3
  <2>11. \A j \in Instances : life[j] # 0 => owner[life[j]] = j
    BY <1>3 DEF Owned
  <2>12. Owned(tag1, owner, life)'
    <3>1. \A j \in Instances : \A k \in 1..Len(admitted'[j]) :
             tag1[j][k].life # 0 => owner[tag1[j][k].life] = j
      BY <2>10
    <3> QED
      BY <2>11, <3>1 DEF Owned
  <2>13. \A j \in Instances : Labelled(admitted[j], tag1[j], life[j], clock, Mine(j))'
    BY <1>2, <2>9
  <2>14. Explained(tag1, owner, life)'
    BY <1>2, <1>3, <2>8, <2>12, <2>13 DEF Explained
  <2> QED
    BY <2>14 DEF BurstInv
<1>9. CASE new.count > Share
  <2>1. /\ admitted' = admitted
        /\ \/ store' = [store EXCEPT ![i][Watched] = new]
           \/ store' = store
    BY <1>1, <1>9, HitCountsTheCaller DEF new
  <2>2. Mine(i).count # 0
    BY <1>2, <1>5, <1>9
  <2>3. Mine(i)' = new \/ Mine(i)' = Mine(i)
    <3>1. CASE store' = store
      BY <3>1 DEF Mine
    <3>2. CASE store' = [store EXCEPT ![i][Watched] = new]
      BY <1>1, <3>2 DEF Mine, LimitTypeOK
    <3> QED
      BY <2>1, <3>1, <3>2
  <2>4. new.until = Mine(i).until /\ new.count >= Mine(i).count
    BY <1>2, <1>5, <2>2
  <2>5. ASSUME NEW j \in Instances
        PROVE  Labelled(admitted'[j], tag[j], life[j], clock, Mine(j)')
    <3>1. Labelled(admitted[j], tag[j], life[j], clock, Mine(j))
      BY <1>3
    <3>2. CASE Mine(j)' = Mine(j)
      BY <2>1, <3>1, <3>2
    <3>3. CASE j = i /\ Mine(i)' = new
      BY <1>2, <1>4, <1>5, <2>1, <2>2, <2>4, <3>1, <3>3, LabelledRefused
    <3> QED
      BY <1>7, <2>3, <3>2, <3>3
  <2>6. Owned(tag, owner, life)'
    BY <1>3, <2>1 DEF Owned
  <2>7. Explained(tag, owner, life)'
    BY <1>2, <1>3, <2>5, <2>6 DEF Explained
  <2> QED
    BY <2>7 DEF BurstInv
<1> QED
  BY <1>2, <1>5, <1>8, <1>9

\* So does every other step.
LEMMA BurstStep ==
  ASSUME LimitTypeOK, EarnedInv, BurstInv, [LimitNext]_limitVars
  PROVE  BurstInv'
<1>1. PICK tag, owner, life : Explained(tag, owner, life)
  BY DEF BurstInv
<1>2. /\ tag \in [Instances -> [Nat -> Label]] /\ owner \in [Nat -> Instances]
      /\ life \in [Instances -> 0..restarts]
      /\ Owned(tag, owner, life)
      /\ \A j \in Instances : Labelled(admitted[j], tag[j], life[j], clock, Mine(j))
  BY <1>1 DEF Explained
<1>3. /\ restarts \in Nat /\ clock \in Nat
      /\ \A j \in Instances : /\ admitted[j] \in Seq(0..LastTime) /\ tag[j] \in [Nat -> Label]
                               /\ life[j] \in Nat /\ life[j] <= restarts /\ Mine(j) \in Counter
  <2>1. restarts \in Nat /\ clock \in Nat
    BY LimitAssumption DEF LimitTypeOK
  <2> QED
    BY <1>2, <2>1, TypesOfMine
<1>4. ASSUME UNCHANGED <<admitted, restarts, clock>>, \A j \in Instances : Mine(j)' = Mine(j)
      PROVE  BurstInv'
  <2>1. Owned(tag, owner, life)'
    BY <1>2, <1>4 DEF Owned
  <2>2. Explained(tag, owner, life)'
    BY <1>2, <1>4, <2>1 DEF Explained
  <2> QED
    BY <2>2 DEF BurstInv
<1>5. CASE UNCHANGED limitVars
  BY <1>4, <1>5 DEF limitVars, Mine
<1>6. CASE Tick
  <2>1. clock' = clock + 1 /\ UNCHANGED <<admitted, restarts>>
    BY <1>6 DEF Tick
  <2>2. ASSUME NEW j \in Instances
        PROVE  Mine(j)' = IF Mine(j).until <= clock + 1 THEN NoRequests ELSE Mine(j)
    BY <1>6, TypesOfMine DEF Tick, Mine
  <2>3. ASSUME NEW j \in Instances
        PROVE  Labelled(admitted[j], tag[j], life[j], clock, Mine(j))'
    <3>1. Labelled(admitted[j], tag[j], life[j], clock + 1, IF Mine(j).until <= clock + 1 THEN NoRequests ELSE Mine(j))
      BY <1>2, <1>3, LabelledTick
    <3> QED
      BY <2>1, <2>2, <3>1
  <2>4. Owned(tag, owner, life)'
    BY <1>2, <2>1 DEF Owned
  <2>5. Explained(tag, owner, life)'
    BY <1>2, <2>1, <2>3, <2>4 DEF Explained
  <2> QED
    BY <2>5 DEF BurstInv
<1>7. ASSUME NEW i \in Instances, Restart(i) PROVE BurstInv'
  <2>1. /\ restarts' = restarts + 1 /\ UNCHANGED <<clock, admitted>>
        /\ store' = [store EXCEPT ![i] = [x \in Address |-> NoRequests]]
    BY <1>7 DEF Restart
  <2>2. Mine(i)' = NoRequests /\ \A j \in Instances : j # i => Mine(j)' = Mine(j)
    BY <2>1, TypesOfMine DEF Mine, LimitTypeOK
  <2>3. PICK r : r = restarts + 1 /\ r \in Nat
    BY <1>3
  <2>4. PICK owner1 : /\ owner1 \in [Nat -> Instances] /\ owner1[r] = i
                      /\ \A m \in 0..restarts : owner1[m] = owner[m]
    <3> WITNESS [owner EXCEPT ![r] = i]
    <3> QED
      BY <1>2, <1>3, <2>3
  <2>5. PICK life1 : /\ life1 \in [Instances -> 0..r] /\ life1[i] = r
                     /\ \A j \in Instances : j # i => life1[j] = life[j]
    <3> WITNESS [life EXCEPT ![i] = r]
    <3> QED
      BY <1>2, <1>3, <2>3
  <2>6. ASSUME NEW j \in Instances
        PROVE  Labelled(admitted[j], tag[j], life1[j], clock, Mine(j))'
    <3>1. Labelled(admitted[j], tag[j], life[j], clock, Mine(j))
      BY <1>2
    <3>2. CASE j # i
      BY <2>1, <2>2, <2>5, <3>1, <3>2
    <3>3. CASE j = i
      <4>1. life[i] < r
        BY <1>3, <2>3
      <4>2. Labelled(admitted[i], tag[i], r, clock, NoRequests)
        BY <1>3, <2>3, <3>1, <3>3, <4>1, LabelledRestart
      <4> QED
        BY <2>1, <2>2, <2>5, <3>3, <4>2
    <3> QED
      BY <3>2, <3>3
  <2>7. Owned(tag, owner1, life1)'
    <3>1. ASSUME NEW j \in Instances, NEW k \in 1..Len(admitted[j]), tag[j][k].life # 0
          PROVE  owner1[tag[j][k].life] = j
      <4>1. Labelled(admitted[j], tag[j], life[j], clock, Mine(j))
        BY <1>2
      <4>2. tag[j][k].life \in Nat /\ tag[j][k].life <= life[j]
        BY <1>3, <4>1, TypesOfLabels DEF Labelled, Numbered
      <4>3. tag[j][k].life \in 0..restarts
        BY <1>3, <4>2
      <4> QED
        BY <1>2, <2>4, <3>1, <4>3 DEF Owned
    <3>2. ASSUME NEW j \in Instances, life1[j] # 0 PROVE owner1[life1[j]] = j
      BY <1>2, <2>4, <2>5, <3>2 DEF Owned
    <3>3. \A j \in Instances : \A k \in 1..Len(admitted[j]) :
             tag[j][k].life # 0 => owner1[tag[j][k].life] = j
      BY <3>1
    <3> QED
      BY <2>1, <3>2, <3>3 DEF Owned
  <2>8. Explained(tag, owner1, life1)'
    BY <1>2, <2>1, <2>3, <2>4, <2>5, <2>6, <2>7 DEF Explained
  <2> QED
    BY <2>8 DEF BurstInv
<1>8. ASSUME NEW i \in Instances, NEW c \in Clients, NEW f \in Forwarded, Hit(i, c, f), c # Watched
      PROVE  BurstInv'
  <2>1. /\ UNCHANGED <<clock, admitted, restarts>>
        /\ store' = store \/ store' = [store EXCEPT ![i][c] = Counted(i, c)]
    BY <1>8, HitCountsTheCaller
  <2>2. ASSUME NEW j \in Instances PROVE Mine(j)' = Mine(j)
    BY <1>8, <2>1, TypesOfMine DEF Mine, LimitTypeOK
  <2> QED
    BY <1>4, <2>1, <2>2
<1> QED
  BY <1>5, <1>6, <1>7, <1>8, BurstHit DEF LimitNext

\* At first there is nothing to label.
LEMMA BurstAtFirst == LimitInit => BurstInv
<1> SUFFICES ASSUME LimitInit PROVE BurstInv
  OBVIOUS
<1>1. PICK any : any \in Label
  <2>1. [life |-> 0, open |-> 0, nth |-> 0] \in Label
    BY DEF Label
  <2> QED
    BY <2>1
<1>2. PICK tag : tag \in [Instances -> [Nat -> Label]]
  <2>1. [i \in Instances |-> [n \in Nat |-> any]] \in [Instances -> [Nat -> Label]]
    BY <1>1
  <2> QED
    BY <2>1
<1>3. PICK owner : owner \in [Nat -> Instances]
  <2>1. PICK i : i \in Instances
    BY CallersAssumption
  <2>2. [n \in Nat |-> i] \in [Nat -> Instances]
    BY <2>1
  <2> QED
    BY <2>2
<1>4. PICK life : life \in [Instances -> 0..0] /\ \A i \in Instances : life[i] = 0
  <2> WITNESS [i \in Instances |-> 0]
  <2> QED
    OBVIOUS
<1>5. \A i \in Instances : admitted[i] = <<>> /\ Len(admitted[i]) = 0
  BY DEF LimitInit
<1>6. \A k \in 1..0 : FALSE
  OBVIOUS
<1>7. Owned(tag, owner, life)
  BY <1>4, <1>5, <1>6 DEF Owned
<1>8. ASSUME NEW i \in Instances PROVE Labelled(admitted[i], tag[i], life[i], clock, Mine(i))
  BY <1>5, <1>6 DEF Labelled, Numbered, Apart, Running
<1> QED
  BY <1>2, <1>3, <1>4, <1>7, <1>8 DEF BurstInv, Explained, LimitInit

\* Two requests with the same number in windows of one life that open within a
\* window's length are the same request.
LEMMA SameRequest ==
  ASSUME NEW a \in Seq(0..LastTime), NEW g \in [Nat -> Label], Apart(a, g), NEW x \in Int,
         NEW k \in 1..Len(a), NEW m \in 1..Len(a), g[k].life = g[m].life, g[k].nth = g[m].nth,
         x <= g[k].open, g[k].open < x + Window, x <= g[m].open, g[m].open < x + Window
  PROVE  k = m
<1>1. g[k] \in Label /\ g[m] \in Label /\ g[k].open \in Int /\ g[m].open \in Int
  <2>1. Len(a) \in Nat
    BY TypesOfLabels
  <2>2. k \in Nat /\ m \in Nat
    BY <2>1
  <2>3. g[k] \in Label /\ g[m] \in Label
    BY <2>2
  <2> QED
    BY <2>3, TypesOfLabels
<1> DEFINE y == g[k].open
           z == g[m].open
<1>2. y = z \/ y + Window <= z \/ z + Window <= y
  BY DEF Apart
<1>3. y \in Int /\ z \in Int /\ Window \in Nat /\ x <= y /\ y < x + Window /\ x <= z /\ z < x + Window
  BY <1>1, LimitAssumption
<1> HIDE DEF y, z
<1>4. y = z
  BY <1>2, <1>3
<1>5. g[k].open = g[m].open
  BY <1>4 DEF y, z
<1>6. g[k] = g[m]
  <2>1. \A p \in Label : p = [life |-> p.life, open |-> p.open, nth |-> p.nth]
    BY DEF Label
  <2> QED
    BY <1>1, <1>5, <2>1
<1> QED
  BY <1>6 DEF Apart

\* The requests of one instance let in during a window's length from t on:
\* those of a window that opened before t, and those of one that opened since.
LEMMA SameSlot ==
  ASSUME NEW a \in Seq(0..LastTime), NEW g \in [Nat -> Label], NEW l \in Nat, NEW now \in Nat,
         Numbered(a, g, l, now), Apart(a, g), NEW t \in Nat,
         NEW k \in 1..Len(a), NEW m \in 1..Len(a), g[k].nth = g[m].nth,
         t <= a[k], a[k] < t + Window, t <= a[m], a[m] < t + Window
  PROVE  /\ g[k].open < t /\ g[m].open < t => k = m
         /\ g[k].life = g[m].life /\ g[k].open >= t /\ g[m].open >= t => k = m
<1>1. /\ a[k] \in Nat /\ a[m] \in Nat /\ g[k].open \in Int /\ g[m].open \in Int
      /\ g[k].life \in Nat /\ g[m].life \in Nat /\ Window \in Nat
  BY LimitAssumption, TypesOfLabels
<1>2. g[k].open <= a[k] /\ a[k] < g[k].open + Window /\ g[m].open <= a[m] /\ a[m] < g[m].open + Window
  BY DEF Numbered
<1>3. ASSUME g[k].open < t, g[m].open < t PROVE k = m
  <2>1. g[k].life = g[m].life
    <3>1. ~(g[k].life < g[m].life)
      <4>1. g[k].life < g[m].life => a[k] <= g[m].open
        BY DEF Apart
      <4> DEFINE y == g[m].open
                 z == a[k]
      <4>2. y \in Int /\ z \in Int /\ y < t /\ t <= z
        BY <1>1, <1>3
      <4> HIDE DEF y, z
      <4>3. ~(z <= y)
        BY <4>2
      <4> QED
        BY <4>1, <4>3 DEF y, z
    <3>2. ~(g[m].life < g[k].life)
      <4>1. g[m].life < g[k].life => a[m] <= g[k].open
        BY DEF Apart
      <4> DEFINE y == g[k].open
                 z == a[m]
      <4>2. y \in Int /\ z \in Int /\ y < t /\ t <= z
        BY <1>1, <1>3
      <4> HIDE DEF y, z
      <4>3. ~(z <= y)
        BY <4>2
      <4> QED
        BY <4>1, <4>3 DEF y, z
    <3> QED
      BY <1>1, <3>1, <3>2
  <2>2. t - Window + 1 \in Int
    BY <1>1
  <2>3. ASSUME NEW y \in Int, NEW z \in Int, t <= z, z < y + Window, y < t
        PROVE  t - Window + 1 <= y /\ y < (t - Window + 1) + Window
    BY <1>1, <2>3
  <2>4. t - Window + 1 <= g[k].open /\ g[k].open < (t - Window + 1) + Window
    <3> DEFINE y == g[k].open
               z == a[k]
    <3>1. y \in Int /\ z \in Int /\ t <= z /\ z < y + Window /\ y < t
      BY <1>1, <1>2, <1>3
    <3> HIDE DEF y, z
    <3>2. t - Window + 1 <= y /\ y < (t - Window + 1) + Window
      BY <2>3, <3>1
    <3> QED
      BY <3>2 DEF y
  <2>5. t - Window + 1 <= g[m].open /\ g[m].open < (t - Window + 1) + Window
    <3> DEFINE y == g[m].open
               z == a[m]
    <3>1. y \in Int /\ z \in Int /\ t <= z /\ z < y + Window /\ y < t
      BY <1>1, <1>2, <1>3
    <3> HIDE DEF y, z
    <3>2. t - Window + 1 <= y /\ y < (t - Window + 1) + Window
      BY <2>3, <3>1
    <3> QED
      BY <3>2 DEF y
  <2> QED
    BY <2>1, <2>2, <2>4, <2>5, SameRequest
<1>4. ASSUME g[k].life = g[m].life, g[k].open >= t, g[m].open >= t PROVE k = m
  <2>1. ASSUME NEW y \in Int, NEW z \in Int, y <= z, z < t + Window, y >= t PROVE t <= y /\ y < t + Window
    BY <1>1, <2>1
  <2>2. /\ t <= g[k].open /\ g[k].open < t + Window /\ t <= g[m].open /\ g[m].open < t + Window
    BY <1>1, <1>2, <1>4, <2>1
  <2> QED
    BY <1>4, <2>2, SameRequest
<1> QED
  BY <1>3, <1>4

\* A set whose members take different places is no larger than the set of places.
LEMMA CountedOnce ==
  ASSUME NEW S, NEW T, IsFiniteSet(T), NEW f \in [S -> T], \A x, y \in S : f[x] = f[y] => x = y
  PROVE  IsFiniteSet(S) /\ Cardinality(S) \in Nat /\ Cardinality(S) <= Cardinality(T)
<1>1. f \in Injection(S, T)
  BY DEF Injection, IsInjective
<1> QED
  BY <1>1, FS_Injection, FS_CardinalityType

\* The labels bound what a window's length holds.
LEMMA BurstShown ==
  ASSUME LimitTypeOK, BurstInv, Cardinality(Instances) <= Fleet
  PROVE  BurstIsBounded
<1> SUFFICES ASSUME NEW t \in 0..LastTime
             PROVE  Cardinality(UNION {{i} \X Within(i, t) : i \in Instances})
                       <= 2 * Intended + Cardinality(Instances) - 2 + restarts * PerInstanceLimit(Intended)
  BY DEF BurstIsBounded
<1>1. PICK tag, owner, life : Explained(tag, owner, life)
  BY DEF BurstInv
<1>2. /\ tag \in [Instances -> [Nat -> Label]] /\ owner \in [Nat -> Instances]
      /\ life \in [Instances -> 0..restarts]
      /\ Owned(tag, owner, life)
      /\ \A j \in Instances : Labelled(admitted[j], tag[j], life[j], clock, Mine(j))
  BY <1>1 DEF Explained
<1>3. /\ restarts \in Nat /\ clock \in Nat /\ t \in Nat /\ Window \in Nat /\ Share \in Nat \ {0}
      /\ \A j \in Instances : /\ admitted[j] \in Seq(0..LastTime) /\ tag[j] \in [Nat -> Label]
                               /\ life[j] \in Nat /\ life[j] <= restarts
  <2>1. restarts \in Nat /\ clock \in Nat /\ Window \in Nat /\ Share \in Nat \ {0}
    BY LimitAssumption, SharesCoverTheLimit DEF LimitTypeOK
  <2> QED
    BY <1>2, <2>1, TypesOfMine, LimitAssumption
<1> DEFINE P == UNION {{i} \X Within(i, t) : i \in Instances}
           lab(p) == tag[p[1]][p[2]]
           late == {p \in P : lab(p).open >= t /\ lab(p).life # 0}
           early == P \ late
<1>4. ASSUME NEW p \in P
      PROVE  /\ p[1] \in Instances /\ p[2] \in 1..Len(admitted[p[1]]) /\ p = <<p[1], p[2]>>
             /\ t <= admitted[p[1]][p[2]] /\ admitted[p[1]][p[2]] < t + Window
  <2>1. PICK i \in Instances : p \in {i} \X Within(i, t)
    OBVIOUS
  <2>2. p[1] = i /\ p[2] \in Within(i, t) /\ p = <<p[1], p[2]>>
    BY <2>1
  <2>3. DOMAIN admitted[i] = 1..Len(admitted[i]) /\ \A k \in 1..Len(admitted[i]) : admitted[i][k] \in Nat
    BY TypesOfMine
  <2>4. p[2] \in 1..Len(admitted[i]) /\ admitted[i][p[2]] \in t..(t + Window - 1) /\ admitted[i][p[2]] \in Nat
    BY <2>2, <2>3 DEF Within
  <2> QED
    BY <1>3, <2>2, <2>4
<1> HIDE DEF P
<1>5. ASSUME NEW p \in P
      PROVE  /\ lab(p).life \in Nat /\ lab(p).life <= restarts /\ lab(p).open \in Int
             /\ lab(p).nth \in 1..Share /\ lab(p).nth \in Nat
             /\ lab(p).life # 0 => owner[lab(p).life] = p[1]
             /\ lab(p).open < t => lab(p).nth # 1
  <2>1. p[1] \in Instances /\ p[2] \in 1..Len(admitted[p[1]]) /\ t <= admitted[p[1]][p[2]]
    BY <1>4
  <2>2. PICK i \in Instances : i = p[1]
    BY <2>1
  <2>3. PICK k \in 1..Len(admitted[i]) : k = p[2]
    BY <2>1, <2>2
  <2>4. /\ tag[i][k].life \in Nat /\ tag[i][k].open \in Int /\ tag[i][k].nth \in Nat
        /\ admitted[i][k] \in Nat
    BY <1>3, TypesOfLabels
  <2>5. Numbered(admitted[i], tag[i], life[i], clock)
    BY <1>2 DEF Labelled
  <2>6. /\ tag[i][k].life <= life[i] /\ tag[i][k].nth \in 1..Share
        /\ tag[i][k].nth = 1 => admitted[i][k] = tag[i][k].open
    BY <2>5 DEF Numbered
  <2>7. tag[i][k].life <= restarts
    BY <1>3, <2>4, <2>6
  <2>8. tag[i][k].life # 0 => owner[tag[i][k].life] = i
    BY <1>2 DEF Owned
  <2>9. tag[i][k].open < t => tag[i][k].nth # 1
    BY <1>3, <2>1, <2>2, <2>3, <2>4, <2>6
  <2> QED
    BY <2>2, <2>3, <2>4, <2>6, <2>7, <2>8, <2>9
<1>6. ASSUME NEW p \in P, NEW q \in P, p[1] = q[1], lab(p).nth = lab(q).nth,
             \/ lab(p).open < t /\ lab(q).open < t
             \/ lab(p).life = lab(q).life /\ lab(p).open >= t /\ lab(q).open >= t
      PROVE  p = q
  <2>1. /\ p[1] \in Instances /\ p[2] \in 1..Len(admitted[p[1]]) /\ q[2] \in 1..Len(admitted[p[1]])
        /\ p = <<p[1], p[2]>> /\ q = <<p[1], q[2]>>
        /\ t <= admitted[p[1]][p[2]] /\ admitted[p[1]][p[2]] < t + Window
        /\ t <= admitted[p[1]][q[2]] /\ admitted[p[1]][q[2]] < t + Window
    BY <1>4, <1>6
  <2>2. PICK i \in Instances : i = p[1]
    BY <2>1
  <2>3. PICK k \in 1..Len(admitted[i]), m \in 1..Len(admitted[i]) : k = p[2] /\ m = q[2]
    BY <2>1, <2>2
  <2>4. Numbered(admitted[i], tag[i], life[i], clock) /\ Apart(admitted[i], tag[i])
    BY <1>2 DEF Labelled
  <2>5. /\ t <= admitted[i][k] /\ admitted[i][k] < t + Window
        /\ t <= admitted[i][m] /\ admitted[i][m] < t + Window
        /\ tag[i][k].nth = tag[i][m].nth
        /\ \/ tag[i][k].open < t /\ tag[i][m].open < t
           \/ tag[i][k].life = tag[i][m].life /\ tag[i][k].open >= t /\ tag[i][m].open >= t
    BY <1>6, <2>1, <2>2, <2>3
  <2>6. k = m
    BY <1>3, <2>4, <2>5, SameSlot
  <2> QED
    BY <2>1, <2>3, <2>6
<1>7. IsFiniteSet(late) /\ Cardinality(late) \in Nat /\ Cardinality(late) <= restarts * Share
  <2> DEFINE T == (1..restarts) \X (1..Share)
             F == [p \in late |-> <<lab(p).life, lab(p).nth>>]
  <2>1. \A p \in late : p \in P /\ lab(p).open >= t /\ lab(p).life # 0
    OBVIOUS
  <2> HIDE DEF late
  <2>2. F \in [late -> T]
    <3>1. ASSUME NEW p \in late PROVE lab(p).life \in 1..restarts /\ lab(p).nth \in 1..Share
      BY <1>3, <1>5, <2>1
    <3> QED
      BY <3>1
  <2>3. ASSUME NEW p \in late, NEW q \in late, F[p] = F[q] PROVE p = q
    <3>1. p \in P /\ q \in P /\ lab(p).open >= t /\ lab(q).open >= t /\ lab(p).life # 0
      BY <2>1
    <3>2. lab(p).life = lab(q).life /\ lab(p).nth = lab(q).nth
      BY <2>3
    <3>3. p[1] = q[1]
      BY <1>5, <3>1, <3>2
    <3> QED
      BY <1>6, <3>1, <3>2, <3>3
  <2>4. IsFiniteSet(T) /\ Cardinality(T) = restarts * Share
    <3>1. /\ IsFiniteSet(1..restarts) /\ Cardinality(1..restarts) = restarts
          /\ IsFiniteSet(1..Share) /\ Cardinality(1..Share) = Share
      BY <1>3, FS_Interval
    <3> QED
      BY <3>1, FS_Product
  <2> HIDE DEF F, T
  <2> QED
    BY <2>2, <2>3, <2>4, CountedOnce
<1>8. /\ IsFiniteSet(early) /\ Cardinality(early) \in Nat
      /\ Cardinality(early) <= Cardinality(Instances) * (2 * Share - 1)
  <2> DEFINE n == 2 * Share - 1
             T == Instances \X (1..n)
             slot(p) == IF lab(p).open < t THEN lab(p).nth - 1 ELSE Share - 1 + lab(p).nth
             F == [p \in early |-> <<p[1], slot(p)>>]
  <2>1. \A p \in early : p \in P /\ (lab(p).open >= t => lab(p).life = 0)
    OBVIOUS
  <2>2. n \in Nat /\ ~(1 > n) /\ n - 1 + 1 = n
    BY <1>3
  <2>3. ASSUME NEW p \in early PROVE slot(p) \in 1..n /\ p[1] \in Instances
    <3> DEFINE x == lab(p).nth
    <3>1. x \in 1..Share /\ (lab(p).open < t => x # 1) /\ p[1] \in Instances
      BY <1>4, <1>5, <2>1
    <3> HIDE DEF x
    <3>2. x - 1 \in Int /\ (x # 1 => x - 1 \in 1..n) /\ Share - 1 + x \in 1..n
      BY <1>3, <3>1
    <3> QED
      BY <3>1, <3>2 DEF x
  <2>4. F \in [early -> T]
    <3> HIDE DEF early, slot, n
    <3> QED
      BY <2>3
  <2>5. ASSUME NEW p \in early, NEW q \in early, F[p] = F[q] PROVE p = q
    <3>1. /\ p \in P /\ q \in P /\ lab(p).nth \in 1..Share /\ lab(q).nth \in 1..Share
          /\ lab(p).open \in Int /\ lab(q).open \in Int
          /\ lab(p).open < t => lab(p).nth # 1
          /\ lab(q).open < t => lab(q).nth # 1
          /\ lab(p).open >= t => lab(p).life = 0
          /\ lab(q).open >= t => lab(q).life = 0
      BY <1>5, <2>1
    <3>2. p[1] = q[1] /\ slot(p) = slot(q)
      <4> HIDE DEF early, slot
      <4> QED
        BY <2>5
    <3> DEFINE x == lab(p).nth
               y == lab(q).nth
    <3>3. x \in 1..Share /\ y \in 1..Share
      BY <3>1
    <3>4. CASE lab(p).open < t /\ lab(q).open < t
      <4>1. x - 1 = y - 1
        BY <3>2, <3>4
      <4> HIDE DEF x, y
      <4>2. x = y
        BY <1>3, <3>3, <4>1
      <4> QED
        BY <1>6, <3>1, <3>2, <3>4, <4>2 DEF x, y
    <3>5. CASE ~(lab(p).open < t) /\ ~(lab(q).open < t)
      <4>1. Share - 1 + x = Share - 1 + y
        BY <3>2, <3>5
      <4> HIDE DEF x, y
      <4>2. x = y
        BY <1>3, <3>3, <4>1
      <4>3. lab(p).open >= t /\ lab(q).open >= t /\ lab(p).life = lab(q).life
        BY <1>3, <3>1, <3>5
      <4> QED
        BY <1>6, <3>1, <3>2, <4>2, <4>3 DEF x, y
    <3>6. CASE lab(p).open < t /\ ~(lab(q).open < t)
      <4>1. x - 1 = Share - 1 + y
        BY <3>2, <3>6
      <4> HIDE DEF x, y
      <4> QED
        BY <1>3, <3>3, <4>1
    <3>7. CASE ~(lab(p).open < t) /\ lab(q).open < t
      <4>1. Share - 1 + x = y - 1
        BY <3>2, <3>7
      <4> HIDE DEF x, y
      <4> QED
        BY <1>3, <3>3, <4>1
    <3> QED
      BY <3>4, <3>5, <3>6, <3>7
  <2>6. IsFiniteSet(T) /\ Cardinality(T) = Cardinality(Instances) * n
    <3>1. IsFiniteSet(1..n) /\ Cardinality(1..n) = n
      BY <2>2, FS_Interval
    <3> QED
      BY <3>1, CallersAssumption, FS_Product
  <2> HIDE DEF F, T, early
  <2> QED
    BY <2>4, <2>5, <2>6, CountedOnce
<1>9. Cardinality(P) <= Cardinality(early) + Cardinality(late)
  <2>1. P = early \cup late /\ early \cap late = {}
    OBVIOUS
  <2> HIDE DEF early, late
  <2>2. Cardinality(early \cup late) = Cardinality(early) + Cardinality(late) - Cardinality(early \cap late)
    BY <1>7, <1>8, FS_Union
  <2> QED
    BY <1>7, <1>8, <2>1, <2>2, FS_EmptySet
<1> DEFINE c == Cardinality(Instances)
           e == Cardinality(early)
           d == Cardinality(late)
           all == Cardinality(P)
           r == restarts * Share
<1>10. c * (2 * Share - 1) <= 2 * Intended + c - 2
  <2>1. c \in Nat /\ Fleet \in Nat \ {0} /\ c <= Fleet /\ Intended \in Nat
        /\ Fleet * (Share - 1) < Intended /\ Fleet * (Share - 1) \in Int
    BY <1>3, SharesCoverTheLimit, CallersAssumption, LimitAssumption, FS_CardinalityType
  <2> HIDE DEF c
  <2> DEFINE s == Share - 1
  <2>2. s \in Nat /\ 2 * Share - 1 = 2 * s + 1 /\ Fleet * s < Intended
    BY <1>3, <2>1
  <2> HIDE DEF s
  <2>3. c * s <= Fleet * s
    BY <2>1, <2>2
  <2> DEFINE x == c * s
             y == Fleet * s
  <2>4. x \in Nat /\ y \in Nat /\ x <= y /\ y < Intended
    BY <2>1, <2>2, <2>3
  <2>5. c * (2 * s + 1) = 2 * x + c
    BY <2>1, <2>2
  <2> HIDE DEF x, y
  <2>6. 2 * x + c <= 2 * Intended + c - 2
    BY <2>1, <2>4
  <2> QED
    BY <2>2, <2>5, <2>6
<1>11. /\ all <= e + d /\ e \in Nat /\ d \in Nat /\ d <= r /\ e <= 2 * Intended + c - 2
       /\ c \in Nat /\ r \in Nat /\ Intended \in Nat
  <2>1. c \in Nat /\ Intended \in Nat /\ Share \in Nat /\ restarts \in Nat
    BY <1>3, CallersAssumption, LimitAssumption, FS_CardinalityType
  <2>2. r \in Nat
    BY <2>1
  <2> DEFINE z == c * (2 * Share - 1)
  <2>3. e \in Nat /\ z \in Int /\ e <= z /\ z <= 2 * Intended + c - 2
    BY <1>8, <1>10, <2>1
  <2> HIDE DEF z, e, c
  <2>4. e <= 2 * Intended + c - 2
    BY <2>1, <2>3
  <2> QED
    BY <1>7, <1>9, <2>1, <2>2, <2>3, <2>4 DEF e, c
<1>12. all \in Nat
  <2>1. P = early \cup late
    OBVIOUS
  <2> HIDE DEF early, late
  <2> QED
    BY <1>7, <1>8, <2>1, FS_Union, FS_CardinalityType
<1> HIDE DEF c, e, d, all, r
<1>13. all <= 2 * Intended + c - 2 + r
  BY <1>11, <1>12
<1> QED
  BY <1>13 DEF all, c, r, P, Share

\* With as many instances as the limit was divided by, or fewer, a caller gets
\* in any window's length less than twice the limit, rounded up for each
\* instance, and a share more for every instance replaced.
THEOREM BurstsAreBounded ==
  ASSUME Cardinality(Instances) <= Fleet
  PROVE  LimitSpec => []BurstIsBounded
<1> DEFINE Inv == LimitTypeOK /\ EarnedInv /\ BurstInv
<1>1. LimitInit => Inv
  <2>1. LimitInit => \A i \in Instances : Mine(i).count = 0
    BY CallersAssumption DEF LimitInit, Mine, NoRequests, Address
  <2> QED
    BY <2>1, LimitTypesHoldAtFirst, BurstAtFirst DEF LimitInit, EarnedInv, CountedInWindow
<1>2. Inv /\ [LimitNext]_limitVars => Inv'
  BY LimitTypesKept, EarnedStep, BurstStep
<1>3. Inv => BurstIsBounded
  BY BurstShown
<1> QED
  BY <1>1, <1>2, <1>3, PTL DEF LimitSpec
==============================================================================
