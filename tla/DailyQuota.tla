----------------------------- MODULE DailyQuota ------------------------------
(***************************************************************************)
(* FirestoreDailyGenerationQuotaRepository: the document                   *)
(* rate_limits/case_generation_<day> and the transactional                 *)
(* read-check-increment that any number of threads, on any number of Cloud *)
(* Run instances, run against it.  Both counters live in ONE document, so  *)
(* a transaction on one field conflicts with a transaction on the other.   *)
(*                                                                         *)
(* Firestore itself is external: a document carries a version (its update  *)
(* time); a commit succeeds if the version is still the one the            *)
(* transaction read and is aborted otherwise.  With SpuriousAborts it may  *)
(* also abort a transaction that nothing conflicted with.                  *)
(***************************************************************************)
EXTENDS Naturals

CONSTANTS
    Callers,        \* worker threads (asyncio.to_thread) of all instances
    Fields,         \* {"attemptCount", "successCount"}
    Cap,            \* [Fields -> Nat], attempt_cap and success_cap
    MaxTries,       \* client.transaction(max_attempts=15)
    SpuriousAborts  \* may Firestore abort without a conflicting commit?

ASSUME CapAssumption == Cap \in [Fields -> Nat]
ASSUME TriesAssumption == MaxTries \in Nat \ {0}
ASSUME AbortAssumption == SpuriousAborts \in BOOLEAN

VARIABLES
    doc,      \* [Fields -> Nat], the stored counters (a missing field is 0)
    version,  \* number of commits to the document
    tx        \* [Callers -> Tx], the _try_increment call of each thread

vars == <<doc, version, tx>>

Tx == [state : {"idle", "read", "commit", "granted", "full", "contention"},
       field : Fields,
       tries : Nat,           \* runs of _run so far
       seen : Nat,            \* the counter in the snapshot
       seenVersion : Nat,     \* the version of the snapshot
       since : Nat]           \* history: the version when the call began

TypeOK ==
    /\ doc \in [Fields -> Nat]
    /\ version \in Nat
    /\ tx \in [Callers -> Tx]
    /\ \A c \in Callers : tx[c].tries <= MaxTries

\* A thread outside a call; the field is whatever it last asked for.
IdleTx(f) == [state |-> "idle", field |-> f, tries |-> 0,
              seen |-> 0, seenVersion |-> 0, since |-> 0]

Init ==
    /\ doc = [f \in Fields |-> 0]
    /\ version = 0
    /\ \E f \in Fields : tx = [c \in Callers |-> IdleTx(f)]

-----------------------------------------------------------------------------
\* try_reserve_attempt / try_consume_success: enter _run for the first time.
TryIncrement(c, f) ==
    /\ tx[c].state = "idle"
    /\ tx' = [tx EXCEPT ![c] = [state |-> "read", field |-> f, tries |-> 1,
                                seen |-> 0, seenVersion |-> 0, since |-> version]]
    /\ UNCHANGED <<doc, version>>

\* Bug: off by one.
Bug_AtCapOffByOne(f, current) == current > Cap[f]

\* The check _run makes on its snapshot: is the counter at its cap?
AtCap(f, current) == current >= Cap[f]

\* Bug: a full counter is read again until there is room.
Bug_ReadWaitsForRoom(c) ==
    LET f == tx[c].field IN
    /\ tx[c].state = "read"
    /\ tx' = [tx EXCEPT ![c] =
                [@ EXCEPT !.state = IF AtCap(f, doc[f]) THEN "read" ELSE "commit",
                          !.seen = doc[f],
                          !.seenVersion = version]]
    /\ UNCHANGED <<doc, version>>

\* doc_ref.get(transaction=...), then the cap check on the snapshot.
Read(c) ==
    LET f == tx[c].field IN
    /\ tx[c].state = "read"
    /\ tx' = [tx EXCEPT ![c] =
                [@ EXCEPT !.state = IF AtCap(f, doc[f]) THEN "full" ELSE "commit",
                          !.seen = doc[f],
                          !.seenVersion = version]]
    /\ UNCHANGED <<doc, version>>

\* Bug: a plain set() outside the transaction, whoever wrote meanwhile.
Bug_CommitBlindly(c) ==
    /\ tx[c].state = "commit"
    /\ doc' = [doc EXCEPT ![tx[c].field] = tx[c].seen + 1]
    /\ version' = version + 1
    /\ tx' = [tx EXCEPT ![c].state = "granted"]

\* The merge write of the one field, if nobody committed since the read.
Commit(c) ==
    /\ tx[c].state = "commit"
    /\ version = tx[c].seenVersion
    /\ doc' = [doc EXCEPT ![tx[c].field] = tx[c].seen + 1]
    /\ version' = version + 1
    /\ tx' = [tx EXCEPT ![c].state = "granted"]

\* Bug: no retry at all.
Bug_AbortGivesUp(c) ==
    /\ tx[c].state = "commit"
    /\ version # tx[c].seenVersion \/ SpuriousAborts
    /\ tx' = [tx EXCEPT ![c].state = "contention"]
    /\ UNCHANGED <<doc, version>>

\* The commit is refused: the client library runs _run again, until
\* max_attempts is used up and it raises ValueError, answered with False.
Abort(c) ==
    /\ tx[c].state = "commit"
    /\ version # tx[c].seenVersion \/ SpuriousAborts
    /\ \/ /\ tx[c].tries < MaxTries
          /\ tx' = [tx EXCEPT ![c] = [@ EXCEPT !.state = "read", !.tries = tx[c].tries + 1]]
       \/ /\ tx[c].tries >= MaxTries
          /\ tx' = [tx EXCEPT ![c].state = "contention"]
    /\ UNCHANGED <<doc, version>>

\* The result reaches the caller.
Answer(c) ==
    /\ tx[c].state \in {"granted", "full", "contention"}
    /\ tx' = [tx EXCEPT ![c] = IdleTx(tx[c].field)]
    /\ UNCHANGED <<doc, version>>

\* The instance dies, or the call raises something other than ValueError.
Crash(c) ==
    /\ tx[c].state # "idle"
    /\ tx' = [tx EXCEPT ![c] = IdleTx(tx[c].field)]
    /\ UNCHANGED <<doc, version>>

Next ==
    \E c \in Callers :
        \/ \E f \in Fields : TryIncrement(c, f)
        \/ Read(c)
        \/ Commit(c)
        \/ Abort(c)
        \/ Answer(c)
        \/ Crash(c)

Spec == Init /\ [][Next]_vars

\* A thread that is running a call keeps running it; no fairness on new
\* calls and none on crashes.
Progress(c) == Read(c) \/ Commit(c) \/ Abort(c) \/ Answer(c)

FairSpec == Spec /\ \A c \in Callers : WF_vars(Progress(c))

-----------------------------------------------------------------------------
\* No interleaving of transactions takes a counter above its cap
\* (ports.py: "if under attempt_cap" / "if under success_cap").
CapRespected == \A f \in Fields : doc[f] <= Cap[f]

\* A refusal that says "full" was read from a snapshot that may be old by
\* the time the caller gets it; it must still be true then.
FullIsStillFull ==
    \A c \in Callers : tx[c].state = "full" => doc[tx[c].field] >= Cap[tx[c].field]

\* The cap is exact: it is never passed, and "full" is never said below it.
CapIsExact == CapRespected /\ FullIsStillFull

\* Fail-closed is the exception: without spurious aborts a caller is refused
\* for contention only if MaxTries increments were committed during its call.
ContentionMeansProgress ==
    \A c \in Callers :
        tx[c].state = "contention" /\ ~SpuriousAborts => version >= tx[c].since + MaxTries

\* Every call ends although other callers keep aborting it: the retries of
\* @firestore.transactional are bounded by max_attempts.
EveryCallReturns ==
    \A c \in Callers : tx[c].state = "read" ~> tx[c].state = "idle"

\* What the caller can observe: the answer is decided by the commit, by the
\* cap check or by the last abort.
Observed(t) ==
    [state |-> CASE t.state \in {"read", "commit"} -> "waiting"
                 [] t.state \in {"full", "contention"} -> "denied"
                 [] OTHER -> t.state,
     field |-> t.field]

Atomic == INSTANCE AtomicQuota
    WITH count <- doc, answer <- [c \in Callers |-> Observed(tx[c])]

\* The optimistic transactions implement the indivisible test-and-increment
\* the port promises: every True is exactly one unit, every False is none.
ImplementsAtomicQuota == Atomic!Spec
=============================================================================
