----------------------------- MODULE AtomicQuota -----------------------------
(***************************************************************************)
(* What DailyGenerationQuotaRepository (app/application/ports.py) promises *)
(* its callers for one UTC day: a try_* call is answered once, True only   *)
(* together with exactly one unit added to the field's counter, and never  *)
(* above the field's cap.  A refusal may also come from contention: the    *)
(* port is implemented to fail closed.                                     *)
(***************************************************************************)
EXTENDS Naturals

CONSTANTS
    Callers,  \* threads that may have one call outstanding each
    Fields,   \* counters of the day's document: attemptCount, successCount
    Cap       \* [Fields -> Nat], attempt_cap and success_cap

VARIABLES
    count,    \* [Fields -> Nat], units handed out
    answer    \* [Callers -> [state, field]], the outstanding call

vars == <<count, answer>>

\* What a caller can see of its own call.
Idle(f) == [state |-> "idle", field |-> f]

Init ==
    /\ count = [f \in Fields |-> 0]
    /\ \E f \in Fields : answer = [c \in Callers |-> Idle(f)]

\* A thread calls try_reserve_attempt or try_consume_success.
Call(c, f) ==
    /\ answer[c].state = "idle"
    /\ answer' = [answer EXCEPT ![c] = [state |-> "waiting", field |-> f]]
    /\ UNCHANGED count

\* The unit is taken and the answer decided in one indivisible step.
Grant(c) ==
    LET f == answer[c].field IN
    /\ answer[c].state = "waiting"
    /\ count[f] < Cap[f]
    /\ count' = [count EXCEPT ![f] = @ + 1]
    /\ answer' = [answer EXCEPT ![c].state = "granted"]

\* Refused: nothing is counted.
Deny(c) ==
    /\ answer[c].state = "waiting"
    /\ answer' = [answer EXCEPT ![c].state = "denied"]
    /\ UNCHANGED count

\* The caller takes its answer, or is gone before it can.
Finish(c) ==
    /\ answer[c].state # "idle"
    /\ answer' = [answer EXCEPT ![c] = Idle(answer[c].field)]
    /\ UNCHANGED count

Next ==
    \E c \in Callers :
        \/ \E f \in Fields : Call(c, f)
        \/ Grant(c)
        \/ Deny(c)
        \/ Finish(c)

Spec == Init /\ [][Next]_vars
=============================================================================
