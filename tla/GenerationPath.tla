---------------------------- MODULE GenerationPath ----------------------------
(***************************************************************************)
(* The way GenerateCase.execute goes, whoever looks at it: attempt after   *)
(* attempt, each reserved, generated, judged twice and saved, in this      *)
(* order.  GenerateCase implements it with calls to shared repositories,   *)
(* GenerationStream with the events a player is sent.                      *)
(***************************************************************************)
EXTENDS Naturals

CONSTANTS
    Runs,        \* runs of execute
    MaxAttempts  \* MAX_ATTEMPTS_PER_REQUEST

VARIABLE at      \* [Runs -> Place]

\* An attempt passes from one step to the next; "rejected": it did not.
Judged == {"generating", "logic_check", "safety_check"}
Successor == [generating |-> "logic_check", logic_check |-> "safety_check", safety_check |-> "saving"]
Final == {"quota_rejected", "failed", "slot_lost", "done", "interrupted"}

Place == [step : {"start", "saving", "rejected"} \cup Judged \cup Final, attempt : Nat]
Start == [step |-> "start", attempt |-> 0]
Out(step) == [step |-> step, attempt |-> 0]

Init == at = [r \in Runs |-> Start]

Move(r, place) == at' = [at EXCEPT ![r] = place]

\* try_reserve_attempt, before every attempt: True, or the budget is gone.
Reserve(r) ==
    /\ at[r].step \in {"start", "rejected"} /\ at[r].attempt < MaxAttempts
    /\ Move(r, [step |-> "generating", attempt |-> at[r].attempt + 1])
RefuseQuota(r) ==
    /\ at[r].step \in {"start", "rejected"} /\ at[r].attempt < MaxAttempts
    /\ Move(r, Out("quota_rejected"))

\* The adapter's answer to the present step.
Pass(r) ==
    /\ at[r].step \in Judged
    /\ Move(r, [at[r] EXCEPT !.step = Successor[at[r].step]])
Reject(r) ==
    /\ at[r].step \in Judged
    /\ Move(r, [at[r] EXCEPT !.step = "rejected"])

\* The last attempt was rejected.
GiveUp(r) ==
    /\ at[r].step \in Judged \cup {"rejected"} /\ at[r].attempt = MaxAttempts
    /\ Move(r, Out("failed"))

\* try_consume_success: the case is saved and announced, or the slot is lost.
Save(r) == at[r].step = "saving" /\ Move(r, Out("done"))
LoseSlot(r) == at[r].step = "saving" /\ Move(r, Out("slot_lost"))

\* An exception, a disconnect or a crash.
Interrupt(r) == at[r].step \notin Final /\ Move(r, Out("interrupted"))

Next ==
    \E r \in Runs :
        \/ Reserve(r) \/ RefuseQuota(r) \/ Pass(r) \/ Reject(r) \/ GiveUp(r)
        \/ Save(r) \/ LoseSlot(r) \/ Interrupt(r)

Spec == Init /\ [][Next]_at
=============================================================================
