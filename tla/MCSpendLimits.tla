---------------------------- MODULE MCSpendLimits ----------------------------
(***************************************************************************)
(* The two limits between the public and the model's bill, side by side: a *)
(* behaviour is one of the day's counters in Firestore or one of the       *)
(* per-caller counters of the instances.  They share no state.             *)
(***************************************************************************)
EXTENDS DailyQuota, RateLimit, FiniteSetsExt

CONSTANTS ann, bob, fake

\* Room for one success and two attempts: both caps are reached, and one
\* field can be full while the other is not.
SmallCap == [f \in Fields |-> IF f = "successCount" THEN 1 ELSE 2]

\* Nothing, an address made up, somebody else's address, an empty entry.
MCForwarded == {<<>>, <<fake>>, <<bob, Blank>>}

\* The other client's requests have counters of their own: one is enough.
OthersStayFew ==
    MapThenSumSet(LAMBDA i : store[i][bob].count, Instances) <= 1

VARIABLE side
all == <<side, vars, limitVars>>

SpendInit == side \in {"quota", "limit"} /\ Init /\ LimitInit
SpendNext ==
    \/ side = "quota" /\ Next /\ UNCHANGED <<side, limitVars>>
    \/ side = "limit" /\ LimitNext /\ UNCHANGED <<side, vars>>
\* The fairness is that of DailyQuota's threads; nobody has to call.
SpendSpec == SpendInit /\ [][SpendNext]_all /\ \A c \in Callers : WF_vars(Progress(c))
=============================================================================
