------------------------------ MODULE RateLimit -------------------------------
(***************************************************************************)
(* The per-caller rate limit of the public endpoints (rate_limiting.py): a *)
(* limit meant for the whole cluster is divided among the instances, and   *)
(* each instance counts by itself, in memory, the requests of each address *)
(* it takes for the caller's.                                              *)
(*                                                                         *)
(* The counting is slowapi's and external: a fixed window that the first   *)
(* request after the last window opens; a refused request counts too.      *)
(***************************************************************************)
EXTENDS Integers, Sequences, FiniteSets

CONSTANTS
    Instances,      \* instances the load balancer spreads requests over
    Clients,        \* addresses requests really come from
    Watched,        \* one of them: the history kept is that of its requests
    Strangers,      \* addresses that are only ever written in a header
    Peer,           \* the address an instance sees at its socket: the last proxy's
    Nobody,         \* no instance
    Blank,          \* an entry of X-Forwarded-For with nothing in it
    Forwarded,      \* what a request's X-Forwarded-For says before it reaches a trusted proxy
    TrustedHops,    \* TRUSTED_PROXY_HOPS
    MaxInstances,   \* RATE_LIMIT_MAX_INSTANCES
    Intended,       \* the limit meant for the cluster
    Window,         \* its length: a minute
    LastTime,       \* bound: the clock stops here
    MaxRestarts     \* bound: instances replaced


Address == Clients \cup Strangers \cup {Peer}

ASSUME CallersAssumption ==
    /\ IsFiniteSet(Instances) /\ Instances # {} /\ Peer \notin Clients \cup Strangers
    /\ Watched \in Clients /\ Nobody \notin Instances
    /\ Blank \notin Address /\ Forwarded \subseteq Seq(Address \cup {Blank})
ASSUME LimitAssumption ==
    /\ TrustedHops \in Int /\ MaxInstances \in Int
    /\ Intended \in Nat \ {0} /\ Window \in Nat \ {0}
    /\ LastTime \in Nat /\ MaxRestarts \in Nat

VARIABLES
    clock,
    store,     \* [Instances -> [Address -> [count, until]]], the counters in memory
    refusedBy, \* the instance that has just refused the watched client, or Nobody
    admitted,  \* history: [Instances -> Seq(Nat)], when its requests were let in
    restarts

limitVars == <<clock, store, refusedBy, admitted, restarts>>

NoRequests == [count |-> 0, until |-> 0]

LimitTypeOK ==
    /\ clock \in 0..LastTime
    /\ store \in [Instances -> [Address -> [count : Nat, until : Nat]]]
    /\ refusedBy \in Instances \cup {Nobody}
    /\ admitted \in [Instances -> Seq(0..LastTime)]
    /\ restarts \in Nat

LimitInit ==
    /\ clock = 0
    /\ store = [i \in Instances |-> [a \in Address |-> NoRequests]]
    /\ refusedBy = Nobody
    /\ admitted = [i \in Instances |-> <<>>]
    /\ restarts = 0

-----------------------------------------------------------------------------
\* Mutant: the division rounds down.
Bug_FloorShare(intended) ==
    intended \div (IF MaxInstances > 1 THEN MaxInstances ELSE 1)

\* per_instance_limit: rounded up, for at least one instance.
PerInstanceLimit(intended) ==
    LET n == IF MaxInstances > 1 THEN MaxInstances ELSE 1 IN (intended + n - 1) \div n

\* _trusted_proxy_hops
TrustedProxyHops == IF TrustedHops >= 1 THEN TrustedHops ELSE 1

\* The entries of a header that say anything.
Hops(header) == {j \in DOMAIN header : header[j] # Blank}

\* Mutant: the first entry, which the other side writes.
Bug_FirstEntry(header) ==
    LET hops == Hops(header)
    IN  IF hops = {} THEN Peer ELSE header[CHOOSE j \in hops : \A k \in hops : j <= k]

\* _client_ip: the entry the outermost trusted proxy appended, the first one if
\* there are fewer, the socket's address if there is none.
ClientIp(header) ==
    LET hops == Hops(header)
        back == IF TrustedProxyHops < Cardinality(hops) THEN TrustedProxyHops ELSE Cardinality(hops)
    IN  IF hops = {} THEN Peer
        ELSE header[CHOOSE j \in hops : Cardinality({k \in hops : k >= j}) = back]

\* The trusted proxies append what they see: the first one the client's
\* address, each further one the address of the proxy before it.
Header(forwarded, c) ==
    forwarded \o [k \in 1..TrustedProxyHops |-> IF k = 1 THEN c ELSE Peer]

-----------------------------------------------------------------------------
\* A request of client c reaches instance i.
Hit(i, c, forwarded) ==
    LET key == ClientIp(Header(forwarded, c))
        old == store[i][key]
        new == IF old.count = 0 THEN [count |-> 1, until |-> clock + Window]
               ELSE [old EXCEPT !.count = @ + 1]
        ok == new.count <= PerInstanceLimit(Intended)
    IN
    \* beyond the limit a higher count makes no difference
    /\ store' = IF ~ok /\ old.count > PerInstanceLimit(Intended) THEN store
                ELSE [store EXCEPT ![i][key] = new]
    /\ refusedBy' = IF ~ok /\ c = Watched THEN i ELSE Nobody
    /\ admitted' = IF ok /\ c = Watched THEN [admitted EXCEPT ![i] = Append(@, clock)]
                   ELSE admitted
    /\ UNCHANGED <<clock, restarts>>

\* Time passes; counters whose window is over are dropped.
Tick ==
    /\ clock < LastTime
    /\ clock' = clock + 1
    /\ store' = [i \in Instances |-> [a \in Address |->
                   IF store[i][a].until <= clock' THEN NoRequests ELSE store[i][a]]]
    /\ refusedBy' = Nobody
    /\ UNCHANGED <<admitted, restarts>>

\* An instance is replaced by a new one, which has counted nothing.
Restart(i) ==
    /\ restarts < MaxRestarts
    /\ restarts' = restarts + 1
    /\ store' = [store EXCEPT ![i] = [a \in Address |-> NoRequests]]
    /\ refusedBy' = Nobody
    /\ UNCHANGED <<clock, admitted>>

LimitNext ==
    \/ Tick
    \/ \E i \in Instances : Restart(i) \/ \E c \in Clients, f \in Forwarded : Hit(i, c, f)

LimitSpec == LimitInit /\ [][LimitNext]_limitVars

-----------------------------------------------------------------------------
\* The watched client's requests that instance i let in during one window's
\* length from time t on.
Within(i, t) == {k \in DOMAIN admitted[i] : admitted[i][k] \in t..(t + Window - 1)}

\* Nobody is refused for what others did, or below a fair share: who is told
\* 429 had at least its share of the cluster's limit on that instance within
\* the last window.  In particular the share is never zero.
RefusalIsEarned ==
    refusedBy # Nobody =>
        Cardinality(Within(refusedBy, clock - Window + 1)) * Cardinality(Instances) >= Intended

\* Whatever instance its requests land on and whatever its headers say, a
\* caller gets in any window's length less than twice the limit, rounded up for
\* each instance (twice, because the end of one window and the beginning of the
\* next may lie close together), and a share more for every instance replaced.
BurstIsBounded ==
    \A t \in 0..LastTime :
        Cardinality(UNION {{i} \X Within(i, t) : i \in Instances})
            <= 2 * Intended + Cardinality(Instances) - 2 + restarts * PerInstanceLimit(Intended)
=============================================================================
