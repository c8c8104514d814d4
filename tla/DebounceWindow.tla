---------------------------- MODULE DebounceWindow ----------------------------
(***************************************************************************)
(* The DebounceWindow class of services/signal_service.py: it keeps, per   *)
(* component, the times of the signals of the last Window ticks, and tells *)
(* its caller when their number is exactly Threshold.  record holds an     *)
(* asyncio.Lock and does not suspend inside, so it is one action.          *)
(***************************************************************************)
EXTENDS Integers, Sequences, FiniteSets

CONSTANTS
    Components,  \* component ids
    Window,      \* window_seconds, in ticks
    Threshold,   \* threshold
    MaxTime,     \* bound: ticks in a behavior
    MaxPerTick   \* bound: signals of a component in a tick

ASSUME DebounceAssumption ==
    /\ Window \in Nat \ {0}
    /\ Threshold \in Nat \ {0}
    /\ MaxTime \in Nat
    /\ MaxPerTick \in Nat

VARIABLES
    now,      \* time.monotonic()
    buckets,  \* _buckets: the times recorded per component, oldest first
    count,    \* what the last call for the component returned: the count ...
    fire,     \* ... and should_create_work_item
    \* History.
    arrived,  \* signals recorded in each tick
    noticed   \* a call has fired since the count was last below the threshold

vars == <<now, buckets, count, fire, arrived, noticed>>

Init ==
    /\ now = 0
    /\ buckets = [c \in Components |-> <<>>]
    /\ count = [c \in Components |-> 0]
    /\ fire = [c \in Components |-> FALSE]
    /\ arrived = [c \in Components |-> [t \in 0..MaxTime |-> 0]]
    /\ noticed = [c \in Components |-> FALSE]

-----------------------------------------------------------------------------
\* Mutation of Kept: a signal that is Window old still counts.
KeptInclusive(bucket) == {k \in DOMAIN bucket : bucket[k] >= now - Window}

\* The entries that are not evicted.
Kept(bucket) == {k \in DOMAIN bucket : bucket[k] > now - Window}

\* The indexes of a set in their order.
InOrder(S) ==
    CHOOSE f \in [1..Cardinality(S) -> S] : \A i, j \in DOMAIN f : i < j => f[i] < f[j]

\* The bucket without the entries that are evicted.
Recent(bucket) ==
    LET places == InOrder(Kept(bucket)) IN [n \in DOMAIN places |-> bucket[places[n]]]

\* Mutation of Crosses: the threshold has to be exceeded.
CrossesStrictly(n) == n = Threshold + 1

\* should_create_work_item.
Crosses(n) == n = Threshold

\* Mutation of Extended: the newest entry goes first.
ExtendedInFront(bucket) == <<now>> \o Recent(bucket)

\* The bucket with the new signal.
Extended(bucket) == Append(Recent(bucket), now)

Record(c) ==
    LET bucket == Extended(buckets[c]) IN
    /\ arrived[c][now] < MaxPerTick
    /\ arrived' = [arrived EXCEPT ![c][now] = @ + 1]
    /\ buckets' = [buckets EXCEPT ![c] = bucket]
    /\ count' = [count EXCEPT ![c] = Len(bucket)]
    /\ fire' = [fire EXCEPT ![c] = Crosses(Len(bucket))]
    /\ noticed' = [noticed EXCEPT ![c] = fire'[c] \/ (@ /\ Len(bucket) >= Threshold)]
    /\ UNCHANGED now

\* Time passes.
Tick ==
    /\ now < MaxTime
    /\ now' = now + 1
    /\ UNCHANGED <<buckets, count, fire, arrived, noticed>>

Next == Tick \/ \E c \in Components : Record(c)

Spec == Init /\ [][Next]_vars

-----------------------------------------------------------------------------
\* Types of the variables; a bucket is ordered by time.
TypeOK ==
    /\ now \in 0..MaxTime
    /\ buckets \in [Components -> Seq(0..now)]
    /\ \A c \in Components : \A j, k \in DOMAIN buckets[c] :
           j < k => buckets[c][j] <= buckets[c][k]
    /\ count \in [Components -> Nat]
    /\ fire \in [Components -> BOOLEAN]
    /\ noticed \in [Components -> BOOLEAN]
    /\ arrived \in [Components -> [0..MaxTime -> 0..MaxPerTick]]

\* Every member of a set as often as a function says, told apart by a number: as many
\* pairs as the sum of the function over the set.
Numbered(f, S) == UNION {{s} \X (1..f[s]) : s \in S}

InWindow == {t \in 0..MaxTime : now - Window < t /\ t <= now}

\* The count a call returns is the number of signals of its component in the
\* window that ends with it, whatever other components did and however long the
\* component was silent: counted here from the arrivals, tick by tick.
CountExact ==
    \A c \in Components :
        arrived[c][now] > 0 => count[c] = Cardinality(Numbered(arrived[c], InWindow))

\* No burst goes unnoticed: when the count has reached the threshold, a call has
\* fired since it was last below, although a call fires at equality only and any
\* number of entries may be evicted between two calls.
BurstNoticed == \A c \in Components : count[c] >= Threshold => noticed[c]
=============================================================================
