------------------------------ MODULE Dashboard ------------------------------
(***************************************************************************)
(* The page frontend/src/pages/Dashboard.jsx over GET /workitems.  It asks *)
(* for a list when it is mounted, when a filter changes and every five     *)
(* seconds, does not cancel what it has asked before, and shows whatever   *)
(* answer comes last.  The list and its total are two queries; the answer  *)
(* to the list without a filter may come from the cache, which             *)
(* WorkItemCache models in full: here a commit either finds the cached     *)
(* list deleted or leaves it to its expiry.                                *)
(***************************************************************************)
EXTENDS AlertStrategy, WorkItemStates, FiniteSets, SequencesExt

CONSTANTS
    ComponentIds,  \* the component of each work item, in the order of creation
    Filters,       \* the filters a user chooses
    Limit,         \* limit
    Slots,         \* requests that can be in flight at the same time
    MaxChanges,    \* bound: changes of rows
    MaxChoices,    \* bound: changes of the filter
    MaxFailures    \* bound: requests that fail

Items == 1..Len(ComponentIds)
Unset == ""   \* a filter that is not set
NoFilter == [status |-> Unset, priority |-> Unset]

ASSUME DashboardAssumption ==
    /\ ComponentIds \in Seq(Seq(Parts) \ {<<>>})
    /\ Filters \subseteq
           [status : Statuses \cup {Unset}, priority : Priorities \cup {Unset}]
    /\ NoFilter \in Filters
    /\ Limit \in Nat /\ MaxChanges \in Nat /\ MaxChoices \in Nat
    /\ MaxFailures \in Nat

VARIABLES
    status,   \* work_items.status, "NONE" when there is no row
    changes,  \* how often rows have changed
    board,    \* the cached answer, or NoAnswer
    filter,   \* statusFilter and priorityFilter
    choices,  \* how often they have changed
    calls,    \* the requests in flight
    failures, \* how many have failed
    page      \* items and total, and whether error is set

server == <<status, changes, board>>
user   == <<filter, choices>>
vars   == <<server, user, calls, failures, page>>

\* An answer: the rows in their order with the status they had, and the total.
\* History: the rows that matched and did not fit in, and the commits between the
\* two queries.
NoAnswer == [list |-> <<>>, total |-> 0, hidden |-> {}, drift |-> 0, read |-> FALSE]

Free == [stage |-> "free", filter |-> NoFilter, answer |-> NoAnswer]

\* Only the list without a filter is looked up in the cache.
Asking(f) == [stage |-> IF f = NoFilter THEN "lookup" ELSE "select",
              filter |-> f, answer |-> NoAnswer]

-----------------------------------------------------------------------------
PriorityOf == [i \in Items |-> Priority(ComponentIds[i])]

\* "P0" sorts before "P1", and so on.
Rank == [p \in Priorities |-> CASE p = "P0" -> 0 [] p = "P1" -> 1 [] p = "P2" -> 2
                                [] p = "P3" -> 3]

Urgency == [i \in Items |-> Rank[PriorityOf[i]]]

\* Mutation of Precedes: the list is ordered by age alone.
PrecedesByAge(i, j) == i > j

\* ORDER BY priority ASC, created_at DESC.
Precedes(i, j) == Urgency[i] < Urgency[j] \/ (Urgency[i] = Urgency[j] /\ i > j)

Matching(f) ==
    {i \in Items :
        /\ status[i] # "NONE"
        /\ f.status \in {Unset, status[i]}
        /\ f.priority \in {Unset, PriorityOf[i]}}

Place(i, S) == Cardinality({j \in S : Precedes(j, i)}) + 1

\* The items of S in their order.
Ordered(S) == [n \in 1..Cardinality(S) |-> CHOOSE i \in S : Place(i, S) = n]

\* Mutation of Fitting: there is no LIMIT.
FittingUnlimited(S) == S

\* Those that fit in.
Fitting(S) == {i \in S : Place(i, S) <= Limit}

Rows(S) == [n \in DOMAIN Ordered(S) |->
               [item |-> Ordered(S)[n], status |-> status[Ordered(S)[n]]]]

\* Mutation of Counted: the filters are forgotten in the second query.
CountedUnfiltered(f) == Cardinality(Matching(NoFilter))

Counted(f) == Cardinality(Matching(f))

-----------------------------------------------------------------------------
Init ==
    /\ status = [i \in Items |-> "NONE"]
    /\ changes = 0
    /\ board = NoAnswer
    /\ filter = NoFilter
    /\ choices = 0
    /\ \E q \in Slots : calls = [s \in Slots |-> IF s = q THEN Asking(NoFilter) ELSE Free]
    /\ failures = 0
    /\ page = [answer |-> NoAnswer, error |-> FALSE]

\* A row is inserted, or its status changed.
ChangeRow(i) ==
    /\ changes < MaxChanges
    /\ changes' = changes + 1
    /\ \/ /\ status[i] = "NONE"
          /\ \A j \in Items : j < i => status[j] # "NONE"
          /\ status' = [status EXCEPT ![i] = "OPEN"]
       \/ \E to \in Statuses :
              /\ ValidTransition(status[i], to)
              /\ status' = [status EXCEPT ![i] = to]
    /\ calls' = [q \in Slots |->
                    IF calls[q].stage = "count"
                        THEN [calls[q] EXCEPT !.answer.drift = @ + 1] ELSE calls[q]]
    /\ board' \in {board, NoAnswer}
    /\ UNCHANGED <<user, failures, page>>

\* The cached list expires.
Expire ==
    /\ board # NoAnswer
    /\ board' = NoAnswer
    /\ UNCHANGED <<status, changes, user, calls, failures, page>>

\* redis.get: a hit is the answer.
Lookup(q) ==
    /\ calls[q].stage = "lookup"
    /\ calls' = IF board # NoAnswer
                THEN [calls EXCEPT ![q].stage = "answer", ![q].answer = board]
                ELSE [calls EXCEPT ![q].stage = "select"]
    /\ UNCHANGED <<server, user, failures, page>>

\* The SELECT of the rows.
Select(q) ==
    /\ calls[q].stage = "select"
    /\ LET S == Matching(calls[q].filter) IN
       calls' = [calls EXCEPT ![q].stage = "count",
                              ![q].answer.list = Rows(Fitting(S)),
                              ![q].answer.hidden = S \ Fitting(S)]
    /\ UNCHANGED <<server, user, failures, page>>

\* The SELECT COUNT(*); the list without a filter goes to the cache.
Count(q) ==
    /\ calls[q].stage = "count"
    /\ LET answer == [calls[q].answer EXCEPT !.total = Counted(calls[q].filter),
                                             !.read = TRUE] IN
       /\ calls' = [calls EXCEPT ![q].stage = "answer", ![q].answer = answer]
       /\ board' = IF calls[q].filter = NoFilter THEN answer ELSE board
    /\ UNCHANGED <<status, changes, user, failures, page>>

-----------------------------------------------------------------------------
\* load, with the filter it was created with.
Load(f) ==
    \E q \in Slots :
        /\ calls[q].stage = "free"
        /\ calls' = [calls EXCEPT ![q] = Asking(f)]

\* A filter is chosen: the effect of load runs again.
Choose(f) ==
    /\ choices < MaxChoices /\ f # filter
    /\ filter' = f
    /\ choices' = choices + 1
    /\ Load(f)
    /\ UNCHANGED <<server, failures, page>>

\* Mutation of IntervalFilter: the interval keeps the load of the first rendering.
IntervalFilterFirst == NoFilter

\* The interval is set up again whenever load changes; it fires while auto-refresh is
\* on, which it is unless the user takes the tick off.
IntervalFilter == filter

Poll ==
    /\ Load(IntervalFilter)
    /\ UNCHANGED <<server, user, failures, page>>

\* The Refresh button.
Refresh ==
    /\ Load(filter)
    /\ UNCHANGED <<server, user, failures, page>>

\* setItems, setTotal and setError(null), whatever the filter is now; the page sorts
\* the items by the order they have already.
Deliver(q) ==
    /\ calls[q].stage = "answer"
    /\ page' = [answer |-> calls[q].answer, error |-> FALSE]
    /\ calls' = [calls EXCEPT ![q] = Free]
    /\ UNCHANGED <<server, user, failures>>

\* The request fails or takes more than ten seconds: the page keeps its list.
Fail(q) ==
    /\ calls[q].stage # "free"
    /\ failures < MaxFailures
    /\ failures' = failures + 1
    /\ page' = [page EXCEPT !.error = TRUE]
    /\ calls' = [calls EXCEPT ![q] = Free]
    /\ UNCHANGED <<server, user>>

Serve(q) == Lookup(q) \/ Select(q) \/ Count(q) \/ Deliver(q)

Next ==
    \/ \E i \in Items : ChangeRow(i)
    \/ Expire
    \/ \E f \in Filters : Choose(f)
    \/ Poll \/ Refresh
    \/ \E q \in Slots : Serve(q) \/ Fail(q)

(***************************************************************************)
(* The interval keeps firing while it is set up, the cached list expires,  *)
(* and a request that does not fail is answered.                           *)
(***************************************************************************)
Fairness ==
    /\ WF_vars(Poll)
    /\ WF_vars(Expire)
    /\ \A q \in Slots : WF_vars(Serve(q))

Spec == Init /\ [][Next]_vars /\ Fairness

-----------------------------------------------------------------------------
\* Types of the variables; no answer has more items than the limit.
Answers == [list : Seq([item : Items, status : Statuses]), total : Nat,
            hidden : SUBSET Items, drift : Nat, read : BOOLEAN]

DashboardTypeOK ==
    /\ status \in [Items -> Statuses \cup {"NONE"}]
    /\ board \in Answers /\ page \in [answer : Answers, error : BOOLEAN]
    /\ filter \in Filters
    /\ changes \in 0..MaxChanges /\ choices \in 0..MaxChoices
    /\ failures \in 0..MaxFailures
    /\ calls \in [Slots -> [stage : {"free", "lookup", "select", "count", "answer"},
                            filter : Filters, answer : Answers]]
    /\ \A q \in Slots : Len(calls[q].answer.list) <= Limit

\* What the page shows is in the order of urgency, and an item that the limit has cut
\* off is less urgent, or older and no more urgent, than every item that is shown.
UrgentFirst ==
    LET shown == page.answer.list IN
    /\ \A m, n \in DOMAIN shown :
           m < n => Urgency[shown[m].item] <= Urgency[shown[n].item]
    /\ \A n \in DOMAIN shown : \A h \in page.answer.hidden :
           /\ Urgency[h] >= Urgency[shown[n].item]
           /\ Urgency[h] = Urgency[shown[n].item] => h < shown[n].item

\* The total that is shown with a list is that of another moment: it differs from the
\* number of rows that matched by no more than the commits between the two queries,
\* whether the answer was read for this request or comes from the cache.
TotalNearList ==
    LET answer  == page.answer
        matched == Len(answer.list) + Cardinality(answer.hidden) IN
    answer.total - matched \in -answer.drift..answer.drift

\* With auto-refresh on, the page comes to show the list of the filter that is
\* chosen, as the rows then are, and keeps to it once nothing changes any more, in
\* whatever order answers arrive, and after failures and answers to earlier filters.
UpToDate ==
    LET S == Matching(filter) IN
    /\ page.answer.list = Rows(Fitting(S))
    /\ page.answer.total = Cardinality(S)
    /\ ~page.error

Settles == <>[]UpToDate
=============================================================================
