---------------------------- MODULE DashboardProofs ----------------------------
(***************************************************************************)
(* Theorems about Dashboard, for every set of work items and filters and   *)
(* every limit.                                                            *)
(*                                                                         *)
(* The place of an item is the number of items before it, so places are    *)
(* different and fill 1..n: that makes Ordered a list of all the items of  *)
(* a set, and Fitting a set of no more than Limit.  The total is followed  *)
(* from the SELECT on: a commit moves one row at most in or out of what    *)
(* matches, and is counted as drift.                                       *)
(***************************************************************************)
EXTENDS Dashboard, FiniteSetTheorems, WellFoundedInduction, TLAPS

\* An answer shows the most urgent items in their order, no more than the limit.
Sorted(answer) ==
    /\ \A m, n \in DOMAIN answer.list :
           m < n => Urgency[answer.list[m].item] <= Urgency[answer.list[n].item]
    /\ \A n \in DOMAIN answer.list : \A h \in answer.hidden :
           /\ Urgency[h] >= Urgency[answer.list[n].item]
           /\ Urgency[h] = Urgency[answer.list[n].item] => h < answer.list[n].item
    /\ Len(answer.list) <= Limit

\* A count is off by no more than the drift.
Near(answer, count) ==
    count - (Len(answer.list) + Cardinality(answer.hidden)) \in -answer.drift..answer.drift

Good(answer) == Sorted(answer) /\ Near(answer, answer.total)

\* What a request has read so far.
CallGood(call) ==
    /\ call.stage \in {"free", "lookup", "select"} => call.answer = NoAnswer
    /\ call.stage = "count" =>
           Sorted(call.answer) /\ Near(call.answer, Counted(call.filter))
    /\ call.stage = "answer" => Good(call.answer)

Lists == Seq([item : Items, status : Statuses])

CallTypes == [stage : {"free", "lookup", "select", "count", "answer"},
              filter : Filters, answer : Answers]

DashboardTypes ==
    /\ status \in [Items -> Statuses \cup {"NONE"}]
    /\ board \in Answers /\ page \in [answer : Answers, error : BOOLEAN]
    /\ filter \in Filters
    /\ changes \in 0..MaxChanges /\ choices \in 0..MaxChoices
    /\ failures \in 0..MaxFailures
    /\ calls \in [Slots -> CallTypes]

DashboardInv ==
    /\ DashboardTypes
    /\ Good(board) /\ Good(page.answer)
    /\ \A q \in Slots : CallGood(calls[q])

-----------------------------------------------------------------------------
Below == {ss \in Nat \X Nat : ss[1] < ss[2]}

\* The order has no endless descent.
LEMMA BelowWellFounded == IsWellFoundedOn(Below, Nat)
<1>1. Below = OpToRel(<, Nat)
  BY DEF Below, OpToRel
<1> QED
  BY <1>1, NatLessThanWellFounded

\* Some strategy of those that match comes first.
LEMMA SmallestEntry ==
    ASSUME NEW T, T \subseteq Nat, T # {}
    PROVE  \E m \in T : \A k \in T : m <= k
<1>1. PICK m \in T : \A y \in T : ~(<<y, m>> \in Below)
  BY BelowWellFounded, WFMin, Zenon
<1>2. \A k \in T : ~(k < m)
  BY <1>1 DEF Below
<1> QED
  BY <1>2

\* Some key of a priority's strategies matches the id.
Hit(id, priority) == \E n \in Hits(id) : Registry[n].priority = priority

\* The registry is searched in its order, so an id that matches several strategies is
\* treated as a database before anything else and as a cache before a queue or an API,
\* whatever the order of its parts, although P1 is more urgent than P2.
THEOREM PriorityByClass ==
    ASSUME NEW id
    PROVE  /\ Priority(id) = "P0" <=> Hit(id, "P0")
           /\ Priority(id) = "P2" <=> ~Hit(id, "P0") /\ Hit(id, "P2")
           /\ Priority(id) = "P1" <=> ~Hit(id, "P0") /\ ~Hit(id, "P2") /\ Hit(id, "P1")
           /\ Priority(id) = "P3" <=> Hits(id) = {}
<1>1. CASE Hits(id) = {}
  BY <1>1 DEF Hit, Priority
<1>2. CASE Hits(id) # {}
  <2> DEFINE n == First(id)
  <2>1. Hits(id) \subseteq Entries
    BY DEF Hits
  <2>2. \E k \in Hits(id) : \A m \in Hits(id) : k <= m
    BY <1>2, <2>1, SmallestEntry DEF Entries
  <2>3. n \in Hits(id) /\ \A m \in Hits(id) : n <= m
    BY <2>2 DEF First
  <2> HIDE DEF n
  <2>4. Priority(id) = Registry[n].priority
    BY <1>2 DEF Priority, n
  <2>5. \A k \in Entries : /\ Registry[k].priority = "P0" <=> k <= 4
                           /\ Registry[k].priority = "P2" <=> 4 < k /\ k <= 7
                           /\ Registry[k].priority = "P1" <=> 7 < k
    <3> SUFFICES ASSUME NEW k \in Entries
                 PROVE  /\ Registry[k].priority = "P0" <=> k <= 4
                        /\ Registry[k].priority = "P2" <=> 4 < k /\ k <= 7
                        /\ Registry[k].priority = "P1" <=> 7 < k
      OBVIOUS
    <3>1. k \in {1, 2, 3, 4, 5, 6, 7, 8, 9, 10, 11, 12, 13, 14}
      BY DEF Entries
    <3>2. k \in {1, 2, 3, 4} => Registry[k].priority = "P0"
      BY DEF Registry
    <3>3. k \in {5, 6, 7} => Registry[k].priority = "P2"
      BY DEF Registry
    <3>4. k \in {8, 9, 10, 11, 12, 13, 14} => Registry[k].priority = "P1"
      BY DEF Registry
    <3> QED
      BY <3>1, <3>2, <3>3, <3>4
  <2>6. n \in Entries /\ \A m \in Hits(id) : m \in Entries /\ n <= m
    BY <2>1, <2>3
  <2>7. CASE n <= 4
    BY <1>2, <2>3, <2>4, <2>5, <2>6, <2>7 DEF Hit, Entries
  <2>8. CASE 4 < n /\ n <= 7
    <3>1. ~Hit(id, "P0")
      BY <2>5, <2>6, <2>8 DEF Hit, Entries
    <3> QED
      BY <1>2, <2>3, <2>4, <2>5, <2>6, <2>8, <3>1 DEF Hit, Entries
  <2>9. CASE 7 < n
    <3>1. ~Hit(id, "P0") /\ ~Hit(id, "P2")
      BY <2>5, <2>6, <2>9 DEF Hit, Entries
    <3> QED
      BY <1>2, <2>3, <2>4, <2>5, <2>6, <2>9, <3>1 DEF Hit, Entries
  <2> QED
    BY <2>6, <2>7, <2>8, <2>9 DEF Entries
<1> QED
  BY <1>1, <1>2

\* Every component id has a priority.
LEMMA UrgencyType ==
    ASSUME NEW i \in Items
    PROVE  PriorityOf[i] \in Priorities /\ Urgency[i] \in 0..3
<1> DEFINE id == ComponentIds[i]
<1>1. PriorityOf[i] = Priority(id)
  BY DEF PriorityOf
<1>2. ASSUME Hits(id) = {}
      PROVE  Priority(id) \in Priorities
  BY <1>2 DEF Priority, Priorities
<1>3. ASSUME Hits(id) # {}
      PROVE  Priority(id) \in Priorities
  <2>1. Hits(id) \subseteq Entries
    BY DEF Hits
  <2>2. \E n \in Hits(id) : \A m \in Hits(id) : n <= m
    BY <1>3, <2>1, SmallestEntry DEF Entries
  <2>3. First(id) \in Entries
    BY <2>1, <2>2 DEF First
  <2>4. \A n \in Entries : Registry[n].priority \in Priorities
    BY DEF Entries, Registry, Priorities
  <2> QED
    BY <1>3, <2>3, <2>4 DEF Priority
<1>4. PriorityOf[i] \in Priorities
  BY <1>1, <1>2, <1>3
<1>5. Rank[PriorityOf[i]] \in 0..3
  BY <1>4 DEF Rank, Priorities
<1> QED
  BY <1>4, <1>5 DEF Urgency

\* Items are finitely many numbers.
LEMMA ItemsFinite ==
    /\ Items \subseteq Nat
    /\ \A S \in SUBSET Items : IsFiniteSet(S) /\ Cardinality(S) \in Nat
<1>1. Len(ComponentIds) \in Nat
  BY DashboardAssumption
<1>2. IsFiniteSet(Items) /\ Items \subseteq Nat
  BY <1>1, FS_Interval DEF Items
<1> QED
  BY <1>2, FS_Subset, FS_CardinalityType

\* ORDER BY is a strict total order.
LEMMA PrecedesOrders ==
    /\ \A i \in Items : ~Precedes(i, i)
    /\ \A i, j \in Items : i # j => Precedes(i, j) \/ Precedes(j, i)
    /\ \A i, j, k \in Items : Precedes(i, j) /\ Precedes(j, k) => Precedes(i, k)
BY UrgencyType, ItemsFinite DEF Precedes

\* Places are different and follow the order.
LEMMA PlaceOrders ==
    ASSUME NEW S \in SUBSET Items, NEW i \in S
    PROVE  /\ Place(i, S) \in 1..Cardinality(S)
           /\ \A j \in S : Precedes(i, j) => Place(i, S) < Place(j, S)
<1> DEFINE B(j) == {k \in S : Precedes(k, j)}
<1>1. \A j \in S : /\ B(j) \in SUBSET S /\ B(j) # S
                   /\ IsFiniteSet(B(j)) /\ Cardinality(B(j)) \in Nat
                   /\ Place(j, S) = Cardinality(B(j)) + 1
  BY PrecedesOrders, ItemsFinite DEF Place
<1>2. IsFiniteSet(S) /\ Cardinality(S) \in Nat
  BY ItemsFinite
<1>3. Cardinality(B(i)) < Cardinality(S)
  <2> HIDE DEF B
  <2>1. Cardinality(B(i)) <= Cardinality(S) /\ Cardinality(B(i)) # Cardinality(S)
    BY <1>1, <1>2, FS_Subset
  <2> QED
    BY <1>1, <1>2, <2>1
<1>4. ASSUME NEW j \in S, Precedes(i, j)
      PROVE  Place(i, S) < Place(j, S)
  <2>1. B(i) \subseteq B(j) /\ i \in B(j) /\ i \notin B(i)
    BY <1>4, PrecedesOrders
  <2>2. Cardinality(B(i)) <= Cardinality(B(j)) /\ Cardinality(B(i)) # Cardinality(B(j))
    <3> HIDE DEF B
    <3> QED
      BY <1>1, <2>1, FS_Subset
  <2> HIDE DEF B
  <2> QED
    BY <1>1, <2>2
<1> HIDE DEF B
<1> QED
  BY <1>1, <1>2, <1>3, <1>4

\* So every place is taken.
LEMMA EveryPlaceTaken ==
    ASSUME NEW S \in SUBSET Items, NEW n \in 1..Cardinality(S)
    PROVE  \E i \in S : Place(i, S) = n
<1> DEFINE f == [i \in S |-> Place(i, S)]
           T == 1..Cardinality(S)
<1>1. IsFiniteSet(S) /\ Cardinality(S) \in Nat
  BY ItemsFinite
<1>2. IsFiniteSet(T) /\ Cardinality(T) = Cardinality(S)
  BY <1>1, FS_Interval
<1>3. f \in [S -> T]
  BY PlaceOrders
<1>4. \A i, j \in S : i # j => Place(i, S) # Place(j, S)
  <2> SUFFICES ASSUME NEW i \in S, NEW j \in S, i # j
               PROVE  Place(i, S) # Place(j, S)
    OBVIOUS
  <2>1. Place(i, S) \in Nat /\ Place(j, S) \in Nat
    BY PlaceOrders
  <2>2. Place(i, S) < Place(j, S) \/ Place(j, S) < Place(i, S)
    BY PrecedesOrders, PlaceOrders
  <2> QED
    BY <2>1, <2>2
<1>5. f \in Injection(S, T)
  BY <1>3, <1>4 DEF Injection, IsInjective
<1>6. f \in Surjection(S, T)
  <2> HIDE DEF f, T
  <2> QED
    BY <1>1, <1>2, <1>5, FS_Injection
<1> QED
  BY <1>6 DEF Surjection

\* Ordered lists the items of a set by their places.
LEMMA OrderedPlaces ==
    ASSUME NEW S \in SUBSET Items
    PROVE  /\ DOMAIN Ordered(S) = 1..Cardinality(S)
           /\ \A n \in 1..Cardinality(S) :
                  Ordered(S)[n] \in S /\ Place(Ordered(S)[n], S) = n
BY EveryPlaceTaken DEF Ordered

\* No more items fit in than the limit.
LEMMA FittingLimited ==
    ASSUME NEW S \in SUBSET Items
    PROVE  Fitting(S) \in SUBSET S /\ Cardinality(Fitting(S)) <= Limit
<1> DEFINE f == [i \in Fitting(S) |-> Place(i, S)]
           T == 1..Limit
<1>1. Fitting(S) \in SUBSET S
  BY DEF Fitting
<1>2. IsFiniteSet(T) /\ Cardinality(T) = Limit
  BY DashboardAssumption, FS_Interval
<1>3. f \in [Fitting(S) -> T]
  <2>1. \A i \in Fitting(S) : i \in S /\ Place(i, S) <= Limit
    BY DEF Fitting
  <2>2. \A i \in S : Place(i, S) \in Nat /\ Place(i, S) >= 1
    BY PlaceOrders, ItemsFinite
  <2> QED
    BY <2>1, <2>2, DashboardAssumption
<1>4. \A i, j \in Fitting(S) : i # j => Place(i, S) # Place(j, S)
  <2> SUFFICES ASSUME NEW i \in Fitting(S), NEW j \in Fitting(S), i # j
               PROVE  Place(i, S) # Place(j, S)
    OBVIOUS
  <2>1. i \in S /\ j \in S /\ Place(i, S) \in Nat /\ Place(j, S) \in Nat
    BY <1>1, PlaceOrders
  <2>2. Place(i, S) < Place(j, S) \/ Place(j, S) < Place(i, S)
    BY <2>1, PrecedesOrders, PlaceOrders
  <2> QED
    BY <2>1, <2>2
<1>5. f \in Injection(Fitting(S), T)
  BY <1>3, <1>4 DEF Injection, IsInjective
<1> HIDE DEF f, T
<1> QED
  BY <1>1, <1>2, <1>5, FS_Injection

-----------------------------------------------------------------------------
\* The first query: the list is sorted, and together with what it hides it is all
\* that matched.
LEMMA SelectedSorted ==
    ASSUME DashboardTypes, NEW f, NEW answer \in Answers,
           answer.list = Rows(Fitting(Matching(f))),
           answer.hidden = Matching(f) \ Fitting(Matching(f))
    PROVE  /\ Sorted(answer)
           /\ Len(answer.list) + Cardinality(answer.hidden) = Counted(f)
           /\ Counted(f) \in Nat
<1> DEFINE S == Matching(f)
           F == Fitting(S)
           L == answer.list
<1>0. S \in SUBSET Items
  BY DEF Matching
<1> HIDE DEF S
<1>1. F \in SUBSET S /\ F \in SUBSET Items /\ Cardinality(F) <= Limit
  BY <1>0, FittingLimited
<1>2. Cardinality(F) \in Nat /\ Cardinality(S) \in Nat /\ IsFiniteSet(S)
  BY <1>0, <1>1, ItemsFinite
<1>3. /\ DOMAIN L = 1..Cardinality(F)
      /\ \A n \in 1..Cardinality(F) :
             L[n].item = Ordered(F)[n] /\ L[n].item \in F /\ Place(L[n].item, F) = n
  <2>1. L = [n \in DOMAIN Ordered(F) |->
                [item |-> Ordered(F)[n], status |-> status[Ordered(F)[n]]]]
    BY DEF Rows, S
  <2> HIDE DEF F, L
  <2> QED
    BY <1>1, <2>1, OrderedPlaces
<1>4. Len(L) = Cardinality(F)
  BY <1>2, <1>3 DEF Answers
<1>5. ASSUME NEW m \in DOMAIN L, NEW n \in DOMAIN L, m < n
      PROVE  Urgency[L[m].item] <= Urgency[L[n].item]
  <2>1. /\ L[m].item \in F /\ L[n].item \in F
        /\ Place(L[m].item, F) = m /\ Place(L[n].item, F) = n
        /\ m \in Nat /\ n \in Nat
    BY <1>2, <1>3
  <2>2. ~Precedes(L[n].item, L[m].item)
    <3> SUFFICES ASSUME Precedes(L[n].item, L[m].item)
                 PROVE  FALSE
      OBVIOUS
    <3>1. Place(L[n].item, F) < Place(L[m].item, F)
      BY <1>1, <2>1, PlaceOrders
    <3> QED
      BY <1>5, <2>1, <3>1
  <2>3. L[m].item \in Items /\ L[n].item \in Items
    BY <1>1, <2>1
  <2> QED
    BY <2>2, <2>3, UrgencyType DEF Precedes
<1>6. ASSUME NEW n \in DOMAIN L, NEW h \in answer.hidden
      PROVE  /\ Urgency[h] >= Urgency[L[n].item]
             /\ Urgency[h] = Urgency[L[n].item] => h < L[n].item
  <2> DEFINE i == L[n].item
  <2>1. i \in F /\ i \in S /\ i \in Items /\ h \in S /\ h \in Items /\ h \notin F
    BY <1>0, <1>1, <1>3, <1>6 DEF S
  <2>2. Place(i, S) \in Nat /\ Place(h, S) \in Nat
    BY <1>0, <1>2, <2>1, PlaceOrders
  <2>3. Place(i, S) <= Limit /\ ~(Place(h, S) <= Limit)
    BY <2>1 DEF Fitting
  <2> HIDE DEF i
  <2>4. ~Precedes(h, i)
    <3> SUFFICES ASSUME Precedes(h, i)
                 PROVE  FALSE
      OBVIOUS
    <3>1. Place(h, S) < Place(i, S)
      BY <1>0, <2>1, PlaceOrders
    <3> QED
      BY <2>2, <2>3, <3>1, DashboardAssumption
  <2>5. Precedes(i, h)
    BY <2>1, <2>4, PrecedesOrders
  <2>6. /\ Urgency[h] >= Urgency[i]
        /\ Urgency[h] = Urgency[i] => h < i
    BY <2>1, <2>5, UrgencyType, ItemsFinite DEF Precedes
  <2> QED
    BY <2>6 DEF i
<1>7. Cardinality(F) + Cardinality(S \ F) = Cardinality(S)
  <2>1. IsFiniteSet(F) /\ IsFiniteSet(S \ F) /\ Cardinality(S \ F) \in Nat
    BY <1>0, <1>1, ItemsFinite
  <2>2. F \cup (S \ F) = S /\ F \cap (S \ F) = {}
    BY <1>1
  <2>3. Cardinality(S) = Cardinality(F) + Cardinality(S \ F) - Cardinality(F \cap (S \ F))
    BY <2>1, <2>2, FS_Union
  <2>4. Cardinality(F \cap (S \ F)) = 0
    BY <2>2, FS_EmptySet
  <2> QED
    BY <1>2, <2>1, <2>3, <2>4
<1>8. Counted(f) = Cardinality(S) /\ answer.hidden = S \ F
  BY DEF Counted, S
<1> QED
  BY <1>1, <1>2, <1>4, <1>5, <1>6, <1>7, <1>8 DEF Sorted

\* A function on 1..n is a sequence.
LEMMA SeqOfLength ==
    ASSUME NEW X, NEW n \in Nat, NEW s \in [1..n -> X]
    PROVE  s \in Seq(X)
OBVIOUS

\* It has the type of an answer.
LEMMA SelectedType ==
    ASSUME DashboardTypes, NEW f
    PROVE  /\ Rows(Fitting(Matching(f))) \in Seq([item : Items, status : Statuses])
           /\ Matching(f) \ Fitting(Matching(f)) \in SUBSET Items
<1> DEFINE F == Fitting(Matching(f))
<1>1. Matching(f) \in SUBSET Items
  BY DEF Matching
<1>2. F \in SUBSET Matching(f)
  BY <1>1, FittingLimited
<1>3. Cardinality(F) \in Nat /\ F \in SUBSET Items
  BY <1>1, <1>2, ItemsFinite
<1>4. \A i \in F : i \in Items /\ status[i] \in Statuses
  BY <1>2 DEF Matching, DashboardTypes
<1> HIDE DEF F
<1>5. Rows(F) = [n \in 1..Cardinality(F) |->
                    [item |-> Ordered(F)[n], status |-> status[Ordered(F)[n]]]]
  BY <1>3, OrderedPlaces DEF Rows
<1>6. \A n \in 1..Cardinality(F) : Ordered(F)[n] \in F
  BY <1>3, OrderedPlaces
<1> DEFINE Shown == [item : Items, status : Statuses]
<1>7. Rows(F) \in [1..Cardinality(F) -> Shown]
  BY <1>4, <1>5, <1>6
<1>8. Rows(F) \in Seq(Shown)
  <2> HIDE DEF Shown
  <2> QED
    BY <1>3, <1>7, SeqOfLength
<1> QED
  BY <1>1, <1>8 DEF F

\* What matches in given rows.
Matched(s, f) ==
    {i \in Items :
        /\ s[i] # "NONE"
        /\ f.status \in {Unset, s[i]}
        /\ f.priority \in {Unset, PriorityOf[i]}}

\* A change of one row moves the count by one at most.
LEMMA CountMovesByOne ==
    ASSUME NEW f, NEW s, NEW t, NEW i \in Items, \A j \in Items \ {i} : t[j] = s[j]
    PROVE  /\ Cardinality(Matched(s, f)) \in Nat /\ Cardinality(Matched(t, f)) \in Nat
           /\ Cardinality(Matched(t, f)) - Cardinality(Matched(s, f)) \in -1..1
<1> DEFINE S == Matched(s, f)
           T == Matched(t, f)
<1>1. S \in SUBSET Items /\ T \in SUBSET Items /\ S \ {i} = T \ {i}
  BY DEF Matched
<1> HIDE DEF S, T
<1>2. /\ IsFiniteSet(S) /\ Cardinality(S) \in Nat
      /\ IsFiniteSet(T) /\ Cardinality(T) \in Nat
  BY <1>1, ItemsFinite
<1>3. /\ Cardinality(S \ {i}) = IF i \in S THEN Cardinality(S) - 1 ELSE Cardinality(S)
      /\ Cardinality(T \ {i}) = IF i \in T THEN Cardinality(T) - 1 ELSE Cardinality(T)
  BY <1>2, FS_RemoveElement
<1>4. Cardinality(T) - Cardinality(S) \in -1..1
  BY <1>1, <1>2, <1>3
<1> QED
  BY <1>2, <1>4 DEF S, T

-----------------------------------------------------------------------------
\* What is used of the type of an answer.
LEMMA AnswersShape ==
    /\ Answers = [list : Lists, total : Nat, hidden : SUBSET Items, drift : Nat,
                  read : BOOLEAN]
    /\ <<>> \in Lists
BY DEF Answers, Lists

\* An empty page is in order.
LEMMA NoAnswerGood == NoAnswer \in Answers /\ Good(NoAnswer)
<1>1. NoAnswer \in Answers
  BY AnswersShape DEF NoAnswer
<1>2. Cardinality({}) = 0
  BY FS_EmptySet
<1> QED
  BY <1>1, <1>2, DashboardAssumption DEF NoAnswer, Good, Sorted, Near

\* No filter is a filter too.
LEMMA FilterTypes == NoFilter \in Filters
BY DashboardAssumption DEF NoFilter

\* A call that has read nothing yet is in order.
LEMMA IdleCalls ==
    /\ Free \in CallTypes /\ CallGood(Free)
    /\ \A f \in Filters : Asking(f) \in CallTypes /\ CallGood(Asking(f))
BY NoAnswerGood, FilterTypes DEF Free, Asking, CallTypes, CallGood

\* Another commit moves a count by one at most and is counted.
LEMMA DriftCovers ==
    ASSUME NEW n \in Nat, NEW d \in Nat, NEW old \in Nat, NEW new \in Nat,
           old - n \in -d..d, new - old \in -1..1
    PROVE  new - n \in -(d + 1)..(d + 1)
OBVIOUS

\* A change of a row, with the requests that are between their queries.
LEMMA ChangeStep ==
    ASSUME DashboardInv, NEW i \in Items, ChangeRow(i)
    PROVE  DashboardInv'
<1> USE DEF DashboardInv
<1>1. /\ status' \in [Items -> Statuses \cup {"NONE"}]
      /\ \A j \in Items \ {i} : status'[j] = status[j]
      /\ changes' \in 0..MaxChanges
      /\ board' \in {board, NoAnswer}
      /\ UNCHANGED <<user, failures, page>>
  BY DashboardAssumption DEF ChangeRow, DashboardTypes, Statuses
<1>2. /\ calls' = [q \in Slots |->
                      IF calls[q].stage = "count"
                          THEN [calls[q] EXCEPT !.answer.drift = @ + 1] ELSE calls[q]]
      /\ calls \in [Slots -> CallTypes]
  BY DEF ChangeRow, DashboardTypes
<1>3. ASSUME NEW q \in Slots, calls[q].stage = "count"
      PROVE  calls'[q] \in CallTypes /\ CallGood(calls[q])'
  <2> DEFINE a == calls[q].answer
             b == [a EXCEPT !.drift = @ + 1]
  <2>1. a \in Answers /\ calls[q].filter \in Filters /\ calls[q] \in CallTypes
    BY <1>2 DEF CallTypes
  <2>2. b \in Answers /\ b.list = a.list /\ b.hidden = a.hidden /\ b.drift = a.drift + 1
    BY <2>1, AnswersShape
  <2>3. calls'[q] = [calls[q] EXCEPT !.answer = b]
    BY <1>2, <1>3
  <2>4. /\ calls'[q] \in CallTypes /\ calls'[q].answer = b
        /\ calls'[q].stage = "count" /\ calls'[q].filter = calls[q].filter
    BY <1>3, <2>1, <2>2, <2>3 DEF CallTypes
  <2>5. Sorted(a) /\ Near(a, Counted(calls[q].filter))
    BY <1>3 DEF CallGood
  <2>6. Sorted(b)
    BY <2>2, <2>5 DEF Sorted
  <2> DEFINE f == calls[q].filter
             old == Cardinality(Matched(status, f))
             new == Cardinality(Matched(status', f))
  <2>7. old \in Nat /\ new \in Nat /\ new - old \in -1..1
    BY <1>1, CountMovesByOne
  <2>8. Len(a.list) \in Nat /\ Cardinality(a.hidden) \in Nat /\ a.drift \in Nat
    BY <2>1, ItemsFinite DEF Answers
  <2>9. Near(b, new)
    <3>1. Near(a, old)
      BY <2>5 DEF Counted, Matching, Matched
    <3> DEFINE n == Len(a.list) + Cardinality(a.hidden)
    <3>2. old - n \in -a.drift..a.drift /\ n \in Nat
      BY <2>8, <3>1 DEF Near
    <3> HIDE DEF a, b, old, new, n
    <3>3. new - n \in -(a.drift + 1)..(a.drift + 1)
      BY <2>7, <2>8, <3>2, DriftCovers
    <3> QED
      BY <2>2, <3>3 DEF Near, n
  <2>10. Near(calls[q].answer, Counted(calls[q].filter))'
    BY <2>4, <2>9 DEF Near, Counted, Matching, Matched, Items, PriorityOf
  <2> QED
    BY <2>4, <2>6, <2>10 DEF CallGood
<1>4. ASSUME NEW q \in Slots, calls[q].stage # "count"
      PROVE  calls'[q] \in CallTypes /\ CallGood(calls[q])'
  BY <1>2, <1>4 DEF CallGood, CallTypes
<1>5. calls' \in [Slots -> CallTypes] /\ \A q \in Slots : CallGood(calls[q])'
  BY <1>2, <1>3, <1>4
<1> QED
  BY <1>1, <1>5, NoAnswerGood DEF DashboardTypes, user

-----------------------------------------------------------------------------
\* A step that touches one request at most, and no row.
LEMMA CallsStep ==
    ASSUME DashboardInv, UNCHANGED <<status, changes>>,
           board' \in Answers, Good(board'),
           page' \in [answer : Answers, error : BOOLEAN], Good(page'.answer),
           filter' \in Filters, choices' \in 0..MaxChoices, failures' \in 0..MaxFailures,
           \/ UNCHANGED calls
           \/ \E q \in Slots : \E c \in CallTypes :
                  CallGood(c) /\ calls' = [calls EXCEPT ![q] = c]
    PROVE  DashboardInv'
<1>1. \A f : Counted(f)' = Counted(f)
  BY DEF Counted, Matching
<1>2. ASSUME NEW c, CallGood(c)
      PROVE  CallGood(c)'
  BY <1>1, <1>2 DEF CallGood
<1> QED
  BY <1>2 DEF DashboardInv, DashboardTypes

\* The server.
LEMMA ServeStep ==
    ASSUME DashboardInv, NEW q \in Slots, Serve(q)
    PROVE  DashboardInv'
<1> USE DEF DashboardInv
<1>0. /\ calls \in [Slots -> CallTypes] /\ calls[q] \in CallTypes /\ CallGood(calls[q])
      /\ calls[q].answer \in Answers /\ calls[q].filter \in Filters
  BY DEF DashboardTypes, CallTypes
<1>1. CASE Lookup(q)
  <2> DEFINE hit == [calls[q] EXCEPT !.stage = "answer", !.answer = board]
             miss == [calls[q] EXCEPT !.stage = "select"]
  <2>1. hit \in CallTypes /\ CallGood(hit)
    BY <1>0 DEF CallTypes, CallGood, DashboardTypes
  <2>2. miss \in CallTypes /\ CallGood(miss)
    BY <1>0, <1>1 DEF CallTypes, CallGood, Lookup
  <2>3. calls' \in {[calls EXCEPT ![q] = hit], [calls EXCEPT ![q] = miss]}
    BY <1>0, <1>1 DEF Lookup, CallTypes
  <2>4. UNCHANGED <<server, user, failures, page>>
    BY <1>1 DEF Lookup
  <2> HIDE DEF hit, miss
  <2> QED
    BY <2>1, <2>2, <2>3, <2>4, CallsStep DEF server, user, DashboardTypes
<1>2. CASE Select(q)
  <2> DEFINE f == calls[q].filter
             a == [calls[q].answer EXCEPT !.list = Rows(Fitting(Matching(f))),
                                          !.hidden = Matching(f) \ Fitting(Matching(f))]
             c == [calls[q] EXCEPT !.stage = "count", !.answer = a]
  <2>1. calls[q].answer = NoAnswer
    BY <1>0, <1>2 DEF CallGood, Select
  <2>2. /\ a \in Answers /\ a.drift = 0
        /\ a.list = Rows(Fitting(Matching(f)))
        /\ a.hidden = Matching(f) \ Fitting(Matching(f))
    <3>1. /\ Rows(Fitting(Matching(f))) \in Lists
          /\ Matching(f) \ Fitting(Matching(f)) \in SUBSET Items
      BY SelectedType DEF Lists
    <3>2. NoAnswer \in Answers /\ NoAnswer.drift = 0
      BY NoAnswerGood DEF NoAnswer
    <3> QED
      BY <2>1, <3>1, <3>2, AnswersShape
  <2>3. calls' = [calls EXCEPT ![q] = c]
    BY <1>2 DEF Select
  <2> HIDE DEF a
  <2>4. Sorted(a) /\ Near(a, Counted(f))
    <3>1. /\ Sorted(a) /\ Counted(f) \in Nat
          /\ Len(a.list) + Cardinality(a.hidden) = Counted(f)
      BY <2>2, SelectedSorted
    <3> QED
      BY <2>2, <3>1 DEF Near
  <2>5. c \in CallTypes /\ CallGood(c)
    BY <1>0, <2>2, <2>4 DEF CallTypes, CallGood
  <2>6. UNCHANGED <<server, user, failures, page>>
    BY <1>2 DEF Select
  <2> HIDE DEF c
  <2> QED
    BY <2>3, <2>5, <2>6, CallsStep DEF server, user, DashboardTypes
<1>3. CASE Count(q)
  <2> DEFINE f == calls[q].filter
             a == [calls[q].answer EXCEPT !.total = Counted(f), !.read = TRUE]
             c == [calls[q] EXCEPT !.stage = "answer", !.answer = a]
  <2>1. Counted(f) \in Nat
    BY ItemsFinite DEF Counted, Matching
  <2>2. /\ a \in Answers /\ a.total = Counted(f)
        /\ a.list = calls[q].answer.list /\ a.hidden = calls[q].answer.hidden
        /\ a.drift = calls[q].answer.drift
    BY <1>0, <2>1, AnswersShape
  <2>3. /\ calls' = [calls EXCEPT ![q] = c]
        /\ board' \in {a, board}
        /\ UNCHANGED <<status, changes, user, failures, page>>
    BY <1>0, <1>3 DEF Count, CallTypes
  <2> HIDE DEF a
  <2>4. Good(a)
    BY <1>0, <1>3, <2>2 DEF Count, CallGood, Good, Sorted, Near
  <2>5. c \in CallTypes /\ CallGood(c)
    BY <1>0, <2>2, <2>4 DEF CallTypes, CallGood
  <2> HIDE DEF c
  <2>6. board' \in Answers /\ Good(board')
    BY <2>2, <2>3, <2>4 DEF DashboardTypes
  <2> QED
    BY <2>3, <2>5, <2>6, CallsStep DEF user, DashboardTypes
<1>4. CASE Deliver(q)
  <2>1. Good(calls[q].answer)
    BY <1>0, <1>4 DEF Deliver, CallGood
  <2>2. /\ page' = [answer |-> calls[q].answer, error |-> FALSE]
        /\ page' \in [answer : Answers, error : BOOLEAN]
    BY <1>0, <1>4 DEF Deliver
  <2>3. calls' = [calls EXCEPT ![q] = Free] /\ UNCHANGED <<server, user, failures>>
    BY <1>4 DEF Deliver
  <2> QED
    BY <1>0, <2>1, <2>2, <2>3, IdleCalls, CallsStep DEF server, user, DashboardTypes
<1> QED
  BY <1>1, <1>2, <1>3, <1>4 DEF Serve

\* The page.
LEMMA PageStep ==
    ASSUME DashboardInv,
           \/ \E f \in Filters : Choose(f)
           \/ Poll \/ Refresh \/ Expire
           \/ \E q \in Slots : Fail(q)
    PROVE  DashboardInv'
<1> USE DEF DashboardInv
<1>1. ASSUME NEW f \in Filters, Load(f)
      PROVE  \E q \in Slots : \E c \in CallTypes :
                 CallGood(c) /\ calls' = [calls EXCEPT ![q] = c]
  BY <1>1, IdleCalls DEF Load
<1>2. ASSUME NEW f \in Filters, Choose(f)
      PROVE  DashboardInv'
  <2>1. /\ Load(f) /\ filter' = f /\ choices' \in 0..MaxChoices
        /\ UNCHANGED <<server, failures, page>>
    BY <1>2, DashboardAssumption DEF Choose, DashboardTypes
  <2> QED
    BY <1>1, <2>1, CallsStep DEF server, DashboardTypes
<1>3. CASE Poll \/ Refresh
  <2>1. Load(filter) /\ filter \in Filters /\ UNCHANGED <<server, user, failures, page>>
    BY <1>3 DEF Poll, Refresh, IntervalFilter, DashboardTypes
  <2> QED
    BY <1>1, <2>1, CallsStep DEF server, user, DashboardTypes
<1>4. CASE Expire
  BY <1>4, NoAnswerGood, CallsStep DEF Expire, user, DashboardTypes
<1>5. ASSUME NEW q \in Slots, Fail(q)
      PROVE  DashboardInv'
  <2>1. /\ page' = [page EXCEPT !.error = TRUE]
        /\ calls' = [calls EXCEPT ![q] = Free]
        /\ failures' \in 0..MaxFailures
        /\ UNCHANGED <<server, user>>
    BY <1>5, DashboardAssumption DEF Fail, DashboardTypes
  <2>2. page' \in [answer : Answers, error : BOOLEAN] /\ page'.answer = page.answer
    BY <2>1 DEF DashboardTypes
  <2> QED
    BY <2>1, <2>2, IdleCalls, CallsStep DEF server, user, DashboardTypes
<1> QED
  BY <1>2, <1>3, <1>4, <1>5

-----------------------------------------------------------------------------
\* The invariant of the page, of the cache and of the requests in flight.
THEOREM DashboardInvariant == Spec => []DashboardInv
<1>1. Init => DashboardInv
  <2> SUFFICES ASSUME Init
               PROVE  DashboardInv
    OBVIOUS
  <2>1. calls \in [Slots -> CallTypes] /\ \A q \in Slots : CallGood(calls[q])
    BY IdleCalls, FilterTypes DEF Init
  <2> QED
    BY <2>1, NoAnswerGood, FilterTypes, DashboardAssumption
       DEF Init, DashboardInv, DashboardTypes
<1>2. DashboardInv /\ [Next]_vars => DashboardInv'
  <2> SUFFICES ASSUME DashboardInv, [Next]_vars
               PROVE  DashboardInv'
    OBVIOUS
  <2>1. CASE Next
    BY <2>1, ChangeStep, ServeStep, PageStep DEF Next
  <2>2. CASE UNCHANGED vars
    <3>1. UNCHANGED <<status, changes, board, filter, choices, calls, failures, page>>
      BY <2>2 DEF vars, server, user
    <3> QED
      BY <3>1, CallsStep DEF DashboardInv, DashboardTypes
  <2> QED
    BY <2>1, <2>2
<1> QED
  BY <1>1, <1>2, PTL DEF Spec

\* Type correctness, and no answer has more items than the limit.
THEOREM DashboardTypeCorrect == Spec => []DashboardTypeOK
<1>1. DashboardInv => DashboardTypeOK
  <2> SUFFICES ASSUME DashboardInv
               PROVE  DashboardTypeOK
    OBVIOUS
  <2>1. ASSUME NEW q \in Slots
        PROVE  Len(calls[q].answer.list) <= Limit
    <3>1. /\ CallGood(calls[q])
          /\ calls[q].stage \in {"free", "lookup", "select", "count", "answer"}
      BY DEF DashboardInv, DashboardTypes, CallTypes
    <3>2. Sorted(calls[q].answer)
      BY <3>1, NoAnswerGood DEF CallGood, Good
    <3> QED
      BY <3>2 DEF Sorted
  <2> QED
    BY <2>1 DEF DashboardInv, DashboardTypes, DashboardTypeOK, CallTypes
<1> QED
  BY <1>1, DashboardInvariant, PTL

\* The page shows the most urgent of the items that matched, in their order, for
\* every limit, every set of components and whatever answer came last.
THEOREM UrgentFirstCorrect == Spec => []UrgentFirst
<1>1. DashboardInv => UrgentFirst
  BY DEF DashboardInv, Good, Sorted, UrgentFirst
<1> QED
  BY <1>1, DashboardInvariant, PTL

\* The total on the page is off by no more than the commits between the two
\* queries, for any number of rows and commits.
THEOREM TotalNearCorrect == Spec => []TotalNearList
<1>1. DashboardInv => TotalNearList
  BY DEF DashboardInv, Good, Near, TotalNearList
<1> QED
  BY <1>1, DashboardInvariant, PTL
=============================================================================
