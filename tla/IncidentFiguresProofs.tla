------------------------- MODULE IncidentFiguresProofs -------------------------
(***************************************************************************)
(* Theorems about DebounceWindow, for any window and threshold, and about  *)
(* the rows of IncidentFigures, for any components, any timestamps and any *)
(* width of the figures.                                                   *)
(*                                                                         *)
(* Why the count of the window is exact: the entries of a bucket that are  *)
(* in the window and the arrivals that are can be paired off, an entry     *)
(* with an arrival of its tick.  Time takes both partners of a pair out of *)
(* the window together, and a call adds a pair.                            *)
(*                                                                         *)
(* Why the figures are explained: an MTTR is written with a basis, and the *)
(* basis ties it to the status and the stamps that the same row has; int() *)
(* keeps the sign of what it truncates, or makes it zero.                  *)
(***************************************************************************)
EXTENDS IncidentFigures, FiniteSetTheorems, FunctionTheorems, WellFoundedInduction, TLAPS

\* The order of the natural numbers, every set of which has a smallest member.
Below == {ss \in Nat \X Nat : ss[1] < ss[2]}

\* The order has no endless descent.
LEMMA BelowWellFounded == IsWellFoundedOn(Below, Nat)
<1>1. Below = OpToRel(<, Nat)
  BY DEF Below, OpToRel
<1> QED
  BY <1>1, NatLessThanWellFounded

\* A set of natural numbers has a smallest one.
LEMMA SmallestNumber ==
    ASSUME NEW T, T \subseteq Nat, T # {}
    PROVE  \E m \in T : \A k \in T : m <= k
<1>1. PICK m \in T : \A y \in T : ~(<<y, m>> \in Below)
  BY BelowWellFounded, WFMin, Zenon
<1>2. \A k \in T : ~(k < m)
  BY <1>1 DEF Below
<1> QED
  BY <1>2

\* Every finite set of natural numbers can be listed in order: the smallest number
\* first, then the others.
Listed(f, S) ==
    /\ f \in [1..Cardinality(S) -> S]
    /\ \A i, j \in 1..Cardinality(S) : i < j => f[i] < f[j]

\* By the smallest size of a set that had no such list.
LEMMA ListExists ==
    ASSUME NEW S, S \subseteq Nat, IsFiniteSet(S)
    PROVE  \E f : Listed(f, S)
<1> DEFINE Unlisted(T) == T \subseteq Nat /\ IsFiniteSet(T) /\ ~\E f : Listed(f, T)
           Bad == {n \in Nat : \E T : Unlisted(T) /\ Cardinality(T) = n}
<1>1. SUFFICES ASSUME Bad # {}
               PROVE  FALSE
  <2>1. Cardinality(S) \in Nat
    BY FS_CardinalityType
  <2> QED
    BY <2>1
<1>2. PICK n \in Bad : \A k \in Bad : n <= k
  <2>1. Bad \subseteq Nat
    OBVIOUS
  <2> HIDE DEF Bad
  <2> QED
    BY <1>1, <2>1, SmallestNumber
<1>3. PICK T : Unlisted(T) /\ Cardinality(T) = n
  OBVIOUS
<1>4. T # {}
  <2>1. ASSUME T = {}
        PROVE  FALSE
    <3>1. Cardinality(T) = 0
      BY <2>1, FS_EmptySet
    <3>2. Listed([i \in {} |-> i], T)
      BY <2>1, <3>1 DEF Listed
    <3> QED
      BY <1>3, <3>2
  <2> QED
    BY <2>1
<1>5. PICK m \in T : \A k \in T : m <= k
  BY <1>3, <1>4, SmallestNumber
<1> DEFINE U == T \ {m}
<1>6. U \subseteq Nat /\ IsFiniteSet(U) /\ Cardinality(U) = n - 1 /\ n - 1 \in Nat
  <2>1. IsFiniteSet(U) /\ Cardinality(U) = n - 1
    BY <1>3, <1>5, FS_RemoveElement
  <2>2. Cardinality(U) \in Nat
    BY <2>1, FS_CardinalityType
  <2> QED
    BY <1>3, <2>1, <2>2
<1>7. n - 1 \notin Bad
  BY <1>2, <1>6
<1>8. PICK g : Listed(g, U)
  BY <1>6, <1>7
<1> DEFINE f == [i \in 1..n |-> IF i = 1 THEN m ELSE g[i - 1]]
<1>9. /\ g \in [1..n - 1 -> U]
      /\ \A i, j \in 1..n - 1 : i < j => g[i] < g[j]
  BY <1>6, <1>8 DEF Listed
<1>10. \A i \in 2..n : i - 1 \in 1..n - 1 /\ g[i - 1] \in U /\ f[i] = g[i - 1]
  BY <1>9
<1>11. f \in [1..n -> T]
  BY <1>5, <1>9, <1>10
<1>12. \A k \in U : k \in Nat /\ m \in Nat /\ m < k
  BY <1>3, <1>5
<1>13. ASSUME NEW i \in 1..n, NEW j \in 1..n, i < j
       PROVE  f[i] < f[j]
  <2>0. j \in 2..n /\ n \in Nat
    BY <1>13
  <2>1. CASE i = 1
    BY <1>10, <1>12, <2>0, <2>1
  <2>2. CASE i # 1
    <3>1. i \in 2..n /\ i - 1 < j - 1
      BY <1>13, <2>0, <2>2
    <3> HIDE DEF f
    <3> QED
      BY <1>9, <1>10, <2>0, <3>1
  <2> QED
    BY <2>1, <2>2
<1>14. Listed(f, T)
  <2> HIDE DEF f
  <2> QED
    BY <1>3, <1>11, <1>13 DEF Listed
<1> QED
  BY <1>3, <1>14

\* Such a list leaves nothing out.
LEMMA ListComplete ==
    ASSUME NEW S, S \subseteq Nat, IsFiniteSet(S), NEW f, Listed(f, S)
    PROVE  \A k \in S : \E i \in 1..Cardinality(S) : f[i] = k
<1> DEFINE T == 1..Cardinality(S)
<1>1. Cardinality(S) \in Nat
  BY FS_CardinalityType
<1>2. f \in [T -> S] /\ \A i, j \in T : i < j => f[i] < f[j]
  BY DEF Listed
<1>3. \A i, j \in T : f[i] = f[j] => i = j
  <2> SUFFICES ASSUME NEW i \in T, NEW j \in T, i # j
               PROVE  f[i] # f[j]
    OBVIOUS
  <2>1. f[i] < f[j] \/ f[j] < f[i]
    BY <1>1, <1>2
  <2>2. f[i] \in S /\ f[j] \in S
    BY <1>2
  <2>3. f[i] \in Nat /\ f[j] \in Nat
    BY <2>2
  <2> QED
    BY <2>1, <2>3
<1>4. IsFiniteSet(T) /\ Cardinality(T) = Cardinality(S)
  BY <1>1, FS_Interval
<1> HIDE DEF T
<1>5. f \in Injection(T, S)
  BY <1>2, <1>3, Fun_IsInj
<1>6. f \in Surjection(T, S)
  BY <1>4, <1>5, FS_Injection
<1>7. \A k \in S : \E i \in T : f[i] = k
  BY <1>6, Fun_SurjectionProperties
<1> QED
  BY <1>7 DEF T

\* InOrder is one of them.
LEMMA InOrderLists ==
    ASSUME NEW S, S \subseteq Nat, IsFiniteSet(S)
    PROVE  Listed(InOrder(S), S)
<1>1. PICK g : Listed(g, S)
  BY ListExists
<1>2. \E f \in [1..Cardinality(S) -> S] : \A i, j \in DOMAIN f : i < j => f[i] < f[j]
  BY <1>1 DEF Listed
<1> QED
  BY <1>2 DEF InOrder, Listed

\* What record keeps of a bucket, in the order in which it was.
LEMMA RecentShape ==
    ASSUME NEW X, X \subseteq Int, NEW bucket \in Seq(X)
    PROVE  LET size   == Cardinality(Kept(bucket))
               places == InOrder(Kept(bucket))
           IN  /\ size \in 0..Len(bucket)
               /\ places \in [1..size -> Kept(bucket)]
               /\ \A i, j \in 1..size : i < j => places[i] < places[j]
               /\ \A k \in Kept(bucket) : \E i \in 1..size : places[i] = k
               /\ Recent(bucket) = [n \in 1..size |-> bucket[places[n]]]
               /\ Recent(bucket) \in Seq(X) /\ Len(Recent(bucket)) = size
<1> DEFINE size   == Cardinality(Kept(bucket))
           places == InOrder(Kept(bucket))
<1>1. Kept(bucket) \subseteq 1..Len(bucket) /\ Len(bucket) \in Nat
  BY DEF Kept
<1>2. /\ IsFiniteSet(Kept(bucket))
      /\ size <= Len(bucket) /\ size \in Nat
  <2> DEFINE n == Len(bucket)
  <2>1. n \in Nat /\ Kept(bucket) \in SUBSET (1..n)
    BY <1>1
  <2> HIDE DEF n
  <2>2. IsFiniteSet(1..n) /\ Cardinality(1..n) = n
    BY <2>1, FS_Interval
  <2>3. IsFiniteSet(Kept(bucket)) /\ size <= n /\ size \in Nat
    BY <2>1, <2>2, FS_Subset, FS_CardinalityType
  <2> QED
    BY <2>3 DEF n
<1>3. /\ places \in [1..size -> Kept(bucket)]
      /\ \A i, j \in 1..size : i < j => places[i] < places[j]
      /\ \A k \in Kept(bucket) : \E i \in 1..size : places[i] = k
  <2>1. Kept(bucket) \subseteq Nat
    BY <1>1
  <2>2. Listed(places, Kept(bucket))
    BY <1>2, <2>1, InOrderLists
  <2>3. \A k \in Kept(bucket) : \E i \in 1..size : places[i] = k
    BY <1>2, <2>1, <2>2, ListComplete
  <2> QED
    BY <2>2, <2>3 DEF Listed
<1>4. Recent(bucket) = [n \in 1..size |-> bucket[places[n]]]
  BY <1>3 DEF Recent
<1>5. Recent(bucket) \in Seq(X) /\ Len(Recent(bucket)) = size
  <2> HIDE DEF size, places
  <2>1. \A n \in 1..size : bucket[places[n]] \in X
    BY <1>1, <1>3
  <2>2. Recent(bucket) \in [1..size -> X]
    BY <1>4, <2>1
  <2> QED
    BY <1>2, <2>2
<1> HIDE DEF size, places
<1>6. size \in 0..Len(bucket)
  BY <1>1, <1>2
<1> QED
  BY <1>3, <1>4, <1>5, <1>6 DEF size, places
-----------------------------------------------------------------------------
\* The entries of a bucket and the arrivals of a component that are in the window that
\* ends at n.  They are paired off, an entry with an arrival of its tick.
EntriesAt(bucket, n) == {k \in DOMAIN bucket : bucket[k] > n - Window}

TicksAt(n) == {t \in 0..MaxTime : n - Window < t /\ t <= n}

ArrivalsAt(a, n) == Numbered(a, TicksAt(n))

Pairs(f, bucket, a, n) ==
    /\ f \in [EntriesAt(bucket, n) -> ArrivalsAt(a, n)]
    /\ \A k \in EntriesAt(bucket, n) : f[k][1] = bucket[k]
    /\ \A j, k \in EntriesAt(bucket, n) : f[j] = f[k] => j = k
    /\ \A x \in ArrivalsAt(a, n) : \E k \in EntriesAt(bucket, n) : f[k] = x

Paired(bucket, a, n) == \E f : Pairs(f, bucket, a, n)

WindowOf(c) ==
    /\ count[c] = Len(buckets[c])
    /\ arrived[c][now] > 0 => EntriesAt(buckets[c], now) = DOMAIN buckets[c]
    /\ \A t \in 0..MaxTime : t > now => arrived[c][t] = 0
    /\ count[c] >= Threshold => noticed[c]
    /\ Paired(buckets[c], arrived[c], now)

WindowInv == TypeOK /\ \A c \in Components : WindowOf(c)

\* The members of Numbered.
LEMMA NumberedMember ==
    ASSUME NEW f, NEW S
    PROVE  \A x : x \in Numbered(f, S) <=> \E s \in S : \E i \in 1..f[s] : x = <<s, i>>
BY DEF Numbered

\* One more of a member is one pair more.
LEMMA NumberedGrown ==
    ASSUME NEW S, NEW f, NEW g, NEW m \in S, NEW n \in Nat,
           f[m] = n, g[m] = n + 1,
           \A s \in S : s # m => g[s] = f[s]
    PROVE  /\ Numbered(g, S) = Numbered(f, S) \cup {<<m, n + 1>>}
           /\ <<m, n + 1>> \notin Numbered(f, S)
<1> DEFINE A == Numbered(f, S)
           B == Numbered(g, S)
           x == <<m, n + 1>>
<1>1. /\ \A y : y \in B <=> \E s \in S : \E i \in 1..g[s] : y = <<s, i>>
      /\ \A y : y \in A <=> \E s \in S : \E i \in 1..f[s] : y = <<s, i>>
  BY DEF Numbered
<1>2. 1..g[m] = (1..f[m]) \cup {n + 1} /\ n + 1 \notin 1..f[m]
  OBVIOUS
<1> HIDE DEF A, B
<1>3. x \in B /\ x \notin A
  BY <1>1, <1>2
<1>4. ASSUME NEW y \in A
      PROVE  y \in B
  <2>1. PICK s \in S : \E i \in 1..f[s] : y = <<s, i>>
    BY <1>1
  <2> QED
    BY <1>1, <1>2, <2>1
<1>5. ASSUME NEW y \in B, y # x
      PROVE  y \in A
  <2>1. PICK s \in S : \E i \in 1..g[s] : y = <<s, i>>
    BY <1>1
  <2> QED
    BY <1>1, <1>2, <1>5, <2>1
<1> QED
  BY <1>3, <1>4, <1>5 DEF A, B

\* Nothing has been recorded and nothing has arrived.
LEMMA WindowInit == Init => WindowInv
<1> SUFFICES ASSUME Init
             PROVE  WindowInv
  OBVIOUS
<1>1. TypeOK
  BY DebounceAssumption DEF Init, TypeOK
<1>2. ASSUME NEW c \in Components
      PROVE  WindowOf(c)
  <2>1. /\ buckets[c] = <<>> /\ count[c] = 0 /\ now = 0
        /\ \A t \in 0..MaxTime : arrived[c][t] = 0
    BY <1>2 DEF Init
  <2>2. EntriesAt(buckets[c], now) = {}
    BY <2>1 DEF EntriesAt
  <2>3. ArrivalsAt(arrived[c], now) = {}
    BY <2>1, NumberedMember DEF ArrivalsAt, TicksAt
  <2>4. Pairs([k \in {} |-> k], buckets[c], arrived[c], now)
    BY <2>2, <2>3 DEF Pairs
  <2>5. 0 \in 0..MaxTime
    BY DebounceAssumption
  <2> QED
    BY <2>1, <2>4, <2>5, DebounceAssumption DEF WindowOf, Paired
<1> QED
  BY <1>1, <1>2 DEF WindowInv

\* While time passes, entries and arrivals leave the window together.
LEMMA PairedLater ==
    ASSUME NEW n \in Nat, NEW bucket \in Seq(Int), NEW a, a[n + 1] = 0,
           Paired(bucket, a, n)
    PROVE  Paired(bucket, a, n + 1)
<1>1. PICK f : Pairs(f, bucket, a, n)
  BY DEF Paired
<1> DEFINE K == EntriesAt(bucket, n)
           A == ArrivalsAt(a, n)
           L == EntriesAt(bucket, n + 1)
           B == ArrivalsAt(a, n + 1)
           g == [k \in L |-> f[k]]
<1>2. L = {k \in K : bucket[k] > n + 1 - Window}
  <2>1. \A k \in DOMAIN bucket : bucket[k] \in Int
    OBVIOUS
  <2> QED
    BY <2>1, DebounceAssumption DEF EntriesAt
<1>3. B = {x \in A : x[1] > n + 1 - Window}
  <2> DEFINE P == TicksAt(n)
             Q == TicksAt(n + 1)
  <2>1. /\ \A t \in Q : a[t] # 0 => t \in P
        /\ Q \subseteq Int /\ P \subseteq Int
        /\ \A t \in P : t \in Q <=> t > n + 1 - Window
        /\ \A t \in Q : t > n + 1 - Window
    BY DebounceAssumption DEF TicksAt
  <2>2. /\ \A x : x \in B <=> \E t \in Q : \E i \in 1..a[t] : x = <<t, i>>
        /\ \A x : x \in A <=> \E t \in P : \E i \in 1..a[t] : x = <<t, i>>
    BY NumberedMember DEF ArrivalsAt
  <2> HIDE DEF A, B, P, Q
  <2>3. ASSUME NEW x \in B
        PROVE  x \in A /\ x[1] > n + 1 - Window
    <3>1. PICK t \in Q : \E i \in 1..a[t] : x = <<t, i>>
      BY <2>2
    <3>2. PICK i \in 1..a[t] : x = <<t, i>>
      BY <3>1
    <3>3. t \in P
      BY <2>1, <3>2
    <3> QED
      BY <2>1, <2>2, <3>2, <3>3
  <2>4. ASSUME NEW x \in A, x[1] > n + 1 - Window
        PROVE  x \in B
    <3>1. PICK t \in P : \E i \in 1..a[t] : x = <<t, i>>
      BY <2>2
    <3>2. PICK i \in 1..a[t] : x = <<t, i>>
      BY <3>1
    <3>3. t \in Q
      BY <2>1, <2>4, <3>2
    <3> QED
      BY <2>2, <3>2, <3>3
  <2> QED
    BY <2>3, <2>4
<1>4. /\ f \in [K -> A]
      /\ \A k \in K : f[k][1] = bucket[k]
      /\ \A j, k \in K : f[j] = f[k] => j = k
      /\ \A x \in A : \E k \in K : f[k] = x
  BY <1>1 DEF Pairs
<1>5. /\ g \in [L -> B]
      /\ \A k \in L : g[k][1] = bucket[k]
      /\ \A j, k \in L : g[j] = g[k] => j = k
      /\ \A x \in B : \E k \in L : g[k] = x
  <2> HIDE DEF K, A, L, B
  <2> QED
    BY <1>2, <1>3, <1>4
<1>6. Pairs(g, bucket, a, n + 1)
  BY <1>5 DEF Pairs
<1> QED
  BY <1>6 DEF Paired

\* A tick leaves counts as they are; no signal of the new tick has been counted yet.
LEMMA TickStep ==
    ASSUME WindowInv, Tick
    PROVE  WindowInv'
<1>0. /\ now' = now + 1 /\ now \in Nat /\ now' \in 0..MaxTime
      /\ UNCHANGED <<buckets, count, fire, arrived, noticed>>
  BY DebounceAssumption DEF WindowInv, TypeOK, Tick
<1>1. TypeOK'
  <2>1. \A s \in Seq(0..now) : s \in Seq(0..now')
    BY <1>0
  <2> QED
    BY <1>0, <2>1 DEF WindowInv, TypeOK
<1>2. ASSUME NEW c \in Components
      PROVE  WindowOf(c)'
  <2>1. arrived[c][now + 1] = 0 /\ Paired(buckets[c], arrived[c], now)
    BY <1>0 DEF WindowInv, WindowOf
  <2>2. buckets[c] \in Seq(Int)
    BY <1>0 DEF WindowInv, TypeOK
  <2>3. Paired(buckets[c], arrived[c], now + 1)
    BY <1>0, <2>1, <2>2, PairedLater
  <2> QED
    BY <1>0, <2>1, <2>3 DEF WindowInv, WindowOf
<1> QED
  BY <1>1, <1>2 DEF WindowInv

\* The bucket that record leaves: what was kept in its order and the new entry, all of
\* them in the window.
LEMMA ExtendedShape ==
    ASSUME NEW bucket, now \in 0..MaxTime, bucket \in Seq(0..now)
    PROVE  LET size == Cardinality(Kept(bucket))
               new  == Extended(bucket)
           IN  /\ size \in 0..Len(bucket)
               /\ new \in Seq(0..now) /\ Len(new) = size + 1
               /\ \A n \in 1..size : new[n] = bucket[InOrder(Kept(bucket))[n]]
               /\ new[size + 1] = now
               /\ \A n \in 1..size + 1 : new[n] \in 0..now
               /\ EntriesAt(new, now) = DOMAIN new
<1> DEFINE size   == Cardinality(Kept(bucket))
           places == InOrder(Kept(bucket))
           old    == Recent(bucket)
           new    == Extended(bucket)
<1>0. now \in Nat /\ MaxTime \in Nat /\ Window \in Nat \ {0}
  BY DebounceAssumption
<1>1. /\ size \in 0..Len(bucket) /\ Len(bucket) \in Nat
      /\ places \in [1..size -> Kept(bucket)]
      /\ old = [n \in 1..size |-> bucket[places[n]]]
      /\ old \in Seq(0..now) /\ Len(old) = size
  <2>1. 0..now \subseteq Int
    BY <1>0
  <2> QED
    BY <2>1, RecentShape
<1> HIDE DEF size, places, old
<1>2. new = Append(old, now)
  BY DEF Extended, old
<1> HIDE DEF new
<1>3. /\ new \in Seq(0..now) /\ Len(new) = size + 1
      /\ \A n \in 1..size : new[n] = old[n]
      /\ new[size + 1] = now
  BY <1>0, <1>1, <1>2
<1>4. \A n \in 1..size : new[n] = bucket[places[n]]
  BY <1>1, <1>3
<1>5. \A n \in 1..size + 1 : new[n] \in 0..now /\ new[n] > now - Window
  <2>1. \A k \in Kept(bucket) : bucket[k] > now - Window
    BY DEF Kept
  <2>2. \A n \in 1..size : new[n] > now - Window
    BY <1>1, <1>4, <2>1
  <2>3. now > now - Window
    BY <1>0
  <2>4. \A n \in 1..size + 1 : n \in 1..size \/ n = size + 1
    BY <1>1
  <2>5. \A n \in 1..size + 1 : new[n] \in 0..now
    BY <1>3
  <2> QED
    BY <1>0, <1>3, <2>2, <2>3, <2>4, <2>5
<1>6. EntriesAt(new, now) = DOMAIN new
  BY <1>1, <1>3, <1>5 DEF EntriesAt
<1> QED
  BY <1>1, <1>3, <1>4, <1>5, <1>6 DEF size, places, new

\* A signal is a new entry and a new arrival, and they are a pair.
LEMMA PairedGrown ==
    ASSUME NEW bucket, now \in 0..MaxTime, bucket \in Seq(0..now),
           NEW a \in [0..MaxTime -> Nat], Paired(bucket, a, now)
    PROVE  Paired(Extended(bucket), [a EXCEPT ![now] = @ + 1], now)
<1> DEFINE size   == Cardinality(Kept(bucket))
           places == InOrder(Kept(bucket))
           new    == Extended(bucket)
           b      == [a EXCEPT ![now] = @ + 1]
           K      == EntriesAt(bucket, now)
           L      == EntriesAt(new, now)
           A      == ArrivalsAt(a, now)
           B      == ArrivalsAt(b, now)
           x      == <<now, a[now] + 1>>
<1>0. now \in Nat /\ MaxTime \in Nat /\ Window \in Nat \ {0} /\ a[now] \in Nat
  BY DebounceAssumption
<1>1. /\ size \in Nat
      /\ L = 1..size + 1
      /\ \A n \in 1..size : new[n] = bucket[places[n]]
      /\ new[size + 1] = now
  BY ExtendedShape
<1>2. /\ places \in [1..size -> K]
      /\ \A i, j \in 1..size : i < j => places[i] < places[j]
      /\ \A k \in K : \E i \in 1..size : places[i] = k
      /\ K \subseteq Nat
  <2>1. 0..now \subseteq Int
    BY <1>0
  <2>2. K = Kept(bucket)
    BY DEF EntriesAt, Kept
  <2>3. K \subseteq Nat
    BY DEF EntriesAt
  <2> HIDE DEF K
  <2> QED
    BY <2>1, <2>2, <2>3, RecentShape
<1>3. PICK f : Pairs(f, bucket, a, now)
  BY DEF Paired
<1>4. /\ f \in [K -> A]
      /\ \A k \in K : f[k][1] = bucket[k]
      /\ \A j, k \in K : f[j] = f[k] => j = k
      /\ \A y \in A : \E k \in K : f[k] = y
  BY <1>3 DEF Pairs
<1>5. B = A \cup {x} /\ x \notin A
  <2> DEFINE P == TicksAt(now)
  <2>1. P \subseteq 0..MaxTime /\ now \in P
    BY <1>0 DEF TicksAt
  <2>2. b[now] = a[now] + 1 /\ \A t \in P : t # now => b[t] = a[t]
    BY <2>1
  <2> HIDE DEF b, P
  <2>3. Numbered(b, P) = Numbered(a, P) \cup {x} /\ x \notin Numbered(a, P)
    BY <1>0, <2>1, <2>2, NumberedGrown
  <2> QED
    BY <2>3 DEF ArrivalsAt, P
<1> DEFINE g == [n \in 1..size + 1 |-> IF n = size + 1 THEN x ELSE f[places[n]]]
<1> HIDE DEF size, places, new, K, L, A, B, b
<1>6. \A n \in 1..size + 1 : n \in 1..size \/ (n = size + 1 /\ n \notin 1..size)
  BY <1>1
<1>7. /\ \A n \in 1..size : g[n] = f[places[n]] /\ g[n] \in A /\ places[n] \in K
      /\ g[size + 1] = x
  <2>1. size + 1 \in 1..size + 1 /\ \A n \in 1..size : n \in 1..size + 1 /\ n # size + 1
    BY <1>1
  <2> QED
    BY <1>2, <1>4, <2>1
<1>8. g \in [L -> B]
  <2>1. \A n \in 1..size + 1 : g[n] \in B
    BY <1>5, <1>6, <1>7
  <2> QED
    BY <1>1, <2>1
<1> HIDE DEF g
<1>9. ASSUME NEW n \in L
      PROVE  g[n][1] = new[n]
  <2>1. CASE n \in 1..size
    <3>1. g[n] = f[places[n]] /\ places[n] \in K /\ new[n] = bucket[places[n]]
      BY <1>1, <1>7, <2>1
    <3> QED
      BY <1>4, <3>1
  <2>2. CASE n = size + 1
    <3>1. g[n] = x /\ new[n] = now
      BY <1>1, <1>7, <2>2
    <3> QED
      BY <3>1
  <2> QED
    BY <1>1, <1>6, <2>1, <2>2
<1>10. ASSUME NEW i \in L, NEW j \in L, g[i] = g[j]
       PROVE  i = j
  <2>1. \A m, n \in 1..size : places[m] = places[n] => m = n
    <3> SUFFICES ASSUME NEW m \in 1..size, NEW n \in 1..size, m # n
                 PROVE  places[m] # places[n]
      OBVIOUS
    <3>1. places[m] < places[n] \/ places[n] < places[m]
      BY <1>1, <1>2
    <3>2. places[m] \in Nat /\ places[n] \in Nat
      BY <1>2
    <3> QED
      BY <3>1, <3>2
  <2>2. CASE i \in 1..size /\ j \in 1..size
    BY <1>4, <1>7, <1>10, <2>1, <2>2
  <2>3. \A n \in 1..size : g[n] # g[size + 1]
    BY <1>5, <1>7
  <2>4. CASE i = size + 1 \/ j = size + 1
    <3>1. i \in 1..size \/ i = size + 1
      BY <1>1, <1>6
    <3>2. j \in 1..size \/ j = size + 1
      BY <1>1, <1>6
    <3> QED
      BY <1>10, <2>3, <2>4, <3>1, <3>2
  <2> QED
    BY <1>1, <1>6, <2>2, <2>4
<1>11. ASSUME NEW y \in B
       PROVE  \E n \in L : g[n] = y
  <2>1. CASE y = x
    BY <1>1, <1>7, <2>1
  <2>2. CASE y \in A
    <3>1. PICK k \in K : f[k] = y
      BY <1>4, <2>2
    <3>2. PICK n \in 1..size : places[n] = k
      BY <1>2
    <3>3. n \in L
      BY <1>1
    <3> QED
      BY <1>7, <3>1, <3>2, <3>3
  <2> QED
    BY <1>5, <2>1, <2>2
<1>12. Pairs(g, new, b, now)
  BY <1>8, <1>9, <1>10, <1>11 DEF Pairs, L, B
<1> QED
  BY <1>12 DEF Paired, new, b

\* A call: its component gets one entry more at most, whatever is evicted, and so a
\* count above the threshold was at the threshold before.
LEMMA RecordStep ==
    ASSUME WindowInv, NEW c \in Components, Record(c)
    PROVE  WindowInv'
<1> DEFINE old  == buckets[c]
           new  == Extended(old)
           size == Cardinality(Kept(old))
<1>0. /\ now \in 0..MaxTime /\ now \in Nat /\ old \in Seq(0..now) /\ Len(old) \in Nat
      /\ Threshold \in Nat /\ MaxTime \in Nat /\ now' = now
      /\ arrived[c] \in [0..MaxTime -> 0..MaxPerTick] /\ MaxPerTick \in Nat
      /\ arrived[c] \in [0..MaxTime -> Nat]
  BY DebounceAssumption DEF WindowInv, TypeOK, Record
<1>1. /\ size \in 0..Len(old)
      /\ new \in Seq(0..now) /\ Len(new) = size + 1
      /\ \A n \in 1..size : new[n] = old[InOrder(Kept(old))[n]]
      /\ new[size + 1] = now
      /\ \A n \in 1..size + 1 : new[n] \in 0..now
      /\ EntriesAt(new, now) = DOMAIN new
  <2>1. now \in 0..MaxTime /\ old \in Seq(0..now)
    BY <1>0
  <2> HIDE DEF old
  <2> QED
    BY <2>1, ExtendedShape, Zenon
<1>2. size \in Nat
  BY <1>0, <1>1
<1>3. \A j, k \in DOMAIN new : j < k => new[j] <= new[k]
  <2> DEFINE places == InOrder(Kept(old))
  <2>1. /\ places \in [1..size -> Kept(old)]
        /\ \A i, j \in 1..size : i < j => places[i] < places[j]
    <3>1. 0..now \subseteq Int
      BY <1>0
    <3> QED
      BY <1>0, <3>1, RecentShape
  <2>2. Kept(old) \subseteq DOMAIN old /\ DOMAIN old \subseteq Nat
    BY <1>0 DEF Kept
  <2>3. \A j, k \in DOMAIN old : j < k => old[j] <= old[k]
    BY DEF WindowInv, TypeOK
  <2> HIDE DEF places, new, size, old
  <2> SUFFICES ASSUME NEW j \in 1..size + 1, NEW k \in 1..size + 1, j < k
               PROVE  new[j] <= new[k]
    BY <1>1
  <2>4. j \in 1..size
    BY <1>1
  <2>5. CASE k \in 1..size
    <3>1. places[j] \in DOMAIN old /\ places[k] \in DOMAIN old /\ places[j] < places[k]
      BY <2>1, <2>2, <2>4, <2>5
    <3>2. new[j] = old[places[j]] /\ new[k] = old[places[k]]
      BY <1>1, <1>2, <2>4, <2>5 DEF places
    <3>3. places[j] \in Nat /\ places[k] \in Nat
      BY <2>2, <3>1
    <3>4. old[places[j]] <= old[places[k]]
      BY <2>3, <3>1, <3>3
    <3> QED
      BY <3>2, <3>4
  <2>6. CASE k = size + 1
    <3>1. new[j] \in 0..now /\ new[k] = now
      BY <1>1, <1>2, <2>6
    <3> QED
      BY <1>0, <3>1
  <2> QED
    BY <1>1, <1>2, <2>5, <2>6
<1>4. Paired(new, [arrived[c] EXCEPT ![now] = @ + 1], now)
  <2>1. Paired(old, arrived[c], now)
    BY DEF WindowInv, WindowOf
  <2> HIDE DEF old
  <2> QED
    BY <1>0, <2>1, PairedGrown
<1> DEFINE seen == [arrived[c] EXCEPT ![now] = @ + 1]
<1>5. seen \in [0..MaxTime -> 0..MaxPerTick]
  <2>1. arrived[c][now] \in 0..MaxPerTick /\ arrived[c][now] < MaxPerTick
    BY <1>0 DEF Record
  <2> QED
    BY <1>0, <2>1
<1>6. \A t \in 0..MaxTime : t > now => seen[t] = 0
  BY <1>0 DEF WindowInv, WindowOf
<1>7. Len(new) >= Threshold => Crosses(Len(new)) \/ noticed[c]
  <2>1. Len(old) >= Threshold => noticed[c]
    BY DEF WindowInv, WindowOf
  <2> HIDE DEF new, size, old
  <2> QED
    BY <1>0, <1>1, <1>2, <1>2, <2>1 DEF Crosses
<1> HIDE DEF new, size, old
<1>8. /\ arrived' = [arrived EXCEPT ![c] = seen]
      /\ buckets' = [buckets EXCEPT ![c] = new]
      /\ count' = [count EXCEPT ![c] = Len(new)]
      /\ fire' = [fire EXCEPT ![c] = Crosses(Len(new))]
      /\ noticed' = [noticed EXCEPT ![c] = Crosses(Len(new))
                                           \/ (@ /\ Len(new) >= Threshold)]
  <2>1. fire'[c] = Crosses(Len(new))
    BY DEF Record, new, old, WindowInv, TypeOK
  <2> QED
    BY <2>1 DEF Record, new, old
<1> HIDE DEF seen
<1>9. TypeOK'
  <2>1. Crosses(Len(new)) \in BOOLEAN /\ Len(new) \in Nat
    BY <1>1 DEF Crosses
  <2>2. noticed' \in [Components -> BOOLEAN] /\ fire' \in [Components -> BOOLEAN]
    BY <1>8, <2>1 DEF WindowInv, TypeOK
  <2>3. count' \in [Components -> Nat] /\ buckets' \in [Components -> Seq(0..now)]
    BY <1>1, <1>8, <2>1 DEF WindowInv, TypeOK
  <2>4. arrived' \in [Components -> [0..MaxTime -> 0..MaxPerTick]]
    BY <1>5, <1>8 DEF WindowInv, TypeOK
  <2>5. ASSUME NEW d \in Components
        PROVE  \A j, k \in DOMAIN buckets'[d] : j < k => buckets'[d][j] <= buckets'[d][k]
    <3>1. buckets'[d] = IF d = c THEN new ELSE buckets[d]
      BY <1>8 DEF WindowInv, TypeOK
    <3> QED
      BY <1>3, <3>1 DEF WindowInv, TypeOK
  <2> QED
    BY <1>0, <2>2, <2>3, <2>4, <2>5 DEF TypeOK
<1>10. ASSUME NEW d \in Components
      PROVE  WindowOf(d)'
  <2>1. CASE d = c
    <3>1. /\ buckets'[c] = new /\ arrived'[c] = seen /\ count'[c] = Len(new)
          /\ noticed'[c] = (Crosses(Len(new)) \/ (noticed[c] /\ Len(new) >= Threshold))
      BY <1>8 DEF WindowInv, TypeOK
    <3> QED
      BY <1>0, <1>1, <1>2, <1>4, <1>6, <1>7, <2>1, <3>1 DEF WindowOf, seen
  <2>2. CASE d # c
    <3>1. /\ buckets'[d] = buckets[d] /\ arrived'[d] = arrived[d]
          /\ count'[d] = count[d] /\ noticed'[d] = noticed[d]
      BY <1>8, <2>2 DEF WindowInv, TypeOK
    <3> QED
      BY <1>0, <3>1 DEF WindowInv, WindowOf
  <2> QED
    BY <2>1, <2>2
<1> QED
  BY <1>9, <1>10 DEF WindowInv

\* The invariant of the window.
THEOREM WindowInvariant == Spec => []WindowInv
<1>1. WindowInv /\ [Next]_vars => WindowInv'
  <2> SUFFICES ASSUME WindowInv, [Next]_vars
               PROVE  WindowInv'
    OBVIOUS
  <2>1. CASE UNCHANGED vars
    BY <2>1 DEF vars, WindowInv, TypeOK, WindowOf
  <2> QED
    BY <2>1, TickStep, RecordStep DEF Next
<1> QED
  BY <1>1, WindowInit, PTL DEF Spec

\* Type correctness; in particular eviction keeps a bucket in the order of time.
THEOREM WindowTypeCorrect == Spec => []TypeOK
<1>1. WindowInv => TypeOK
  BY DEF WindowInv
<1> QED
  BY <1>1, WindowInvariant, PTL

\* The count that record returns is exactly the number of signals in the window.
THEOREM CountExactCorrect == Spec => []CountExact
<1>1. WindowInv => CountExact
  <2> SUFFICES ASSUME WindowInv, NEW c \in Components, arrived[c][now] > 0
               PROVE  count[c] = Cardinality(Numbered(arrived[c], InWindow))
    BY DEF CountExact
  <2> DEFINE K == DOMAIN buckets[c]
             A == Numbered(arrived[c], InWindow)
             n == Len(buckets[c])
  <2>1. n \in Nat /\ K = 1..n /\ count[c] = n
    BY DEF WindowInv, TypeOK, WindowOf
  <2>2. EntriesAt(buckets[c], now) = K /\ ArrivalsAt(arrived[c], now) = A
    BY DEF WindowInv, WindowOf, ArrivalsAt, Numbered, TicksAt, InWindow
  <2>3. PICK f : Pairs(f, buckets[c], arrived[c], now)
    BY DEF WindowInv, WindowOf, Paired
  <2>4. /\ f \in [K -> A]
        /\ \A j, k \in K : f[j] = f[k] => j = k
        /\ \A x \in A : \E k \in K : f[k] = x
    BY <2>2, <2>3 DEF Pairs
  <2> HIDE DEF K, A, n
  <2>5. ExistsBijection(K, A)
    <3>1. f \in Bijection(K, A)
      BY <2>4, Fun_IsBij
    <3> QED
      BY <3>1 DEF ExistsBijection
  <2>6. IsFiniteSet(K) /\ Cardinality(K) = n
    BY <2>1, FS_Interval
  <2>7. Cardinality(A) = n
    BY <2>5, <2>6, FS_Bijection
  <2> QED
    BY <2>1, <2>7 DEF A
<1> QED
  BY <1>1, WindowInvariant, PTL

\* A burst is noticed however entries are evicted in between.
THEOREM BurstCorrect == Spec => []BurstNoticed
<1>1. WindowInv => BurstNoticed
  BY DEF WindowInv, WindowOf, BurstNoticed
<1> QED
  BY <1>1, WindowInvariant, PTL

-----------------------------------------------------------------------------
\* int() keeps the sign, or makes it zero: a negative number of seconds comes from a
\* second at least.
LEMMA SecondsSign ==
    ASSUME NEW n \in Int
    PROVE  /\ Seconds(n) \in Int
           /\ n >= 0 => Seconds(n) >= 0
           /\ Seconds(n) < 0 => -n >= Second
<1>1. Second \in Nat /\ Second > 0
  BY FiguresAssumption
<1>2. ASSUME NEW m \in Nat
      PROVE  /\ m \div Second \in Nat
             /\ m < Second => m \div Second = 0
  BY <1>1
<1>3. CASE n >= 0
  BY <1>2, <1>3 DEF Seconds
<1>4. CASE n < 0
  <2>1. -n \in Nat /\ Seconds(n) = -((-n) \div Second)
    BY <1>4 DEF Seconds
  <2>2. (-n) \div Second \in Nat /\ (-n < Second => (-n) \div Second = 0)
    BY <1>2, <2>1
  <2> QED
    BY <1>1, <1>4, <2>1, <2>2
<1> QED
  BY <1>3, <1>4

\* What holds of the rows.
RowTypes == now \in Nat /\ rows \in Seq(Row) /\ Len(rows) <= MaxItems

\* What a row says about itself.
Explained(row) ==
    /\ row.basis = "rca" => row.rca /\ row.status # "CLOSED" /\ row.mttr >= 0
    /\ row.status = "CLOSED" =>
           /\ row.basis = "close" /\ row.rca /\ row.resolved
           /\ row.mttr = Seconds(row.closed - row.first)
    /\ row.status = "RESOLVED" => row.resolved
    /\ row.basis = "close" => row.status = "CLOSED"

FiguresInv == RowTypes /\ \A k \in DOMAIN rows : Explained(rows[k])

\* A signal opens an incident.
LEMMA InsertStep ==
    ASSUME FiguresInv, NEW c \in Components, NEW ts \in Int, InsertItem(c, ts)
    PROVE  FiguresInv'
<1>1. rows \in Seq(Row) /\ now \in Nat /\ now' = now
  BY DEF FiguresInv, RowTypes, InsertItem, vars
<1>2. NewRow(c, ts) \in Row
  BY FiguresAssumption DEF NewRow, Row, Statuses, Integer
<1>3. /\ rows' \in Seq(Row) /\ Len(rows') = Len(rows) + 1 /\ Len(rows) \in Nat
      /\ \A k \in DOMAIN rows : rows'[k] = rows[k]
      /\ rows'[Len(rows) + 1] = NewRow(c, ts)
      /\ \A k \in DOMAIN rows' : k \in DOMAIN rows \/ k = Len(rows) + 1
  BY <1>1, <1>2 DEF InsertItem
<1>4. RowTypes'
  BY <1>1, <1>3, FiguresAssumption DEF RowTypes, InsertItem
<1>5. Explained(NewRow(c, ts))
  BY DEF Explained, NewRow
<1> QED
  BY <1>3, <1>4, <1>5 DEF FiguresInv

\* A row is rewritten.
LEMMA RewrittenRow ==
    ASSUME FiguresInv, NEW k \in DOMAIN rows, NEW row \in Row,
           rows' = [rows EXCEPT ![k] = row], now' = now,
           Explained(row)
    PROVE  FiguresInv'
<1> USE DEF FiguresInv
<1>1. rows \in Seq(Row)
  BY DEF RowTypes
<1>2. rows' \in Seq(Row) /\ Len(rows') = Len(rows) /\ DOMAIN rows' = DOMAIN rows
  BY <1>1
<1>3. \A j \in DOMAIN rows : rows'[j] = IF j = k THEN row ELSE rows[j]
  BY <1>1
<1>4. RowTypes'
  BY <1>2 DEF RowTypes
<1>5. \A j \in DOMAIN rows' : Explained(rows'[j])
  BY <1>2, <1>3
<1> QED
  BY <1>4, <1>5

\* A PATCH leaves the figures explained, refused or not.
LEMMA TransitionStep ==
    ASSUME FiguresInv, NEW k \in DOMAIN rows, NEW to \in Statuses, Transition(k, to)
    PROVE  FiguresInv'
<1> DEFINE old == rows[k]
<1>0. old \in Row /\ Explained(old) /\ now' = now /\ now \in Nat /\ rows \in Seq(Row)
  BY DEF FiguresInv, RowTypes, Transition, vars
<1>1. to \in AllowedTransitions[old.status] /\ old.status \in Statuses
  BY DEF Transition, ValidTransition
<1>2. CASE /\ to # "CLOSED"
           /\ rows' = [rows EXCEPT ![k].status = to, ![k].resolved = @ \/ to = "RESOLVED"]
  <2> DEFINE row == [old EXCEPT !.status = to, !.resolved = @ \/ to = "RESOLVED"]
  <2>1. rows' = [rows EXCEPT ![k] = row]
    BY <1>0, <1>2
  <2>2. row \in Row
    BY <1>0 DEF Row
  <2>3. old.status # "CLOSED"
    BY <1>1 DEF AllowedTransitions, Statuses
  <2>4. /\ row.status = to /\ row.first = old.first
        /\ row.resolved = (old.resolved \/ to = "RESOLVED") /\ row.closed = old.closed
        /\ row.mttr = old.mttr /\ row.basis = old.basis /\ row.rca = old.rca
    BY <1>0 DEF Row
  <2> HIDE DEF row
  <2>5. Explained(row)
    BY <1>0, <1>2, <2>3, <2>4 DEF Explained
  <2> QED
    BY <1>0, <2>1, <2>2, <2>5, RewrittenRow
<1>3. CASE /\ to = "CLOSED" /\ old.rca /\ Seconds(now - old.first) \in Integer
           /\ rows' = [rows EXCEPT ![k].status = to, ![k].closed = now,
                                   ![k].mttr = Seconds(now - rows[k].first), ![k].basis = "close"]
  <2> DEFINE row == [old EXCEPT !.status = to, !.closed = now,
                                !.mttr = Seconds(now - old.first), !.basis = "close"]
  <2>1. rows' = [rows EXCEPT ![k] = row]
    BY <1>0, <1>3
  <2>2. row \in Row
    <3> DEFINE figure == Seconds(now - old.first)
    <3>1. figure \in Integer /\ now \in Int /\ to \in Statuses
      BY <1>0, <1>3
    <3> HIDE DEF figure
    <3>2. [old EXCEPT !.status = to, !.closed = now, !.mttr = figure,
                      !.basis = "close"] \in Row
      BY <1>0, <3>1 DEF Row
    <3> QED
      BY <3>2 DEF figure
  <2>3. old.status = "RESOLVED"
    BY <1>1, <1>3 DEF AllowedTransitions, Statuses
  <2>4. /\ row.status = to /\ row.first = old.first
        /\ row.resolved = old.resolved /\ row.closed = now
        /\ row.mttr = Seconds(now - old.first) /\ row.basis = "close" /\ row.rca = old.rca
    BY <1>0 DEF Row
  <2> HIDE DEF row
  <2>5. Explained(row)
    BY <1>0, <1>3, <2>3, <2>4 DEF Explained
  <2> QED
    BY <1>0, <2>1, <2>2, <2>5, RewrittenRow
<1> QED
  BY <1>2, <1>3 DEF Transition

\* So does the submission of an RCA.
LEMMA SubmitStep ==
    ASSUME FiguresInv, NEW k \in DOMAIN rows, NEW start \in RcaDate, NEW end \in RcaDate,
           SubmitRca(k, start, end)
    PROVE  FiguresInv'
<1> DEFINE old == rows[k]
           spent == Seconds(end.at - start.at)
           row == [old EXCEPT !.rca = TRUE, !.mttr = spent, !.basis = "rca"]
<1>0. old \in Row /\ Explained(old) /\ now' = now /\ rows \in Seq(Row)
  BY DEF FiguresInv, RowTypes, SubmitRca, vars
<1>1. /\ old.status \in {"INVESTIGATING", "RESOLVED"}
      /\ spent \in Integer /\ spent >= 0
      /\ rows' = [rows EXCEPT ![k].rca = TRUE, ![k].mttr = spent, ![k].basis = "rca"]
  <2>1. end.at - start.at \in Int /\ end.at - start.at >= 0
    BY FiguresAssumption DEF SubmitRca, EndAfterStart, RcaDate
  <2>2. spent >= 0
    BY <2>1, SecondsSign
  <2> QED
    BY <2>2 DEF SubmitRca
<1> HIDE DEF spent
<1>2. rows' = [rows EXCEPT ![k] = row]
  BY <1>0, <1>1
<1>3. row \in Row
  BY <1>0, <1>1 DEF Row
<1>4. /\ row.status = old.status
      /\ row.resolved = old.resolved
      /\ row.mttr = spent /\ row.basis = "rca" /\ row.rca
  BY <1>0 DEF Row
<1> HIDE DEF row
<1>5. Explained(row)
  BY <1>0, <1>1, <1>4 DEF Explained
<1> QED
  BY <1>0, <1>2, <1>3, <1>5, RewrittenRow

\* The window takes its steps beside the rows.
LEMMA WindowStepKeeps ==
    ASSUME FiguresInv, Next, UNCHANGED rows
    PROVE  FiguresInv'
<1>1. now \in Nat => now' \in Nat
  BY DEF Next, Tick, Record
<1> QED
  BY <1>1 DEF FiguresInv, RowTypes

-----------------------------------------------------------------------------
\* The invariant of the rows.
THEOREM FiguresInvariant == FiguresSpec => []FiguresInv
<1>1. FiguresInit => FiguresInv
  BY FiguresAssumption DEF FiguresInit, Init, FiguresInv, RowTypes
<1>2. FiguresInv /\ [FiguresNext]_<<vars, rows>> => FiguresInv'
  <2> SUFFICES ASSUME FiguresInv, [FiguresNext]_<<vars, rows>>
               PROVE  FiguresInv'
    OBVIOUS
  <2>1. ASSUME NEW c \in Components, NEW ts \in Stamps \cup 0..now, InsertItem(c, ts)
        PROVE  FiguresInv'
    <3>1. ts \in Int
      BY FiguresAssumption DEF FiguresInv, RowTypes
    <3> QED
      BY <2>1, <3>1, InsertStep
  <2>2. CASE UNCHANGED <<vars, rows>>
    BY <2>2 DEF vars, FiguresInv, RowTypes
  <2> QED
    BY <2>1, <2>2, WindowStepKeeps, TransitionStep, SubmitStep DEF FiguresNext
<1> QED
  BY <1>1, <1>2, PTL DEF FiguresSpec

\* Every figure of an incident has its explanation, whatever timestamps clients send,
\* whatever dates engineers enter and however many ticks a second has.
THEOREM FiguresExplainedCorrect == FiguresSpec => []FiguresExplained
<1>1. FiguresInv => FiguresExplained
  <2> SUFFICES ASSUME FiguresInv, NEW k \in DOMAIN rows
               PROVE  LET row == rows[k] IN
                          /\ row.basis = "rca" =>
                                 row.rca /\ row.status # "CLOSED" /\ row.mttr >= 0
                          /\ row.status = "CLOSED" =>
                                 /\ row.basis = "close" /\ row.rca /\ row.resolved
                                 /\ row.mttr = Seconds(row.closed - row.first)
                                 /\ row.mttr < 0 => row.first - row.closed >= Second
    BY DEF FiguresExplained
  <2> DEFINE spent == rows[k].closed - rows[k].first
  <2>1. rows[k] \in Row
    BY DEF FiguresInv, RowTypes
  <2>2. /\ rows[k].closed \in Int /\ rows[k].first \in Int /\ spent \in Int
        /\ -spent = rows[k].first - rows[k].closed
    BY <2>1 DEF Row
  <2>3. Seconds(spent) < 0 => rows[k].first - rows[k].closed >= Second
    BY <2>2, SecondsSign
  <2>4. rows[k].status = "CLOSED" => rows[k].mttr = Seconds(spent)
    BY DEF FiguresInv, Explained
  <2> QED
    BY <2>3, <2>4 DEF FiguresInv, Explained
<1> QED
  BY <1>1, FiguresInvariant, PTL

-----------------------------------------------------------------------------
\* Incidents leave the window alone.
LEMMA FiguresStepIsWindowStep == [FiguresNext]_<<vars, rows>> => [Next]_vars
BY DEF FiguresNext, InsertItem, Transition, SubmitRca

\* What is proved of the window holds beside the incidents.
LEMMA FiguresKeepWindow == FiguresSpec => Spec
<1>1. FiguresInit => Init
  BY DEF FiguresInit
<1> QED
  BY <1>1, FiguresStepIsWindowStep, PTL DEF FiguresSpec, Spec

\* Type correctness: the figures fit their columns, so no history makes a row that
\* PostgreSQL could not hold, and buckets stay in the order of time.
THEOREM FiguresTypeCorrect == FiguresSpec => []FiguresTypeOK
<1>1. TypeOK /\ FiguresInv => FiguresTypeOK
  BY DEF FiguresInv, RowTypes, FiguresTypeOK
<1> QED
  BY <1>1, FiguresInvariant, FiguresKeepWindow, WindowTypeCorrect, PTL
=============================================================================
