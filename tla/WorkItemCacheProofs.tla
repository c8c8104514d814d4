-------------------------- MODULE WorkItemCacheProofs --------------------------
(***************************************************************************)
(* Theorems about WorkItemCache, for every number of writing requests,     *)
(* readers and work items.                                                 *)
(*                                                                         *)
(* Revisions only grow, so what was read of a row stays behind it from the *)
(* SELECT to the SETEX and in the cache, wherever a transaction stands.    *)
(* For a list, the COUNT comes after the SELECT, and rows are never        *)
(* deleted: it counts at least what has been read.                         *)
(***************************************************************************)
EXTENDS WorkItemCache, WorkItemApiProofs, FiniteSetTheorems

ReaderTypes ==
    /\ stage \in [Readers -> {"idle", "lookup", "query", "count", "setex"}]
    /\ key \in [Readers -> Keys]
    /\ copy \in [Readers -> Listing]
    /\ total \in [Readers -> Nat]

ServerTypes ==
    /\ revision \in [Items -> 0..MaxRevisions]
    /\ signals \in 0..MaxSignals
    /\ owed \in [Items -> Nat]
    /\ entry \in [Items -> Nat]
    /\ board \in [rows : Listing, total : Int]

\* Rows have revisions, and every invalidation owed belongs to one of them.
RevisionsCount ==
    \A i \in Items :
        /\ revision[i] = 0 <=> status[i] = "NONE"
        /\ owed[i] <= revision[i]

\* What a reader has read is not ahead of the rows.
ReadersBehind == \A q \in Readers : \A i \in Items : copy[q][i] <= revision[i]

\* A list that is about to be written has its total.
ListsCounted ==
    \A q \in Readers :
        stage[q] = "setex" /\ key[q] = Board => total[q] >= Cardinality(Listed(copy[q]))

CacheInv ==
    /\ ReaderTypes
    /\ ServerTypes
    /\ RevisionsCount
    /\ CacheShowsCommitted
    /\ ReadersBehind
    /\ ListsCounted
    /\ TotalCoversItems

-----------------------------------------------------------------------------
\* The handlers with the cache behave as those of WorkItemApi.
LEMMA CacheStepIsApiStep == [CacheNext]_<<vars, cacheVars>> => [Next]_vars
<1> SUFFICES ASSUME [CacheNext]_<<vars, cacheVars>>
             PROVE  [Next]_vars
  OBVIOUS
<1>1. ASSUME NEW r \in Requests, ApiStep(r) \/ ApiInvalidate(r) \/ ApiCommit(r)
      PROVE  Next
  BY <1>1 DEF ApiStep, ApiInvalidate, ApiCommit, Next, Handle
<1>2. ASSUME NEW i \in Items, WorkerOpens(i) \/ WorkerCounts(i) \/ WorkerInvalidates(i)
      PROVE  Next \/ UNCHANGED vars
  BY <1>2 DEF WorkerOpens, WorkerCounts, WorkerInvalidates, Next
<1>3. ASSUME NEW q \in Readers, BeginRead(q) \/ ReadStep(q) \/ AbortRead(q)
      PROVE  UNCHANGED vars
  BY <1>3 DEF BeginRead, ReadStep, AbortRead, Lookup, GetWorkItem, ListWorkItems,
              CountWorkItems, SetEx
<1>4. ASSUME NEW k \in Keys, Expire(k)
      PROVE  UNCHANGED vars
  BY <1>4 DEF Expire
<1> QED
  BY <1>1, <1>2, <1>3, <1>4 DEF CacheNext

\* So what WorkItemApiProofs proves of the incidents holds with the cache as well.
THEOREM CacheRefinesApi == CacheSpec => Spec
<1>1. CacheInit => Init
  BY DEF CacheInit
<1> QED
  BY <1>1, CacheStepIsApiStep, PTL DEF CacheSpec, Spec

-----------------------------------------------------------------------------
\* The empty listing lists nothing.
LEMMA NothingListed ==
    /\ Nothing \in Listing
    /\ Listed(Nothing) = {}
    /\ NoList \in [rows : Listing, total : Int]
    /\ NoList.rows = Nothing
BY DEF Nothing, Listing, Listed, NoList

\* A listing that is behind another lists no more items.
LEMMA BehindListsFewer ==
    ASSUME NEW a \in Listing, NEW b \in Listing, \A i \in Items : a[i] <= b[i]
    PROVE  /\ Cardinality(Listed(a)) \in Nat
           /\ Cardinality(Listed(b)) \in Nat
           /\ Cardinality(Listed(a)) <= Cardinality(Listed(b))
<1>1. Listed(a) \subseteq Listed(b) /\ Listed(b) \subseteq Items
  BY DEF Listed, Listing
<1> QED
  BY <1>1, CacheAssumption, FS_Subset, FS_CardinalityType

-----------------------------------------------------------------------------
\* A commit to a row, or none, with the cache left alone or emptied for an item.
LEMMA ServerStep ==
    ASSUME CacheInv, UNCHANGED readers,
           revision' \in [Items -> 0..MaxRevisions],
           \A i \in Items : revision[i] <= revision'[i],
           signals' \in 0..MaxSignals,
           owed' \in [Items -> Nat],
           RevisionsCount',
           \/ UNCHANGED redis
           \/ \E i \in Items : InvalidateDashboardCache(i)
    PROVE  CacheInv'
<1> USE DEF CacheInv
<1>1. ReaderTypes' /\ ListsCounted'
  BY DEF readers, ReaderTypes, ListsCounted, Listed
<1>2. /\ entry' \in [Items -> Nat]
      /\ board' \in {board, NoList}
      /\ \A i \in Items : entry'[i] \in {entry[i], 0}
  BY DEF redis, InvalidateDashboardCache, ServerTypes
<1>3. ServerTypes'
  BY <1>2, NothingListed DEF ServerTypes
<1>4. CacheShowsCommitted'
  <2> SUFFICES ASSUME NEW i \in Items
               PROVE  entry'[i] <= revision'[i] /\ board'.rows[i] <= revision'[i]
    BY DEF CacheShowsCommitted
  <2>1. /\ entry[i] <= revision[i] /\ board.rows[i] <= revision[i]
        /\ entry[i] \in Nat /\ board.rows[i] \in Nat
        /\ revision[i] \in Nat /\ revision'[i] \in Nat
    BY CacheAssumption DEF CacheShowsCommitted, ServerTypes, Listing
  <2>2. board'.rows[i] \in {board.rows[i], 0}
    BY <1>2, NothingListed DEF Nothing
  <2> QED
    BY <1>2, <2>1, <2>2
<1>5. ReadersBehind'
  <2> SUFFICES ASSUME NEW q \in Readers, NEW i \in Items
               PROVE  copy[q][i] <= revision'[i]
    BY DEF ReadersBehind, readers
  <2>1. /\ copy[q][i] <= revision[i] /\ copy[q][i] \in Nat
        /\ revision[i] \in Nat /\ revision'[i] \in Nat
    BY CacheAssumption DEF ReadersBehind, ReaderTypes, ServerTypes, Listing
  <2> QED
    BY <2>1
<1>6. TotalCoversItems'
  BY <1>2 DEF TotalCoversItems, Listed
<1> QED
  BY <1>1, <1>3, <1>4, <1>5, <1>6

\* The requests that write.
LEMMA ApiCacheStep ==
    ASSUME ApiInv, CacheInv, NEW r \in Requests,
           ApiStep(r) \/ ApiInvalidate(r) \/ ApiCommit(r)
    PROVE  CacheInv'
<1> USE DEF CacheInv
<1>1. CASE ApiStep(r)
  <2>1. UNCHANGED rows
    BY <1>1 DEF ApiStep, Begin, SelectItem, CheckTransition, WriteTransition, CheckRca,
                WriteRca, UpdateMttr, Abort, Reject
  <2>2. UNCHANGED cacheVars
    BY <1>1 DEF ApiStep
  <2> QED
    BY <2>1, <2>2, ServerStep
       DEF rows, cacheVars, worker, ServerTypes, RevisionsCount
<1>2. CASE ApiInvalidate(r)
  <2>1. item[r] \in Items /\ UNCHANGED rows
    BY <1>2 DEF ApiInvalidate, Invalidate, ApiInv, CallInv, Knows
  <2>2. /\ UNCHANGED <<revision, worker, readers>>
        /\ InvalidateDashboardCache(item[r])
    BY <1>2 DEF ApiInvalidate
  <2>3. ServerTypes /\ RevisionsCount'
    BY <2>1, <2>2 DEF rows, worker, RevisionsCount
  <2> QED
    BY <2>1, <2>2, <2>3, ServerStep DEF worker, ServerTypes
<1>3. CASE ApiCommit(r)
  <2>1. /\ item[r] \in Items
        /\ status[item[r]] # "NONE" /\ target[r] \in Targets
    BY <1>3 DEF ApiCommit, CommitTransition, CommitRca, ApiInv, CallInv, Knows, RowInv,
                Coherent, Checked, TypeOK
  <2>2. \A i \in Items : status'[i] = "NONE" <=> status[i] = "NONE"
    BY <1>3, <2>1 DEF ApiCommit, CommitTransition, CommitRca, ApiInv, TypeOK, Targets,
                      Statuses
  <2>3. /\ UNCHANGED <<worker, redis, readers>>
        /\ Revise(item[r])
    BY <1>3 DEF ApiCommit
  <2>4. /\ revision' \in [Items -> 0..MaxRevisions]
        /\ \A i \in Items : revision[i] <= revision'[i]
        /\ \A i \in Items \ {item[r]} : revision'[i] = revision[i]
        /\ revision'[item[r]] = revision[item[r]] + 1
    BY <2>1, <2>3, CacheAssumption DEF Revise, ServerTypes
  <2>5. RevisionsCount'
    <3> SUFFICES ASSUME NEW i \in Items
                 PROVE  /\ revision'[i] = 0 <=> status'[i] = "NONE"
                        /\ owed'[i] <= revision'[i]
      BY DEF RevisionsCount
    <3>1. revision[i] \in Nat /\ owed[i] \in Nat /\ owed'[i] = owed[i]
      BY <2>3, CacheAssumption DEF ServerTypes, worker
    <3> QED
      BY <2>1, <2>2, <2>4, <3>1 DEF RevisionsCount
  <2> QED
    BY <2>3, <2>4, <2>5, ServerStep DEF worker, ServerTypes
<1> QED
  BY <1>1, <1>2, <1>3

\* The signal worker.
LEMMA WorkerCacheStep ==
    ASSUME TypeOK, CacheInv, NEW i \in Items,
           WorkerOpens(i) \/ WorkerCounts(i) \/ WorkerInvalidates(i)
    PROVE  CacheInv'
<1> USE DEF CacheInv
<1>1. CASE WorkerOpens(i) \/ WorkerCounts(i)
  <2>1. /\ Revise(i) /\ owed' = [owed EXCEPT ![i] = @ + 1]
        /\ UNCHANGED <<redis, readers>>
        /\ signals' \in 0..MaxSignals
    BY <1>1, CacheAssumption DEF WorkerOpens, WorkerCounts, ServerTypes
  <2>2. /\ revision' \in [Items -> 0..MaxRevisions]
        /\ \A j \in Items : revision[j] <= revision'[j]
        /\ \A j \in Items \ {i} : revision'[j] = revision[j] /\ owed'[j] = owed[j]
        /\ revision'[i] = revision[i] + 1 /\ owed'[i] = owed[i] + 1
        /\ owed' \in [Items -> Nat]
    BY <2>1, CacheAssumption DEF Revise, ServerTypes
  <2>3. /\ status'[i] # "NONE"
        /\ \A j \in Items \ {i} : status'[j] = status[j]
    BY <1>1 DEF WorkerOpens, WorkerCounts, OpenItem, TypeOK, vars, rows
  <2>4. RevisionsCount'
    <3> SUFFICES ASSUME NEW j \in Items
                 PROVE  /\ revision'[j] = 0 <=> status'[j] = "NONE"
                        /\ owed'[j] <= revision'[j]
      BY DEF RevisionsCount
    <3>1. revision[j] \in Nat /\ owed[j] \in Nat
      BY CacheAssumption DEF ServerTypes
    <3> QED
      BY <2>2, <2>3, <3>1 DEF RevisionsCount
  <2> QED
    BY <2>1, <2>2, <2>4, ServerStep
<1>2. CASE WorkerInvalidates(i)
  <2>1. /\ owed[i] > 0 /\ owed' = [owed EXCEPT ![i] = @ - 1]
        /\ InvalidateDashboardCache(i) \/ UNCHANGED redis
        /\ UNCHANGED <<revision, signals, readers, status>>
    BY <1>2 DEF WorkerInvalidates, vars, rows
  <2>2. /\ owed' \in [Items -> Nat]
        /\ \A j \in Items : owed'[j] <= owed[j]
    BY <2>1 DEF ServerTypes
  <2>3. RevisionsCount'
    <3> SUFFICES ASSUME NEW j \in Items
                 PROVE  /\ revision'[j] = 0 <=> status'[j] = "NONE"
                        /\ owed'[j] <= revision'[j]
      BY DEF RevisionsCount
    <3>1. revision[j] \in Nat /\ owed[j] \in Nat /\ owed'[j] \in Nat
      BY <2>2, CacheAssumption DEF ServerTypes
    <3> QED
      BY <2>1, <2>2, <3>1 DEF RevisionsCount
  <2>4. \A j \in Items : revision[j] <= revision'[j]
    BY <2>1, CacheAssumption DEF ServerTypes
  <2> QED
    BY <2>1, <2>2, <2>3, <2>4, ServerStep DEF ServerTypes
<1> QED
  BY <1>1, <1>2

-----------------------------------------------------------------------------
\* A GET that is answered forgets what it has read.
LEMMA AnswerStep ==
    ASSUME CacheInv, NEW q \in Readers, Answer(q)
    PROVE  /\ ReaderTypes'
           /\ UNCHANGED revision => ReadersBehind'
           /\ ListsCounted'
<1> USE DEF CacheInv, Answer
<1>1. ReaderTypes'
  BY NothingListed DEF ReaderTypes, Keys
<1>2. ASSUME UNCHANGED revision
      PROVE  ReadersBehind'
  <2> SUFFICES ASSUME NEW t \in Readers, NEW i \in Items
               PROVE  copy'[t][i] <= revision[i]
    BY <1>2 DEF ReadersBehind
  <2>1. copy'[t] = IF t = q THEN Nothing ELSE copy[t]
    BY DEF ReaderTypes
  <2>2. revision[i] \in Nat
    BY CacheAssumption DEF ServerTypes
  <2> QED
    BY <2>1, <2>2 DEF ReadersBehind, Nothing
<1>3. ListsCounted'
  <2> SUFFICES ASSUME NEW t \in Readers, stage'[t] = "setex", key'[t] = Board
               PROVE  total'[t] >= Cardinality(Listed(copy'[t]))
    BY DEF ListsCounted
  <2>1. t # q
    BY DEF ReaderTypes
  <2>2. /\ stage'[t] = stage[t] /\ key'[t] = key[t]
        /\ copy'[t] = copy[t] /\ total'[t] = total[t]
    BY <2>1 DEF ReaderTypes
  <2> QED
    BY <2>2 DEF ListsCounted
<1> QED
  BY <1>1, <1>2, <1>3

\* GET requests.
LEMMA ReaderCacheStep ==
    ASSUME TypeOK, CacheInv, NEW q \in Readers,
           BeginRead(q) \/ ReadStep(q) \/ AbortRead(q)
    PROVE  CacheInv'
<1> USE DEF CacheInv
<1>1. UNCHANGED <<revision, worker, vars>>
  BY DEF BeginRead, ReadStep, AbortRead, Lookup, GetWorkItem, ListWorkItems,
         CountWorkItems, SetEx
<1>2. RevisionsCount'
  BY <1>1 DEF RevisionsCount, worker, vars, rows
<1>3. ASSUME UNCHANGED redis
      PROVE  ServerTypes' /\ CacheShowsCommitted' /\ TotalCoversItems'
  BY <1>1, <1>3
     DEF redis, worker, ServerTypes, CacheShowsCommitted, TotalCoversItems, Listed
<1>4. CASE BeginRead(q)
  <2>1. UNCHANGED redis /\ ReaderTypes' /\ ReadersBehind'
    BY <1>1, <1>4 DEF BeginRead, ReaderTypes, ReadersBehind
  <2>2. \A t \in Readers : t # q => stage'[t] = stage[t] /\ key'[t] = key[t]
    BY <1>4 DEF BeginRead, ReaderTypes
  <2>3. stage'[q] = "lookup" /\ UNCHANGED <<copy, total>>
    BY <1>4 DEF BeginRead, ReaderTypes
  <2>4. ListsCounted'
    BY <2>2, <2>3 DEF ListsCounted, Listed
  <2> QED
    BY <1>2, <1>3, <2>1, <2>4
<1>5. CASE Answer(q) /\ UNCHANGED redis
  BY <1>1, <1>2, <1>3, <1>5, AnswerStep
<1>6. ASSUME UNCHANGED <<redis, key, copy, total>>,
             \E s \in {"query", "count"} : stage' = [stage EXCEPT ![q] = s]
      PROVE  CacheInv'
  <2>1. ReaderTypes' /\ ReadersBehind'
    BY <1>1, <1>6 DEF ReaderTypes, ReadersBehind
  <2>2. \A t \in Readers : stage'[t] = "setex" => stage[t] = "setex"
    BY <1>6 DEF ReaderTypes
  <2>3. ListsCounted'
    BY <1>6, <2>2 DEF ListsCounted, Listed
  <2> QED
    BY <1>2, <1>3, <1>6, <2>1, <2>3
<1>7. CASE Lookup(q)
  BY <1>5, <1>6, <1>7 DEF Lookup
<1>8. ASSUME UNCHANGED <<redis, key, total>>,
             NEW seenRows \in Listing, \A i \in Items : seenRows[i] <= revision[i],
             copy' = [copy EXCEPT ![q] = seenRows],
             NEW s, stage' = [stage EXCEPT ![q] = s],
             s = "count" \/ (s = "setex" /\ key[q] # Board)
      PROVE  CacheInv'
  <2>1. /\ ReaderTypes'
        /\ \A t \in Readers \ {q} : copy'[t] = copy[t] /\ stage'[t] = stage[t]
        /\ copy'[q] = seenRows /\ stage'[q] = s
    BY <1>8 DEF ReaderTypes
  <2>2. ReadersBehind'
    BY <1>1, <1>8, <2>1 DEF ReadersBehind
  <2>3. ListsCounted'
    BY <1>8, <2>1 DEF ListsCounted, Listed
  <2> QED
    BY <1>2, <1>3, <1>8, <2>1, <2>2, <2>3
<1>9. CASE GetWorkItem(q)
  <2>1. CASE revision[key[q]] = 0 /\ Answer(q)
    BY <1>5, <1>9, <2>1 DEF GetWorkItem
  <2>2. CASE ~(revision[key[q]] = 0 /\ Answer(q))
    <3> DEFINE seenRows == [copy[q] EXCEPT ![key[q]] = revision[key[q]]]
    <3>1. /\ key[q] \in Items /\ key[q] # Board
          /\ UNCHANGED <<redis, key, total>>
          /\ copy' = [copy EXCEPT ![q] = seenRows]
          /\ stage' = [stage EXCEPT ![q] = "setex"]
      BY <1>9, <2>2, CacheAssumption DEF GetWorkItem
    <3>2. revision[key[q]] \in Nat /\ copy[q] \in Listing
      BY <3>1, CacheAssumption DEF ServerTypes, ReaderTypes
    <3>3. seenRows \in Listing
      BY <3>2 DEF Listing
    <3>4. \A i \in Items : seenRows[i] <= revision[i]
      BY <3>1, <3>2 DEF ReadersBehind, Listing
    <3> QED
      BY <1>8, <3>1, <3>3, <3>4
  <2> QED
    BY <2>1, <2>2
<1>10. CASE ListWorkItems(q)
  <2>1. revision \in Listing /\ \A i \in Items : revision[i] <= revision[i]
    BY CacheAssumption DEF ServerTypes, Listing
  <2> QED
    BY <1>8, <1>10, <2>1 DEF ListWorkItems
<1>11. CASE CountWorkItems(q)
  <2>1. /\ UNCHANGED <<redis, key, copy>>
        /\ total' = [total EXCEPT ![q] = Counted]
        /\ stage' = [stage EXCEPT ![q] = "setex"]
    BY <1>11 DEF CountWorkItems
  <2>2. /\ revision \in Listing /\ copy[q] \in Listing
        /\ \A i \in Items : copy[q][i] <= revision[i]
    BY CacheAssumption DEF ServerTypes, ReaderTypes, Listing, ReadersBehind
  <2>3. Counted \in Nat /\ Counted >= Cardinality(Listed(copy[q]))
    BY <2>2, BehindListsFewer DEF Counted
  <2>4. ReaderTypes' /\ ReadersBehind'
    BY <1>1, <2>1, <2>3 DEF ReaderTypes, ReadersBehind
  <2>5. \A t \in Readers \ {q} : total'[t] = total[t] /\ stage'[t] = stage[t]
    BY <2>1 DEF ReaderTypes
  <2>6. total'[q] = Counted
    BY <2>1 DEF ReaderTypes
  <2>7. ListsCounted'
    BY <2>1, <2>3, <2>5, <2>6 DEF ListsCounted, Listed
  <2> QED
    BY <1>2, <1>3, <2>1, <2>4, <2>7
<1>12. CASE SetEx(q)
  <2>1. Answer(q) /\ stage[q] = "setex"
    BY <1>12 DEF SetEx
  <2>2. copy[q] \in Listing /\ total[q] \in Nat /\ \A i \in Items : copy[q][i] <= revision[i]
    BY DEF ReaderTypes, ReadersBehind
  <2>3. CASE key[q] = Board /\ board' = [rows |-> copy[q], total |-> total[q]]
             /\ UNCHANGED entry
    <3>1. total[q] >= Cardinality(Listed(copy[q]))
      BY <2>1, <2>3 DEF ListsCounted
    <3>2. TotalCoversItems'
      BY <2>3, <3>1 DEF TotalCoversItems, Listed
    <3>3. ServerTypes' /\ CacheShowsCommitted'
      BY <1>1, <2>2, <2>3 DEF ServerTypes, CacheShowsCommitted, worker
    <3> QED
      BY <1>1, <1>2, <2>1, <3>2, <3>3, AnswerStep
  <2>4. CASE key[q] \in Items /\ entry' = [entry EXCEPT ![key[q]] = copy[q][key[q]]]
             /\ UNCHANGED board
    <3>1. copy[q][key[q]] \in Nat
      BY <2>2, <2>4 DEF Listing
    <3>2. ServerTypes' /\ CacheShowsCommitted' /\ TotalCoversItems'
      BY <1>1, <2>2, <2>4, <3>1
         DEF ServerTypes, CacheShowsCommitted, TotalCoversItems, Listed, worker
    <3> QED
      BY <1>1, <1>2, <2>1, <3>2, AnswerStep
  <2> QED
    BY <1>12, <2>3, <2>4 DEF SetEx
<1>13. CASE AbortRead(q)
  BY <1>5, <1>13 DEF AbortRead
<1> QED
  BY <1>4, <1>7, <1>9, <1>10, <1>11, <1>12, <1>13 DEF ReadStep

\* A key expires.
LEMMA ExpireStep ==
    ASSUME CacheInv, NEW k \in Keys, Expire(k)
    PROVE  CacheInv'
<1> USE DEF CacheInv
<1>1. UNCHANGED <<revision, worker, readers, vars>>
  BY DEF Expire
<1>2. ReaderTypes' /\ ReadersBehind' /\ ListsCounted' /\ RevisionsCount'
  BY <1>1 DEF readers, worker, vars, rows, ReaderTypes, ReadersBehind, ListsCounted,
              Listed, RevisionsCount
<1>3. /\ entry' \in [Items -> Nat]
      /\ board' \in {board, NoList}
      /\ \A i \in Items : entry'[i] \in {entry[i], 0}
  BY DEF Expire, Keys, ServerTypes
<1>4. ServerTypes'
  BY <1>1, <1>3, NothingListed DEF worker, ServerTypes
<1>5. CacheShowsCommitted'
  <2> SUFFICES ASSUME NEW i \in Items
               PROVE  entry'[i] <= revision[i] /\ board'.rows[i] <= revision[i]
    BY <1>1 DEF CacheShowsCommitted
  <2>1. board'.rows[i] \in {board.rows[i], 0}
    BY <1>3, NothingListed DEF Nothing
  <2>2. revision[i] \in Nat
    BY CacheAssumption DEF ServerTypes
  <2> QED
    BY <1>3, <2>1, <2>2 DEF CacheShowsCommitted
<1>6. TotalCoversItems'
  BY <1>3 DEF TotalCoversItems, Listed
<1> QED
  BY <1>2, <1>4, <1>5, <1>6

-----------------------------------------------------------------------------
\* The invariant of the cache and of everything on its way there.
THEOREM CacheInvariant == CacheSpec => []CacheInv
<1>1. CacheInit => CacheInv
  <2> SUFFICES ASSUME CacheInit
               PROVE  CacheInv
    OBVIOUS
  <2>1. ReaderTypes /\ ServerTypes /\ ReadersBehind /\ ListsCounted
    BY NothingListed, CacheAssumption
       DEF CacheInit, ReaderTypes, ServerTypes, ReadersBehind, ListsCounted, Keys, Nothing
  <2>2. RevisionsCount
    BY DEF CacheInit, Init, RevisionsCount, Nothing
  <2>3. CacheShowsCommitted /\ TotalCoversItems
    BY NothingListed DEF CacheInit, CacheShowsCommitted, TotalCoversItems, Nothing
  <2> QED
    BY <2>1, <2>2, <2>3 DEF CacheInv
<1>2. CacheInv /\ ApiInv /\ [CacheNext]_<<vars, cacheVars>> => CacheInv'
  <2> SUFFICES ASSUME CacheInv, ApiInv, [CacheNext]_<<vars, cacheVars>>
               PROVE  CacheInv'
    OBVIOUS
  <2>0. TypeOK
    BY DEF ApiInv
  <2>1. CASE CacheNext
    BY <2>0, <2>1, ApiCacheStep, WorkerCacheStep, ReaderCacheStep, ExpireStep DEF CacheNext
  <2>2. CASE UNCHANGED <<vars, cacheVars>>
    BY <2>2 DEF CacheInv, ReaderTypes, ServerTypes, RevisionsCount, CacheShowsCommitted,
                ReadersBehind, ListsCounted, TotalCoversItems, Listed, vars, rows,
                cacheVars, worker, redis, readers
  <2> QED
    BY <2>1, <2>2
<1> QED
  BY <1>1, <1>2, CacheRefinesApi, ApiInvariant, PTL DEF CacheSpec

\* Type correctness with any number of requests and readers; a row has a revision
\* exactly when it exists, and no more invalidations are owed than commits made.
THEOREM CacheTypeCorrect == CacheSpec => []CacheTypeOK
<1>1. CacheInv /\ ApiInv => CacheTypeOK
  <2> SUFFICES ASSUME CacheInv, ApiInv
               PROVE  CacheTypeOK
    OBVIOUS
  <2>1. owed \in [Items -> 0..MaxRevisions]
    <3> SUFFICES ASSUME NEW i \in Items
                 PROVE  owed[i] \in 0..MaxRevisions
      BY DEF CacheInv, ServerTypes
    <3> QED
      BY CacheAssumption DEF CacheInv, ServerTypes, RevisionsCount
  <2> QED
    BY <2>1 DEF CacheInv, ApiInv, CacheTypeOK, ServerTypes, ReaderTypes, RevisionsCount
<1> QED
  BY <1>1, CacheInvariant, CacheRefinesApi, ApiInvariant, PTL

\* No response from the cache shows a change that was rolled back or is not
\* committed yet, in whatever order requests, readers and the worker go.
THEOREM CacheShowsCommittedCorrect == CacheSpec => []CacheShowsCommitted
<1>1. CacheInv => CacheShowsCommitted
  BY DEF CacheInv
<1> QED
  BY <1>1, CacheInvariant, PTL

\* The total of a cached list covers its items, for any number of items that are
\* inserted and changed between the two queries.
THEOREM TotalCoversCorrect == CacheSpec => []TotalCoversItems
<1>1. CacheInv => TotalCoversItems
  BY DEF CacheInv
<1> QED
  BY <1>1, CacheInvariant, PTL

-----------------------------------------------------------------------------
(***************************************************************************)
(* A cached response stays behind the rows for two reasons only: a GET     *)
(* that has read them overlaps a change, or an invalidation of the worker  *)
(* fails.  Without either the cache shows what is committed, from the end  *)
(* of the worker's invalidations on, although the API invalidates before   *)
(* its COMMIT and readers come at any other time.                          *)
(***************************************************************************)
\* A GET has read the row and has not cached it yet.
Concerns(q, i) == stage[q] \in {"count", "setex"} /\ key[q] \in {i, Board}

\* A change of the row is between its invalidation and its COMMIT, or the other way round.
Unsettled(i) ==
    owed[i] > 0 \/ \E r \in Requests : item[r] = i /\ pc[r] \in {"update", "commit"}

ReadersApart == \A q \in Readers, i \in Items : Concerns(q, i) => ~Unsettled(i)

InvalidationsSucceed ==
    [][\A i \in Items : owed'[i] < owed[i] => entry'[i] = 0 /\ board' = NoList
      ]_<<vars, cacheVars>>

CacheFresh ==
    \A i \in Items : owed[i] = 0 =>
        /\ entry[i] \in {0, revision[i]}
        /\ board = NoList \/ board.rows[i] = revision[i]

\* Nothing is cached of a row that is about to change.
Emptied ==
    \A r \in Requests : pc[r] \in {"update", "commit"} => entry[item[r]] = 0 /\ board = NoList

CopiesFresh ==
    \A q \in Readers, i \in Items : Concerns(q, i) => copy[q][i] = revision[i]

FreshInv == CacheFresh /\ Emptied /\ CopiesFresh

\* Emptying keys keeps the cache fresh.
LEMMA FreshAfterLess ==
    ASSUME FreshInv, CacheInv, CallInv, UNCHANGED <<revision, owed, readers>>,
           \A i \in Items : entry'[i] \in {0, entry[i]},
           board' \in {NoList, board},
           \A r \in Requests : pc'[r] \in {"update", "commit"} =>
               /\ item'[r] \in Items
               /\ \/ pc[r] \in {"update", "commit"} /\ item'[r] = item[r]
                  \/ entry'[item'[r]] = 0 /\ board' = NoList
    PROVE  FreshInv'
<1>1. CacheFresh'
  BY DEF FreshInv, CacheFresh
<1>2. Emptied'
  BY DEF FreshInv, Emptied
<1>3. CopiesFresh'
  BY DEF FreshInv, CopiesFresh, Concerns, readers
<1> QED
  BY <1>1, <1>2, <1>3 DEF FreshInv

\* The handlers keep the cache right.
LEMMA FreshApiStep ==
    ASSUME ApiInv, CacheInv, FreshInv, ReadersApart, NEW r \in Requests,
           ApiStep(r) \/ ApiInvalidate(r) \/ ApiCommit(r)
    PROVE  FreshInv'
<1>0. TypeOK /\ CallInv
  BY DEF ApiInv
<1>1. OthersUntouched(r)
  BY <1>0, OneRequestMoves DEF ApiStep, ApiInvalidate, ApiCommit, Handle
<1>2. \A t \in Requests : pc[t] \in {"update", "commit"} => item[t] \in Items
  BY <1>0 DEF CallInv, Knows
<1>3. CASE ApiStep(r)
  <2>1. pc'[r] \in {"update", "commit"} => pc[r] \in {"update", "commit"} /\ item'[r] = item[r]
    BY <1>0, <1>3 DEF ApiStep, Begin, SelectItem, CheckTransition, WriteTransition, CheckRca,
                      WriteRca, UpdateMttr, Abort, Reject, Finish, Goto, TypeOK
  <2>2. UNCHANGED <<revision, owed, readers, entry, board>>
    BY <1>3 DEF ApiStep, cacheVars, worker, redis
  <2>3. \A t \in Requests : pc'[t] \in {"update", "commit"} =>
            pc[t] \in {"update", "commit"} /\ item'[t] = item[t]
    BY <1>1, <2>1 DEF OthersUntouched
  <2> QED
    BY <1>0, <1>2, <2>2, <2>3, FreshAfterLess
<1>4. CASE ApiInvalidate(r)
  <2>1. /\ item[r] \in Items /\ item'[r] = item[r]
        /\ UNCHANGED <<revision, owed, readers>>
        /\ InvalidateDashboardCache(item[r])
    BY <1>0, <1>4 DEF ApiInvalidate, Invalidate, Goto, CallInv, Knows, worker
  <2>2. /\ board' = NoList /\ entry'[item[r]] = 0
        /\ \A i \in Items : entry'[i] \in {0, entry[i]}
    BY <2>1 DEF InvalidateDashboardCache, CacheInv, ServerTypes
  <2>3. \A t \in Requests : pc'[t] \in {"update", "commit"} =>
            /\ item'[t] \in Items
            /\ \/ pc[t] \in {"update", "commit"} /\ item'[t] = item[t]
               \/ entry'[item'[t]] = 0 /\ board' = NoList
    BY <1>1, <1>2, <2>1, <2>2 DEF OthersUntouched
  <2> QED
    BY <1>0, <2>1, <2>2, <2>3, FreshAfterLess
<1>5. CASE ApiCommit(r)
  <2>1. /\ pc[r] = "commit" /\ pc'[r] = "idle"
        /\ UNCHANGED <<owed, entry, board, readers>>
        /\ \A i \in Items : i # item[r] => revision'[i] = revision[i]
    BY <1>0, <1>5 DEF ApiCommit, CommitTransition, CommitRca, Finish, Revise, TypeOK,
                      CacheInv, ServerTypes, worker, redis
  <2>2. entry[item[r]] = 0 /\ board = NoList
    BY <2>1 DEF FreshInv, Emptied
  <2>3. CacheFresh'
    BY <2>1, <2>2 DEF FreshInv, CacheFresh
  <2>4. Emptied'
    BY <1>1, <2>1 DEF FreshInv, Emptied, OthersUntouched
  <2>5. CopiesFresh'
    <3>1. \A q \in Readers, i \in Items : Concerns(q, i) => i # item[r]
      BY <2>1 DEF ReadersApart, Unsettled
    <3> QED
      BY <2>1, <3>1 DEF FreshInv, CopiesFresh, Concerns, readers
  <2> QED
    BY <2>3, <2>4, <2>5 DEF FreshInv
<1> QED
  BY <1>3, <1>4, <1>5

\* So does the worker, if its invalidations succeed.
LEMMA FreshWorkerStep ==
    ASSUME ApiInv, CacheInv, FreshInv, ReadersApart', NEW i \in Items,
           WorkerOpens(i) \/ WorkerCounts(i) \/ WorkerInvalidates(i),
           owed'[i] < owed[i] => entry'[i] = 0 /\ board' = NoList
    PROVE  FreshInv'
<1>1. /\ UNCHANGED <<readers, pc, item>> /\ owed[i] \in Nat
      /\ \A j \in Items : j # i => owed'[j] = owed[j] /\ entry'[j] = entry[j]
      /\ board' \in {NoList, board} /\ entry'[i] \in {0, entry[i]}
  BY DEF WorkerOpens, WorkerCounts, WorkerInvalidates, OpenItem, InvalidateDashboardCache,
         CacheInv, ServerTypes, vars, calls, redis
<1>2. \A j \in Items : entry'[j] \in {0, entry[j]}
  BY <1>1
<1>3. Emptied'
  <2> SUFFICES ASSUME NEW r \in Requests, pc[r] \in {"update", "commit"}
               PROVE  entry'[item[r]] = 0 /\ board' = NoList
    BY <1>1 DEF Emptied
  <2>1. entry[item[r]] = 0 /\ board = NoList
    BY DEF FreshInv, Emptied
  <2>2. item[r] \in Items
    BY DEF ApiInv, CallInv, Knows
  <2> QED
    BY <1>1, <1>2, <2>1, <2>2
<1>4. CASE WorkerOpens(i) \/ WorkerCounts(i)
  <2>1. /\ owed'[i] = owed[i] + 1 /\ UNCHANGED <<entry, board>>
        /\ \A j \in Items : j # i => revision'[j] = revision[j]
    BY <1>4 DEF WorkerOpens, WorkerCounts, Revise, CacheInv, ServerTypes, redis
  <2>2. owed'[i] > 0
    BY <1>1, <2>1
  <2>3. CacheFresh'
    BY <1>1, <2>1, <2>2 DEF FreshInv, CacheFresh
  <2>4. CopiesFresh'
    <3>1. \A q \in Readers : ~Concerns(q, i)'
      BY <2>2 DEF ReadersApart, Unsettled
    <3> QED
      BY <1>1, <2>1, <3>1 DEF FreshInv, CopiesFresh, Concerns, readers
  <2> QED
    BY <1>3, <2>3, <2>4 DEF FreshInv
<1>5. CASE WorkerInvalidates(i)
  <2>1. UNCHANGED revision /\ owed'[i] = owed[i] - 1
    BY <1>5 DEF WorkerInvalidates, CacheInv, ServerTypes
  <2>2. entry'[i] = 0 /\ board' = NoList
    BY <1>1, <2>1
  <2>3. CacheFresh'
    BY <1>1, <2>1, <2>2 DEF FreshInv, CacheFresh
  <2>4. CopiesFresh'
    BY <1>1, <2>1 DEF FreshInv, CopiesFresh, Concerns, readers
  <2> QED
    BY <1>3, <2>3, <2>4 DEF FreshInv
<1> QED
  BY <1>4, <1>5

\* So do GET requests that overlap no change.
LEMMA FreshReaderStep ==
    ASSUME ApiInv, CacheInv, FreshInv, ReadersApart, NEW q \in Readers,
           BeginRead(q) \/ ReadStep(q) \/ AbortRead(q)
    PROVE  FreshInv'
<1>1. UNCHANGED <<revision, owed, pc, item>>
  BY DEF BeginRead, ReadStep, AbortRead, Lookup, GetWorkItem, ListWorkItems,
         CountWorkItems, SetEx, worker, vars, calls
<1>2. /\ stage \in [Readers -> {"idle", "lookup", "query", "count", "setex"}]
      /\ key \in [Readers -> Keys] /\ copy \in [Readers -> Listing]
  BY DEF CacheInv, ReaderTypes
<1>3. ASSUME UNCHANGED redis
      PROVE  CacheFresh' /\ Emptied'
  BY <1>1, <1>3 DEF FreshInv, CacheFresh, Emptied, redis
<1>4. ASSUME \A t \in Readers \ {q} :
                 stage'[t] = stage[t] /\ key'[t] = key[t] /\ copy'[t] = copy[t],
             \A i \in Items : Concerns(q, i)' => copy'[q][i] = revision[i]
      PROVE  CopiesFresh'
  BY <1>1, <1>4 DEF FreshInv, CopiesFresh, Concerns
<1>5. ASSUME Answer(q)
      PROVE  CopiesFresh'
  BY <1>2, <1>4, <1>5 DEF Answer, Concerns
<1>6. CASE BeginRead(q)
  <2>1. CopiesFresh'
    BY <1>2, <1>4, <1>6 DEF BeginRead, Concerns
  <2> QED
    BY <1>3, <1>6, <2>1 DEF BeginRead, FreshInv
<1>7. CASE Lookup(q)
  <2>1. CopiesFresh'
    BY <1>2, <1>4, <1>5, <1>7 DEF Lookup, Concerns
  <2> QED
    BY <1>3, <1>7, <2>1 DEF Lookup, FreshInv
<1>8. CASE GetWorkItem(q)
  <2>1. key[q] \in Items /\ key[q] # Board
    BY <1>8, CacheAssumption DEF GetWorkItem
  <2>2. ASSUME UNCHANGED key, copy' = [copy EXCEPT ![q][key[q]] = revision[key[q]]],
               stage' = [stage EXCEPT ![q] = "setex"]
        PROVE  CopiesFresh'
    <3>1. copy'[q][key[q]] = revision[key[q]]
      BY <1>2, <2>1, <2>2 DEF Listing
    <3> QED
      BY <1>2, <1>4, <2>1, <2>2, <3>1 DEF Concerns
  <2>3. CopiesFresh'
    BY <1>5, <1>8, <2>2 DEF GetWorkItem
  <2> QED
    BY <1>3, <1>8, <2>3 DEF GetWorkItem, FreshInv
<1>9. CASE ListWorkItems(q)
  <2>1. CopiesFresh'
    BY <1>2, <1>4, <1>9 DEF ListWorkItems
  <2> QED
    BY <1>3, <1>9, <2>1 DEF ListWorkItems, FreshInv
<1>10. CASE CountWorkItems(q)
  <2>1. \A i \in Items : Concerns(q, i)' => Concerns(q, i)
    BY <1>10 DEF CountWorkItems, Concerns
  <2>2. CopiesFresh'
    BY <1>2, <1>4, <1>10, <2>1 DEF CountWorkItems, FreshInv, CopiesFresh
  <2> QED
    BY <1>3, <1>10, <2>2 DEF CountWorkItems, FreshInv
<1>11. CASE SetEx(q)
  <2>1. Answer(q) /\ stage[q] = "setex"
    BY <1>11 DEF SetEx
  <2>2. \A i \in Items : key[q] \in {i, Board} =>
            /\ copy[q][i] = revision[i]
            /\ \A r \in Requests : pc[r] \in {"update", "commit"} => item[r] # i
    BY <2>1 DEF FreshInv, CopiesFresh, ReadersApart, Unsettled, Concerns
  <2>3. \A r \in Requests : pc[r] \in {"update", "commit"} => item[r] \in Items
    BY DEF ApiInv, CallInv, Knows
  <2>4. CASE key[q] = Board /\ board' = [rows |-> copy[q], total |-> total[q]]
             /\ UNCHANGED entry
    <3>1. CacheFresh'
      BY <1>1, <2>2, <2>4 DEF FreshInv, CacheFresh
    <3>2. Emptied'
      BY <1>1, <2>2, <2>3, <2>4 DEF Emptied
    <3> QED
      BY <1>5, <2>1, <3>1, <3>2 DEF FreshInv
  <2>5. CASE key[q] \in Items /\ entry' = [entry EXCEPT ![key[q]] = copy[q][key[q]]]
             /\ UNCHANGED board
    <3>1. CacheFresh'
      BY <1>1, <2>2, <2>5 DEF FreshInv, CacheFresh, CacheInv, ServerTypes
    <3>2. Emptied'
      BY <1>1, <2>2, <2>3, <2>5 DEF FreshInv, Emptied
    <3> QED
      BY <1>5, <2>1, <3>1, <3>2 DEF FreshInv
  <2> QED
    BY <1>11, <2>4, <2>5 DEF SetEx
<1>12. CASE AbortRead(q)
  BY <1>3, <1>5, <1>12 DEF AbortRead, FreshInv
<1> QED
  BY <1>6, <1>7, <1>8, <1>9, <1>10, <1>11, <1>12 DEF ReadStep

\* Unless a reader overlaps a change or an invalidation of the worker fails, what is
\* cached of an item and of the list is what is committed, as soon as no invalidation is
\* owed: in particular when nothing is in progress.
THEOREM FreshUnlessOverlap ==
    CacheSpec /\ []ReadersApart /\ InvalidationsSucceed => [](CacheFresh /\ QuietCacheFresh)
<1>1. CacheInit => FreshInv
  BY NothingListed
     DEF CacheInit, Init, FreshInv, CacheFresh, Emptied, CopiesFresh, Concerns, Nothing
<1>2. ASSUME ApiInv, CacheInv, FreshInv, ReadersApart, ReadersApart',
             [CacheNext]_<<vars, cacheVars>>,
             [\A i \in Items : owed'[i] < owed[i] => entry'[i] = 0 /\ board' = NoList
             ]_<<vars, cacheVars>>
      PROVE  FreshInv'
  <2>0. TypeOK /\ CallInv
    BY <1>2 DEF ApiInv
  <2>1. \A t \in Requests : pc[t] \in {"update", "commit"} => item[t] \in Items
    BY <2>0 DEF CallInv, Knows
  <2>2. CASE UNCHANGED <<vars, cacheVars>>
    <3>1. UNCHANGED <<revision, owed, readers, entry, board, pc, item>>
      BY <2>2 DEF vars, calls, cacheVars, worker, redis
    <3> QED
      BY <1>2, <2>0, <2>1, <3>1, FreshAfterLess
  <2>3. ASSUME NEW k \in Keys, Expire(k)
        PROVE  FreshInv'
    <3>1. /\ UNCHANGED <<revision, owed, readers, pc, item>>
          /\ board' \in {NoList, board}
          /\ \A i \in Items : entry'[i] \in {0, entry[i]}
      BY <1>2, <2>3 DEF Expire, Keys, CacheInv, ServerTypes, worker, vars, calls
    <3> QED
      BY <1>2, <2>0, <2>1, <3>1, FreshAfterLess
  <2>4. ASSUME NEW i \in Items, WorkerOpens(i) \/ WorkerCounts(i) \/ WorkerInvalidates(i)
        PROVE  FreshInv'
    <3>1. \A j \in Items : owed'[j] = owed[j] => ~(owed'[j] < owed[j])
      BY <1>2 DEF CacheInv, ServerTypes
    <3>2. owed'[i] < owed[i] => entry'[i] = 0 /\ board' = NoList
      BY <1>2, <3>1 DEF cacheVars, worker
    <3> QED
      BY <1>2, <2>0, <2>4, <3>2, FreshWorkerStep
  <2> QED
    BY <1>2, <2>2, <2>3, <2>4, FreshApiStep, FreshReaderStep DEF CacheNext
<1>3. FreshInv => CacheFresh /\ QuietCacheFresh
  BY DEF FreshInv, CacheFresh, QuietCacheFresh, Quiet
<1> QED
  BY <1>1, <1>2, <1>3, CacheInvariant, CacheRefinesApi, ApiInvariant, PTL
     DEF CacheSpec, InvalidationsSucceed
=============================================================================
