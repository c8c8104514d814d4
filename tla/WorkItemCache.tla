---------------------------- MODULE WorkItemCache ----------------------------
(***************************************************************************)
(* WorkItemApi together with the Redis cache in front of it: the GET       *)
(* handlers list_work_items and get_work_item fill two keys and serve from *)
(* them, the handlers of WorkItemApi delete both before their COMMIT, and  *)
(* the signal worker deletes both after its own.                           *)
(*                                                                         *)
(* A cached response is represented by the revision of the row it shows;   *)
(* the revision of a row is the number of transactions that have committed *)
(* a change of it.  The RCA in a response comes from a SELECT that follows *)
(* the one of the row (selectin) and may be of a later revision, which is  *)
(* committed too.                                                          *)
(***************************************************************************)
EXTENDS WorkItemApi, FiniteSets

CONSTANTS
    Readers,      \* GET requests that can be in progress at the same time
    Board,        \* the key ims:dashboard:active
    MaxRevisions, \* bound: committed changes of an item
    MaxSignals    \* bound: signals the worker adds to existing items

ASSUME CacheAssumption ==
    /\ Board \notin Items
    /\ IsFiniteSet(Items)
    /\ MaxRevisions \in Nat
    /\ MaxSignals \in Nat

VARIABLES
    revision,  \* committed revision of each row, 0 when there is none
    signals,   \* signals the worker has added so far
    owed,      \* invalidations the worker has still to make, per item
    entry,     \* ims:workitem:<id>: the revision cached, 0 when there is none
    board,     \* ims:dashboard:active: the list cached, NoList when there is none
    stage,     \* the call each GET is about to make
    key,       \* what it asks for: an item or the Board
    copy,      \* the rows it has read
    total      \* the COUNT(*) it has read

redis   == <<entry, board>>
readers == <<stage, key, copy, total>>
worker  == <<signals, owed>>
cacheVars == <<revision, worker, redis, readers>>

Keys == Items \cup {Board}

\* Revisions by item; an item that is not in the list has revision 0.
Listing == [Items -> Nat]
Nothing == [i \in Items |-> 0]
NoList  == [rows |-> Nothing, total |-> -1]

Listed(rowsRead) == {i \in Items : rowsRead[i] > 0}

CacheInit ==
    /\ Init
    /\ revision = Nothing
    /\ signals = 0
    /\ owed = Nothing
    /\ entry = Nothing
    /\ board = NoList
    /\ stage = [q \in Readers |-> "idle"]
    /\ key = [q \in Readers |-> Board]
    /\ copy = [q \in Readers |-> Nothing]
    /\ total = [q \in Readers |-> 0]

-----------------------------------------------------------------------------
\* Mutation of InvalidateDashboardCache: the row as the open transaction sees it
\* is written to the cache, where the code deletes the key.
InvalidateWritingThrough(i) ==
    /\ entry' = [entry EXCEPT ![i] = revision[i] + 1]
    /\ board' = NoList

InvalidateDashboardCache(i) ==
    /\ entry' = [entry EXCEPT ![i] = 0]
    /\ board' = NoList

Revise(i) ==
    /\ revision[i] < MaxRevisions
    /\ revision' = [revision EXCEPT ![i] = @ + 1]

(***************************************************************************)
(* The handlers of WorkItemApi.  Their invalidation comes before their     *)
(* COMMIT; a rollback leaves the keys deleted.                             *)
(***************************************************************************)
ApiStep(r) ==
    /\ \/ Begin(r) \/ SelectItem(r) \/ CheckTransition(r) \/ WriteTransition(r)
       \/ CheckRca(r) \/ WriteRca(r) \/ UpdateMttr(r) \/ Abort(r)
    /\ UNCHANGED cacheVars

ApiInvalidate(r) ==
    /\ Invalidate(r)
    /\ InvalidateDashboardCache(item[r])
    /\ UNCHANGED <<revision, worker, readers>>

ApiCommit(r) ==
    /\ CommitTransition(r) \/ CommitRca(r)
    /\ Revise(item[r])
    /\ UNCHANGED <<worker, redis, readers>>

(***************************************************************************)
(* The signal worker: it commits a new item, or signal_count of an old one *)
(* once it gets the row, and then invalidates.  When that call raises or   *)
(* the process stops first, it never happens: the next attempt ends at the *)
(* duplicate document.                                                     *)
(***************************************************************************)
WorkerOpens(i) ==
    /\ OpenItem(i)
    /\ Revise(i)
    /\ owed' = [owed EXCEPT ![i] = @ + 1]
    /\ UNCHANGED <<signals, redis, readers>>

WorkerCounts(i) ==
    /\ status[i] # "NONE"
    /\ rowLock[i] = NoRequest
    /\ signals < MaxSignals
    /\ signals' = signals + 1
    /\ Revise(i)
    /\ owed' = [owed EXCEPT ![i] = @ + 1]
    /\ UNCHANGED <<redis, readers, vars>>

WorkerInvalidates(i) ==
    /\ owed[i] > 0
    /\ owed' = [owed EXCEPT ![i] = @ - 1]
    /\ \/ InvalidateDashboardCache(i)
       \/ UNCHANGED redis
    /\ UNCHANGED <<revision, signals, readers, vars>>

-----------------------------------------------------------------------------
\* A GET request arrives, for an item or for the default list.
BeginRead(q) ==
    /\ stage[q] = "idle"
    /\ \E k \in Keys : key' = [key EXCEPT ![q] = k]
    /\ stage' = [stage EXCEPT ![q] = "lookup"]
    /\ UNCHANGED <<revision, worker, redis, copy, total, vars>>

Answer(q) ==
    /\ stage' = [stage EXCEPT ![q] = "idle"]
    /\ key' = [key EXCEPT ![q] = Board]
    /\ copy' = [copy EXCEPT ![q] = Nothing]
    /\ total' = [total EXCEPT ![q] = 0]

Cached(k) == IF k = Board THEN board # NoList ELSE entry[k] > 0

\* redis.get: a hit is the answer.
Lookup(q) ==
    /\ stage[q] = "lookup"
    /\ \/ Cached(key[q]) /\ Answer(q)
       \/ /\ ~Cached(key[q])
          /\ stage' = [stage EXCEPT ![q] = "query"]
          /\ UNCHANGED <<key, copy, total>>
    /\ UNCHANGED <<revision, worker, redis, vars>>

\* The SELECT of one row; 404 when there is none.
GetWorkItem(q) ==
    /\ stage[q] = "query"
    /\ key[q] \in Items
    /\ \/ revision[key[q]] = 0 /\ Answer(q)
       \/ /\ revision[key[q]] > 0
          /\ copy' = [copy EXCEPT ![q][key[q]] = revision[key[q]]]
          /\ stage' = [stage EXCEPT ![q] = "setex"]
          /\ UNCHANGED <<key, total>>
    /\ UNCHANGED <<revision, worker, redis, vars>>

\* The SELECT of the rows.  Its limit of 50 is left out; the COUNT has none, so that
\* the total covers the items all the more.
ListWorkItems(q) ==
    /\ stage[q] = "query"
    /\ key[q] = Board
    /\ copy' = [copy EXCEPT ![q] = revision]
    /\ stage' = [stage EXCEPT ![q] = "count"]
    /\ UNCHANGED <<key, total>>
    /\ UNCHANGED <<revision, worker, redis, vars>>

\* Mutation of Counted: only active items are counted.
CountedActive == Cardinality({i \in Items : status[i] \in ActiveStatuses})

\* The SELECT COUNT(*), which is a query of its own.
Counted == Cardinality(Listed(revision))

CountWorkItems(q) ==
    /\ stage[q] = "count"
    /\ total' = [total EXCEPT ![q] = Counted]
    /\ stage' = [stage EXCEPT ![q] = "setex"]
    /\ UNCHANGED <<key, copy>>
    /\ UNCHANGED <<revision, worker, redis, vars>>

\* redis.setex, whatever was deleted or committed since the SELECT.
SetEx(q) ==
    /\ stage[q] = "setex"
    /\ \/ /\ key[q] = Board
          /\ board' = [rows |-> copy[q], total |-> total[q]]
          /\ UNCHANGED entry
       \/ /\ key[q] \in Items
          /\ entry' = [entry EXCEPT ![key[q]] = copy[q][key[q]]]
          /\ UNCHANGED board
    /\ Answer(q)
    /\ UNCHANGED <<revision, worker, vars>>

\* A call of the request raises, or the process stops.
AbortRead(q) ==
    /\ stage[q] # "idle"
    /\ Answer(q)
    /\ UNCHANGED <<revision, worker, redis, vars>>

\* Mutation of Expires: the keys are written without a time to live.
ExpiresNever(k) == FALSE

Expires(k) == Cached(k)

\* CACHE_TTL has passed.
Expire(k) ==
    /\ Expires(k)
    /\ IF k = Board THEN board' = NoList /\ UNCHANGED entry
                    ELSE entry' = [entry EXCEPT ![k] = 0] /\ UNCHANGED board
    /\ UNCHANGED <<revision, worker, readers, vars>>

ReadStep(q) ==
    Lookup(q) \/ GetWorkItem(q) \/ ListWorkItems(q) \/ CountWorkItems(q) \/ SetEx(q)

CacheNext ==
    \/ \E r \in Requests : ApiStep(r) \/ ApiInvalidate(r) \/ ApiCommit(r)
    \/ \E i \in Items : WorkerOpens(i) \/ WorkerCounts(i) \/ WorkerInvalidates(i)
    \/ \E q \in Readers : BeginRead(q) \/ ReadStep(q) \/ AbortRead(q)
    \/ \E k \in Keys : Expire(k)

CacheSpec == CacheInit /\ [][CacheNext]_<<vars, cacheVars>>

(***************************************************************************)
(* The calls of a GET are answered, and Redis removes what has outlived    *)
(* its time.  Nothing else is owed.                                        *)
(***************************************************************************)
CacheFairness ==
    /\ \A q \in Readers : WF_<<vars, cacheVars>>(ReadStep(q))
    /\ \A k \in Keys : WF_<<vars, cacheVars>>(Expire(k))

CacheFairSpec == CacheSpec /\ CacheFairness

-----------------------------------------------------------------------------
\* Types of the variables; a row has a revision exactly when it has a status.
CacheTypeOK ==
    /\ TypeOK
    /\ revision \in [Items -> 0..MaxRevisions]
    /\ \A i \in Items : revision[i] = 0 <=> status[i] = "NONE"
    /\ signals \in 0..MaxSignals
    /\ owed \in [Items -> 0..MaxRevisions]
    /\ entry \in [Items -> Nat]
    /\ board \in [rows : Listing, total : Int]
    /\ stage \in [Readers -> {"idle", "lookup", "query", "count", "setex"}]
    /\ key \in [Readers -> Keys]
    /\ copy \in [Readers -> Listing]
    /\ total \in [Readers -> Nat]

\* The cache shows nothing that was not committed: a response is never ahead of
\* the rows, although the API touches the cache inside its transactions and may
\* roll them back afterwards.
CacheShowsCommitted ==
    \A i \in Items : entry[i] <= revision[i] /\ board.rows[i] <= revision[i]

\* The total of a cached list covers its items, although the two come from two
\* queries with commits in between.
TotalCoversItems ==
    board # NoList => board.total >= Cardinality(Listed(board.rows))

\* Whatever stale responses commits leave behind, once no more commits follow
\* the cache is right for good.
CacheConverges ==
    \A i \in Items : <>[](/\ entry[i] \in {0, revision[i]}
                          /\ board = NoList \/ board.rows[i] = revision[i])

\* "Cache is invalidated whenever a work item is created, updated, or transitions
\* state": with nothing in progress the cached item is the committed one.
Quiet ==
    /\ \A r \in Requests : pc[r] = "idle"
    /\ \A q \in Readers : stage[q] = "idle"
    /\ \A i \in Items : owed[i] = 0

QuietCacheFresh == Quiet => \A i \in Items : entry[i] \in {0, revision[i]}
=============================================================================
