----------------------------- MODULE WorkItemApi -----------------------------
(***************************************************************************)
(* The two handlers that change an incident: PATCH transition of           *)
(* api/workitems.py and POST rca of api/rca.py, on the PostgreSQL tables   *)
(* they share.  Each request runs in a READ COMMITTED transaction of its   *)
(* own: a SELECT takes no lock and sees what is committed when it runs, a  *)
(* statement that writes a row waits for the transaction that wrote it     *)
(* last, an INSERT waits for one that inserted the same unique key, and    *)
(* nothing written is visible before the COMMIT, which get_db_session      *)
(* issues after the handler has returned.                                  *)
(*                                                                         *)
(* Every await of the handlers ends an action.  At any of them a request   *)
(* may end without effect: the database or Redis raises, or the process    *)
(* stops.                                                                  *)
(***************************************************************************)
EXTENDS Integers, WorkItemStates

CONSTANTS
    Requests,   \* requests that can be in progress at the same time
    Items,      \* work items
    NoRequest,  \* "not locked"
    NoItem      \* "no work item"

ASSUME RequestAssumption ==
    /\ NoRequest \notin Requests
    /\ NoItem \notin Items

VARIABLES
    \* Requests in progress.
    pc,          \* the statement each request is about to run
    item,        \* work_item_id of its path
    target,      \* body.status of a transition, "RCA" for a submission
    seen,        \* item.status as its first SELECT returned it
    \* Locks PostgreSQL holds for open transactions.
    rowLock,     \* work_items row
    rcaKey,      \* work_item_id key of an uncommitted rca_records row
    \* Committed rows.
    status,      \* work_items.status, "NONE" when there is no row
    resolvedAt,  \* items whose resolved_at is set
    closedAt,    \* items whose closed_at is set
    mttr,        \* what wrote mttr_seconds last: "none", "rca" or "close"
    rcaCount,    \* number of rca_records rows
    \* History.
    held         \* the statuses each item has held

calls == <<pc, item, target, seen>>
locks == <<rowLock, rcaKey>>
rows  == <<status, resolvedAt, closedAt, mttr, rcaCount, held>>
vars  == <<calls, locks, rows>>

Targets == Statuses \cup {"RCA"}

Stages == {"idle", "select", "check", "write", "invalidate", "update", "commit"}

Init ==
    /\ pc = [r \in Requests |-> "idle"]
    /\ item = [r \in Requests |-> NoItem]
    /\ target = [r \in Requests |-> "RCA"]
    /\ seen = [r \in Requests |-> "NONE"]
    /\ rowLock = [i \in Items |-> NoRequest]
    /\ rcaKey = [i \in Items |-> NoRequest]
    /\ status = [i \in Items |-> "NONE"]
    /\ resolvedAt = {}
    /\ closedAt = {}
    /\ mttr = [i \in Items |-> "none"]
    /\ rcaCount = [i \in Items |-> 0]
    /\ held = [i \in Items |-> {}]

-----------------------------------------------------------------------------
\* Mutation of Release: a row lock outlives the transaction.
ReleaseKeyOnly(r) ==
    /\ rcaKey' = [i \in Items |-> IF rcaKey[i] = r THEN NoRequest ELSE rcaKey[i]]
    /\ UNCHANGED rowLock

\* The end of a transaction, by COMMIT or by rollback.
Release(r) ==
    /\ rowLock' = [i \in Items |-> IF rowLock[i] = r THEN NoRequest ELSE rowLock[i]]
    /\ rcaKey' = [i \in Items |-> IF rcaKey[i] = r THEN NoRequest ELSE rcaKey[i]]

\* The request is answered and its session closed.
Finish(r) ==
    /\ pc' = [pc EXCEPT ![r] = "idle"]
    /\ item' = [item EXCEPT ![r] = NoItem]
    /\ target' = [target EXCEPT ![r] = "RCA"]
    /\ seen' = [seen EXCEPT ![r] = "NONE"]
    /\ Release(r)

\* An error status: get_db_session rolls back.
Reject(r) == Finish(r) /\ UNCHANGED rows

Goto(r, stage) ==
    /\ pc' = [pc EXCEPT ![r] = stage]
    /\ UNCHANGED <<item, target>>

\* A request arrives.
Begin(r) ==
    /\ pc[r] = "idle"
    /\ \E i \in Items : item' = [item EXCEPT ![r] = i]
    /\ \E t \in Targets : target' = [target EXCEPT ![r] = t]
    /\ pc' = [pc EXCEPT ![r] = "select"]
    /\ UNCHANGED <<seen, locks, rows>>

\* Mutation of Exists: a missing row is not noticed.
ExistsAlways(i) == TRUE

Exists(i) == status[i] # "NONE"

\* SELECT the work item; 404 when there is none.
SelectItem(r) ==
    /\ pc[r] = "select"
    /\ \/ /\ ~Exists(item[r])
          /\ Reject(r)
       \/ /\ Exists(item[r])
          /\ seen' = [seen EXCEPT ![r] = status[item[r]]]
          /\ Goto(r, "check")
          /\ UNCHANGED <<locks, rows>>

\* Mutation of MayClose: the guard on the RCA is gone.
MayCloseAlways(r) == TRUE

\* Guard: cannot CLOSE without RCA.  item.rca is loaded by a SELECT of its own
\* (lazy="selectin"), after the one that read the status.
MayClose(r) == target[r] = "CLOSED" => rcaCount[item[r]] > 0

\* validate_transition.
Legal(r) == target[r] # "RCA" /\ ValidTransition(seen[r], target[r])

\* 400 for an illegal transition, 422 for a close without RCA.
CheckTransition(r) ==
    /\ pc[r] = "check"
    /\ target[r] # "RCA"
    /\ \/ /\ Legal(r) /\ MayClose(r)
          /\ Goto(r, "write")
          /\ UNCHANGED <<seen, locks, rows>>
       \/ /\ ~(Legal(r) /\ MayClose(r))
          /\ Reject(r)

\* flush: UPDATE ... WHERE id waits for the row and then writes it, whatever
\* has become of the status that was checked.
WriteTransition(r) ==
    /\ pc[r] = "write"
    /\ target[r] # "RCA"
    /\ rowLock[item[r]] = NoRequest
    /\ rowLock' = [rowLock EXCEPT ![item[r]] = r]
    /\ Goto(r, "invalidate")
    /\ UNCHANGED <<seen, rcaKey, rows>>

\* Mutation of Submittable: the status guard is gone.
SubmittableAnywhere(r) == rcaCount[item[r]] = 0

\* No RCA yet, and the item is being worked on.
Submittable(r) ==
    /\ rcaCount[item[r]] = 0
    /\ seen[r] \in {"INVESTIGATING", "RESOLVED"}

\* 409 for an existing RCA, 422 for an unsuitable status.
CheckRca(r) ==
    /\ pc[r] = "check"
    /\ target[r] = "RCA"
    /\ \/ /\ Submittable(r)
          /\ Goto(r, "write")
          /\ UNCHANGED <<seen, locks, rows>>
       \/ /\ ~Submittable(r)
          /\ Reject(r)

\* Mutation of KeyIsFree: no UNIQUE constraint on rca_records.work_item_id.
KeyUnchecked(i) == TRUE

\* unique=True on rca_records.work_item_id.
KeyIsFree(i) == rcaCount[i] = 0

\* flush: INSERT INTO rca_records.  It waits while another open transaction
\* has inserted the key, and raises IntegrityError once that has committed.
WriteRca(r) ==
    /\ pc[r] = "write"
    /\ target[r] = "RCA"
    /\ rcaKey[item[r]] = NoRequest
    /\ \/ /\ KeyIsFree(item[r])
          /\ rcaKey' = [rcaKey EXCEPT ![item[r]] = r]
          /\ Goto(r, "invalidate")
          /\ UNCHANGED <<seen, rowLock, rows>>
       \/ /\ ~KeyIsFree(item[r])
          /\ Reject(r)

\* The refresh and invalidate_dashboard_cache; a submission has its change of
\* mttr_seconds still to flush.
Invalidate(r) ==
    /\ pc[r] = "invalidate"
    /\ Goto(r, IF target[r] = "RCA" THEN "update" ELSE "commit")
    /\ UNCHANGED <<seen, locks, rows>>

\* commit flushes the UPDATE of mttr_seconds, which waits for the row.
UpdateMttr(r) ==
    /\ pc[r] = "update"
    /\ rowLock[item[r]] = NoRequest
    /\ rowLock' = [rowLock EXCEPT ![item[r]] = r]
    /\ Goto(r, "commit")
    /\ UNCHANGED <<seen, rcaKey, rows>>

\* Mutation of Stamp: closing keeps the MTTR of the RCA.
StampResolvedOnly(i, to) ==
    /\ resolvedAt' = IF to = "RESOLVED" THEN resolvedAt \cup {i} ELSE resolvedAt
    /\ closedAt' = IF to = "CLOSED" THEN closedAt \cup {i} ELSE closedAt
    /\ UNCHANGED mttr

\* resolved_at; closed_at and mttr_seconds.
Stamp(i, to) ==
    /\ resolvedAt' = IF to = "RESOLVED" THEN resolvedAt \cup {i} ELSE resolvedAt
    /\ closedAt' = IF to = "CLOSED" THEN closedAt \cup {i} ELSE closedAt
    /\ mttr' = IF to = "CLOSED" THEN [mttr EXCEPT ![i] = "close"] ELSE mttr

CommitTransition(r) ==
    /\ pc[r] = "commit"
    /\ target[r] # "RCA"
    /\ status' = [status EXCEPT ![item[r]] = target[r]]
    /\ held' = [held EXCEPT ![item[r]] = @ \cup {target[r]}]
    /\ Stamp(item[r], target[r])
    /\ UNCHANGED rcaCount
    /\ Finish(r)

CommitRca(r) ==
    /\ pc[r] = "commit"
    /\ target[r] = "RCA"
    /\ rcaCount' = [rcaCount EXCEPT ![item[r]] = @ + 1]
    /\ mttr' = [mttr EXCEPT ![item[r]] = "rca"]
    /\ UNCHANGED <<status, held, resolvedAt, closedAt>>
    /\ Finish(r)

-----------------------------------------------------------------------------
\* The request ends in an exception or with the process, and PostgreSQL rolls
\* its transaction back.
Abort(r) ==
    /\ pc[r] # "idle"
    /\ Reject(r)

\* The signal worker inserts the work item.
OpenItem(i) ==
    /\ status[i] = "NONE"
    /\ status' = [status EXCEPT ![i] = "OPEN"]
    /\ held' = [held EXCEPT ![i] = {"OPEN"}]
    /\ UNCHANGED <<calls, locks, resolvedAt, closedAt, mttr, rcaCount>>

Handle(r) ==
    \/ SelectItem(r)
    \/ CheckTransition(r)
    \/ WriteTransition(r)
    \/ CheckRca(r)
    \/ WriteRca(r)
    \/ Invalidate(r)
    \/ UpdateMttr(r)
    \/ CommitTransition(r)
    \/ CommitRca(r)

Next ==
    \/ \E r \in Requests : Begin(r) \/ Handle(r) \/ Abort(r)
    \/ \E i \in Items : OpenItem(i)

Spec == Init /\ [][Next]_vars

-----------------------------------------------------------------------------
\* Types of the variables; a request past its first SELECT has a status to work
\* with.
TypeOK ==
    /\ pc \in [Requests -> Stages]
    /\ item \in [Requests -> Items \cup {NoItem}]
    /\ target \in [Requests -> Targets]
    /\ seen \in [Requests -> Statuses \cup {"NONE"}]
    /\ \A r \in Requests : pc[r] \notin {"idle", "select"} => seen[r] \in Statuses
    /\ rowLock \in [Items -> Requests \cup {NoRequest}]
    /\ rcaKey \in [Items -> Requests \cup {NoRequest}]
    /\ status \in [Items -> Statuses \cup {"NONE"}]
    /\ resolvedAt \in SUBSET Items
    /\ closedAt \in SUBSET Items
    /\ mttr \in [Items -> {"none", "rca", "close"}]
    /\ rcaCount \in [Items -> Nat]
    /\ held \in [Items -> SUBSET Statuses]

\* An item is CLOSED only with an RCA, although the guard reads the RCA in
\* another snapshot than the status and long before the COMMIT.
ClosedHasRca == \A i \in Items : status[i] = "CLOSED" => rcaCount[i] > 0

\* Submissions that overlap leave one RCA per item.
OneRcaPerItem == \A i \in Items : rcaCount[i] <= 1

\* A CLOSED item has all its stamps, and its MTTR is that of the close: no
\* submission that was in progress overwrites it.
ClosedRecordComplete ==
    \A i \in Items : status[i] = "CLOSED" =>
        i \in resolvedAt /\ i \in closedAt /\ mttr[i] = "close"

\* Once an item has been closed, it keeps its RCA, gets no further one, and its
\* MTTR stays one that a close computed: no later commit of any request that
\* read the item earlier changes that, not even when it moves the item on.
ClosedFiguresFrozen ==
    [][\A i \in closedAt : rcaCount'[i] = rcaCount[i] /\ mttr'[i] = mttr[i]]_vars

\* Every request is answered: no wait for a row or a key lasts forever.
RequestAnswered == \A r \in Requests : pc[r] # "idle" ~> pc[r] = "idle"

\* The committed rows behave as the records of IncidentRecord.
Record == INSTANCE IncidentRecord WITH
    state <- status, past <- held, analysed <- {i \in Items : rcaCount[i] > 0},
    repair <- mttr

ImplementsRecord == Record!Spec

\* CLOSED is terminal.
ClosedIsTerminal ==
    [][\A i \in Items : status[i] = "CLOSED" => status'[i] = "CLOSED"]_vars
=============================================================================
