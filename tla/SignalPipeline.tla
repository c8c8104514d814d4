--------------------------- MODULE SignalPipeline ---------------------------
(***************************************************************************)
(* The path of a signal through the backend: the ingestion handlers put it *)
(* on the in-memory queue, run_worker turns every queued signal into a     *)
(* task, at most Concurrency tasks hold the semaphore, and each of them    *)
(* takes its signal through the five steps of _process_one: MongoDB        *)
(* insert, debounce record, PostgreSQL transaction, MongoDB link, Redis    *)
(* invalidation.  Every await of _process_one is the end of an action, so  *)
(* the tasks interleave here exactly where asyncio may switch.             *)
(*                                                                         *)
(* A backend call may fail with or without having taken effect (a lost     *)
(* answer), the process may stop and restart, and operators move work      *)
(* items through their statuses meanwhile.                                 *)
(*                                                                         *)
(* A work item is named by the signal whose processing inserted it.        *)
(***************************************************************************)
EXTENDS Integers, Sequences, FiniteSets, WorkItemStates

CONSTANTS
    Signals,            \* the signals clients send, one per request
    Components,         \* the component ids they carry
    ComponentOf,        \* component_id of each signal
    NoItem,             \* "no work item" (None)
    QueueMax,           \* settings.queue_max_size
    Concurrency,        \* run_worker(concurrency=...)
    MaxRetries,         \* max_retries of _process_one
    MaxFaults,          \* bound: failed backend calls in a behavior
    MaxCrashes,         \* bound: process stops in a behavior
    MaxTransitions      \* bound: operator status changes in a behavior

ASSUME SignalAssumption ==
    /\ IsFiniteSet(Signals)
    /\ NoItem \notin Signals
    /\ ComponentOf \in [Signals -> Components]

ASSUME SettingsAssumption ==
    /\ QueueMax \in Nat \ {0}
    /\ Concurrency \in Nat \ {0}
    /\ MaxRetries \in Nat \ {0}

ASSUME BoundAssumption ==
    /\ MaxFaults \in Nat
    /\ MaxCrashes \in Nat
    /\ MaxTransitions \in Nat

VARIABLES
    \* The backend process; lost when it stops.
    pc,           \* where each signal is
    queue,        \* _signal_queue
    waiters,      \* tasks blocked on the semaphore, in FIFO order
    permits,      \* free permits of the semaphore
    attempt,      \* loop variable of _process_one
    found,        \* item the SELECT returned, for the transaction in progress
    recorded,     \* calls of DebounceWindow.record, per component
    processed,    \* _processed_count
    \* The databases; they survive.
    stored,       \* signals that have a MongoDB document
    linked,       \* work_item_id of that document
    status,       \* work_items.status, "NONE" when there is no row
    resolved,     \* items with a resolved_at
    signalCount,  \* work_items.signal_count
    createdAt,    \* work_items.created_at, as a rank
    now,          \* the rank the next inserting transaction gets
    \* History and bounds.
    credited,     \* the item whose signal_count a committed transaction raised
    alerts,       \* calls of AlertStrategy.notify, per component
    faults, crashes, transitions

memory == <<pc, queue, waiters, permits, attempt, found, recorded, processed>>
mongo  == <<stored, linked>>
rows   == <<status, resolved, signalCount, createdAt, now>>
audit  == <<credited, alerts>>
bounds == <<faults, crashes, transitions>>
vars   == <<memory, mongo, rows, audit, bounds>>

-----------------------------------------------------------------------------
\* Stages that hold a semaphore permit.  The sleep between two attempts is
\* inside "async with semaphore", so "backoff" is one of them.
RunningStages == {"store", "select", "commit", "link", "invalidate", "backoff"}

\* Stages of an accepted signal that exists in memory only.
BufferedStages == {"queued", "waiting"}

Stages == {"new", "limited", "dropped", "done", "discarded", "lost"}
              \cup BufferedStages \cup RunningStages

Running  == {s \in Signals : pc[s] \in RunningStages}
Buffered == {s \in Signals : pc[s] \in BufferedStages}

Items == Signals
ItemsOf(c)  == {i \in Items : ComponentOf[i] = c /\ status[i] # "NONE"}
ActiveOf(c) == {i \in ItemsOf(c) : status[i] \in ActiveStatuses}

Init ==
    /\ pc = [s \in Signals |-> "new"]
    /\ queue = <<>>
    /\ waiters = <<>>
    /\ permits = Concurrency
    /\ attempt = [s \in Signals |-> 0]
    /\ found = [s \in Signals |-> NoItem]
    /\ recorded = [c \in Components |-> 0]
    /\ processed = 0
    /\ stored = {}
    /\ linked = [s \in Signals |-> NoItem]
    /\ status = [i \in Items |-> "NONE"]
    /\ resolved = {}
    /\ signalCount = [i \in Items |-> 0]
    /\ createdAt = [i \in Items |-> 0]
    /\ now = 1
    /\ credited = [s \in Signals |-> NoItem]
    /\ alerts = [c \in Components |-> 0]
    /\ faults = 0
    /\ crashes = 0
    /\ transitions = 0

-----------------------------------------------------------------------------
\* Mutation of Enqueue: the capacity test is off by one.
EnqueueOffByOne(s) ==
    \/ /\ Len(queue) <= QueueMax
       /\ queue' = Append(queue, s)
       /\ pc' = [pc EXCEPT ![s] = "queued"]
    \/ /\ Len(queue) > QueueMax
       /\ pc' = [pc EXCEPT ![s] = "dropped"]
       /\ UNCHANGED queue

(***************************************************************************)
(* Ingestion.  One step per payload: the limiter refuses it (429), the     *)
(* queue takes it (202), or the queue is full and it is dropped.  Neither  *)
(* consume nor put_nowait suspends, so the step is atomic.                 *)
(***************************************************************************)
Enqueue(s) ==
    \/ /\ Len(queue) < QueueMax
       /\ queue' = Append(queue, s)
       /\ pc' = [pc EXCEPT ![s] = "queued"]
    \/ /\ Len(queue) >= QueueMax
       /\ pc' = [pc EXCEPT ![s] = "dropped"]
       /\ UNCHANGED queue

Ingest(s) ==
    /\ pc[s] = "new"
    /\ \/ /\ pc' = [pc EXCEPT ![s] = "limited"]
          /\ UNCHANGED queue
       \/ Enqueue(s)
    /\ UNCHANGED <<waiters, permits, attempt, found, recorded, processed>>
    /\ UNCHANGED <<mongo, rows, audit, bounds>>

(***************************************************************************)
(* run_worker.  queue.get() suspends only on an empty queue, so once awake *)
(* the loop turns everything that is queued into tasks before any of them  *)
(* runs.  The tasks line up at the semaphore in that order.                *)
(***************************************************************************)
RunWorker ==
    /\ queue # <<>>
    /\ queue' = <<>>
    /\ waiters' = waiters \o queue
    /\ pc' = [s \in Signals |-> IF pc[s] = "queued" THEN "waiting" ELSE pc[s]]
    /\ UNCHANGED <<permits, attempt, found, recorded, processed>>
    /\ UNCHANGED <<mongo, rows, audit, bounds>>

\* bounded_process enters the semaphore.
Acquire(s) ==
    /\ waiters # <<>>
    /\ s = Head(waiters)
    /\ pc[s] = "waiting"
    /\ permits > 0
    /\ waiters' = Tail(waiters)
    /\ permits' = permits - 1
    /\ pc' = [pc EXCEPT ![s] = "store"]
    /\ attempt' = [attempt EXCEPT ![s] = 0]
    /\ UNCHANGED <<queue, found, recorded, processed>>
    /\ UNCHANGED <<mongo, rows, audit, bounds>>

\* Mutation of Leave: a discarded signal keeps its permit.
LeaveLeaking(s, outcome) ==
    /\ pc' = [pc EXCEPT ![s] = outcome]
    /\ permits' = IF outcome = "done" THEN permits + 1 ELSE permits

\* bounded_process leaves the semaphore, whichever way _process_one ended.
Leave(s, outcome) ==
    /\ pc' = [pc EXCEPT ![s] = outcome]
    /\ permits' = permits + 1

-----------------------------------------------------------------------------
(***************************************************************************)
(* The except clause of _process_one: back off while attempts are left,    *)
(* log and give the signal up after the last one.                          *)
(***************************************************************************)
Raise(s) ==
    \/ /\ attempt[s] < MaxRetries - 1
       /\ pc' = [pc EXCEPT ![s] = "backoff"]
       /\ UNCHANGED permits
    \/ /\ attempt[s] >= MaxRetries - 1
       /\ Leave(s, "discarded")

\* A backend call fails.
Fault ==
    /\ faults < MaxFaults
    /\ faults' = faults + 1
    /\ UNCHANGED <<crashes, transitions>>

\* The sleep ends and the loop starts its next attempt.
Retry(s) ==
    /\ pc[s] = "backoff"
    /\ pc' = [pc EXCEPT ![s] = "store"]
    /\ attempt' = [attempt EXCEPT ![s] = @ + 1]
    /\ UNCHANGED <<queue, waiters, permits, found, recorded, processed>>
    /\ UNCHANGED <<mongo, rows, audit, bounds>>

\* Mutation of InsertOne: every attempt inserts a fresh copy of the document.
InsertOneFresh(s) == stored' = stored \cup {s}

\* Mutation of InsertOne: the insert is acknowledged before it is durable.
InsertOneUnacknowledged(s) ==
    /\ s \notin stored
    /\ stored' \in {stored, stored \cup {s}}

(***************************************************************************)
(* Step 1.  insert_one gives the document an _id by storing it in the very *)
(* dict it is passed, so every attempt inserts under the same _id and the  *)
(* insert of a document that is already there raises DuplicateKeyError.    *)
(* Step 2, the debounce record, runs before the task suspends again.       *)
(***************************************************************************)
InsertOne(s) ==
    /\ s \notin stored
    /\ stored' = stored \cup {s}

StoreRawSignal(s) ==
    /\ pc[s] = "store"
    /\ \/ /\ InsertOne(s)
          /\ recorded' = [recorded EXCEPT ![ComponentOf[s]] = @ + 1]
          /\ pc' = [pc EXCEPT ![s] = "select"]
          /\ UNCHANGED <<permits, bounds>>
       \/ /\ s \in stored
          /\ Raise(s)
          /\ UNCHANGED <<stored, recorded, bounds>>
       \/ /\ Fault
          /\ stored' \in {stored, stored \cup {s}}
          /\ Raise(s)
          /\ UNCHANGED recorded
    /\ UNCHANGED <<queue, waiters, attempt, found, processed>>
    /\ UNCHANGED <<linked, rows, audit>>

(***************************************************************************)
(* Step 3, first half: begin, SELECT the newest active item of the         *)
(* component, and decide.  When there is none the alert goes out at once,  *)
(* before the row is inserted; created_at defaults to now(), which is the  *)
(* start of this transaction.                                              *)
(***************************************************************************)
\* Mutation of NewestActive: the status filter forgets OPEN.
NewestInvestigating(c) == {i \in ActiveOf(c) : status[i] = "INVESTIGATING"}

NewestActive(c) ==
    {i \in ActiveOf(c) : \A j \in ActiveOf(c) : createdAt[j] <= createdAt[i]}

\* Mutation of Notify: a component that has alerted once stays silent.
NotifyOnce(c) == alerts' = [alerts EXCEPT ![c] = 1]

\* strategy.notify.
Notify(c) == alerts' = [alerts EXCEPT ![c] = @ + 1]

FindWorkItem(s) ==
    LET c == ComponentOf[s] IN
    /\ pc[s] = "select"
    /\ \/ /\ \E i \in NewestActive(c) : found' = [found EXCEPT ![s] = i]
          /\ pc' = [pc EXCEPT ![s] = "commit"]
          /\ UNCHANGED <<permits, createdAt, now, alerts, bounds>>
       \/ /\ NewestActive(c) = {}
          /\ found' = [found EXCEPT ![s] = NoItem]
          /\ Notify(c)
          /\ createdAt' = [createdAt EXCEPT ![s] = now]
          /\ now' = now + 1
          /\ pc' = [pc EXCEPT ![s] = "commit"]
          /\ UNCHANGED <<permits, bounds>>
       \/ /\ Fault
          /\ Raise(s)
          /\ UNCHANGED <<found, createdAt, now, alerts>>
    /\ UNCHANGED <<queue, waiters, attempt, recorded, processed>>
    /\ UNCHANGED <<mongo, status, resolved, signalCount, credited>>

(***************************************************************************)
(* Step 3, second half: the UPDATE or INSERT and the COMMIT.  The UPDATE   *)
(* names the item by id alone and adds to the committed signal_count under *)
(* the row lock; nothing it wrote is visible before the COMMIT, so the two *)
(* statements are one action.                                              *)
(***************************************************************************)
WorkItemId(s) == IF found[s] = NoItem THEN s ELSE found[s]

IncrementCount(s) ==
    /\ signalCount' = [signalCount EXCEPT ![found[s]] = @ + 1]
    /\ UNCHANGED status

InsertItem(s) ==
    /\ status' = [status EXCEPT ![s] = "OPEN"]
    /\ signalCount' = [signalCount EXCEPT ![s] = 1]

WriteItem(s) ==
    /\ \/ found[s] # NoItem /\ IncrementCount(s)
       \/ found[s] = NoItem /\ InsertItem(s)
    /\ credited' = [credited EXCEPT ![s] = WorkItemId(s)]

FindOrCreateWorkItem(s) ==
    /\ pc[s] = "commit"
    /\ \/ /\ WriteItem(s)
          /\ pc' = [pc EXCEPT ![s] = "link"]
          /\ UNCHANGED <<permits, bounds>>
       \/ /\ Fault                        \* rolled back
          /\ Raise(s)
          /\ UNCHANGED <<status, signalCount, credited>>
       \/ /\ Fault                        \* committed, but the answer is lost
          /\ WriteItem(s)
          /\ Raise(s)
    /\ UNCHANGED <<queue, waiters, attempt, found, recorded, processed>>
    /\ UNCHANGED <<mongo, resolved, createdAt, now, alerts>>

\* Step 4.  A failure is logged and swallowed.
LinkSignal(s) ==
    /\ pc[s] = "link"
    /\ pc' = [pc EXCEPT ![s] = "invalidate"]
    /\ \/ /\ linked' = [linked EXCEPT ![s] = WorkItemId(s)]
          /\ UNCHANGED bounds
       \/ /\ Fault
          /\ linked' \in {linked, [linked EXCEPT ![s] = WorkItemId(s)]}
    /\ UNCHANGED <<queue, waiters, permits, attempt, found, recorded, processed>>
    /\ UNCHANGED <<stored, rows, audit>>

\* Step 5.  A failure raises although the transaction is committed.
InvalidateCache(s) ==
    /\ pc[s] = "invalidate"
    /\ \/ /\ processed' = processed + 1
          /\ Leave(s, "done")
          /\ UNCHANGED bounds
       \/ /\ Fault
          /\ Raise(s)
          /\ UNCHANGED processed
    /\ UNCHANGED <<queue, waiters, attempt, found, recorded>>
    /\ UNCHANGED <<mongo, rows, audit>>

-----------------------------------------------------------------------------
\* The process stops (crash, or shutdown without draining the queue) and
\* starts again: queue, tasks, semaphore, debounce buckets and counters are
\* new, the databases are as they were.
Restart ==
    /\ crashes < MaxCrashes
    /\ crashes' = crashes + 1
    /\ pc' = [s \in Signals |-> IF s \in Running \cup Buffered THEN "lost" ELSE pc[s]]
    /\ queue' = <<>>
    /\ waiters' = <<>>
    /\ permits' = Concurrency
    /\ recorded' = [c \in Components |-> 0]
    /\ processed' = 0
    /\ UNCHANGED <<attempt, found, faults, transitions>>
    /\ UNCHANGED <<mongo, rows, audit>>

\* transition_work_item commits a status change.
TransitionWorkItem(i) ==
    /\ transitions < MaxTransitions
    /\ transitions' = transitions + 1
    /\ status[i] # "NONE"
    /\ \E target \in Statuses :
           /\ ValidTransition(status[i], target)
           /\ status' = [status EXCEPT ![i] = target]
           /\ resolved' = IF target = "RESOLVED" THEN resolved \cup {i} ELSE resolved
    /\ UNCHANGED <<signalCount, createdAt, now, faults, crashes>>
    /\ UNCHANGED <<memory, mongo, audit>>

\* No signal is left to send or to process.
Quiescent ==
    /\ Running \cup Buffered = {}
    /\ \A s \in Signals : pc[s] # "new"
    /\ UNCHANGED vars

Process(s) ==
    \/ Acquire(s)
    \/ StoreRawSignal(s)
    \/ FindWorkItem(s)
    \/ FindOrCreateWorkItem(s)
    \/ LinkSignal(s)
    \/ InvalidateCache(s)
    \/ Retry(s)

Next ==
    \/ \E s \in Signals : Ingest(s) \/ Process(s)
    \/ RunWorker
    \/ Restart
    \/ \E i \in Items : TransitionWorkItem(i)
    \/ Quiescent

Spec == Init /\ [][Next]_vars

(***************************************************************************)
(* The event loop resumes every ready task, and every backend call answers *)
(* or raises: run_worker and each task keep taking steps.  Clients,        *)
(* operators, faults and restarts owe nothing.                             *)
(***************************************************************************)
Fairness == WF_vars(RunWorker) /\ \A s \in Signals : WF_vars(Process(s))

FairSpec == Spec /\ Fairness

-----------------------------------------------------------------------------
\* Types of the variables; the queue never exceeds its capacity and the
\* semaphore never its permits.
TypeOK ==
    /\ pc \in [Signals -> Stages]
    /\ queue \in Seq(Signals) /\ Len(queue) <= QueueMax
    /\ waiters \in Seq(Signals)
    /\ permits \in 0..Concurrency
    /\ attempt \in [Signals -> Nat]
    /\ found \in [Signals -> Items \cup {NoItem}]
    /\ recorded \in [Components -> Nat]
    /\ processed \in Nat
    /\ stored \in SUBSET Signals
    /\ linked \in [Signals -> Items \cup {NoItem}]
    /\ status \in [Items -> Statuses \cup {"NONE"}]
    /\ resolved \in SUBSET Items
    /\ signalCount \in [Items -> Nat]
    /\ createdAt \in [Items -> Nat]
    /\ now \in Nat
    /\ credited \in [Signals -> Items \cup {NoItem}]
    /\ alerts \in [Components -> Nat]
    /\ faults \in 0..MaxFaults
    /\ crashes \in 0..MaxCrashes
    /\ transitions \in 0..MaxTransitions

\* PostgreSQL never counts a signal that the MongoDB audit log lacks, through
\* failed inserts, lost answers, retries and restarts (_process_one inserts
\* before it opens the transaction).
AuditBeforeCount == \A s \in Signals : credited[s] # NoItem => s \in stored

\* signal_count of an item is the number of distinct signals credited to it:
\* retries after a lost commit answer or a failed invalidation count nothing
\* twice, concurrent increments lose nothing.
CreditedTo(i) == {s \in Signals : credited[s] = i}

CountMatchesCredits ==
    \A i \in Items : signalCount[i] = Cardinality(CreditedTo(i))

\* A document never points to an item other than the one that counted its
\* signal, although the item is read, written and linked in separate steps.
LinkMatchesCredit ==
    \A s \in Signals : linked[s] # NoItem => linked[s] = credited[s]

\* No path through _process_one (return, last failure, retry, restart) loses
\* or forges a permit of the semaphore.
PermitsAccounted == permits + Cardinality(Running) = Concurrency

\* There is no work item nobody was alerted of: each insert was preceded by
\* its own notify, whatever failed in between.
AlertBeforeItem ==
    \A c \in Components : Cardinality(ItemsOf(c)) <= alerts[c]

\* The incidents of a component that were never resolved are no more than the slots of
\* the worker, however many signals arrive and calls fail.  Two tasks that both find no
\* active item both insert one, but each had its transaction open when the other's
\* SELECT ran: once one has committed, no SELECT misses it until it is resolved, taken
\* back to OPEN or not.
Unresolved(c) == ItemsOf(c) \ resolved

UnresolvedWithinSlots ==
    \A c \in Components : Cardinality(Unresolved(c)) <= Concurrency

\* A signal the queue took ends done, counted and linked -- or a backend
\* failed, or the process stopped.  Nothing waits forever.
AcceptedSignalLands ==
    \A s \in Signals :
        pc[s] = "queued" ~>
            \/ pc[s] = "done" /\ credited[s] # NoItem /\ linked[s] = credited[s]
            \/ pc[s] \in {"done", "discarded"} /\ faults > 0
            \/ pc[s] = "lost" /\ crashes > 0

\* The databases behave as the ledger of SignalLedger: logged once, counted at
\* most once and after that, linked to what counted it, nothing taken back.
Ledger == INSTANCE SignalLedger WITH
    log <- stored, credit <- credited, tally <- signalCount, link <- linked

ImplementsLedger == Ledger!Spec

\* A burst of signals for one component opens one work item.
OneItemPerBurst == \A c \in Components : Cardinality(ItemsOf(c)) <= 1

-----------------------------------------------------------------------------
(***************************************************************************)
(* What the comments and the README say and the code does not keep.        *)
(***************************************************************************)

\* "3 retries": a signal is discarded only after three failed calls.
DiscardNeedsThreeFaults ==
    \A s \in Signals : pc[s] = "discarded" => faults >= MaxRetries

\* Backpressure: the signals that wait for a slot fit the bounded queue.
BufferBounded == Cardinality(Buffered) <= QueueMax
=============================================================================
