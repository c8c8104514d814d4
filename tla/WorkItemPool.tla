----------------------------- MODULE WorkItemPool -----------------------------
(***************************************************************************)
(* The handlers of WorkItemApi with the connection pool of                 *)
(* db/connections.py and its other users: the transactions of the signal   *)
(* worker, which write the same rows, and GET /health.                     *)
(*                                                                         *)
(* A session checks a connection out for its first statement and gives it  *)
(* back when it is closed.  While none is left the statement waits; a wait *)
(* of 30 s raises, which is one of the ways in which a request or an       *)
(* attempt of the worker may end without effect.                           *)
(***************************************************************************)
EXTENDS WorkItemApi, FiniteSets

CONSTANTS
    Workers,   \* slots of the signal worker
    Health,    \* the health check
    PoolSize   \* pool_size + max_overflow

Users == Requests \cup Workers \cup {Health}

ASSUME PoolAssumption ==
    /\ PoolSize \in Nat \ {0}
    /\ IsFiniteSet(Users)
    /\ Requests \cap Workers = {}
    /\ Health \notin Requests \cup Workers
    /\ NoRequest \notin Users

VARIABLES
    conns,    \* users with a connection
    task,     \* the statement each worker slot is about to run
    job,      \* the item it writes, NoItem for one that is not modelled
    rowTask,  \* the worker slot whose open transaction has written a row
    probe     \* what GET /health is about to do

poolVars == <<conns, task, job, rowTask, probe>>

TaskStages == {"idle", "select", "update", "commit"}
Probes     == {"idle", "connect", "postgres"}

PoolInit ==
    /\ Init
    /\ conns = {}
    /\ task = [w \in Workers |-> "idle"]
    /\ job = [w \in Workers |-> NoItem]
    /\ rowTask = [i \in Items |-> NoRequest]
    /\ probe = "idle"

-----------------------------------------------------------------------------
Full == Cardinality(conns) >= PoolSize

\* Mutation of Over: a request that is rejected keeps its connection.
OverAfterCommit(r) == pc[r] = "commit" /\ pc'[r] = "idle"

\* The request is answered, which closes its session.
Over(r) == pc'[r] = "idle"

\* The first statement gets a connection, the end of the session gives it back.
Connect(u)    == conns' = conns \cup {u}
Disconnect(u) == conns' = conns \ {u}

\* The next statement of the request writes the row.
WritesRow(r) ==
    pc[r] = "update" \/ (pc[r] = "write" /\ target[r] # "RCA")

\* A step of a handler: its first statement waits for a connection, and one that
\* writes a row waits for the worker as well.
HandleConnected(r) ==
    /\ pc[r] = "select" => ~Full
    /\ WritesRow(r) => rowTask[item[r]] = NoRequest
    /\ Handle(r)
    /\ IF Over(r) THEN Disconnect(r) ELSE Connect(r)
    /\ UNCHANGED <<task, job, rowTask, probe>>

AbortRequest(r) ==
    /\ Abort(r)
    /\ Disconnect(r)
    /\ UNCHANGED <<task, job, rowTask, probe>>

BeginRequest(r) == Begin(r) /\ UNCHANGED poolVars

-----------------------------------------------------------------------------
\* An attempt of the worker gets to its transaction.
BeginAttempt(w) ==
    /\ task[w] = "idle"
    /\ task' = [task EXCEPT ![w] = "select"]
    /\ UNCHANGED <<vars, conns, job, rowTask, probe>>

Active(i) == status[i] \in ActiveStatuses

\* Rows that no task is about to insert.
Unused == {i \in Items : ~Exists(i)} \ {job[w] : w \in Workers}

\* The SELECT of find_or_create_work_item and, when it finds no active item, the
\* INSERT, which nobody sees before the COMMIT.
FindItem(w) ==
    /\ task[w] = "select"
    /\ ~Full
    /\ Connect(w)
    /\ \/ \E i \in Items :
              /\ Active(i)
              /\ job' = [job EXCEPT ![w] = i]
              /\ task' = [task EXCEPT ![w] = "update"]
       \/ /\ ~\E i \in Items : Active(i)
          /\ \/ \E i \in Unused : job' = [job EXCEPT ![w] = i]
             \/ Unused = {} /\ UNCHANGED job
          /\ task' = [task EXCEPT ![w] = "commit"]
    /\ UNCHANGED <<vars, rowTask, probe>>

\* UPDATE work_items: it waits for the row, whatever has become of its status.
CountSignal(w) ==
    /\ task[w] = "update"
    /\ rowLock[job[w]] = NoRequest /\ rowTask[job[w]] = NoRequest
    /\ rowTask' = [rowTask EXCEPT ![job[w]] = w]
    /\ task' = [task EXCEPT ![w] = "commit"]
    /\ UNCHANGED <<vars, conns, job, probe>>

\* Mutation of CloseTask: the row stays locked.
CloseTaskLocking(w) ==
    /\ Disconnect(w)
    /\ task' = [task EXCEPT ![w] = "idle"]
    /\ job' = [job EXCEPT ![w] = NoItem]
    /\ UNCHANGED <<rowTask, probe>>

CloseTask(w) ==
    /\ Disconnect(w)
    /\ rowTask' = [i \in Items |-> IF rowTask[i] = w THEN NoRequest ELSE rowTask[i]]
    /\ task' = [task EXCEPT ![w] = "idle"]
    /\ job' = [job EXCEPT ![w] = NoItem]
    /\ UNCHANGED probe

\* The end of session.begin(): a row that did not exist is there now.
CommitSignal(w) ==
    /\ task[w] = "commit"
    /\ \/ job[w] \in Items /\ OpenItem(job[w])
       \/ ~(job[w] \in Items /\ ~Exists(job[w])) /\ UNCHANGED vars
    /\ CloseTask(w)

\* The attempt raises, or the process stops.
FailAttempt(w) ==
    /\ task[w] # "idle"
    /\ CloseTask(w)
    /\ UNCHANGED vars

Attempt(w) == FindItem(w) \/ CountSignal(w) \/ CommitSignal(w)

-----------------------------------------------------------------------------
\* GET /health arrives.
BeginProbe ==
    /\ probe = "idle"
    /\ probe' = "connect"
    /\ UNCHANGED <<vars, conns, task, job, rowTask>>

\* SELECT 1 gets a connection; a pool that stays full makes it an error, which is
\* caught.  The pings of MongoDB and Redis, and the answer, follow: no other part
\* depends on them.
ConnectProbe ==
    /\ probe = "connect"
    /\ \/ ~Full /\ Connect(Health) /\ probe' = "postgres"
       \/ Full /\ probe' = "idle" /\ UNCHANGED conns
    /\ UNCHANGED <<vars, task, job, rowTask>>

\* SELECT 1 is answered or raises, and the session is closed.
PingPostgres ==
    /\ probe = "postgres"
    /\ Disconnect(Health)
    /\ probe' = "idle"
    /\ UNCHANGED <<vars, task, job, rowTask>>

HealthCheck == ConnectProbe \/ PingPostgres

PoolNext ==
    \/ \E r \in Requests : BeginRequest(r) \/ HandleConnected(r) \/ AbortRequest(r)
    \/ \E w \in Workers : BeginAttempt(w) \/ Attempt(w) \/ FailAttempt(w)
    \/ BeginProbe \/ HealthCheck

PoolSpec == PoolInit /\ [][PoolNext]_<<vars, poolVars>>

(***************************************************************************)
(* Every statement is answered, and a released row or connection goes to   *)
(* its waiters in turn, so that one whose statement is enabled again and   *)
(* again gets through (strong fairness).  Nobody has to send requests, and *)
(* nothing has to fail; only the health check is assumed to give up when   *)
(* the pool stays full.                                                    *)
(***************************************************************************)
PoolFairness ==
    /\ \A r \in Requests : SF_<<vars, poolVars>>(HandleConnected(r))
    /\ \A w \in Workers : SF_<<vars, poolVars>>(Attempt(w))
    /\ WF_<<vars, poolVars>>(HealthCheck)

PoolFairSpec == PoolSpec /\ PoolFairness

-----------------------------------------------------------------------------
\* Types of the variables; the job of a task that updates is a row.
PoolTypeOK ==
    /\ TypeOK
    /\ conns \in SUBSET Users
    /\ task \in [Workers -> TaskStages]
    /\ job \in [Workers -> Items \cup {NoItem}]
    /\ rowTask \in [Items -> Workers \cup {NoRequest}]
    /\ probe \in Probes
    /\ \A w \in Workers : task[w] = "update" => job[w] \in Items

\* On every path, an error, a rollback or a stop included, exactly those have a
\* connection that are between the first statement and the end of their session:
\* the pool is never exceeded and no connection is lost.
Connected(u) ==
    \/ u \in Requests /\ pc[u] \notin {"idle", "select"}
    \/ u \in Workers /\ task[u] \notin {"idle", "select"}
    \/ u = Health /\ probe = "postgres"

PoolAccounted ==
    /\ Cardinality(conns) <= PoolSize
    /\ conns = {u \in Users : Connected(u)}

\* What a user waits for, and who has it.  A connection is somebody's to give back only
\* while all are taken.
WantsConnection(u) ==
    \/ u \in Requests /\ pc[u] = "select"
    \/ u \in Workers /\ task[u] = "select"
    \/ u = Health /\ probe = "connect"

WantsRow(u, i) ==
    \/ u \in Requests /\ WritesRow(u) /\ item[u] = i
    \/ u \in Workers /\ task[u] = "update" /\ job[u] = i

WantsKey(u, i) ==
    u \in Requests /\ pc[u] = "write" /\ target[u] = "RCA" /\ item[u] = i

WaitsFor(u, v) ==
    \/ WantsConnection(u) /\ Full /\ v \in conns
    \/ \E i \in Items : WantsRow(u, i) /\ v \in {rowLock[i], rowTask[i]}
    \/ \E i \in Items : WantsKey(u, i) /\ v = rcaKey[i]

\* Requests, worker slots and the health check wait for the pool, for rows and for RCA
\* keys, but never in a circle: in every group of users there is one that waits for no
\* other of the group.  Nothing looks for such circles: PostgreSQL does not see the
\* waits for a connection, and one among them would end in the timeout of the pool.
NoCircle ==
    \A S \in (SUBSET Users) \ {{}} : \E u \in S : \A v \in S : ~WaitsFor(u, v)

\* Every transaction of the worker comes to its end without a timeout, however
\* requests use the rows and the pool.
AttemptFinished == \A w \in Workers : task[w] # "idle" ~> task[w] = "idle"
=============================================================================
