-------------------------- MODULE WorkItemPoolProofs --------------------------
(***************************************************************************)
(* Theorems about WorkItemPool, for every number of requests, worker slots *)
(* and connections.  A step of the composition is a step of WorkItemApi or *)
(* leaves its variables alone, so everything that WorkItemApiProofs proves *)
(* of the handlers holds with the pool and the worker around them.         *)
(*                                                                         *)
(* Beyond that, the invariant says how far whoever owns a row or a key has *)
(* come: the owner of a row waits for nothing any more, that of a key for  *)
(* a row at most, and both have their connection.  So every chain of waits *)
(* goes down from connections to keys to rows, and none closes.            *)
(***************************************************************************)
EXTENDS WorkItemPool, WorkItemApiProofs, FiniteSetTheorems

PoolTypes ==
    /\ conns \in SUBSET Users
    /\ task \in [Workers -> TaskStages]
    /\ job \in [Workers -> Items \cup {NoItem}]
    /\ rowTask \in [Items -> Workers \cup {NoRequest}]
    /\ probe \in Probes
    /\ \A w \in Workers : task[w] = "update" => job[w] \in Items

\* Past its last write of a row.
RowWritten(r) == pc[r] = "commit" \/ (pc[r] = "invalidate" /\ target[r] # "RCA")

OwnersStage ==
    \A i \in Items :
        /\ rowLock[i] # NoRequest => RowWritten(rowLock[i]) /\ rowTask[i] = NoRequest
        /\ rcaKey[i] # NoRequest => pc[rcaKey[i]] \in Written
        /\ rowTask[i] # NoRequest => task[rowTask[i]] = "commit"

PoolInv == PoolTypes /\ PoolAccounted /\ OwnersStage

-----------------------------------------------------------------------------
\* The handlers, in a pool and with a worker beside them, are those of WorkItemApi.
LEMMA PoolStepIsApiStep == [PoolNext]_<<vars, poolVars>> => [Next]_vars
<1> SUFFICES ASSUME [PoolNext]_<<vars, poolVars>>
             PROVE  [Next]_vars
  OBVIOUS
<1>1. ASSUME NEW r \in Requests, BeginRequest(r) \/ HandleConnected(r) \/ AbortRequest(r)
      PROVE  Next
  BY <1>1 DEF BeginRequest, HandleConnected, AbortRequest, Next
<1>2. ASSUME NEW w \in Workers, BeginAttempt(w) \/ Attempt(w) \/ FailAttempt(w)
      PROVE  Next \/ UNCHANGED vars
  <2>1. CASE CommitSignal(w)
    BY <2>1 DEF CommitSignal, Next
  <2> QED
    BY <1>2, <2>1 DEF BeginAttempt, Attempt, FailAttempt, FindItem, CountSignal
<1>3. CASE BeginProbe \/ HealthCheck
  BY <1>3 DEF BeginProbe, HealthCheck, ConnectProbe, PingPostgres
<1> QED
  BY <1>1, <1>2, <1>3 DEF PoolNext

\* So what WorkItemApiProofs proves of the incidents holds with the pool as well.
THEOREM PoolRefinesApi == PoolSpec => Spec
<1>1. PoolInit => Init
  BY DEF PoolInit
<1> QED
  BY <1>1, PoolStepIsApiStep, PTL DEF PoolSpec, Spec

-----------------------------------------------------------------------------
\* What a step of a handler does to the stages and the locks.
LEMMA HandleFrame ==
    ASSUME TypeOK, NEW r \in Requests, Handle(r)
    PROVE  /\ pc[r] # "idle" /\ pc'[r] # "select"
           /\ \A t \in Requests \ {r} : pc'[t] = pc[t]
           /\ \A t \in Requests \ {r} : target'[t] = target[t]
           /\ pc'[r] = "idle" => Release(r)
           /\ RowWritten(r) /\ pc'[r] # "idle" => RowWritten(r)'
           /\ pc[r] \in Written /\ pc'[r] # "idle" => pc'[r] \in Written
           /\ \A i \in Items :
                  /\ rowLock'[i] \in {rowLock[i], NoRequest, r}
                  /\ rcaKey'[i] \in {rcaKey[i], NoRequest, r}
                  /\ rowLock'[i] = r /\ rowLock[i] # r =>
                         i = item[r] /\ WritesRow(r) /\ RowWritten(r)'
                  /\ rcaKey'[i] = r /\ rcaKey[i] # r => pc'[r] \in Written
<1> USE DEF TypeOK, Stages, Goto, Finish, Reject, Release, locks, RowWritten, Written
<1>1. CASE SelectItem(r)
  BY <1>1 DEF SelectItem
<1>2. CASE CheckTransition(r)
  BY <1>2 DEF CheckTransition
<1>3. CASE WriteTransition(r)
  BY <1>3 DEF WriteTransition, WritesRow
<1>4. CASE CheckRca(r)
  BY <1>4 DEF CheckRca
<1>5. CASE WriteRca(r)
  BY <1>5 DEF WriteRca
<1>6. CASE Invalidate(r)
  BY <1>6 DEF Invalidate
<1>7. CASE UpdateMttr(r)
  BY <1>7 DEF UpdateMttr, WritesRow
<1>8. CASE CommitTransition(r)
  BY <1>8 DEF CommitTransition
<1>9. CASE CommitRca(r)
  BY <1>9 DEF CommitRca
<1> QED
  BY <1>1, <1>2, <1>3, <1>4, <1>5, <1>6, <1>7, <1>8, <1>9 DEF Handle

\* The end of a request releases what it owns.
LEMMA RejectFrame ==
    ASSUME TypeOK, NEW r \in Requests, Abort(r)
    PROVE  /\ pc'[r] = "idle" /\ Release(r)
           /\ \A t \in Requests \ {r} : pc'[t] = pc[t] /\ target'[t] = target[t]
BY DEF Abort, Reject, Finish, TypeOK

\* Connections within the size of the pool.
LEMMA ConnectKeepsSize ==
    ASSUME PoolInv, NEW u \in Users, u \in conns \/ ~Full, Connect(u)
    PROVE  Cardinality(conns') <= PoolSize
<1>1. IsFiniteSet(conns)
  BY PoolAssumption, FS_Subset DEF PoolInv, PoolTypes
<1>2. Cardinality(conns') = IF u \in conns THEN Cardinality(conns) ELSE Cardinality(conns) + 1
  BY <1>1, FS_AddElement DEF Connect
<1>3. Cardinality(conns) \in Nat
  BY <1>1, FS_CardinalityType
<1> QED
  BY <1>2, <1>3, PoolAssumption DEF Full, PoolInv, PoolAccounted

\* A connection given back overfills no pool.
LEMMA DisconnectKeepsSize ==
    ASSUME PoolInv, NEW u, Disconnect(u)
    PROVE  Cardinality(conns') <= PoolSize
<1>1. IsFiniteSet(conns)
  BY PoolAssumption, FS_Subset DEF PoolInv, PoolTypes
<1>2. Cardinality(conns') <= Cardinality(conns) /\ Cardinality(conns') \in Nat
  BY <1>1, FS_Subset, FS_RemoveElement, FS_CardinalityType DEF Disconnect
<1>3. Cardinality(conns) \in Nat
  BY <1>1, FS_CardinalityType
<1> QED
  BY <1>2, <1>3, PoolAssumption DEF PoolInv, PoolAccounted

\* A step that changes the stage of one user alone moves at most that user in or out
\* of the set of those that have a connection.
LEMMA AccountedAfter ==
    ASSUME PoolInv, NEW u \in Users, Cardinality(conns') <= PoolSize,
           \A v \in Users \ {u} : Connected(v)' = Connected(v),
           conns' = IF Connected(u)' THEN conns \cup {u} ELSE conns \ {u}
    PROVE  PoolAccounted'
<1>1. \A v \in Users \ {u} : v \in conns' <=> Connected(v)'
  BY DEF PoolInv, PoolAccounted
<1>2. u \in conns' <=> Connected(u)'
  OBVIOUS
<1>3. conns' \subseteq Users
  BY DEF PoolInv, PoolAccounted
<1> QED
  BY <1>1, <1>2, <1>3 DEF PoolAccounted

\* A request, a worker slot and the health check are different users.
LEMMA UsersDiffer ==
    /\ \A r \in Requests : r \in Users /\ r \notin Workers /\ r # Health /\ r # NoRequest
    /\ \A w \in Workers : w \in Users /\ w \notin Requests /\ w # Health /\ w # NoRequest
    /\ Health \in Users /\ Health \notin Requests /\ Health \notin Workers
BY PoolAssumption DEF Users

\* One step per kind of user: requests first.
LEMMA RequestPoolStep ==
    ASSUME PoolInv, ApiInv, NEW r \in Requests,
           BeginRequest(r) \/ HandleConnected(r) \/ AbortRequest(r)
    PROVE  PoolInv'
<1> USE UsersDiffer DEF PoolInv
<1>t. TypeOK /\ CallInv
  BY DEF ApiInv
<1>1. CASE BeginRequest(r)
  <2>1. /\ pc[r] = "idle" /\ pc'[r] = "select"
        /\ \A t \in Requests \ {r} : pc'[t] = pc[t] /\ target'[t] = target[t]
        /\ UNCHANGED <<locks, conns, task, job, rowTask, probe>>
    BY <1>1, <1>t DEF BeginRequest, Begin, poolVars, TypeOK
  <2>2. PoolTypes'
    BY <2>1 DEF PoolTypes
  <2>3. PoolAccounted'
    BY <2>1 DEF PoolAccounted, Connected
  <2>4. OwnersStage'
    BY <2>1, <1>t DEF OwnersStage, RowWritten, Written, TypeOK, locks
  <2> QED
    BY <2>2, <2>3, <2>4
<1>2. CASE HandleConnected(r)
  <2>1. /\ Handle(r) /\ UNCHANGED <<task, job, rowTask, probe>>
        /\ pc[r] = "select" => ~Full
        /\ WritesRow(r) => rowTask[item[r]] = NoRequest
        /\ IF pc'[r] = "idle" THEN Disconnect(r) ELSE Connect(r)
    BY <1>2 DEF HandleConnected, Over
  <2>2. /\ pc[r] # "idle" /\ pc'[r] # "select"
        /\ \A t \in Requests \ {r} : pc'[t] = pc[t]
        /\ \A t \in Requests \ {r} : target'[t] = target[t]
        /\ pc'[r] = "idle" => Release(r)
        /\ RowWritten(r) /\ pc'[r] # "idle" => RowWritten(r)'
        /\ pc[r] \in Written /\ pc'[r] # "idle" => pc'[r] \in Written
        /\ \A i \in Items :
               /\ rowLock'[i] \in {rowLock[i], NoRequest, r}
               /\ rcaKey'[i] \in {rcaKey[i], NoRequest, r}
               /\ rowLock'[i] = r /\ rowLock[i] # r =>
                      i = item[r] /\ WritesRow(r) /\ RowWritten(r)'
               /\ rcaKey'[i] = r /\ rcaKey[i] # r => pc'[r] \in Written
    BY <1>t, <2>1, HandleFrame
  <2>3. r \in conns \/ ~Full
    BY <2>1, <2>2 DEF PoolAccounted, Connected
  <2>4. Cardinality(conns') <= PoolSize
    BY <2>1, <2>3, ConnectKeepsSize, DisconnectKeepsSize
  <2>5. PoolAccounted'
    <3>1. \A v \in Users \ {r} : Connected(v)' = Connected(v)
      BY <2>1, <2>2 DEF Connected
    <3>2. Connected(r)' <=> pc'[r] # "idle"
      BY <2>2 DEF Connected
    <3>3. conns' = IF Connected(r)' THEN conns \cup {r} ELSE conns \ {r}
      BY <2>1, <3>2 DEF Connect, Disconnect
    <3> QED
      BY <2>4, <3>1, <3>3, AccountedAfter
  <2>6. PoolTypes'
    <3>1. conns' \subseteq Users
      BY <2>5 DEF PoolAccounted
    <3> QED
      BY <3>1, <2>1 DEF PoolTypes
  <2>7. OwnersStage'
    <3> SUFFICES ASSUME NEW i \in Items
                 PROVE  /\ rowLock'[i] # NoRequest =>
                               /\ \/ pc'[rowLock'[i]] = "commit"
                                  \/ pc'[rowLock'[i]] = "invalidate" /\ target'[rowLock'[i]] # "RCA"
                               /\ rowTask'[i] = NoRequest
                        /\ rcaKey'[i] # NoRequest => pc'[rcaKey'[i]] \in Written
                        /\ rowTask'[i] # NoRequest => task'[rowTask'[i]] = "commit"
      BY DEF OwnersStage, RowWritten
    <3>1. pc'[r] = "idle" => rowLock'[i] # r /\ rcaKey'[i] # r
      BY <2>2 DEF Release
    <3>2. \A t \in Requests \ {r} :
              /\ RowWritten(t) => pc'[t] = "commit" \/ (pc'[t] = "invalidate" /\ target'[t] # "RCA")
              /\ pc[t] \in Written => pc'[t] \in Written
      BY <2>2 DEF RowWritten
    <3>3. rowLock[i] \in Requests \cup {NoRequest} /\ rcaKey[i] \in Requests \cup {NoRequest}
      BY <1>t DEF TypeOK
    <3>4. ASSUME rowLock'[i] # NoRequest
          PROVE  /\ pc'[rowLock'[i]] = "commit"
                    \/ (pc'[rowLock'[i]] = "invalidate" /\ target'[rowLock'[i]] # "RCA")
                 /\ rowTask'[i] = NoRequest
      <4>1. CASE rowLock'[i] = r /\ rowLock[i] # r
        BY <2>1, <2>2, <4>1 DEF RowWritten
      <4>2. CASE rowLock'[i] = r /\ rowLock[i] = r
        BY <2>1, <2>2, <3>1, <3>4, <4>2 DEF OwnersStage, RowWritten
      <4>3. CASE rowLock'[i] # r
        <5>1. rowLock'[i] = rowLock[i] /\ rowLock[i] \in Requests \ {r}
          BY <2>2, <3>3, <3>4, <4>3
        <5>2. RowWritten(rowLock[i]) /\ rowTask[i] = NoRequest
          BY <3>4, <5>1 DEF OwnersStage
        <5> QED
          BY <2>1, <3>2, <5>1, <5>2
      <4> QED
        BY <4>1, <4>2, <4>3
    <3>5. ASSUME rcaKey'[i] # NoRequest
          PROVE  pc'[rcaKey'[i]] \in Written
      <4>1. CASE rcaKey'[i] = r
        BY <2>2, <3>1, <3>5, <4>1 DEF OwnersStage
      <4>2. CASE rcaKey'[i] # r
        BY <2>2, <3>2, <3>3, <3>5, <4>2 DEF OwnersStage
      <4> QED
        BY <4>1, <4>2
    <3>6. rowTask'[i] # NoRequest => task'[rowTask'[i]] = "commit"
      BY <2>1 DEF OwnersStage
    <3> QED
      BY <3>4, <3>5, <3>6
  <2> QED
    BY <2>5, <2>6, <2>7
<1>3. CASE AbortRequest(r)
  <2>1. /\ Abort(r) /\ Disconnect(r) /\ UNCHANGED <<task, job, rowTask, probe>>
    BY <1>3 DEF AbortRequest
  <2>2. /\ pc'[r] = "idle" /\ Release(r)
        /\ \A t \in Requests \ {r} : pc'[t] = pc[t] /\ target'[t] = target[t]
    BY <1>t, <2>1, RejectFrame
  <2>3. PoolAccounted'
    <3>1. \A v \in Users \ {r} : Connected(v)' = Connected(v)
      BY <2>1, <2>2 DEF Connected
    <3>2. ~Connected(r)'
      BY <2>2 DEF Connected
    <3> QED
      BY <2>1, <3>1, <3>2, DisconnectKeepsSize, AccountedAfter DEF Disconnect
  <2>4. PoolTypes'
    BY <2>1 DEF PoolTypes, Disconnect
  <2>5. OwnersStage'
    BY <2>1, <2>2, <1>t DEF OwnersStage, RowWritten, Written, Release, TypeOK
  <2> QED
    BY <2>3, <2>4, <2>5
<1> QED
  BY <1>1, <1>2, <1>3

\* What the end of a task of the worker leaves.
LEMMA CloseTaskStep ==
    ASSUME PoolInv, TypeOK, NEW w \in Workers, CloseTask(w), UNCHANGED <<pc, target, locks>>
    PROVE  PoolInv'
<1> USE UsersDiffer DEF PoolInv, CloseTask
<1>1. task'[w] = "idle" /\ \A v \in Workers \ {w} : task'[v] = task[v]
  BY DEF PoolTypes
<1>2. PoolAccounted'
  <2>1. \A v \in Users \ {w} : Connected(v)' = Connected(v)
    BY <1>1 DEF Connected
  <2>2. ~Connected(w)'
    BY <1>1 DEF Connected
  <2> QED
    BY <2>1, <2>2, DisconnectKeepsSize, AccountedAfter DEF Disconnect
<1>3. PoolTypes'
  BY DEF PoolTypes, Disconnect, TaskStages
<1>4. OwnersStage'
  BY <1>1 DEF OwnersStage, RowWritten, PoolTypes, locks
<1> QED
  BY <1>2, <1>3, <1>4

\* The worker's steps keep the invariant of the pool.
LEMMA WorkerPoolStep ==
    ASSUME PoolInv, ApiInv, NEW w \in Workers,
           BeginAttempt(w) \/ Attempt(w) \/ FailAttempt(w)
    PROVE  PoolInv'
<1> USE UsersDiffer DEF PoolInv, vars, calls
<1>t. TypeOK
  BY DEF ApiInv
<1>1. CASE BeginAttempt(w)
  <2>1. /\ task[w] = "idle" /\ task'[w] = "select"
        /\ \A v \in Workers \ {w} : task'[v] = task[v]
        /\ task' \in [Workers -> TaskStages]
        /\ UNCHANGED <<pc, target, locks, conns, job, rowTask, probe>>
    BY <1>1 DEF BeginAttempt, PoolTypes, TaskStages
  <2>2. PoolTypes'
    BY <2>1 DEF PoolTypes
  <2>3. PoolAccounted'
    BY <2>1 DEF PoolAccounted, Connected
  <2>4. OwnersStage'
    BY <2>1 DEF OwnersStage, RowWritten, PoolTypes, locks
  <2> QED
    BY <2>2, <2>3, <2>4
<1>2. CASE FindItem(w)
  <2>1. /\ task[w] = "select" /\ ~Full /\ Connect(w)
        /\ task'[w] \in {"update", "commit"}
        /\ \A v \in Workers \ {w} : task'[v] = task[v]
        /\ UNCHANGED <<pc, target, locks, rowTask, probe>>
    BY <1>2 DEF FindItem, PoolTypes
  <2>2. PoolTypes'
    <3>1. task' \in [Workers -> TaskStages] /\ job' \in [Workers -> Items \cup {NoItem}]
      BY <1>2 DEF FindItem, PoolTypes, TaskStages, Unused
    <3>2. \A v \in Workers : task'[v] = "update" => job'[v] \in Items
      BY <1>2 DEF FindItem, PoolTypes, Unused
    <3> QED
      BY <2>1, <3>1, <3>2 DEF PoolTypes, Connect
  <2>3. PoolAccounted'
    <3>1. \A v \in Users \ {w} : Connected(v)' = Connected(v)
      BY <2>1 DEF Connected
    <3>2. Connected(w)'
      BY <2>1 DEF Connected
    <3> QED
      BY <2>1, <3>1, <3>2, ConnectKeepsSize, AccountedAfter DEF Connect
  <2>4. OwnersStage'
    BY <2>1 DEF OwnersStage, RowWritten, PoolTypes, locks
  <2> QED
    BY <2>2, <2>3, <2>4
<1>3. CASE CountSignal(w)
  <2>1. /\ task[w] = "update" /\ job[w] \in Items
        /\ rowLock[job[w]] = NoRequest
        /\ rowTask' = [rowTask EXCEPT ![job[w]] = w]
        /\ task' = [task EXCEPT ![w] = "commit"]
        /\ UNCHANGED <<pc, target, locks, conns, job, probe>>
    BY <1>3 DEF CountSignal, PoolTypes
  <2>2. task'[w] = "commit" /\ \A v \in Workers \ {w} : task'[v] = task[v]
    BY <2>1 DEF PoolTypes
  <2>3. PoolTypes'
    BY <2>1 DEF PoolTypes, TaskStages
  <2>4. PoolAccounted'
    BY <2>1, <2>2 DEF PoolAccounted, Connected
  <2>5. OwnersStage'
    BY <2>1, <2>2 DEF OwnersStage, RowWritten, PoolTypes, locks
  <2> QED
    BY <2>3, <2>4, <2>5
<1>4. CASE CommitSignal(w)
  BY <1>t, <1>4, CloseTaskStep DEF CommitSignal, OpenItem
<1>5. CASE FailAttempt(w)
  BY <1>t, <1>5, CloseTaskStep DEF FailAttempt
<1> QED
  BY <1>1, <1>2, <1>3, <1>4, <1>5 DEF Attempt

\* So do those of the health check.
LEMMA HealthPoolStep ==
    ASSUME PoolInv, BeginProbe \/ HealthCheck
    PROVE  PoolInv'
<1> USE UsersDiffer DEF PoolInv, vars, calls
<1>0. /\ UNCHANGED <<pc, target, locks, task, job, rowTask>>
      /\ probe' \in Probes /\ conns' \subseteq Users
  BY DEF BeginProbe, HealthCheck, ConnectProbe, PingPostgres, PoolTypes, Probes,
         Connect, Disconnect
<1>1. PoolTypes'
  BY <1>0 DEF PoolTypes
<1>2. OwnersStage'
  BY <1>0 DEF OwnersStage, RowWritten, locks
<1>3. PoolAccounted'
  <2>1. \A v \in Users \ {Health} : Connected(v)' = Connected(v)
    BY <1>0 DEF Connected
  <2>2. CASE conns' = conns /\ probe # "postgres" /\ probe' # "postgres"
    BY <2>1, <2>2 DEF PoolAccounted, Connected
  <2>3. CASE ~Full /\ Connect(Health) /\ probe' = "postgres"
    <3>1. Connected(Health)'
      BY <2>3 DEF Connected
    <3> QED
      BY <2>1, <2>3, <3>1, ConnectKeepsSize, AccountedAfter DEF Connect
  <2>4. CASE Disconnect(Health) /\ probe' = "idle"
    <3>1. ~Connected(Health)'
      BY <2>4 DEF Connected
    <3> QED
      BY <2>1, <2>4, <3>1, DisconnectKeepsSize, AccountedAfter DEF Disconnect
  <2> QED
    BY <2>2, <2>3, <2>4 DEF BeginProbe, HealthCheck, ConnectProbe, PingPostgres
<1> QED
  BY <1>1, <1>2, <1>3

-----------------------------------------------------------------------------
\* The invariant of the composition: who has a connection, and who owns what.
THEOREM PoolInvariant == PoolSpec => []PoolInv
<1>1. PoolInit => PoolInv
  <2> SUFFICES ASSUME PoolInit
               PROVE  PoolInv
    OBVIOUS
  <2> USE DEF PoolInit, Init
  <2>1. PoolTypes
    BY DEF PoolTypes, TaskStages, Probes
  <2>2. PoolAccounted
    <3>1. Cardinality(conns) = 0
      BY FS_EmptySet
    <3>2. \A u \in Users : ~Connected(u)
      BY DEF Connected
    <3> QED
      BY <3>1, <3>2, PoolAssumption DEF PoolAccounted
  <2>3. OwnersStage
    BY DEF OwnersStage
  <2> QED
    BY <2>1, <2>2, <2>3 DEF PoolInv
<1>2. PoolInv /\ ApiInv /\ [PoolNext]_<<vars, poolVars>> => PoolInv'
  <2> SUFFICES ASSUME PoolInv, ApiInv, [PoolNext]_<<vars, poolVars>>
               PROVE  PoolInv'
    OBVIOUS
  <2>1. CASE PoolNext
    BY <2>1, RequestPoolStep, WorkerPoolStep, HealthPoolStep DEF PoolNext
  <2>2. CASE UNCHANGED <<vars, poolVars>>
    BY <2>2 DEF vars, calls, locks, poolVars, PoolInv, PoolTypes, PoolAccounted, Connected,
                OwnersStage, RowWritten
  <2> QED
    BY <2>1, <2>2
<1> QED
  BY <1>1, <1>2, PoolRefinesApi, ApiInvariant, PTL DEF PoolSpec

\* Type correctness with any number of users.
THEOREM PoolTypeCorrect == PoolSpec => []PoolTypeOK
<1>1. PoolInv /\ ApiInv => PoolTypeOK
  BY DEF PoolInv, PoolTypes, ApiInv, PoolTypeOK
<1> QED
  BY <1>1, PoolInvariant, PoolRefinesApi, ApiInvariant, PTL

\* No connection is lost and the pool is never exceeded, for every size of the pool
\* and any number of requests and worker slots.
THEOREM PoolAccountedCorrect == PoolSpec => []PoolAccounted
<1>1. PoolInv => PoolAccounted
  BY DEF PoolInv
<1> QED
  BY <1>1, PoolInvariant, PTL

\* Who has a row waits for nothing, who has a key waits for a row at most, and who has
\* a connection does not wait for one.
LEMMA ChainsGoDown ==
    ASSUME PoolInv, TypeOK, NEW u \in Users, NEW v \in Users
    PROVE  /\ \A i \in Items : v \in {rowLock[i], rowTask[i]} => \A x : ~WaitsFor(v, x)
           /\ \A i \in Items : v = rcaKey[i] =>
                  ~WantsConnection(v) /\ \A j \in Items : ~WantsKey(v, j)
           /\ v \in conns => ~WantsConnection(v)
<1> USE UsersDiffer
<1>1. v # NoRequest
  BY PoolAssumption
<1>2. ASSUME NEW i \in Items, v = rowLock[i]
      PROVE  \A x : ~WaitsFor(v, x)
  <2>1. v \in Requests /\ RowWritten(v)
    BY <1>1, <1>2 DEF PoolInv, OwnersStage, TypeOK
  <2>2. ~WantsConnection(v) /\ \A j \in Items : ~WantsRow(v, j) /\ ~WantsKey(v, j)
    BY <2>1 DEF RowWritten, WantsConnection, WantsRow, WantsKey, WritesRow
  <2> QED
    BY <2>2 DEF WaitsFor
<1>3. ASSUME NEW i \in Items, v = rowTask[i]
      PROVE  \A x : ~WaitsFor(v, x)
  <2>1. v \in Workers /\ task[v] = "commit"
    BY <1>1, <1>3 DEF PoolInv, PoolTypes, OwnersStage
  <2>2. ~WantsConnection(v) /\ \A j \in Items : ~WantsRow(v, j) /\ ~WantsKey(v, j)
    BY <2>1 DEF WantsConnection, WantsRow, WantsKey
  <2> QED
    BY <2>2 DEF WaitsFor
<1>4. ASSUME NEW i \in Items, v = rcaKey[i]
      PROVE  ~WantsConnection(v) /\ \A j \in Items : ~WantsKey(v, j)
  <2>1. v \in Requests /\ pc[v] \in Written
    BY <1>1, <1>4 DEF PoolInv, OwnersStage, TypeOK
  <2> QED
    BY <2>1 DEF Written, WantsConnection, WantsKey
<1>5. ASSUME v \in conns
      PROVE  ~WantsConnection(v)
  BY <1>5 DEF PoolInv, PoolAccounted, Connected, WantsConnection
<1> QED
  BY <1>2, <1>3, <1>4, <1>5

\* Waits for connections, rows and keys form no circle, for any number of users and any
\* size of the pool.
THEOREM NoCircleCorrect == PoolSpec => []NoCircle
<1>1. PoolInv /\ TypeOK => NoCircle
  <2> SUFFICES ASSUME PoolInv, TypeOK, NEW S \in SUBSET Users, S # {}
               PROVE  \E u \in S : \A v \in S : ~WaitsFor(u, v)
    BY DEF NoCircle
  <2>1. CASE \E u \in S : \E i \in Items : \E v \in S : v \in {rowLock[i], rowTask[i]}
    BY <2>1, ChainsGoDown
  <2>2. CASE /\ \A i \in Items : \A v \in S : v \notin {rowLock[i], rowTask[i]}
             /\ \E i \in Items : \E v \in S : v = rcaKey[i]
    <3>1. PICK i \in Items, u \in S : u = rcaKey[i]
      BY <2>2
    <3>2. ~WantsConnection(u) /\ \A j \in Items : ~WantsKey(u, j)
      BY <3>1, ChainsGoDown
    <3>3. \A v \in S : ~WaitsFor(u, v)
      BY <2>2, <3>2 DEF WaitsFor
    <3> QED
      BY <3>3
  <2>3. CASE /\ \A i \in Items : \A v \in S : v \notin {rowLock[i], rowTask[i], rcaKey[i]}
             /\ \E u \in S : u \in conns
    <3>1. PICK u \in S : u \in conns
      BY <2>3
    <3>2. ~WantsConnection(u)
      BY <3>1, ChainsGoDown
    <3>3. \A v \in S : ~WaitsFor(u, v)
      BY <2>3, <3>2 DEF WaitsFor
    <3> QED
      BY <3>3
  <2>4. CASE /\ \A i \in Items : \A v \in S : v \notin {rowLock[i], rowTask[i], rcaKey[i]}
             /\ \A u \in S : u \notin conns
    <3>1. \A u, v \in S : ~WaitsFor(u, v)
      BY <2>4 DEF WaitsFor
    <3> QED
      BY <3>1
  <2> QED
    BY <2>1, <2>2, <2>3, <2>4
<1> QED
  BY <1>1, PoolInvariant, PoolRefinesApi, ApiInvariant, PTL DEF ApiInv

\* The semaphore of the worker "prevents connection pool exhaustion": with no more
\* slots than connections, a task waits for one only because a request or the health
\* check has one.
ExhaustionNeedsRequests ==
    Cardinality(Workers) <= PoolSize =>
        \A w \in Workers : task[w] = "select" /\ Full => \E u \in conns : u \notin Workers

\* The signal worker alone never exhausts the pool.
THEOREM SemaphoreSparesPool == PoolSpec => []ExhaustionNeedsRequests
<1>1. PoolInv => ExhaustionNeedsRequests
  <2> SUFFICES ASSUME PoolInv, Cardinality(Workers) <= PoolSize, NEW w \in Workers,
                      task[w] = "select", Full, \A u \in conns : u \in Workers
               PROVE  FALSE
    BY DEF ExhaustionNeedsRequests
  <2>1. w \notin conns
    BY UsersDiffer DEF PoolInv, PoolAccounted, Connected
  <2>2. IsFiniteSet(Workers)
    BY PoolAssumption, FS_Subset DEF Users
  <2>3. Cardinality(Workers \ {w}) = Cardinality(Workers) - 1 /\ IsFiniteSet(Workers \ {w})
    BY <2>2, FS_RemoveElement
  <2>4. Cardinality(conns) <= Cardinality(Workers \ {w}) /\ Cardinality(conns) \in Nat
    BY <2>1, <2>3, FS_Subset, FS_CardinalityType
  <2>5. Cardinality(Workers) \in Nat
    BY <2>2, FS_CardinalityType
  <2> QED
    BY <2>3, <2>4, <2>5, PoolAssumption DEF Full
<1> QED
  BY <1>1, PoolInvariant, PTL

\* The record of an incident behaves as IncidentRecord says with the pool and the
\* worker around the handlers.
THEOREM PoolImplementsRecord == PoolSpec => ImplementsRecord
BY PoolRefinesApi, RecordImplemented, PTL
=============================================================================
