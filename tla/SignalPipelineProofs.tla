------------------------ MODULE SignalPipelineProofs ------------------------
(***************************************************************************)
(* Theorems about SignalPipeline, for every set of signals, every queue    *)
(* capacity, every number of task slots and every bound.                   *)
(*                                                                         *)
(* The inductive invariant ties the stage of a signal to what the two      *)
(* databases hold of it: between its MongoDB insert and its COMMIT a       *)
(* signal is stored and uncounted, at its link it is counted by the item   *)
(* it will be linked to, and a row exists exactly when the signal it is    *)
(* named for is counted by it.                                             *)
(***************************************************************************)
EXTENDS SignalPipeline, SequencesExt, FiniteSetTheorems, WellFoundedInduction, TLAPS

\* From the MongoDB insert to the COMMIT a signal is stored and uncounted.
StoredUncounted ==
    \A s \in Signals : pc[s] \in {"select", "commit"} =>
        s \in stored /\ credited[s] = NoItem

\* An item that a transaction found does exist.
FoundExists ==
    \A s \in Signals : pc[s] = "commit" /\ found[s] # NoItem =>
        status[found[s]] # "NONE"

\* A signal about to be linked is counted by the item it will be linked to.
LinkReady ==
    \A s \in Signals : pc[s] = "link" => credited[s] = WorkItemId(s)

\* A row exists exactly when the signal it is named for is counted by it, and
\* without a row nothing is counted.
RowMatchesCredit ==
    \A i \in Items :
        /\ status[i] # "NONE" => credited[i] = i /\ signalCount[i] > 0
        /\ status[i] = "NONE" => CreditedTo(i) = {} /\ signalCount[i] = 0

\* Signals that will insert an item and have already alerted.
Opening(c) ==
    {s \in Signals : ComponentOf[s] = c /\ pc[s] = "commit" /\ found[s] = NoItem}

AlertsCover ==
    \A c \in Components : Cardinality(ItemsOf(c) \cup Opening(c)) <= alerts[c]

CreditInv ==
    /\ AuditBeforeCount
    /\ StoredUncounted
    /\ FoundExists
    /\ LinkReady
    /\ LinkMatchesCredit
    /\ RowMatchesCredit
    /\ CountMatchesCredits

PipelineInv == TypeOK /\ PermitsAccounted /\ CreditInv /\ AlertsCover

-----------------------------------------------------------------------------
\* The running signals are finitely many, and no more than there are permits.
LEMMA RunningFinite ==
    IsFiniteSet(Running) /\ Cardinality(Running) \in Nat
BY SignalAssumption, FS_Subset, FS_CardinalityType DEF Running

\* A running signal is missing from the free permits.
LEMMA PermitHeld ==
    ASSUME TypeOK, PermitsAccounted, NEW s \in Running
    PROVE  permits + 1 \in 0..Concurrency
<1>1. Cardinality(Running) # 0
  BY RunningFinite, FS_EmptySet
<1> QED
  BY <1>1, RunningFinite, SettingsAssumption DEF TypeOK, PermitsAccounted

\* Raising one counter of several leaves counters.
LEMMA CounterRaised ==
    ASSUME NEW S, NEW f \in [S -> Nat], NEW k \in S
    PROVE  [f EXCEPT ![k] = @ + 1] \in [S -> Nat]
OBVIOUS

\* Every step keeps the types.
LEMMA TypeStep ==
    ASSUME TypeOK, PermitsAccounted, [Next]_vars
    PROVE  TypeOK'
<1> USE SignalAssumption, SettingsAssumption, BoundAssumption
<1> USE DEF TypeOK, Stages, RunningStages, BufferedStages, Items,
            memory, mongo, rows, audit, bounds
<1>1. ASSUME NEW s \in Signals, Ingest(s)
      PROVE  TypeOK'
  <2>1. pc' \in [Signals -> Stages]
    <3>1. PICK stage \in Stages : pc' = [pc EXCEPT ![s] = stage]
      BY <1>1 DEF Ingest, Enqueue
    <3> QED
      BY <3>1
  <2>2. queue' \in Seq(Signals) /\ Len(queue') <= QueueMax
    <3>1. CASE Len(queue) < QueueMax /\ queue' = Append(queue, s)
      BY <3>1
    <3>2. CASE UNCHANGED queue
      BY <3>2
    <3> QED
      BY <1>1, <3>1, <3>2 DEF Ingest, Enqueue
  <2> QED
    BY <1>1, <2>1, <2>2 DEF Ingest
<1>2. ASSUME NEW s \in Signals, Acquire(s)
      PROVE  TypeOK'
  <2>1. pc' \in [Signals -> Stages]
    BY <1>2 DEF Acquire
  <2>2. waiters' \in Seq(Signals)
    BY <1>2 DEF Acquire
  <2>3. permits' \in 0..Concurrency
    BY <1>2 DEF Acquire
  <2>4. attempt' \in [Signals -> Nat]
    BY <1>2 DEF Acquire
  <2> QED
    BY <1>2, <2>1, <2>2, <2>3, <2>4 DEF Acquire
<1>3. ASSUME NEW s \in Signals, pc[s] \in RunningStages,
             \/ Raise(s)
             \/ Leave(s, "done")
             \/ /\ \E stage \in RunningStages : pc' = [pc EXCEPT ![s] = stage]
                /\ UNCHANGED permits
      PROVE  pc' \in [Signals -> Stages] /\ permits' \in 0..Concurrency
  <2>1. permits + 1 \in 0..Concurrency
    BY <1>3, PermitHeld DEF Running
  <2>2. pc' \in [Signals -> Stages]
    <3>1. PICK stage \in Stages : pc' = [pc EXCEPT ![s] = stage]
      BY <1>3 DEF Raise, Leave
    <3> QED
      BY <3>1
  <2>3. permits' \in 0..Concurrency
    BY <1>3, <2>1 DEF Raise, Leave
  <2> QED
    BY <2>2, <2>3
<1>4. ASSUME Fault
      PROVE  faults' \in 0..MaxFaults /\ UNCHANGED <<crashes, transitions>>
  BY <1>4 DEF Fault
<1>5. ASSUME NEW s \in Signals, StoreRawSignal(s)
      PROVE  TypeOK'
  <2>1. pc' \in [Signals -> Stages] /\ permits' \in 0..Concurrency
    BY <1>5, <1>3 DEF StoreRawSignal
  <2>2. stored' \in SUBSET Signals
    BY <1>5 DEF StoreRawSignal, InsertOne
  <2>3. recorded' \in [Components -> Nat]
    BY <1>5 DEF StoreRawSignal
  <2>4. faults' \in 0..MaxFaults /\ UNCHANGED <<crashes, transitions>>
    BY <1>5, <1>4 DEF StoreRawSignal
  <2> QED
    BY <1>5, <2>1, <2>2, <2>3, <2>4 DEF StoreRawSignal
<1>6. ASSUME NEW s \in Signals, FindWorkItem(s)
      PROVE  TypeOK'
  <2>1. pc' \in [Signals -> Stages] /\ permits' \in 0..Concurrency
    BY <1>6, <1>3 DEF FindWorkItem
  <2>2. found' \in [Signals -> Items \cup {NoItem}]
    <3>1. \/ UNCHANGED found
          \/ \E i \in Items \cup {NoItem} : found' = [found EXCEPT ![s] = i]
      BY <1>6 DEF FindWorkItem, NewestActive, ActiveOf, ItemsOf
    <3> QED
      BY <3>1
  <2>3. createdAt' \in [Items -> Nat] /\ now' \in Nat
    <3>1. \/ UNCHANGED <<createdAt, now>>
          \/ createdAt' = [createdAt EXCEPT ![s] = now] /\ now' = now + 1
      BY <1>6 DEF FindWorkItem
    <3> QED
      BY <3>1
  <2>4. alerts' \in [Components -> Nat]
    <3>1. \/ UNCHANGED alerts
          \/ alerts' = [alerts EXCEPT ![ComponentOf[s]] = @ + 1]
      BY <1>6 DEF FindWorkItem, Notify
    <3>2. ComponentOf[s] \in Components
      OBVIOUS
    <3>3. [alerts EXCEPT ![ComponentOf[s]] = @ + 1] \in [Components -> Nat]
      BY <3>2, CounterRaised
    <3> QED
      BY <3>1, <3>3
  <2>5. faults' \in 0..MaxFaults /\ UNCHANGED <<crashes, transitions>>
    BY <1>6, <1>4 DEF FindWorkItem
  <2> QED
    BY <1>6, <2>1, <2>2, <2>3, <2>4, <2>5 DEF FindWorkItem
<1>7. ASSUME NEW s \in Signals, FindOrCreateWorkItem(s)
      PROVE  TypeOK'
  <2>1. pc' \in [Signals -> Stages] /\ permits' \in 0..Concurrency
    BY <1>7, <1>3 DEF FindOrCreateWorkItem
  <2>2. status' \in [Items -> Statuses \cup {"NONE"}]
    BY <1>7 DEF FindOrCreateWorkItem, WriteItem, IncrementCount, InsertItem, Statuses
  <2>3. signalCount' \in [Items -> Nat]
    <3>1. \/ UNCHANGED signalCount
          \/ found[s] # NoItem /\ signalCount' = [signalCount EXCEPT ![found[s]] = @ + 1]
          \/ signalCount' = [signalCount EXCEPT ![s] = 1]
      BY <1>7 DEF FindOrCreateWorkItem, WriteItem, IncrementCount, InsertItem
    <3>2. found[s] # NoItem => found[s] \in Items
      OBVIOUS
    <3>3. CASE found[s] # NoItem /\ signalCount' = [signalCount EXCEPT ![found[s]] = @ + 1]
      BY <3>3, <3>2, CounterRaised
    <3>4. CASE signalCount' = [signalCount EXCEPT ![s] = 1]
      BY <3>4
    <3> QED
      BY <3>1, <3>3, <3>4
  <2>4. credited' \in [Signals -> Items \cup {NoItem}]
    BY <1>7 DEF FindOrCreateWorkItem, WriteItem, WorkItemId
  <2>5. faults' \in 0..MaxFaults /\ UNCHANGED <<crashes, transitions>>
    BY <1>7, <1>4 DEF FindOrCreateWorkItem
  <2> QED
    BY <1>7, <2>1, <2>2, <2>3, <2>4, <2>5 DEF FindOrCreateWorkItem
<1>8. ASSUME NEW s \in Signals, LinkSignal(s)
      PROVE  TypeOK'
  <2>1. pc' \in [Signals -> Stages]
    BY <1>8 DEF LinkSignal
  <2>2. linked' \in [Signals -> Items \cup {NoItem}]
    <3>1. \/ UNCHANGED linked
          \/ linked' = [linked EXCEPT ![s] = WorkItemId(s)]
      BY <1>8 DEF LinkSignal
    <3>2. WorkItemId(s) \in Items \cup {NoItem}
      BY DEF WorkItemId, Items
    <3> QED
      BY <3>1, <3>2
  <2>3. faults' \in 0..MaxFaults /\ UNCHANGED <<crashes, transitions>>
    BY <1>8, <1>4 DEF LinkSignal
  <2> QED
    BY <1>8, <2>1, <2>2, <2>3 DEF LinkSignal
<1>9. ASSUME NEW s \in Signals, InvalidateCache(s)
      PROVE  TypeOK'
  <2>1. pc' \in [Signals -> Stages] /\ permits' \in 0..Concurrency
    BY <1>9, <1>3 DEF InvalidateCache
  <2>2. processed' \in Nat
    BY <1>9 DEF InvalidateCache
  <2>3. faults' \in 0..MaxFaults /\ UNCHANGED <<crashes, transitions>>
    BY <1>9, <1>4 DEF InvalidateCache
  <2> QED
    BY <1>9, <2>1, <2>2, <2>3 DEF InvalidateCache
<1>10. ASSUME NEW s \in Signals, Retry(s)
       PROVE  TypeOK'
  <2>1. pc' \in [Signals -> Stages]
    BY <1>10 DEF Retry
  <2>2. attempt' \in [Signals -> Nat]
    BY <1>10 DEF Retry
  <2> QED
    BY <1>10, <2>1, <2>2 DEF Retry
<1>11. CASE RunWorker
  <2>1. pc' \in [Signals -> Stages]
    BY <1>11 DEF RunWorker
  <2>2. waiters' \in Seq(Signals)
    BY <1>11 DEF RunWorker
  <2>3. queue' \in Seq(Signals) /\ Len(queue') <= QueueMax
    BY <1>11 DEF RunWorker
  <2> QED
    BY <1>11, <2>1, <2>2, <2>3 DEF RunWorker
<1>12. CASE Restart
  <2>1. pc' \in [Signals -> Stages]
    BY <1>12 DEF Restart
  <2>2. queue' \in Seq(Signals) /\ Len(queue') <= QueueMax /\ waiters' \in Seq(Signals)
    BY <1>12 DEF Restart
  <2>3. permits' \in 0..Concurrency /\ processed' \in Nat /\ crashes' \in 0..MaxCrashes
    BY <1>12 DEF Restart
  <2>4. recorded' \in [Components -> Nat]
    BY <1>12 DEF Restart
  <2> QED
    BY <1>12, <2>1, <2>2, <2>3, <2>4 DEF Restart
<1>13. ASSUME NEW i \in Items, TransitionWorkItem(i)
       PROVE  TypeOK'
  <2>1. status' \in [Items -> Statuses \cup {"NONE"}]
    BY <1>13 DEF TransitionWorkItem
  <2>2. transitions' \in 0..MaxTransitions
    BY <1>13 DEF TransitionWorkItem
  <2> QED
    BY <1>13, <2>1, <2>2 DEF TransitionWorkItem
<1>14. CASE UNCHANGED vars
  BY <1>14 DEF vars
<1> QED
  BY <1>1, <1>2, <1>5, <1>6, <1>7, <1>8, <1>9, <1>10, <1>11, <1>12, <1>13, <1>14
     DEF Next, Process, Quiescent

\* Every step keeps the permits accounted for.
LEMMA PermitsStep ==
    ASSUME TypeOK, PermitsAccounted, [Next]_vars
    PROVE  PermitsAccounted'
<1> USE DEF memory, mongo, rows, audit, bounds
<1>1. ASSUME Running' = Running, UNCHANGED permits
      PROVE  PermitsAccounted'
  BY <1>1 DEF PermitsAccounted
<1>2. ASSUME NEW s \in Running, Leave(s, "done") \/ Leave(s, "discarded")
      PROVE  PermitsAccounted'
  <2>1. Running' = Running \ {s}
    BY <1>2 DEF TypeOK, Leave, Running, RunningStages
  <2>2. Cardinality(Running \ {s}) = Cardinality(Running) - 1
    BY RunningFinite, FS_RemoveElement
  <2>3. permits' = permits + 1
    BY <1>2 DEF Leave
  <2> QED
    BY <2>1, <2>2, <2>3, RunningFinite DEF PermitsAccounted, TypeOK
<1>3. ASSUME NEW s \in Running, UNCHANGED permits,
             \E stage \in RunningStages : pc' = [pc EXCEPT ![s] = stage]
      PROVE  PermitsAccounted'
  <2>1. Running' = Running
    BY <1>3 DEF TypeOK, Running
  <2> QED
    BY <1>1, <1>3, <2>1
<1>4. ASSUME NEW s \in Running, Raise(s)
      PROVE  PermitsAccounted'
  BY <1>2, <1>3, <1>4 DEF Raise, RunningStages
<1>5. ASSUME NEW s \in Signals, Ingest(s)
      PROVE  PermitsAccounted'
  <2>1. Running' = Running
    BY <1>5 DEF Ingest, Enqueue, TypeOK, Running, RunningStages
  <2> QED
    BY <1>1, <1>5, <2>1 DEF Ingest
<1>6. ASSUME NEW s \in Signals, Acquire(s)
      PROVE  PermitsAccounted'
  <2>1. Running' = Running \cup {s} /\ s \notin Running
    BY <1>6 DEF Acquire, TypeOK, Running, RunningStages
  <2>2. Cardinality(Running \cup {s}) = Cardinality(Running) + 1
    BY <2>1, RunningFinite, FS_AddElement
  <2>3. permits' = permits - 1
    BY <1>6 DEF Acquire
  <2> QED
    BY <2>1, <2>2, <2>3, RunningFinite DEF PermitsAccounted, TypeOK
<1>7. ASSUME NEW s \in Signals, StoreRawSignal(s)
      PROVE  PermitsAccounted'
  <2>1. s \in Running
    BY <1>7 DEF StoreRawSignal, Running, RunningStages
  <2> QED
    BY <1>3, <1>4, <1>7, <2>1 DEF StoreRawSignal, RunningStages
<1>8. ASSUME NEW s \in Signals, FindWorkItem(s)
      PROVE  PermitsAccounted'
  <2>1. s \in Running
    BY <1>8 DEF FindWorkItem, Running, RunningStages
  <2> QED
    BY <1>3, <1>4, <1>8, <2>1 DEF FindWorkItem, RunningStages
<1>9. ASSUME NEW s \in Signals, FindOrCreateWorkItem(s)
      PROVE  PermitsAccounted'
  <2>1. s \in Running
    BY <1>9 DEF FindOrCreateWorkItem, Running, RunningStages
  <2> QED
    BY <1>3, <1>4, <1>9, <2>1 DEF FindOrCreateWorkItem, RunningStages
<1>10. ASSUME NEW s \in Signals, LinkSignal(s)
       PROVE  PermitsAccounted'
  <2>1. s \in Running
    BY <1>10 DEF LinkSignal, Running, RunningStages
  <2> QED
    BY <1>3, <1>10, <2>1 DEF LinkSignal, RunningStages
<1>11. ASSUME NEW s \in Signals, InvalidateCache(s)
       PROVE  PermitsAccounted'
  <2>1. s \in Running
    BY <1>11 DEF InvalidateCache, Running, RunningStages
  <2> QED
    BY <1>2, <1>4, <1>11, <2>1 DEF InvalidateCache
<1>12. ASSUME NEW s \in Signals, Retry(s)
       PROVE  PermitsAccounted'
  <2>1. s \in Running
    BY <1>12 DEF Retry, Running, RunningStages
  <2> QED
    BY <1>3, <1>12, <2>1 DEF Retry, RunningStages
<1>13. CASE RunWorker
  <2>1. Running' = Running
    BY <1>13 DEF RunWorker, TypeOK, Running, RunningStages
  <2> QED
    BY <1>1, <1>13, <2>1 DEF RunWorker
<1>14. CASE Restart
  <2>1. Running' = {}
    BY <1>14 DEF Restart, TypeOK, Running, RunningStages
  <2>2. Cardinality({}) = 0
    BY FS_EmptySet
  <2>3. permits' = Concurrency
    BY <1>14 DEF Restart
  <2> QED
    BY <2>1, <2>2, <2>3, SettingsAssumption DEF PermitsAccounted
<1>15. ASSUME NEW i \in Items, TransitionWorkItem(i)
       PROVE  PermitsAccounted'
  BY <1>1, <1>15 DEF TransitionWorkItem, Running
<1>16. CASE UNCHANGED vars
  BY <1>1, <1>16 DEF vars, Running
<1> QED
  BY <1>5, <1>6, <1>7, <1>8, <1>9, <1>10, <1>11, <1>12, <1>13, <1>14, <1>15, <1>16
     DEF Next, Process, Quiescent

\* What a COMMIT writes keeps the credits in order, wherever the task goes next.
LEMMA CreditOfWrite ==
    ASSUME TypeOK, CreditInv, NEW s \in Signals, pc[s] = "commit", WriteItem(s),
           pc' \in [Signals -> Stages], pc'[s] \notin {"select", "commit"},
           \A t \in Signals \ {s} : pc'[t] = pc[t],
           UNCHANGED <<stored, linked, found>>
    PROVE  CreditInv'
<1> USE SignalAssumption
<1> USE DEF TypeOK, CreditInv, Items
<1>1. s \in stored /\ credited[s] = NoItem
  BY DEF StoredUncounted
<1>2. WorkItemId(s) \in Items
  BY DEF WorkItemId
<1>3. credited' = [credited EXCEPT ![s] = WorkItemId(s)]
  BY DEF WriteItem
<1>6. \A i \in Items \ {WorkItemId(s)} : CreditedTo(i)' = CreditedTo(i)
  BY <1>1, <1>3 DEF CreditedTo
<1>7. Cardinality(CreditedTo(WorkItemId(s)) \cup {s})
          = Cardinality(CreditedTo(WorkItemId(s))) + 1
  <2>1. IsFiniteSet(CreditedTo(WorkItemId(s)))
    BY FS_Subset DEF CreditedTo
  <2>2. s \notin CreditedTo(WorkItemId(s))
    BY <1>1, <1>2 DEF CreditedTo
  <2> QED
    BY <2>1, <2>2, FS_AddElement
<1>8. found[s] = NoItem => status[s] = "NONE" /\ signalCount[s] = 0
  BY <1>1 DEF RowMatchesCredit
<1>9. signalCount' = [signalCount EXCEPT ![WorkItemId(s)] = @ + 1]
  BY <1>8 DEF WriteItem, IncrementCount, InsertItem, WorkItemId
<1>10. /\ status'[WorkItemId(s)] # "NONE"
       /\ \A i \in Items \ {WorkItemId(s)} : status'[i] = status[i]
  BY DEF WriteItem, IncrementCount, InsertItem, WorkItemId, FoundExists
<1>11. AuditBeforeCount'
  BY <1>1, <1>3 DEF AuditBeforeCount
<1>12. StoredUncounted'
  BY <1>3 DEF StoredUncounted
<1>13. FoundExists'
  BY <1>10 DEF FoundExists
<1>14. LinkReady'
  BY <1>2, <1>3 DEF LinkReady, WorkItemId
<1>15. LinkMatchesCredit'
  BY <1>1, <1>3 DEF LinkMatchesCredit
<1>16. RowMatchesCredit'
  <2>1. ASSUME NEW i \in Items, i # WorkItemId(s)
        PROVE  /\ status'[i] # "NONE" => credited'[i] = i /\ signalCount'[i] > 0
               /\ status'[i] = "NONE" => CreditedTo(i)' = {} /\ signalCount'[i] = 0
    <3>1. credited[i] = i => i # s
      BY <1>1
    <3>2. signalCount'[i] = signalCount[i] /\ status'[i] = status[i]
      BY <2>1, <1>9, <1>10
    <3> QED
      BY <2>1, <1>3, <1>6, <3>1, <3>2 DEF RowMatchesCredit
  <2>2. credited'[WorkItemId(s)] = WorkItemId(s)
    <3>1. CASE found[s] = NoItem
      BY <3>1, <1>3 DEF WorkItemId
    <3>2. CASE found[s] # NoItem
      <4>1. credited[found[s]] = found[s] /\ found[s] \in Items
        BY <3>2 DEF FoundExists, RowMatchesCredit
      <4> QED
        BY <3>2, <4>1, <1>3 DEF WorkItemId
    <3> QED
      BY <3>1, <3>2
  <2>3. signalCount'[WorkItemId(s)] > 0
    BY <1>2, <1>9
  <2> QED
    BY <1>10, <2>1, <2>2, <2>3 DEF RowMatchesCredit
<1>17. CountMatchesCredits'
  <2>1. ASSUME NEW i \in Items, i = WorkItemId(s)
        PROVE  signalCount'[i] = Cardinality(CreditedTo(i)')
    <3>1. CreditedTo(i)' = CreditedTo(i) \cup {s}
      BY <2>1, <1>1, <1>3 DEF CreditedTo
    <3> QED
      BY <2>1, <3>1, <1>7, <1>9 DEF CountMatchesCredits
  <2>2. ASSUME NEW i \in Items, i # WorkItemId(s)
        PROVE  signalCount'[i] = Cardinality(CreditedTo(i)')
    BY <2>2, <1>6, <1>9 DEF CountMatchesCredits
  <2> QED
    BY <2>1, <2>2 DEF CountMatchesCredits
<1> QED
  BY <1>11, <1>12, <1>13, <1>14, <1>15, <1>16, <1>17

\* What no step on credits and rows touches stays in order.
LEMMA RowsUnchanged ==
    ASSUME UNCHANGED credited, UNCHANGED signalCount,
           \A i \in Items : status'[i] = "NONE" <=> status[i] = "NONE"
    PROVE  /\ RowMatchesCredit => RowMatchesCredit'
           /\ CountMatchesCredits => CountMatchesCredits'
<1>1. \A i \in Items : CreditedTo(i)' = CreditedTo(i)
  BY DEF CreditedTo
<1>2. RowMatchesCredit => RowMatchesCredit'
  BY <1>1 DEF RowMatchesCredit
<1>3. CountMatchesCredits => CountMatchesCredits'
  BY <1>1 DEF CountMatchesCredits
<1> QED
  BY <1>2, <1>3

\* Every step keeps the credits in order.
LEMMA CreditStep ==
    ASSUME TypeOK, TypeOK', CreditInv, [Next]_vars
    PROVE  CreditInv'
<1> USE SignalAssumption
<1> USE DEF TypeOK, Items, memory, mongo, rows, audit, bounds
<1>1. ASSUME stored \subseteq stored',
             UNCHANGED <<found, linked, status, signalCount, credited>>,
             \A t \in Signals : pc'[t] \in {"select", "commit", "link"} =>
                 pc'[t] = pc[t]
      PROVE  CreditInv'
  <2>1. AuditBeforeCount' /\ StoredUncounted'
    BY <1>1 DEF CreditInv, AuditBeforeCount, StoredUncounted
  <2>2. FoundExists'
    BY <1>1 DEF CreditInv, FoundExists
  <2>3. LinkReady'
    BY <1>1 DEF CreditInv, LinkReady, WorkItemId
  <2>4. LinkMatchesCredit' /\ RowMatchesCredit' /\ CountMatchesCredits'
    BY <1>1, RowsUnchanged DEF CreditInv, LinkMatchesCredit
  <2> QED
    BY <2>1, <2>2, <2>3, <2>4 DEF CreditInv
<1>2. ASSUME NEW s \in Signals,
             Raise(s) \/ Leave(s, "done") \/ pc' = [pc EXCEPT ![s] = "invalidate"]
      PROVE  \A t \in Signals : pc'[t] \in {"select", "commit", "link"} =>
                 pc'[t] = pc[t] /\ t # s
  <2>1. \E stage \in {"backoff", "discarded", "done", "invalidate"} :
            pc' = [pc EXCEPT ![s] = stage]
    BY <1>2 DEF Raise, Leave
  <2> QED
    BY <2>1
<1>3. ASSUME NEW s \in Signals, StoreRawSignal(s)
      PROVE  CreditInv'
  <2>1. CASE InsertOne(s) /\ pc' = [pc EXCEPT ![s] = "select"]
    <3>1. stored' = stored \cup {s} /\ credited[s] = NoItem
      BY <2>1 DEF InsertOne, CreditInv, AuditBeforeCount
    <3>2. UNCHANGED <<found, linked, status, signalCount, credited>>
      BY <1>3 DEF StoreRawSignal
    <3>3. AuditBeforeCount' /\ StoredUncounted'
      BY <2>1, <3>1, <3>2 DEF CreditInv, AuditBeforeCount, StoredUncounted
    <3>4. FoundExists'
      BY <2>1, <3>2 DEF CreditInv, FoundExists
    <3>5. LinkReady'
      BY <2>1, <3>2 DEF CreditInv, LinkReady, WorkItemId
    <3>6. LinkMatchesCredit' /\ RowMatchesCredit' /\ CountMatchesCredits'
      BY <3>2, RowsUnchanged DEF CreditInv, LinkMatchesCredit
    <3> QED
      BY <3>3, <3>4, <3>5, <3>6 DEF CreditInv
  <2>2. CASE Raise(s) /\ stored \subseteq stored'
    BY <1>1, <1>2, <1>3, <2>2 DEF StoreRawSignal
  <2> QED
    BY <1>3, <2>1, <2>2 DEF StoreRawSignal
<1>4. ASSUME NEW s \in Signals, FindWorkItem(s)
      PROVE  CreditInv'
  <2>1. CASE Raise(s) /\ UNCHANGED found
    BY <1>1, <1>2, <1>4, <2>1 DEF FindWorkItem
  <2>2. CASE /\ pc' = [pc EXCEPT ![s] = "commit"]
             /\ \E i \in NewestActive(ComponentOf[s]) \cup {NoItem} :
                    found' = [found EXCEPT ![s] = i]
    <3>1. UNCHANGED <<stored, linked, status, signalCount, credited>>
      BY <1>4 DEF FindWorkItem
    <3>2. AuditBeforeCount' /\ StoredUncounted'
      BY <1>4, <2>2, <3>1 DEF FindWorkItem, CreditInv, AuditBeforeCount, StoredUncounted
    <3>3. FoundExists'
      BY <2>2, <3>1 DEF CreditInv, FoundExists, NewestActive, ActiveOf, ItemsOf
    <3>4. LinkReady'
      BY <2>2, <3>1 DEF CreditInv, LinkReady, WorkItemId
    <3>5. LinkMatchesCredit' /\ RowMatchesCredit' /\ CountMatchesCredits'
      BY <3>1, RowsUnchanged DEF CreditInv, LinkMatchesCredit
    <3> QED
      BY <3>2, <3>3, <3>4, <3>5 DEF CreditInv
  <2> QED
    BY <1>4, <2>1, <2>2 DEF FindWorkItem
<1>5. ASSUME NEW s \in Signals, FindOrCreateWorkItem(s)
      PROVE  CreditInv'
  <2>1. CASE WriteItem(s)
    BY <1>5, <2>1, CreditOfWrite DEF FindOrCreateWorkItem, Raise, Leave
  <2>2. CASE Raise(s) /\ UNCHANGED <<status, signalCount, credited>>
    BY <1>1, <1>2, <1>5, <2>2 DEF FindOrCreateWorkItem
  <2> QED
    BY <1>5, <2>1, <2>2 DEF FindOrCreateWorkItem
<1>6. ASSUME NEW s \in Signals, LinkSignal(s)
      PROVE  CreditInv'
  <2>1. UNCHANGED <<found, stored, status, signalCount, credited>>
    BY <1>6 DEF LinkSignal
  <2>2. pc' = [pc EXCEPT ![s] = "invalidate"]
    BY <1>6 DEF LinkSignal
  <2>3. AuditBeforeCount' /\ StoredUncounted'
    BY <2>1, <2>2 DEF CreditInv, AuditBeforeCount, StoredUncounted
  <2>4. FoundExists'
    BY <2>1, <2>2 DEF CreditInv, FoundExists
  <2>5. LinkReady'
    BY <2>1, <2>2 DEF CreditInv, LinkReady, WorkItemId
  <2>6. RowMatchesCredit' /\ CountMatchesCredits'
    BY <2>1, RowsUnchanged DEF CreditInv
  <2>7. LinkMatchesCredit'
    <3>1. credited[s] = WorkItemId(s)
      BY <1>6 DEF LinkSignal, CreditInv, LinkReady
    <3> QED
      BY <1>6, <3>1, <2>1 DEF LinkSignal, CreditInv, LinkMatchesCredit
  <2> QED
    BY <2>3, <2>4, <2>5, <2>6, <2>7 DEF CreditInv
<1>7. ASSUME NEW i \in Items, TransitionWorkItem(i)
      PROVE  CreditInv'
  <2>1. UNCHANGED <<pc, found, stored, linked, signalCount, credited>>
    BY <1>7 DEF TransitionWorkItem
  <2>2. \A j \in Items : status'[j] = "NONE" <=> status[j] = "NONE"
    BY <1>7 DEF TransitionWorkItem, Statuses
  <2>3. AuditBeforeCount' /\ StoredUncounted' /\ LinkMatchesCredit'
    BY <2>1 DEF CreditInv, AuditBeforeCount, StoredUncounted, LinkMatchesCredit
  <2>4. LinkReady'
    BY <2>1 DEF CreditInv, LinkReady, WorkItemId
  <2>5. FoundExists'
    BY <2>1, <2>2 DEF CreditInv, FoundExists
  <2>6. RowMatchesCredit' /\ CountMatchesCredits'
    BY <2>1, <2>2, RowsUnchanged DEF CreditInv
  <2> QED
    BY <2>3, <2>4, <2>5, <2>6 DEF CreditInv
<1>8. ASSUME NEW s \in Signals, Ingest(s) \/ Acquire(s) \/ Retry(s)
      PROVE  CreditInv'
  <2>1. CASE Ingest(s)
    <3>1. \E stage \in {"limited", "queued", "dropped"} :
              pc' = [pc EXCEPT ![s] = stage]
      BY <2>1 DEF Ingest, Enqueue
    <3>2. UNCHANGED <<stored, found, linked, status, signalCount, credited>>
      BY <2>1 DEF Ingest
    <3>3. \A t \in Signals : pc'[t] \in {"select", "commit", "link"} => pc'[t] = pc[t]
      BY <3>1
    <3> QED
      BY <1>1, <3>2, <3>3
  <2>2. CASE Acquire(s)
    BY <1>1, <2>2 DEF Acquire
  <2>3. CASE Retry(s)
    BY <1>1, <2>3 DEF Retry
  <2> QED
    BY <1>8, <2>1, <2>2, <2>3
<1>9. ASSUME NEW s \in Signals, InvalidateCache(s)
      PROVE  CreditInv'
  BY <1>1, <1>2, <1>9 DEF InvalidateCache
<1>10. CASE RunWorker
  BY <1>1, <1>10 DEF RunWorker
<1>11. CASE Restart
  BY <1>1, <1>11 DEF Restart
<1>12. CASE UNCHANGED vars
  BY <1>1, <1>12 DEF vars
<1> QED
  BY <1>3, <1>4, <1>5, <1>6, <1>7, <1>8, <1>9, <1>10, <1>11, <1>12
     DEF Next, Process, Quiescent

\* A part of a finite set is no larger than the set.
LEMMA PartBound ==
    ASSUME NEW S, IsFiniteSet(S), NEW T, T \subseteq S
    PROVE  Cardinality(S) \in Nat /\ Cardinality(T) \in Nat
           /\ Cardinality(T) <= Cardinality(S)
BY FS_Subset, FS_CardinalityType

\* Items and openings of a component are signals, hence finitely many.
LEMMA CoveredFinite ==
    ASSUME NEW c
    PROVE  /\ IsFiniteSet(ItemsOf(c) \cup Opening(c))
           /\ Cardinality(ItemsOf(c) \cup Opening(c)) \in Nat
BY SignalAssumption, FS_Subset, FS_CardinalityType DEF ItemsOf, Opening, Items

\* A step after which every item and every opening was one before.
NothingJoins ==
    /\ \A i \in Items : status'[i] # "NONE" =>
           \/ status[i] # "NONE"
           \/ pc[i] = "commit" /\ found[i] = NoItem
    /\ \A t \in Signals : pc'[t] = "commit" /\ found'[t] = NoItem =>
           pc[t] = "commit" /\ found[t] = NoItem

\* The SELECT of a signal finds no active item.
Opens(s) ==
    /\ NewestActive(ComponentOf[s]) = {}
    /\ UNCHANGED <<status, resolved>>
    /\ pc' = [pc EXCEPT ![s] = "commit"]
    /\ found' = [found EXCEPT ![s] = NoItem]
    /\ Notify(ComponentOf[s])

\* As long as nothing joins them, the alerts sent so far cover them.
LEMMA CoverKept ==
    ASSUME alerts \in [Components -> Nat], AlertsCover, UNCHANGED alerts, NothingJoins
    PROVE  AlertsCover'
<1> SUFFICES ASSUME NEW c \in Components
             PROVE  Cardinality(ItemsOf(c)' \cup Opening(c)') <= alerts[c]
  BY DEF AlertsCover
<1> DEFINE Before == ItemsOf(c) \cup Opening(c)
           After  == ItemsOf(c)' \cup Opening(c)'
<1>1. After \subseteq Before
  BY DEF NothingJoins, ItemsOf, Opening, Items
<1>2. IsFiniteSet(Before) /\ Cardinality(Before) <= alerts[c]
  BY CoveredFinite DEF AlertsCover
<1> HIDE DEF Before, After
<1>3. /\ Cardinality(Before) \in Nat /\ Cardinality(After) \in Nat
      /\ Cardinality(After) <= Cardinality(Before)
  BY <1>1, <1>2, PartBound
<1>4. Cardinality(After) <= alerts[c]
  BY <1>2, <1>3
<1> QED
  BY <1>4 DEF After

\* One more alert covers one more opening.
LEMMA CoverGrown ==
    ASSUME alerts \in [Components -> Nat], AlertsCover, NEW s \in Signals,
           pc \in [Signals -> Stages], found \in [Signals -> Items \cup {NoItem}], Opens(s)
    PROVE  AlertsCover'
<1> SUFFICES ASSUME NEW c \in Components
             PROVE  Cardinality(ItemsOf(c)' \cup Opening(c)') <= alerts'[c]
  BY DEF AlertsCover
<1> DEFINE Before == ItemsOf(c) \cup Opening(c)
           After  == ItemsOf(c)' \cup Opening(c)'
<1>1. After \subseteq IF ComponentOf[s] = c THEN Before \cup {s} ELSE Before
  BY DEF Opens, ItemsOf, Opening, Items
<1>2. /\ IsFiniteSet(Before) /\ Cardinality(Before) \in Nat
      /\ Cardinality(Before) <= alerts[c]
  BY CoveredFinite DEF AlertsCover
<1>3. alerts'[c] = IF ComponentOf[s] = c THEN alerts[c] + 1 ELSE alerts[c]
  BY DEF Opens, Notify
<1> HIDE DEF Before, After
<1>4. /\ IsFiniteSet(Before \cup {s})
      /\ Cardinality(Before \cup {s}) \in {Cardinality(Before), Cardinality(Before) + 1}
  BY <1>2, FS_AddElement
<1>5. CASE ComponentOf[s] = c
  <2>1. /\ Cardinality(Before \cup {s}) \in Nat /\ Cardinality(After) \in Nat
        /\ Cardinality(After) <= Cardinality(Before \cup {s})
    BY <1>1, <1>4, <1>5, PartBound
  <2>2. Cardinality(After) <= alerts'[c]
    BY <1>2, <1>3, <1>4, <1>5, <2>1
  <2> QED
    BY <2>2 DEF After
<1>6. CASE ComponentOf[s] # c
  <2>1. Cardinality(After) \in Nat /\ Cardinality(After) <= Cardinality(Before)
    BY <1>1, <1>2, <1>6, PartBound
  <2>2. Cardinality(After) <= alerts'[c]
    BY <1>2, <1>3, <1>6, <2>1
  <2> QED
    BY <2>2 DEF After
<1> QED
  BY <1>5, <1>6

\* Only a SELECT that finds nothing makes an opening, and alerts.
LEMMA OpeningStep ==
    ASSUME TypeOK, [Next]_vars
    PROVE  \/ NothingJoins /\ UNCHANGED alerts
           \/ \E s \in Signals : Opens(s)
<1> DEFINE Unopened == NothingJoins /\ UNCHANGED alerts
<1> USE SignalAssumption
<1> USE DEF TypeOK, Items, memory, mongo, rows, audit, bounds
<1>1. ASSUME UNCHANGED alerts,
             \A i \in Items : status'[i] # "NONE" =>
                 \/ status[i] # "NONE"
                 \/ pc[i] = "commit" /\ found[i] = NoItem,
             \A t \in Signals : pc'[t] = "commit" /\ found'[t] = NoItem =>
                 pc[t] = "commit" /\ found[t] = NoItem
      PROVE  Unopened
  BY <1>1 DEF NothingJoins
<1> HIDE DEF Unopened
<1>2. ASSUME NEW s \in Signals, UNCHANGED found,
             Raise(s) \/ Leave(s, "done") \/ pc' = [pc EXCEPT ![s] = "link"]
      PROVE  \A t \in Signals : pc'[t] = "commit" /\ found'[t] = NoItem =>
                 pc[t] = "commit" /\ found[t] = NoItem
  <2>1. \E stage \in {"backoff", "discarded", "done", "link"} :
            pc' = [pc EXCEPT ![s] = stage]
    BY <1>2 DEF Raise, Leave
  <2> QED
    BY <1>2, <2>1
<1>3. ASSUME NEW s \in Signals, StoreRawSignal(s)
      PROVE  Unopened
  <2>1. UNCHANGED <<alerts, status, found>>
    BY <1>3 DEF StoreRawSignal
  <2>2. CASE pc' = [pc EXCEPT ![s] = "select"]
    BY <1>1, <2>1, <2>2
  <2>3. CASE Raise(s)
    BY <1>1, <1>2, <2>1, <2>3
  <2> QED
    BY <1>3, <2>2, <2>3 DEF StoreRawSignal
<1>4. ASSUME NEW s \in Signals, FindWorkItem(s)
      PROVE  Unopened \/ Opens(s)
  <2>1. UNCHANGED status
    BY <1>4 DEF FindWorkItem
  <2>2. CASE \E i \in NewestActive(ComponentOf[s]) :
                 /\ found' = [found EXCEPT ![s] = i]
                 /\ pc' = [pc EXCEPT ![s] = "commit"]
                 /\ UNCHANGED alerts
    <3>1. PICK i \in Items : /\ found' = [found EXCEPT ![s] = i]
                             /\ pc' = [pc EXCEPT ![s] = "commit"]
      BY <2>2 DEF NewestActive, ActiveOf, ItemsOf
    <3>2. \A t \in Signals : pc'[t] = "commit" /\ found'[t] = NoItem =>
              pc[t] = "commit" /\ found[t] = NoItem
      <4>1. i # NoItem
        OBVIOUS
      <4>2. \A t \in Signals : found'[t] = IF t = s THEN i ELSE found[t]
        BY <3>1
      <4>3. \A t \in Signals : pc'[t] = IF t = s THEN "commit" ELSE pc[t]
        BY <3>1
      <4> QED
        BY <4>1, <4>2, <4>3
    <3> QED
      BY <1>1, <2>1, <2>2, <3>2
  <2>3. CASE Raise(s) /\ UNCHANGED <<found, alerts>>
    BY <1>1, <1>2, <2>1, <2>3
  <2>4. CASE /\ NewestActive(ComponentOf[s]) = {}
             /\ found' = [found EXCEPT ![s] = NoItem]
             /\ pc' = [pc EXCEPT ![s] = "commit"]
             /\ Notify(ComponentOf[s])
    <3>1. UNCHANGED <<status, resolved>>
      BY <1>4 DEF FindWorkItem
    <3> QED
      BY <2>4, <3>1 DEF Opens
  <2> QED
    BY <1>4, <2>2, <2>3, <2>4 DEF FindWorkItem
<1>5. ASSUME NEW s \in Signals, FindOrCreateWorkItem(s)
      PROVE  Unopened
  <2>1. UNCHANGED <<alerts, found>> /\ pc[s] = "commit"
    BY <1>5 DEF FindOrCreateWorkItem
  <2>2. \A i \in Items : status'[i] # "NONE" =>
            \/ status[i] # "NONE"
            \/ pc[i] = "commit" /\ found[i] = NoItem
    BY <1>5, <2>1 DEF FindOrCreateWorkItem, WriteItem, IncrementCount, InsertItem
  <2>3. Raise(s) \/ pc' = [pc EXCEPT ![s] = "link"]
    BY <1>5 DEF FindOrCreateWorkItem
  <2> QED
    BY <1>1, <1>2, <2>1, <2>2, <2>3
<1>6. ASSUME NEW s \in Signals, LinkSignal(s)
      PROVE  Unopened
  BY <1>1, <1>6 DEF LinkSignal
<1>7. ASSUME NEW s \in Signals, InvalidateCache(s)
      PROVE  Unopened
  <2>1. UNCHANGED <<alerts, status, found>>
    BY <1>7 DEF InvalidateCache
  <2> QED
    BY <1>1, <1>2, <1>7, <2>1 DEF InvalidateCache
<1>8. ASSUME NEW s \in Signals, Ingest(s) \/ Acquire(s) \/ Retry(s)
      PROVE  Unopened
  BY <1>1, <1>8 DEF Ingest, Enqueue, Acquire, Retry
<1>9. ASSUME RunWorker
      PROVE  Unopened
  BY <1>1, <1>9 DEF RunWorker
<1>10. ASSUME Restart
       PROVE  Unopened
  BY <1>1, <1>10 DEF Restart
<1>11. ASSUME NEW i \in Items, TransitionWorkItem(i)
       PROVE  Unopened
  <2>1. UNCHANGED <<alerts, pc, found>>
    BY <1>11 DEF TransitionWorkItem
  <2>2. \A j \in Items : status'[j] # "NONE" => status[j] # "NONE"
    BY <1>11 DEF TransitionWorkItem, Statuses
  <2> QED
    BY <1>1, <2>1, <2>2
<1>12. ASSUME UNCHANGED vars
       PROVE  Unopened
  BY <1>1, <1>12 DEF vars
<1> QED
  BY <1>3, <1>4, <1>5, <1>6, <1>7, <1>8, <1>9, <1>10, <1>11, <1>12
     DEF Next, Process, Quiescent, Unopened

\* Every step keeps an alert for each item and each opening.
LEMMA AlertStep ==
    ASSUME TypeOK, AlertsCover, [Next]_vars
    PROVE  AlertsCover'
BY OpeningStep, CoverKept, CoverGrown DEF TypeOK

-----------------------------------------------------------------------------
\* The invariant holds in every reachable state.
THEOREM PipelineInvariant == Spec => []PipelineInv
<1>1. Init => PipelineInv
  <2> SUFFICES ASSUME Init
               PROVE  PipelineInv
    OBVIOUS
  <2> USE SignalAssumption, SettingsAssumption, BoundAssumption DEF Init, Items
  <2>1. TypeOK
    BY DEF TypeOK, Stages, BufferedStages
  <2>2. PermitsAccounted
    <3>1. Running = {}
      BY DEF Running, RunningStages
    <3> QED
      BY <3>1, FS_EmptySet DEF PermitsAccounted
  <2>3. \A i \in Items : CreditedTo(i) = {}
    BY DEF CreditedTo
  <2>4. CreditInv
    BY <2>3, FS_EmptySet
       DEF CreditInv, AuditBeforeCount, StoredUncounted, FoundExists, LinkReady,
           LinkMatchesCredit, RowMatchesCredit, CountMatchesCredits
  <2>5. AlertsCover
    <3> SUFFICES ASSUME NEW c \in Components
                 PROVE  Cardinality(ItemsOf(c) \cup Opening(c)) <= alerts[c]
      BY DEF AlertsCover
    <3>1. ItemsOf(c) \cup Opening(c) = {}
      BY DEF ItemsOf, Opening
    <3>2. Cardinality(ItemsOf(c) \cup Opening(c)) = 0
      BY <3>1, FS_EmptySet
    <3> QED
      BY <3>2
  <2> QED
    BY <2>1, <2>2, <2>4, <2>5 DEF PipelineInv
<1>2. PipelineInv /\ [Next]_vars => PipelineInv'
  BY TypeStep, PermitsStep, CreditStep, AlertStep DEF PipelineInv
<1> QED
  BY <1>1, <1>2, PTL DEF Spec

\* Types are kept, the queue within its capacity and the semaphore within its
\* permits.
THEOREM TypeCorrect == Spec => []TypeOK
<1>1. PipelineInv => TypeOK
  BY DEF PipelineInv
<1> QED
  BY <1>1, PipelineInvariant, PTL

\* No path through _process_one loses or forges a permit.
THEOREM PermitsCorrect == Spec => []PermitsAccounted
<1>1. PipelineInv => PermitsAccounted
  BY DEF PipelineInv
<1> QED
  BY <1>1, PipelineInvariant, PTL

\* No signal is counted that the audit log lacks.
THEOREM AuditCorrect == Spec => []AuditBeforeCount
<1>1. PipelineInv => AuditBeforeCount
  BY DEF PipelineInv, CreditInv
<1> QED
  BY <1>1, PipelineInvariant, PTL

\* signal_count is the number of distinct signals credited to the item.
THEOREM CountCorrect == Spec => []CountMatchesCredits
<1>1. PipelineInv => CountMatchesCredits
  BY DEF PipelineInv, CreditInv
<1> QED
  BY <1>1, PipelineInvariant, PTL

\* A document points to the item that counted its signal, or to none.
THEOREM LinkCorrect == Spec => []LinkMatchesCredit
<1>1. PipelineInv => LinkMatchesCredit
  BY DEF PipelineInv, CreditInv
<1> QED
  BY <1>1, PipelineInvariant, PTL

\* Every work item of a component had its own alert.
THEOREM AlertCorrect == Spec => []AlertBeforeItem
<1>1. PipelineInv => AlertBeforeItem
  <2> SUFFICES ASSUME PipelineInv, NEW c \in Components
               PROVE  Cardinality(ItemsOf(c)) <= alerts[c]
    BY DEF AlertBeforeItem
  <2>1. /\ Cardinality(ItemsOf(c) \cup Opening(c)) <= alerts[c]
        /\ alerts[c] \in Nat
    BY DEF PipelineInv, AlertsCover, TypeOK
  <2>2. /\ Cardinality(ItemsOf(c) \cup Opening(c)) \in Nat
        /\ Cardinality(ItemsOf(c)) \in Nat
        /\ Cardinality(ItemsOf(c)) <= Cardinality(ItemsOf(c) \cup Opening(c))
    BY CoveredFinite, PartBound
  <2> QED
    BY <2>1, <2>2
<1> QED
  BY <1>1, PipelineInvariant, PTL

-----------------------------------------------------------------------------
(***************************************************************************)
(* Nothing that was accepted is forgotten: the queue and the line at the   *)
(* semaphore hold exactly the signals that are waiting there, each once.   *)
(***************************************************************************)
Backlog ==
    /\ \A s \in Signals : Contains(queue, s) <=> pc[s] = "queued"
    /\ \A s \in Signals : Contains(waiters, s) <=> pc[s] = "waiting"
    /\ IsInjective(queue) /\ IsInjective(waiters)

\* One more at the end of a sequence.
LEMMA AppendHolds ==
    ASSUME NEW S, NEW q \in Seq(S), NEW x \in S
    PROVE  /\ \A y : Contains(Append(q, x), y) <=> Contains(q, y) \/ y = x
           /\ IsInjective(q) /\ ~Contains(q, x) => IsInjective(Append(q, x))
<1>1. /\ Len(q) \in Nat /\ DOMAIN q = 1..Len(q)
      /\ Len(Append(q, x)) = Len(q) + 1 /\ DOMAIN Append(q, x) = 1..Len(q) + 1
      /\ \A k \in 1..Len(q) : Append(q, x)[k] = q[k]
      /\ Append(q, x)[Len(q) + 1] = x
  OBVIOUS
<1>2. \A k \in 1..Len(q) + 1 : k \in 1..Len(q) \/ k = Len(q) + 1
  BY <1>1
<1>3. 1..Len(q) \subseteq 1..Len(q) + 1 /\ Len(q) + 1 \in 1..Len(q) + 1
  BY <1>1
<1>4. \A y : Contains(Append(q, x), y) <=> Contains(q, y) \/ y = x
  BY <1>1, <1>2, <1>3 DEF Contains
<1>5. IsInjective(q) /\ ~Contains(q, x) => IsInjective(Append(q, x))
  BY <1>1, <1>2 DEF Contains, IsInjective
<1> QED
  BY <1>4, <1>5

\* A sequence without its first.
LEMMA TailHolds ==
    ASSUME NEW S, NEW q \in Seq(S), q # <<>>, IsInjective(q)
    PROVE  /\ \A y : Contains(Tail(q), y) <=> Contains(q, y) /\ y # Head(q)
           /\ IsInjective(Tail(q)) /\ Contains(q, Head(q))
<1>1. /\ Len(q) \in Nat \ {0} /\ DOMAIN q = 1..Len(q) /\ Head(q) = q[1]
      /\ Len(Tail(q)) = Len(q) - 1 /\ DOMAIN Tail(q) = 1..Len(q) - 1
      /\ \A k \in 1..Len(q) - 1 : Tail(q)[k] = q[k + 1]
  OBVIOUS
<1>2. \A k \in 1..Len(q) - 1 : k + 1 \in 1..Len(q) /\ k + 1 # 1
  BY <1>1
<1>3. \A k \in 1..Len(q) : k # 1 => k - 1 \in 1..Len(q) - 1 /\ (k - 1) + 1 = k
  BY <1>1
<1>4. 1 \in 1..Len(q)
  BY <1>1
<1>5. ASSUME NEW y, Contains(Tail(q), y)
      PROVE  Contains(q, y) /\ y # Head(q)
  <2>1. PICK k \in 1..Len(q) - 1 : q[k + 1] = y
    BY <1>1, <1>5 DEF Contains
  <2> QED
    BY <1>1, <1>2, <1>4, <2>1 DEF Contains, IsInjective
<1>6. ASSUME NEW y, Contains(q, y), y # Head(q)
      PROVE  Contains(Tail(q), y)
  <2>1. PICK k \in 1..Len(q) : q[k] = y
    BY <1>6 DEF Contains
  <2>2. k - 1 \in 1..Len(q) - 1 /\ Tail(q)[k - 1] = y
    BY <1>1, <1>3, <1>6, <2>1
  <2> QED
    BY <1>1, <2>2 DEF Contains
<1>7. IsInjective(Tail(q))
  <2> SUFFICES ASSUME NEW j \in 1..Len(q) - 1, NEW k \in 1..Len(q) - 1,
                      Tail(q)[j] = Tail(q)[k]
               PROVE  j = k
    BY <1>1 DEF IsInjective
  <2>1. j + 1 = k + 1
    BY <1>1, <1>2 DEF IsInjective
  <2> QED
    BY <2>1
<1> QED
  BY <1>1, <1>4, <1>5, <1>6, <1>7 DEF Contains

\* One sequence after another.
LEMMA ConcatHolds ==
    ASSUME NEW S, NEW p \in Seq(S), NEW q \in Seq(S)
    PROVE  /\ \A y : Contains(p \o q, y) <=> Contains(p, y) \/ Contains(q, y)
           /\ IsInjective(p) /\ IsInjective(q)
                  /\ (\A y : ~(Contains(p, y) /\ Contains(q, y))) => IsInjective(p \o q)
<1> DEFINE m == Len(p)
           n == Len(q)
<1>1. /\ m \in Nat /\ n \in Nat /\ DOMAIN p = 1..m /\ DOMAIN q = 1..n
      /\ Len(p \o q) = m + n /\ DOMAIN (p \o q) = 1..m + n
      /\ \A k \in 1..m + n : (p \o q)[k] = IF k <= m THEN p[k] ELSE q[k - m]
  OBVIOUS
<1> HIDE DEF m, n
<1>2. /\ \A k \in 1..m : k \in 1..m + n /\ k <= m
      /\ \A k \in 1..n : k + m \in 1..m + n /\ ~(k + m <= m) /\ (k + m) - m = k
      /\ \A k \in 1..m + n : (k <= m => k \in 1..m) /\ (~(k <= m) => k - m \in 1..n)
  BY <1>1
<1>3. ASSUME NEW y, Contains(p, y) \/ Contains(q, y)
      PROVE  Contains(p \o q, y)
  <2>1. CASE Contains(p, y)
    BY <1>1, <1>2, <2>1 DEF Contains, m
  <2>2. CASE Contains(q, y)
    <3>1. PICK k \in 1..n : q[k] = y
      BY <2>2 DEF Contains, n
    <3>2. (p \o q)[k + m] = y /\ k + m \in 1..m + n
      BY <1>1, <1>2, <3>1
    <3> QED
      BY <1>1, <3>2 DEF Contains
  <2> QED
    BY <1>3, <2>1, <2>2
<1>4. ASSUME NEW y, Contains(p \o q, y)
      PROVE  Contains(p, y) \/ Contains(q, y)
  <2>1. PICK k \in 1..m + n : (p \o q)[k] = y
    BY <1>1, <1>4 DEF Contains
  <2> QED
    BY <1>1, <1>2, <2>1 DEF Contains, m, n
<1>5. ASSUME IsInjective(p), IsInjective(q), \A y : ~(Contains(p, y) /\ Contains(q, y))
      PROVE  IsInjective(p \o q)
  <2> SUFFICES ASSUME NEW j \in 1..m + n, NEW k \in 1..m + n, (p \o q)[j] = (p \o q)[k]
               PROVE  j = k
    BY <1>1 DEF IsInjective
  <2>1. CASE j <= m /\ k <= m
    BY <1>1, <1>2, <1>5, <2>1 DEF IsInjective
  <2>2. CASE ~(j <= m) /\ ~(k <= m)
    <3>1. j - m = k - m
      BY <1>1, <1>2, <1>5, <2>2 DEF IsInjective
    <3> QED
      BY <1>1, <3>1
  <2>3. \A i \in 1..m : \A l \in 1..n : p[i] # q[l]
    BY <1>5 DEF Contains, m, n
  <2> QED
    BY <1>1, <1>2, <2>1, <2>2, <2>3
<1> QED
  BY <1>3, <1>4, <1>5

\* A task past the semaphore has a permit until _process_one ends, and neither the queue
\* nor the line changes.
LEMMA TaskFrame ==
    ASSUME TypeOK, NEW s \in Signals, Process(s), ~Acquire(s)
    PROVE  /\ UNCHANGED <<queue, waiters>>
           /\ pc[s] \in RunningStages
           /\ pc'[s] \in RunningStages \cup {"done", "discarded"}
           /\ \A t \in Signals \ {s} : pc'[t] = pc[t]
<1> USE DEF TypeOK, RunningStages, Raise, Leave
<1>1. CASE StoreRawSignal(s)
  BY <1>1 DEF StoreRawSignal
<1>2. CASE FindWorkItem(s)
  BY <1>2 DEF FindWorkItem
<1>3. CASE FindOrCreateWorkItem(s)
  BY <1>3 DEF FindOrCreateWorkItem
<1>4. CASE LinkSignal(s)
  BY <1>4 DEF LinkSignal
<1>5. CASE InvalidateCache(s)
  BY <1>5 DEF InvalidateCache
<1>6. CASE Retry(s)
  BY <1>6 DEF Retry
<1> QED
  BY <1>1, <1>2, <1>3, <1>4, <1>5, <1>6 DEF Process

\* No step loses or doubles a signal that waits.
LEMMA BacklogStep ==
    ASSUME TypeOK, Backlog, [Next]_vars
    PROVE  Backlog'
<1>0. queue \in Seq(Signals) /\ waiters \in Seq(Signals)
  BY DEF TypeOK
<1>1. ASSUME queue' = queue, waiters' = waiters,
             \A t \in Signals : /\ pc'[t] = "queued" <=> pc[t] = "queued"
                                /\ pc'[t] = "waiting" <=> pc[t] = "waiting"
      PROVE  Backlog'
  <2>1. /\ \A t \in Signals : Contains(queue, t)' <=> pc'[t] = "queued"
        /\ \A t \in Signals : Contains(waiters, t)' <=> pc'[t] = "waiting"
    BY <1>1 DEF Backlog
  <2>2. IsInjective(queue)' /\ IsInjective(waiters)'
    BY <1>1 DEF Backlog
  <2> QED
    BY <2>1, <2>2 DEF Backlog
<1>2. ASSUME NEW s \in Signals, Ingest(s)
      PROVE  Backlog'
  <2>1. /\ pc[s] = "new" /\ UNCHANGED waiters
        /\ \A t \in Signals \ {s} : pc'[t] = pc[t]
    BY <1>2 DEF Ingest, Enqueue, TypeOK
  <2>2. CASE pc'[s] = "queued" /\ queue' = Append(queue, s)
    <3>1. ~Contains(queue, s)
      BY <2>1 DEF Backlog
    <3>2. \A y : Contains(Append(queue, s), y) <=> Contains(queue, y) \/ y = s
      BY <1>0, AppendHolds
    <3>3. IsInjective(Append(queue, s))
      BY <1>0, <3>1, AppendHolds DEF Backlog
    <3> QED
      BY <2>1, <2>2, <3>2, <3>3 DEF Backlog
  <2>3. CASE pc'[s] \in {"limited", "dropped"} /\ UNCHANGED queue
    BY <1>1, <2>1, <2>3
  <2> QED
    BY <1>2, <2>2, <2>3 DEF Ingest, Enqueue, TypeOK
<1>3. ASSUME NEW s \in Signals, Acquire(s)
      PROVE  Backlog'
  <2>1. /\ waiters # <<>> /\ s = Head(waiters) /\ waiters' = Tail(waiters)
        /\ UNCHANGED queue /\ pc[s] = "waiting" /\ pc'[s] = "store"
        /\ \A t \in Signals \ {s} : pc'[t] = pc[t]
    BY <1>3 DEF Acquire, TypeOK
  <2>2. /\ \A y : Contains(Tail(waiters), y) <=> Contains(waiters, y) /\ y # s
        /\ IsInjective(Tail(waiters))
    BY <1>0, <2>1, TailHolds DEF Backlog
  <2> QED
    BY <2>1, <2>2 DEF Backlog
<1>4. ASSUME NEW s \in Signals, Process(s), ~Acquire(s)
      PROVE  Backlog'
  <2>1. /\ UNCHANGED <<queue, waiters>>
        /\ pc[s] \in RunningStages
        /\ pc'[s] \in RunningStages \cup {"done", "discarded"}
        /\ \A t \in Signals \ {s} : pc'[t] = pc[t]
    BY <1>4, TaskFrame
  <2> QED
    BY <1>1, <2>1 DEF RunningStages
<1>5. CASE RunWorker
  <2>1. /\ queue' = <<>> /\ waiters' = waiters \o queue
        /\ pc' = [t \in Signals |-> IF pc[t] = "queued" THEN "waiting" ELSE pc[t]]
    BY <1>5 DEF RunWorker
  <2>2. \A y : Contains(waiters \o queue, y) <=> Contains(waiters, y) \/ Contains(queue, y)
    BY <1>0, ConcatHolds
  <2>3. IsInjective(waiters \o queue)
    <3>1. \A y : Contains(waiters, y) => y \in Signals
      BY <1>0 DEF Contains
    <3>2. \A y : ~(Contains(waiters, y) /\ Contains(queue, y))
      BY <3>1 DEF Backlog
    <3> QED
      BY <1>0, <3>2, ConcatHolds DEF Backlog
  <2>4. IsInjective(queue') /\ \A y : ~Contains(queue', y)
    BY <2>1 DEF IsInjective, Contains
  <2>5. \A t \in Signals : /\ pc'[t] # "queued"
                           /\ pc'[t] = "waiting" <=> pc[t] \in {"waiting", "queued"}
    BY <2>1 DEF TypeOK
  <2> QED
    BY <2>1, <2>2, <2>3, <2>4, <2>5 DEF Backlog
<1>6. CASE Restart
  <2>1. /\ queue' = <<>> /\ waiters' = <<>>
        /\ \A t \in Signals : pc'[t] \notin BufferedStages
    BY <1>6 DEF Restart, TypeOK, Buffered, BufferedStages
  <2> QED
    BY <2>1 DEF Backlog, Contains, IsInjective, BufferedStages
<1>7. ASSUME NEW i \in Items, TransitionWorkItem(i)
      PROVE  Backlog'
  BY <1>1, <1>7 DEF TransitionWorkItem, memory
<1>8. CASE UNCHANGED vars
  BY <1>1, <1>8 DEF vars, memory
<1> QED
  BY <1>2, <1>3, <1>4, <1>5, <1>6, <1>7, <1>8 DEF Next, Quiescent

\* No accepted signal is forgotten or processed twice: until it gets its permit it stands
\* in the queue or in the line of the semaphore, and in one place of it.
THEOREM BacklogCorrect == Spec => []Backlog
<1>1. Init => Backlog
  BY DEF Init, Backlog, Contains, IsInjective
<1>2. TypeOK /\ Backlog /\ [Next]_vars => Backlog'
  BY BacklogStep
<1> QED
  BY <1>1, <1>2, TypeCorrect, PTL DEF Spec

-----------------------------------------------------------------------------
(***************************************************************************)
(* What an outcome says, the safety half of AcceptedSignalLands: a signal  *)
(* that ends done is counted, and linked unless a call failed; none is     *)
(* given up unless a call failed, none is lost unless the process stopped. *)
(***************************************************************************)
OutcomesExplained ==
    \A s \in Signals :
        /\ pc[s] = "done" => credited[s] # NoItem
        /\ pc[s] = "done" /\ faults = 0 => linked[s] = credited[s]
        /\ pc[s] = "discarded" => faults > 0
        /\ pc[s] = "lost" => crashes > 0

\* Stages before the MongoDB insert.
Unstored == {"new", "limited", "dropped", "store"} \cup BufferedStages

\* Without a failed call no attempt finds its document already stored, so none is ever
\* repeated.
Smooth ==
    \A s \in Signals :
        /\ pc[s] \notin {"backoff", "discarded"}
        /\ pc[s] \in Unstored => s \notin stored
        /\ pc[s] \in {"invalidate", "done"} => linked[s] = credited[s]

OutcomeInv ==
    /\ \A s \in Signals :
           /\ pc[s] \in {"invalidate", "done"} => credited[s] # NoItem
           /\ pc[s] = "lost" => crashes > 0
    /\ faults = 0 => Smooth

\* No step ends a signal without a cause.
LEMMA OutcomeStep ==
    ASSUME TypeOK, CreditInv, OutcomeInv, [Next]_vars
    PROVE  OutcomeInv'
<1> USE DEF memory, mongo, rows, audit, bounds
<1>0. /\ faults \in Nat /\ crashes \in Nat
      /\ Fault => faults' \in Nat /\ faults' # 0 /\ UNCHANGED crashes
  BY BoundAssumption DEF TypeOK, Fault
<1>a. \A s \in Signals : WorkItemId(s) # NoItem
  BY SignalAssumption DEF WorkItemId
<1>t. /\ \A s \in Signals : pc[s] \in {"invalidate", "done"} => credited[s] # NoItem
      /\ \A s \in Signals : pc[s] = "lost" => crashes > 0
      /\ faults = 0 => Smooth
  BY DEF OutcomeInv
<1>1. ASSUME NEW s \in Signals, UNCHANGED <<mongo, credited, bounds>>,
             \A t \in Signals \ {s} : pc'[t] = pc[t],
             pc'[s] \in {"limited", "dropped", "queued", "store"},
             pc[s] \in Unstored \/ pc[s] = "backoff"
      PROVE  OutcomeInv'
  <2>1. faults = 0 => Smooth'
    BY <1>t, <1>1 DEF Smooth, Unstored, BufferedStages
  <2> QED
    BY <1>t, <1>1, <2>1 DEF OutcomeInv
<1>2. ASSUME NEW s \in Signals, Ingest(s) \/ Acquire(s) \/ Retry(s)
      PROVE  OutcomeInv'
  BY <1>1, <1>2 DEF Ingest, Enqueue, Acquire, Retry, TypeOK, Unstored, BufferedStages
<1>3. ASSUME NEW s \in Signals, Raise(s), pc[s] \in RunningStages, UNCHANGED <<credited, crashes>>,
             faults' \in Nat, faults' # 0
      PROVE  OutcomeInv'
  <2>1. /\ pc'[s] \in {"backoff", "discarded"}
        /\ \A t \in Signals \ {s} : pc'[t] = pc[t]
    BY <1>3 DEF Raise, Leave, TypeOK
  <2> QED
    BY <1>t, <1>3, <2>1 DEF OutcomeInv
<1>4. ASSUME NEW s \in Signals, StoreRawSignal(s)
      PROVE  OutcomeInv'
  <2>1. /\ pc[s] = "store" /\ UNCHANGED <<linked, credited>>
    BY <1>4 DEF StoreRawSignal
  <2>2. CASE pc' = [pc EXCEPT ![s] = "select"] /\ InsertOne(s) /\ UNCHANGED bounds
    <3>1. pc'[s] = "select" /\ \A t \in Signals \ {s} : pc'[t] = pc[t]
      BY <2>2 DEF TypeOK
    <3>2. faults = 0 => Smooth'
      BY <1>t, <2>1, <2>2, <3>1 DEF Smooth, InsertOne, Unstored, BufferedStages
    <3> QED
      BY <1>t, <2>1, <2>2, <3>1, <3>2 DEF OutcomeInv
  <2>3. CASE s \in stored /\ Raise(s) /\ UNCHANGED bounds
    <3>1. faults # 0
      BY <1>t, <2>1, <2>3 DEF Smooth, Unstored
    <3> QED
      BY <1>0, <1>3, <2>1, <2>3, <3>1 DEF RunningStages
  <2>4. CASE Fault /\ Raise(s)
    BY <1>0, <1>3, <2>1, <2>4 DEF RunningStages
  <2> QED
    BY <1>4, <2>2, <2>3, <2>4 DEF StoreRawSignal
<1>5. ASSUME NEW s \in Signals, FindWorkItem(s)
      PROVE  OutcomeInv'
  <2>1. pc[s] = "select" /\ UNCHANGED <<mongo, credited>>
    BY <1>5 DEF FindWorkItem
  <2>2. CASE pc' = [pc EXCEPT ![s] = "commit"] /\ UNCHANGED bounds
    <3>1. pc'[s] = "commit" /\ \A t \in Signals \ {s} : pc'[t] = pc[t]
      BY <2>2 DEF TypeOK
    <3>2. faults = 0 => Smooth'
      BY <1>t, <2>1, <3>1 DEF Smooth, Unstored, BufferedStages
    <3> QED
      BY <1>t, <2>1, <2>2, <3>1, <3>2 DEF OutcomeInv
  <2>3. CASE Fault /\ Raise(s)
    BY <1>0, <1>3, <2>1, <2>3 DEF RunningStages
  <2> QED
    BY <1>5, <2>2, <2>3 DEF FindWorkItem
<1>6. ASSUME NEW s \in Signals, FindOrCreateWorkItem(s)
      PROVE  OutcomeInv'
  <2>1. pc[s] = "commit" /\ UNCHANGED mongo /\ credited[s] = NoItem
    BY <1>6 DEF FindOrCreateWorkItem, CreditInv, StoredUncounted
  <2>2. \/ UNCHANGED credited
        \/ credited' = [credited EXCEPT ![s] = WorkItemId(s)]
    BY <1>6 DEF FindOrCreateWorkItem, WriteItem
  <2>3. \A t \in Signals : credited[t] # NoItem => credited'[t] = credited[t]
    BY <2>1, <2>2 DEF TypeOK
  <2>4. CASE pc' = [pc EXCEPT ![s] = "link"] /\ UNCHANGED bounds
    <3>1. pc'[s] = "link" /\ \A t \in Signals \ {s} : pc'[t] = pc[t]
      BY <2>4 DEF TypeOK
    <3>2. faults = 0 => Smooth'
      BY <1>t, <2>1, <2>3, <3>1 DEF Smooth, Unstored, BufferedStages
    <3> QED
      BY <1>t, <2>3, <2>4, <3>1, <3>2 DEF OutcomeInv
  <2>5. CASE Fault /\ Raise(s)
    <3>1. /\ pc'[s] \in {"backoff", "discarded"}
          /\ \A t \in Signals \ {s} : pc'[t] = pc[t]
      BY <2>5 DEF Raise, Leave, TypeOK
    <3> QED
      BY <1>0, <1>t, <2>3, <2>5, <3>1 DEF OutcomeInv
  <2> QED
    BY <1>6, <2>4, <2>5 DEF FindOrCreateWorkItem
<1>7. ASSUME NEW s \in Signals, LinkSignal(s)
      PROVE  OutcomeInv'
  <2>1. /\ pc[s] = "link" /\ pc'[s] = "invalidate" /\ UNCHANGED <<stored, credited>>
        /\ \A t \in Signals \ {s} : pc'[t] = pc[t]
    BY <1>7 DEF LinkSignal, TypeOK
  <2>2. credited[s] = WorkItemId(s)
    BY <2>1 DEF CreditInv, LinkReady
  <2>3. CASE linked' = [linked EXCEPT ![s] = WorkItemId(s)] /\ UNCHANGED bounds
    <3>1. linked'[s] = credited[s] /\ \A t \in Signals \ {s} : linked'[t] = linked[t]
      BY <2>2, <2>3 DEF TypeOK
    <3>2. faults = 0 => Smooth'
      BY <1>t, <2>1, <3>1 DEF Smooth, Unstored, BufferedStages
    <3> QED
      BY <1>a, <1>t, <2>1, <2>2, <2>3, <3>2 DEF OutcomeInv
  <2>4. CASE Fault
    BY <1>0, <1>a, <1>t, <2>1, <2>2, <2>4 DEF OutcomeInv
  <2> QED
    BY <1>7, <2>3, <2>4 DEF LinkSignal
<1>8. ASSUME NEW s \in Signals, InvalidateCache(s)
      PROVE  OutcomeInv'
  <2>1. pc[s] = "invalidate" /\ UNCHANGED <<mongo, credited>>
    BY <1>8 DEF InvalidateCache
  <2>2. CASE Leave(s, "done") /\ UNCHANGED bounds
    <3>1. pc'[s] = "done" /\ \A t \in Signals \ {s} : pc'[t] = pc[t]
      BY <2>2 DEF Leave, TypeOK
    <3>2. faults = 0 => Smooth'
      BY <1>t, <2>1, <3>1 DEF Smooth, Unstored, BufferedStages
    <3> QED
      BY <1>t, <2>1, <2>2, <3>1, <3>2 DEF OutcomeInv
  <2>3. CASE Fault /\ Raise(s)
    BY <1>0, <1>3, <2>1, <2>3 DEF RunningStages
  <2> QED
    BY <1>8, <2>2, <2>3 DEF InvalidateCache
<1>9. ASSUME stored' = stored, linked' = linked, credited' = credited,
             faults' = faults, crashes' = crashes,
             \A t \in Signals : \/ pc'[t] = pc[t]
                                \/ pc[t] = "queued" /\ pc'[t] = "waiting"
      PROVE  OutcomeInv'
  <2>1. faults = 0 => Smooth'
    BY <1>t, <1>9 DEF Smooth, Unstored, BufferedStages
  <2> QED
    BY <1>t, <1>9, <2>1 DEF OutcomeInv
<1>10. CASE RunWorker
  <2>1. \A t \in Signals : pc'[t] = IF pc[t] = "queued" THEN "waiting" ELSE pc[t]
    BY <1>10 DEF RunWorker
  <2>2. /\ stored' = stored /\ linked' = linked /\ credited' = credited
        /\ faults' = faults /\ crashes' = crashes
    BY <1>10 DEF RunWorker
  <2> QED
    BY <1>9, <2>1, <2>2
<1>11. CASE Restart
  <2>1. /\ \A t \in Signals : pc'[t] = pc[t] \/ pc'[t] = "lost"
        /\ UNCHANGED <<mongo, credited, faults>> /\ crashes' > 0
    BY <1>0, <1>11 DEF Restart, TypeOK
  <2>2. faults = 0 => Smooth'
    BY <1>t, <2>1 DEF Smooth, Unstored, BufferedStages
  <2> QED
    BY <1>t, <2>1, <2>2 DEF OutcomeInv
<1>12. ASSUME NEW i \in Items, TransitionWorkItem(i)
       PROVE  OutcomeInv'
  <2>1. /\ pc' = pc /\ stored' = stored /\ linked' = linked /\ credited' = credited
        /\ faults' = faults /\ crashes' = crashes
    BY <1>12 DEF TransitionWorkItem
  <2> QED
    BY <1>9, <2>1
<1>13. CASE UNCHANGED vars
  <2>1. /\ pc' = pc /\ stored' = stored /\ linked' = linked /\ credited' = credited
        /\ faults' = faults /\ crashes' = crashes
    BY <1>13 DEF vars
  <2> QED
    BY <1>9, <2>1
<1> QED
  BY <1>2, <1>4, <1>5, <1>6, <1>7, <1>8, <1>10, <1>11, <1>12, <1>13
     DEF Next, Process, Quiescent

\* A signal that is done is counted, one that is given up or lost has a failed call or a
\* stop of the process to blame, for any number of signals, slots and attempts.
THEOREM OutcomesCorrect == Spec => []OutcomesExplained
<1>1. Init => OutcomeInv
  BY DEF Init, OutcomeInv, Smooth
<1>2. PipelineInv /\ OutcomeInv /\ [Next]_vars => OutcomeInv'
  BY OutcomeStep DEF PipelineInv
<1>3. PipelineInv /\ OutcomeInv => OutcomesExplained
  <2> SUFFICES ASSUME PipelineInv, OutcomeInv
               PROVE  OutcomesExplained
    OBVIOUS
  <2>1. faults \in Nat
    BY BoundAssumption DEF PipelineInv, TypeOK
  <2>2. \A s \in Signals : pc[s] = "discarded" => faults # 0
    BY DEF OutcomeInv, Smooth
  <2>3. \A s \in Signals : pc[s] = "done" /\ faults = 0 => linked[s] = credited[s]
    BY DEF OutcomeInv, Smooth
  <2> QED
    BY <2>1, <2>2, <2>3 DEF OutcomeInv, OutcomesExplained
<1> QED
  BY <1>1, <1>2, <1>3, PipelineInvariant, PTL DEF Spec

-----------------------------------------------------------------------------
\* Every step of the worker is a step of the ledger, or none.
LEMMA LedgerStep ==
    ASSUME TypeOK, CreditInv, [Next]_vars
    PROVE  [Ledger!Next]_(Ledger!ledger)
<1> USE SignalAssumption
<1> USE DEF memory, mongo, rows, audit, bounds, Ledger!ledger
<1>1. ASSUME NEW s \in Signals, StoreRawSignal(s)
      PROVE  Ledger!Record(s) \/ UNCHANGED Ledger!ledger
  BY <1>1 DEF StoreRawSignal, InsertOne, Ledger!Record
<1>2. ASSUME NEW s \in Signals, pc[s] = "commit", WriteItem(s), UNCHANGED mongo
      PROVE  \E i \in Signals : Ledger!Credit(s, i)
  <2>1. s \in stored /\ credited[s] = NoItem
    BY <1>2 DEF CreditInv, StoredUncounted
  <2>2. CASE found[s] = NoItem
    <3>1. signalCount[s] = 0
      BY <2>1 DEF CreditInv, RowMatchesCredit, Items
    <3>2. signalCount' = [signalCount EXCEPT ![s] = @ + 1]
      BY <1>2, <2>2, <3>1 DEF WriteItem, InsertItem
    <3>3. credited' = [credited EXCEPT ![s] = s]
      BY <1>2, <2>2 DEF WriteItem, WorkItemId
    <3> QED
      BY <1>2, <2>1, <3>1, <3>2, <3>3 DEF Ledger!Credit
  <2>3. CASE found[s] # NoItem
    <3>1. found[s] \in Signals /\ signalCount[found[s]] > 0
      BY <1>2, <2>3 DEF CreditInv, FoundExists, RowMatchesCredit, TypeOK, Items
    <3>2. signalCount' = [signalCount EXCEPT ![found[s]] = @ + 1]
      BY <1>2, <2>3 DEF WriteItem, IncrementCount
    <3>3. credited' = [credited EXCEPT ![s] = found[s]]
      BY <1>2, <2>3 DEF WriteItem, WorkItemId
    <3> QED
      BY <1>2, <2>1, <3>1, <3>2, <3>3 DEF Ledger!Credit
  <2> QED
    BY <2>2, <2>3
<1>3. ASSUME NEW s \in Signals, FindOrCreateWorkItem(s)
      PROVE  (\E i \in Signals : Ledger!Credit(s, i)) \/ UNCHANGED Ledger!ledger
  <2>1. CASE WriteItem(s)
    BY <1>2, <1>3, <2>1 DEF FindOrCreateWorkItem
  <2>2. CASE UNCHANGED <<status, signalCount, credited>>
    BY <1>3, <2>2 DEF FindOrCreateWorkItem
  <2> QED
    BY <1>3, <2>1, <2>2 DEF FindOrCreateWorkItem
<1>4. ASSUME NEW s \in Signals, LinkSignal(s)
      PROVE  Ledger!Link(s) \/ UNCHANGED Ledger!ledger
  <2>1. UNCHANGED <<stored, credited, signalCount>>
    BY <1>4 DEF LinkSignal
  <2>2. credited[s] = WorkItemId(s) /\ WorkItemId(s) # NoItem
    BY <1>4 DEF LinkSignal, CreditInv, LinkReady, WorkItemId, TypeOK, Items
  <2>3. CASE linked' = [linked EXCEPT ![s] = WorkItemId(s)]
    BY <2>1, <2>2, <2>3 DEF Ledger!Link
  <2>4. CASE UNCHANGED linked
    BY <2>1, <2>4
  <2> QED
    BY <1>4, <2>3, <2>4 DEF LinkSignal
<1>5. ASSUME NEW s \in Signals,
             Ingest(s) \/ Acquire(s) \/ FindWorkItem(s) \/ InvalidateCache(s) \/ Retry(s)
      PROVE  UNCHANGED Ledger!ledger
  BY <1>5 DEF Ingest, Acquire, FindWorkItem, InvalidateCache, Retry
<1>6. CASE RunWorker \/ Restart \/ UNCHANGED vars \/ \E i \in Items : TransitionWorkItem(i)
  BY <1>6 DEF RunWorker, Restart, TransitionWorkItem, vars
<1> QED
  BY <1>1, <1>3, <1>4, <1>5, <1>6 DEF Next, Process, Quiescent, Ledger!Next

\* The databases, written to by any number of concurrent, failing, retrying
\* and restarted tasks, behave as the ledger.
THEOREM LedgerImplemented == Spec => ImplementsLedger
<1>1. Init => Ledger!Init
  BY DEF Init, Ledger!Init, Items
<1>2. PipelineInv /\ [Next]_vars => [Ledger!Next]_(Ledger!ledger)
  BY LedgerStep DEF PipelineInv
<1> QED
  BY <1>1, <1>2, PipelineInvariant, PTL DEF Spec, ImplementsLedger, Ledger!Spec
-----------------------------------------------------------------------------
\* With one slot only one transaction is open, so that what its SELECT found of a
\* component is still so when it commits; and without an operator every item stays
\* open to further signals.
Serial == Concurrency = 1 /\ MaxTransitions = 0

ItemsOpen == \A i \in Items : status[i] \in {"NONE", "OPEN"}

OneRow ==
    \A i, j \in Items :
        status[i] # "NONE" /\ status[j] # "NONE" /\ ComponentOf[i] = ComponentOf[j] => i = j

OpeningFirst ==
    \A s \in Signals : pc[s] = "commit" /\ found[s] = NoItem =>
        \A i \in Items : ComponentOf[i] = ComponentOf[s] => status[i] = "NONE"

SerialInv == Serial => ItemsOpen /\ OneRow /\ OpeningFirst

\* One slot runs one task.
LEMMA OneRunning ==
    ASSUME TypeOK, PermitsAccounted, Serial, NEW s \in Running, NEW t \in Running
    PROVE  s = t
<1>1. IsFiniteSet(Running) /\ Cardinality(Running) \in Nat /\ Cardinality(Running) <= 1
  BY RunningFinite DEF TypeOK, PermitsAccounted, Serial
<1>2. IsFiniteSet({s, t}) /\ Cardinality({s, t}) <= Cardinality(Running)
  BY <1>1, FS_Subset
<1>3. s # t => Cardinality({s} \cup {t}) = Cardinality({s}) + 1
  BY FS_Singleton, FS_AddElement
<1>4. {s} \cup {t} = {s, t} /\ Cardinality({s}) = 1
  BY FS_Singleton
<1> QED
  BY <1>1, <1>2, <1>3, <1>4

\* With one slot and no operator every step keeps the rows of a component to one.
LEMMA SerialStep ==
    ASSUME TypeOK, PermitsAccounted, SerialInv, [Next]_vars
    PROVE  SerialInv'
<1> SUFFICES ASSUME Serial
             PROVE  (ItemsOpen /\ OneRow /\ OpeningFirst)'
  BY DEF SerialInv, Serial
<1> USE DEF memory, mongo, rows, audit, bounds, Items
<1>0. ItemsOpen /\ OneRow /\ OpeningFirst
  BY DEF SerialInv
<1>1. ASSUME UNCHANGED <<status, found>>,
             \A t \in Signals : pc'[t] = "commit" => pc[t] = "commit"
      PROVE  (ItemsOpen /\ OneRow /\ OpeningFirst)'
  BY <1>0, <1>1 DEF ItemsOpen, OneRow, OpeningFirst
<1>2. ASSUME NEW s \in Signals, Raise(s)
      PROVE  \A t \in Signals : pc'[t] = "commit" => pc[t] = "commit"
  BY <1>2 DEF Raise, Leave, TypeOK
<1>3. ASSUME NEW s \in Signals,
             Ingest(s) \/ Acquire(s) \/ StoreRawSignal(s) \/ LinkSignal(s)
                 \/ InvalidateCache(s) \/ Retry(s)
      PROVE  (ItemsOpen /\ OneRow /\ OpeningFirst)'
  <2>1. UNCHANGED <<status, found>>
    BY <1>3 DEF Ingest, Acquire, StoreRawSignal, LinkSignal, InvalidateCache, Retry
  <2>2. \A t \in Signals : pc'[t] = "commit" => pc[t] = "commit"
    <3>1. CASE Raise(s)
      BY <1>2, <3>1
    <3>2. CASE \E stage \in Stages \ {"commit"} : pc' = [pc EXCEPT ![s] = stage]
      BY <3>2 DEF TypeOK
    <3> QED
      BY <1>3, <3>1, <3>2
         DEF Ingest, Enqueue, Acquire, StoreRawSignal, LinkSignal, InvalidateCache, Retry,
             Leave, Stages, BufferedStages, RunningStages
  <2> QED
    BY <1>1, <2>1, <2>2
<1>4. ASSUME NEW s \in Signals, FindWorkItem(s)
      PROVE  (ItemsOpen /\ OneRow /\ OpeningFirst)'
  <2>1. UNCHANGED status /\ pc[s] = "select"
    BY <1>4 DEF FindWorkItem
  <2>2. \A t \in Signals : t # s => pc'[t] = pc[t] /\ found'[t] = found[t]
    BY <1>4 DEF FindWorkItem, Raise, Leave, TypeOK
  <2>3. ASSUME pc'[s] = "commit", found'[s] = NoItem, NEW i \in Items,
               ComponentOf[i] = ComponentOf[s]
        PROVE  status[i] = "NONE"
    <3> DEFINE c == ComponentOf[s]
    <3>1. NewestActive(c) = {}
      <4>1. \A j \in NewestActive(c) : j # NoItem
        BY SignalAssumption DEF NewestActive, ActiveOf, ItemsOf
      <4>2. ~Raise(s)
        BY <2>3 DEF Raise, Leave, TypeOK
      <4> QED
        BY <1>4, <2>3, <4>1, <4>2 DEF FindWorkItem, TypeOK
    <3>2. SUFFICES ASSUME status[i] # "NONE"
                   PROVE  FALSE
      OBVIOUS
    <3>3. i \in ActiveOf(c)
      BY <1>0, <2>3, <3>2 DEF ItemsOpen, ActiveOf, ItemsOf, ActiveStatuses
    <3>4. \A j \in ActiveOf(c) : j = i
      BY <1>0, <2>3, <3>2 DEF OneRow, ActiveOf, ItemsOf
    <3>5. createdAt[i] <= createdAt[i]
      BY DEF TypeOK
    <3> QED
      BY <3>1, <3>3, <3>4, <3>5 DEF NewestActive
  <2> QED
    BY <1>0, <2>1, <2>2, <2>3 DEF ItemsOpen, OneRow, OpeningFirst
<1>5. ASSUME NEW s \in Signals, FindOrCreateWorkItem(s)
      PROVE  (ItemsOpen /\ OneRow /\ OpeningFirst)'
  <2>1. pc[s] = "commit" /\ pc'[s] # "commit" /\ UNCHANGED found
    BY <1>5 DEF FindOrCreateWorkItem, Raise, Leave, TypeOK
  <2>2. \A t \in Signals : t # s => pc'[t] = pc[t]
    BY <1>5 DEF FindOrCreateWorkItem, Raise, Leave, TypeOK
  <2>3. \A t \in Signals : pc'[t] # "commit"
    <3> SUFFICES ASSUME NEW t \in Signals, pc'[t] = "commit"
                 PROVE  FALSE
      OBVIOUS
    <3>1. t # s /\ pc[t] = "commit"
      BY <2>1, <2>2
    <3> QED
      BY <2>1, <3>1, OneRunning DEF Running, RunningStages
  <2>4. CASE UNCHANGED status
    BY <1>0, <2>3, <2>4 DEF ItemsOpen, OneRow, OpeningFirst
  <2>5. CASE found[s] = NoItem /\ InsertItem(s)
    <3>1. \A i \in Items : ComponentOf[i] = ComponentOf[s] => status[i] = "NONE"
      BY <1>0, <2>1, <2>5 DEF OpeningFirst
    <3>2. /\ status'[s] = "OPEN"
          /\ \A i \in Items : i # s => status'[i] = status[i]
      BY <2>5 DEF InsertItem, TypeOK
    <3> QED
      BY <1>0, <2>3, <3>1, <3>2 DEF ItemsOpen, OneRow, OpeningFirst
  <2> QED
    BY <1>5, <2>4, <2>5 DEF FindOrCreateWorkItem, WriteItem, IncrementCount
<1>6. CASE RunWorker \/ Restart
  BY <1>1, <1>6 DEF RunWorker, Restart
<1>7. \A i \in Items : ~TransitionWorkItem(i)
  BY DEF TransitionWorkItem, Serial, TypeOK
<1>8. CASE UNCHANGED vars
  BY <1>1, <1>8 DEF vars
<1> QED
  BY <1>3, <1>4, <1>5, <1>6, <1>7, <1>8 DEF Next, Process, Quiescent

\* With one slot and no operator a burst opens one work item per component, for
\* any number of signals, failures and restarts.
THEOREM SerialOneItem == Spec => [](Serial => OneItemPerBurst)
<1>1. Init => SerialInv
  BY DEF Init, SerialInv, ItemsOpen, OneRow, OpeningFirst
<1>2. PipelineInv /\ SerialInv /\ [Next]_vars => SerialInv'
  BY SerialStep DEF PipelineInv
<1>3. SerialInv => (Serial => OneItemPerBurst)
  <2> SUFFICES ASSUME OneRow, NEW c \in Components
               PROVE  Cardinality(ItemsOf(c)) <= 1
    BY DEF SerialInv, OneItemPerBurst
  <2>1. \A i, j \in ItemsOf(c) : i = j
    BY DEF OneRow, ItemsOf
  <2>2. CASE ItemsOf(c) = {}
    BY <2>2, FS_EmptySet
  <2>3. ASSUME NEW i \in ItemsOf(c)
        PROVE  Cardinality(ItemsOf(c)) <= 1
    <3>1. ItemsOf(c) = {i}
      BY <2>1
    <3>2. Cardinality({i}) = 1
      BY FS_Singleton
    <3> QED
      BY <3>1, <3>2
  <2> QED
    BY <2>2, <2>3
<1> QED
  BY <1>1, <1>2, <1>3, PipelineInvariant, PTL DEF Spec
-----------------------------------------------------------------------------
(***************************************************************************)
(* How far the race of two SELECTs goes.  An item is opened only when none *)
(* of the component is active, so when all of them have been resolved; and *)
(* whoever has one to insert holds a permit.  So the items that were never *)
(* resolved and those about to be inserted together are no more than the   *)
(* permits: a step that makes an opening starts from no such item, and     *)
(* every other step makes none.                                            *)
(***************************************************************************)
LeavesResolved ==
    \A i \in Items : status[i] \in {"RESOLVED", "CLOSED"} => i \in resolved

SlotsCover ==
    \A c \in Components : Cardinality(Unresolved(c) \cup Opening(c)) <= Concurrency

SlotsInv ==
    /\ LeavesResolved
    /\ \A i \in Items : createdAt[i] <= now
    /\ SlotsCover

\* The order of the natural numbers.
Below == {ss \in Nat \X Nat : ss[1] < ss[2]}

\* When the SELECT finds nothing, no item of the component is active.
LEMMA NoneActive ==
    ASSUME TypeOK, \A i \in Items : createdAt[i] <= now, NEW c, NewestActive(c) = {}
    PROVE  ActiveOf(c) = {}
<1> SUFFICES ASSUME ActiveOf(c) # {}
             PROVE  FALSE
  OBVIOUS
<1> DEFINE age(i) == now - createdAt[i]
           U == {age(i) : i \in ActiveOf(c)}
<1>1. \A i \in ActiveOf(c) : i \in Items /\ createdAt[i] \in Nat /\ now \in Nat
  BY DEF TypeOK, ActiveOf, ItemsOf
<1>2. \A i \in ActiveOf(c) : age(i) \in Nat
  BY <1>1
<1>3. U \subseteq Nat /\ U # {}
  BY <1>2
<1>4. PICK x \in U : \A y \in U : ~(<<y, x>> \in Below)
  <2>1. IsWellFoundedOn(Below, Nat)
    <3>1. Below = OpToRel(<, Nat)
      BY DEF Below, OpToRel
    <3> QED
      BY <3>1, NatLessThanWellFounded
  <2> HIDE DEF U
  <2> QED
    BY <1>3, <2>1, WFMin, Zenon
<1>5. PICK m \in ActiveOf(c) : x = age(m)
  BY <1>4
<1>6. \A i \in ActiveOf(c) : ~(age(i) < age(m))
  <2>1. \A i \in ActiveOf(c) : age(i) \in U
    OBVIOUS
  <2> HIDE DEF U, age
  <2> QED
    BY <1>2, <1>4, <1>5, <2>1 DEF Below
<1>7. \A i \in ActiveOf(c) : createdAt[i] <= createdAt[m]
  BY <1>1, <1>6
<1>8. m \in NewestActive(c)
  BY <1>7 DEF NewestActive
<1> QED
  BY <1>8

\* What was resolved stays resolved, and ranks grow.
LEMMA ResolvedStep ==
    ASSUME TypeOK, SlotsInv, [Next]_vars
    PROVE  /\ LeavesResolved' /\ resolved \subseteq resolved'
           /\ \A i \in Items : createdAt'[i] <= now'
<1> USE DEF memory, mongo, rows, audit, bounds, Items
<1>0. /\ status \in [Signals -> Statuses \cup {"NONE"}] /\ LeavesResolved
      /\ createdAt \in [Signals -> Nat] /\ now \in Nat
      /\ \A i \in Signals : createdAt[i] <= now
  BY DEF TypeOK, SlotsInv
<1>1. CASE UNCHANGED <<status, resolved, createdAt, now>>
  BY <1>0, <1>1 DEF LeavesResolved
<1>2. ASSUME NEW s \in Signals, FindWorkItem(s)
      PROVE  /\ LeavesResolved' /\ resolved \subseteq resolved'
             /\ \A i \in Signals : createdAt'[i] <= now'
  <2>1. UNCHANGED <<status, resolved>>
    BY <1>2 DEF FindWorkItem
  <2>2. \/ UNCHANGED <<createdAt, now>>
        \/ createdAt' = [createdAt EXCEPT ![s] = now] /\ now' = now + 1
    BY <1>2 DEF FindWorkItem
  <2>3. \A i \in Signals : createdAt'[i] <= now'
    BY <1>0, <2>2
  <2> QED
    BY <1>0, <2>1, <2>3 DEF LeavesResolved
<1>3. ASSUME NEW s \in Signals, FindOrCreateWorkItem(s)
      PROVE  LeavesResolved' /\ UNCHANGED <<resolved, createdAt, now>>
  <2>1. UNCHANGED <<resolved, createdAt, now>>
    BY <1>3 DEF FindOrCreateWorkItem
  <2>2. UNCHANGED status \/ status' = [status EXCEPT ![s] = "OPEN"]
    BY <1>3 DEF FindOrCreateWorkItem, WriteItem, IncrementCount, InsertItem
  <2> QED
    BY <1>0, <2>1, <2>2 DEF LeavesResolved
<1>4. ASSUME NEW k \in Signals, TransitionWorkItem(k)
      PROVE  /\ LeavesResolved' /\ resolved \subseteq resolved'
             /\ UNCHANGED <<createdAt, now>>
  <2>1. PICK target \in Statuses :
            /\ ValidTransition(status[k], target)
            /\ status' = [status EXCEPT ![k] = target]
            /\ resolved' = IF target = "RESOLVED" THEN resolved \cup {k} ELSE resolved
    BY <1>4 DEF TransitionWorkItem
  <2>2. target = "CLOSED" => status[k] = "RESOLVED"
    BY <2>1 DEF ValidTransition, AllowedTransitions, Statuses
  <2>3. LeavesResolved'
    BY <1>0, <2>1, <2>2 DEF LeavesResolved
  <2> QED
    BY <1>4, <2>1, <2>3 DEF TransitionWorkItem
<1>5. ASSUME NEW s \in Signals,
             \/ Ingest(s) \/ Acquire(s) \/ StoreRawSignal(s)
             \/ LinkSignal(s) \/ InvalidateCache(s) \/ Retry(s)
      PROVE  UNCHANGED <<status, resolved, createdAt, now>>
  BY <1>5 DEF Ingest, Acquire, StoreRawSignal, LinkSignal, InvalidateCache, Retry
<1>6. CASE RunWorker \/ Restart \/ UNCHANGED vars
  BY <1>1, <1>6 DEF RunWorker, Restart, vars
<1> QED
  BY <1>0, <1>1, <1>2, <1>3, <1>4, <1>5, <1>6 DEF Next, Process, Quiescent

\* What covers the slots goes on to cover them.
LEMMA SlotsStep ==
    ASSUME TypeOK, TypeOK', PermitsAccounted', SlotsInv, [Next]_vars
    PROVE  SlotsInv'
<1>1. /\ LeavesResolved' /\ resolved \subseteq resolved'
      /\ \A i \in Items : createdAt'[i] <= now'
  BY ResolvedStep
<1>2. ASSUME NEW c \in Components
      PROVE  Cardinality(Unresolved(c)' \cup Opening(c)') <= Concurrency
  <2> DEFINE Before == Unresolved(c) \cup Opening(c)
             After  == Unresolved(c)' \cup Opening(c)'
  <2>1. ASSUME After \subseteq Before
        PROVE  Cardinality(After) <= Concurrency
    <3>1. IsFiniteSet(Before)
      <4>1. Before \subseteq Signals
        BY DEF Unresolved, ItemsOf, Opening, Items
      <4> QED
        BY <4>1, SignalAssumption, FS_Subset
    <3>2. Cardinality(Before) <= Concurrency
      BY DEF SlotsInv, SlotsCover
    <3> HIDE DEF Before, After
    <3>3. /\ Cardinality(Before) \in Nat /\ Cardinality(After) \in Nat
          /\ Cardinality(After) <= Cardinality(Before)
      BY <2>1, <3>1, PartBound
    <3> QED
      BY <3>2, <3>3, SettingsAssumption
  <2>2. CASE NothingJoins
    <3>1. After \subseteq Before
      BY <1>1, <2>2 DEF NothingJoins, Unresolved, ItemsOf, Opening, Items
    <3> QED
      BY <2>1, <3>1
  <2>3. ASSUME NEW s \in Signals, Opens(s)
        PROVE  Cardinality(After) <= Concurrency
    <3>0. /\ \A t \in Signals : /\ pc'[t] = (IF t = s THEN "commit" ELSE pc[t])
                                 /\ found'[t] = (IF t = s THEN NoItem ELSE found[t])
          /\ status' = status
      BY <2>3 DEF Opens, TypeOK
    <3>1. CASE ComponentOf[s] # c
      <4>1. After \subseteq Before
        BY <1>1, <3>0, <3>1 DEF Unresolved, ItemsOf, Opening
      <4> QED
        BY <2>1, <4>1
    <3>2. CASE ComponentOf[s] = c
      <4>1. ActiveOf(c) = {}
        BY <2>3, <3>2, NoneActive DEF Opens, SlotsInv
      <4>2. Unresolved(c)' = {}
        <5>1. \A i \in ItemsOf(c) : status[i] \in {"RESOLVED", "CLOSED"}
          BY <4>1 DEF ActiveOf, ItemsOf, ActiveStatuses, Statuses, TypeOK
        <5>2. \A i \in ItemsOf(c) : i \in resolved
          BY <5>1 DEF SlotsInv, LeavesResolved, ItemsOf
        <5>3. ItemsOf(c)' = ItemsOf(c)
          BY <3>0 DEF ItemsOf
        <5> QED
          BY <1>1, <5>2, <5>3 DEF Unresolved
      <4>3. Opening(c)' \subseteq Running'
        BY DEF Opening, Running, RunningStages
      <4>4. IsFiniteSet(Running')
        BY SignalAssumption, FS_Subset DEF Running
      <4>5. Cardinality(Running') <= Concurrency
        <5>1. Cardinality(Running') \in Nat
          BY <4>4, FS_CardinalityType
        <5>2. permits' \in 0..Concurrency /\ permits' + Cardinality(Running') = Concurrency
          BY DEF TypeOK, PermitsAccounted
        <5> QED
          BY <5>1, <5>2, SettingsAssumption
      <4> DEFINE Runners == Running'
      <4>6. After \subseteq Runners
        BY <4>2, <4>3
      <4>7. IsFiniteSet(Runners) /\ Cardinality(Runners) <= Concurrency
        BY <4>4, <4>5
      <4> HIDE DEF After, Runners
      <4>8. /\ Cardinality(Runners) \in Nat /\ Cardinality(After) \in Nat
            /\ Cardinality(After) <= Cardinality(Runners)
        BY <4>6, <4>7, PartBound
      <4> QED
        BY <4>7, <4>8, SettingsAssumption
    <3> QED
      BY <3>1, <3>2
  <2> QED
    BY <2>2, <2>3, OpeningStep
<1> QED
  BY <1>1, <1>2 DEF SlotsInv, SlotsCover

\* The race opens no more incidents than the worker has slots, for any number of
\* signals, slots, failures and restarts, and whatever operators do.
THEOREM SlotsCorrect == Spec => []UnresolvedWithinSlots
<1>1. Init => SlotsInv
  <2> SUFFICES ASSUME Init
               PROVE  SlotsInv
    OBVIOUS
  <2>1. LeavesResolved /\ \A i \in Items : createdAt[i] <= now
    BY DEF Init, LeavesResolved
  <2>2. \A c : Unresolved(c) \cup Opening(c) = {}
    BY DEF Init, Unresolved, ItemsOf, Opening
  <2>3. SlotsCover
    BY <2>2, FS_EmptySet, SettingsAssumption DEF SlotsCover
  <2> QED
    BY <2>1, <2>3 DEF SlotsInv
<1>2. PipelineInv /\ PipelineInv' /\ SlotsInv /\ [Next]_vars => SlotsInv'
  BY SlotsStep DEF PipelineInv
<1>3. SlotsInv => UnresolvedWithinSlots
  <2> SUFFICES ASSUME SlotsInv, NEW c \in Components
               PROVE  Cardinality(Unresolved(c)) <= Concurrency
    BY DEF UnresolvedWithinSlots
  <2> DEFINE Both == Unresolved(c) \cup Opening(c)
  <2>1. IsFiniteSet(Both)
    <3>1. Both \subseteq Signals
      BY DEF Unresolved, ItemsOf, Opening, Items
    <3> QED
      BY <3>1, SignalAssumption, FS_Subset
  <2>2. Cardinality(Both) <= Concurrency
    BY DEF SlotsInv, SlotsCover
  <2>3. Unresolved(c) \subseteq Both
    OBVIOUS
  <2> HIDE DEF Both
  <2>4. /\ Cardinality(Both) \in Nat /\ Cardinality(Unresolved(c)) \in Nat
        /\ Cardinality(Unresolved(c)) <= Cardinality(Both)
    BY <2>1, <2>3, PartBound
  <2> QED
    BY <2>2, <2>4, SettingsAssumption
<1> QED
  BY <1>1, <1>2, <1>3, PipelineInvariant, PTL DEF Spec
=============
