-------------------------- MODULE WorkItemApiProofs --------------------------
(***************************************************************************)
(* Theorems about WorkItemApi, for every number of overlapping requests    *)
(* and every set of work items.                                            *)
(*                                                                         *)
(* The inductive invariant carries what a request learned at its SELECTs   *)
(* to its COMMIT.  The status it saw may be out of date, but it has been   *)
(* held; an RCA it saw is still there; and an RCA it is about to commit is *)
(* the first, because it holds the unique key since its INSERT.            *)
(***************************************************************************)
EXTENDS WorkItemApi, TLAPS

Checked == {"write", "invalidate", "update", "commit"}
Written == {"invalidate", "update", "commit"}

\* What a request in progress knows.
Knows(r) ==
    /\ pc[r] # "idle" => item[r] \in Items
    /\ pc[r] \in Checked \cup {"check"} => seen[r] \in held[item[r]]
    /\ pc[r] \in Checked /\ target[r] # "RCA" =>
           ValidTransition(seen[r], target[r]) /\ MayClose(r)
    /\ pc[r] \in Checked /\ target[r] = "RCA" =>
           seen[r] \in {"INVESTIGATING", "RESOLVED"}
    /\ pc[r] \in Written /\ target[r] = "RCA" => rcaKey[item[r]] = r

CallInv == \A r \in Requests : Knows(r)

\* What the rows of an item say about one another.
Coherent(i) ==
    /\ rcaKey[i] # NoRequest => rcaCount[i] = 0
    /\ rcaCount[i] <= 1
    /\ status[i] = "NONE" => held[i] = {}
    /\ status[i] # "NONE" => status[i] \in held[i]
    /\ "RESOLVED" \in held[i] => i \in resolvedAt
    /\ "CLOSED" \in held[i] <=> i \in closedAt
    /\ i \in closedAt =>
           "RESOLVED" \in held[i] /\ rcaCount[i] > 0 /\ mttr[i] = "close"

RowInv == \A i \in Items : Coherent(i)

ApiInv == TypeOK /\ CallInv /\ RowInv

-----------------------------------------------------------------------------
\* Ending a request keeps the types of its own variables and of the locks.
LEMMA FinishType ==
    ASSUME TypeOK, NEW r \in Requests, Finish(r)
    PROVE  /\ pc' \in [Requests -> Stages]
           /\ item' \in [Requests -> Items \cup {NoItem}]
           /\ target' \in [Requests -> Targets]
           /\ seen' \in [Requests -> Statuses \cup {"NONE"}]
           /\ \A t \in Requests : pc'[t] \notin {"idle", "select"} => seen'[t] \in Statuses
           /\ rowLock' \in [Items -> Requests \cup {NoRequest}]
           /\ rcaKey' \in [Items -> Requests \cup {NoRequest}]
<1>1. /\ pc' \in [Requests -> Stages]
      /\ item' \in [Requests -> Items \cup {NoItem}]
      /\ target' \in [Requests -> Targets]
      /\ seen' \in [Requests -> Statuses \cup {"NONE"}]
  BY DEF Finish, TypeOK, Stages, Targets
<1>2. \A t \in Requests : pc'[t] \notin {"idle", "select"} => seen'[t] \in Statuses
  BY DEF Finish, TypeOK
<1>3. /\ rowLock' \in [Items -> Requests \cup {NoRequest}]
      /\ rcaKey' \in [Items -> Requests \cup {NoRequest}]
  BY DEF Finish, Release, TypeOK
<1> QED
  BY <1>1, <1>2, <1>3

\* Moving on keeps the types of the request's own variables, once it has a
\* status.
LEMMA GotoType ==
    ASSUME TypeOK, NEW r \in Requests, NEW stage \in Stages, Goto(r, stage),
           pc[r] # "select", pc[r] # "idle", UNCHANGED seen
    PROVE  /\ pc' \in [Requests -> Stages]
           /\ item' \in [Requests -> Items \cup {NoItem}]
           /\ target' \in [Requests -> Targets]
           /\ seen' \in [Requests -> Statuses \cup {"NONE"}]
           /\ \A t \in Requests : pc'[t] \notin {"idle", "select"} => seen'[t] \in Statuses
<1>1. pc' \in [Requests -> Stages]
  BY DEF Goto, TypeOK
<1>2. \A t \in Requests : pc'[t] \notin {"idle", "select"} => seen'[t] \in Statuses
  BY DEF Goto, TypeOK
<1> QED
  BY <1>1, <1>2 DEF Goto, TypeOK

\* Every step keeps the types.
LEMMA ApiTypeStep ==
    ASSUME TypeOK, CallInv, [Next]_vars
    PROVE  TypeOK'
<1> USE DEF TypeOK, calls, locks, rows
<1>1. ASSUME NEW r \in Requests, Reject(r)
      PROVE  TypeOK'
  BY <1>1, FinishType DEF Reject
<1>2. ASSUME NEW r \in Requests, NEW stage \in Stages, Goto(r, stage),
             pc[r] # "select", pc[r] # "idle", UNCHANGED <<seen, rows>>,
             rowLock' \in [Items -> Requests \cup {NoRequest}],
             rcaKey' \in [Items -> Requests \cup {NoRequest}]
      PROVE  TypeOK'
  BY <1>2, GotoType
<1>3. ASSUME NEW r \in Requests, Begin(r)
      PROVE  TypeOK'
  <2>1. pc' \in [Requests -> Stages]
    BY <1>3 DEF Begin, Stages
  <2>2. item' \in [Requests -> Items \cup {NoItem}]
    BY <1>3 DEF Begin
  <2>3. target' \in [Requests -> Targets]
    BY <1>3 DEF Begin
  <2>4. \A t \in Requests : pc'[t] \notin {"idle", "select"} => seen'[t] \in Statuses
    BY <1>3 DEF Begin
  <2> QED
    BY <1>3, <2>1, <2>2, <2>3, <2>4 DEF Begin
<1>4. ASSUME NEW r \in Requests, SelectItem(r)
      PROVE  TypeOK'
  <2>1. CASE Reject(r)
    BY <1>1, <2>1
  <2>2. CASE /\ Exists(item[r])
             /\ seen' = [seen EXCEPT ![r] = status[item[r]]]
             /\ Goto(r, "check")
             /\ UNCHANGED <<locks, rows>>
    <3>1. status[item[r]] \in Statuses
      BY <1>4, <2>2 DEF SelectItem, CallInv, Knows, Exists
    <3>2. seen' \in [Requests -> Statuses \cup {"NONE"}]
      BY <2>2, <3>1
    <3>3. pc' \in [Requests -> Stages]
      BY <2>2 DEF Goto, Stages
    <3>4. \A t \in Requests : pc'[t] \notin {"idle", "select"} => seen'[t] \in Statuses
      BY <2>2, <3>1 DEF Goto
    <3> QED
      BY <2>2, <3>2, <3>3, <3>4 DEF Goto
  <2> QED
    BY <1>4, <2>1, <2>2 DEF SelectItem
<1>5. ASSUME NEW r \in Requests, CheckTransition(r) \/ CheckRca(r)
      PROVE  TypeOK'
  <2>1. CASE Reject(r)
    BY <1>1, <2>1
  <2>2. CASE Goto(r, "write") /\ UNCHANGED <<seen, locks, rows>>
    BY <1>2, <1>5, <2>2 DEF CheckTransition, CheckRca, Stages
  <2> QED
    BY <1>5, <2>1, <2>2 DEF CheckTransition, CheckRca
<1>6. ASSUME NEW r \in Requests, WriteTransition(r)
      PROVE  TypeOK'
  <2>1. rowLock' \in [Items -> Requests \cup {NoRequest}]
    BY <1>6 DEF WriteTransition
  <2> QED
    BY <1>2, <1>6, <2>1 DEF WriteTransition, Stages
<1>7. ASSUME NEW r \in Requests, WriteRca(r)
      PROVE  TypeOK'
  <2>1. CASE Reject(r)
    BY <1>1, <2>1
  <2>2. CASE /\ rcaKey' = [rcaKey EXCEPT ![item[r]] = r]
             /\ Goto(r, "invalidate")
             /\ UNCHANGED <<seen, rowLock, rows>>
    <3>1. rcaKey' \in [Items -> Requests \cup {NoRequest}]
      BY <2>2
    <3> QED
      BY <1>2, <1>7, <2>2, <3>1 DEF WriteRca, Stages
  <2> QED
    BY <1>7, <2>1, <2>2 DEF WriteRca
<1>8. ASSUME NEW r \in Requests, Invalidate(r)
      PROVE  TypeOK'
  BY <1>2, <1>8 DEF Invalidate, Stages
<1>9. ASSUME NEW r \in Requests, UpdateMttr(r)
      PROVE  TypeOK'
  <2>1. rowLock' \in [Items -> Requests \cup {NoRequest}]
    BY <1>9 DEF UpdateMttr
  <2> QED
    BY <1>2, <1>9, <2>1 DEF UpdateMttr, Stages
<1>10. ASSUME NEW r \in Requests, CommitTransition(r)
       PROVE  TypeOK'
  <2>1. item[r] \in Items /\ target[r] \in Statuses
    BY <1>10 DEF CommitTransition, CallInv, Knows, Targets
  <2>2. status' \in [Items -> Statuses \cup {"NONE"}] /\ held' \in [Items -> SUBSET Statuses]
    BY <1>10, <2>1 DEF CommitTransition
  <2>3. /\ resolvedAt' \in SUBSET Items /\ closedAt' \in SUBSET Items
        /\ mttr' \in [Items -> {"none", "rca", "close"}]
    BY <1>10, <2>1 DEF CommitTransition, Stamp
  <2> QED
    BY <1>10, <2>2, <2>3, FinishType DEF CommitTransition
<1>11. ASSUME NEW r \in Requests, CommitRca(r)
       PROVE  TypeOK'
  <2>1. item[r] \in Items
    BY <1>11 DEF CommitRca, CallInv, Knows
  <2>2. rcaCount' \in [Items -> Nat]
    BY <1>11, <2>1 DEF CommitRca
  <2>3. mttr' \in [Items -> {"none", "rca", "close"}]
    BY <1>11, <2>1 DEF CommitRca
  <2> QED
    BY <1>11, <2>2, <2>3, FinishType DEF CommitRca
<1>12. ASSUME NEW i \in Items, OpenItem(i)
       PROVE  TypeOK'
  BY <1>12 DEF OpenItem, Statuses
<1>13. ASSUME NEW r \in Requests, Abort(r)
       PROVE  TypeOK'
  BY <1>1, <1>13 DEF Abort
<1>14. CASE UNCHANGED vars
  BY <1>14 DEF vars
<1> QED
  BY <1>3, <1>4, <1>5, <1>6, <1>7, <1>8, <1>9, <1>10, <1>11, <1>12, <1>13, <1>14
     DEF Next, Handle

-----------------------------------------------------------------------------
\* What another request knows survives a step that takes neither an RCA, nor a
\* status held, nor a key of its own from it.
LEMMA KnowledgeKept ==
    ASSUME NEW t \in Requests, Knows(t),
           pc'[t] = pc[t], item'[t] = item[t], target'[t] = target[t], seen'[t] = seen[t],
           \A i \in Items : held[i] \subseteq held'[i],
           \A i \in Items : rcaCount[i] > 0 => rcaCount'[i] > 0,
           \A i \in Items : rcaKey[i] = t => rcaKey'[i] = t
    PROVE  Knows(t)'
BY DEF Knows, MayClose, Checked, Written

\* A request that is over knows nothing, and takes nothing from the others.
LEMMA CallsAfterFinish ==
    ASSUME TypeOK, CallInv, NEW r \in Requests, Finish(r),
           \A i \in Items : held[i] \subseteq held'[i],
           \A i \in Items : rcaCount[i] > 0 => rcaCount'[i] > 0
    PROVE  CallInv'
<1> SUFFICES ASSUME NEW t \in Requests
             PROVE  Knows(t)'
  BY DEF CallInv
<1> USE RequestAssumption
<1>1. CASE t = r
  BY <1>1 DEF Finish, Knows, Checked, Written, TypeOK
<1>2. CASE t # r
  <2>1. /\ pc'[t] = pc[t] /\ item'[t] = item[t]
        /\ target'[t] = target[t] /\ seen'[t] = seen[t]
    BY <1>2 DEF Finish, TypeOK
  <2>2. \A i \in Items : rcaKey[i] = t => rcaKey'[i] = t
    BY <1>2 DEF Finish, Release
  <2> QED
    BY <2>1, <2>2, KnowledgeKept DEF CallInv
<1> QED
  BY <1>1, <1>2

\* A request that goes on takes nothing from the others.
LEMMA CallsAfterGoto ==
    ASSUME TypeOK, CallInv, NEW r \in Requests, NEW stage, Goto(r, stage),
           \A t \in Requests \ {r} : seen'[t] = seen[t],
           UNCHANGED rows,
           \A i \in Items : rcaKey[i] # NoRequest => rcaKey'[i] = rcaKey[i],
           Knows(r)'
    PROVE  CallInv'
<1> SUFFICES ASSUME NEW t \in Requests, t # r
             PROVE  Knows(t)'
  BY DEF CallInv
<1>1. /\ pc'[t] = pc[t] /\ item'[t] = item[t]
      /\ target'[t] = target[t] /\ seen'[t] = seen[t]
  BY DEF Goto, TypeOK
<1>2. \A i \in Items : rcaKey[i] = t => rcaKey'[i] = t
  BY RequestAssumption
<1> QED
  BY <1>1, <1>2, KnowledgeKept DEF CallInv, rows

\* Every step leaves each request with what it knows.
LEMMA CallStep ==
    ASSUME TypeOK, CallInv, RowInv, [Next]_vars
    PROVE  CallInv'
<1> USE DEF calls, locks, rows
<1>1. ASSUME NEW r \in Requests, Reject(r)
      PROVE  CallInv'
  BY <1>1, CallsAfterFinish DEF Reject
<1>2. ASSUME NEW r \in Requests, Begin(r)
      PROVE  CallInv'
  <2> SUFFICES ASSUME NEW t \in Requests
               PROVE  Knows(t)'
    BY DEF CallInv
  <2>1. CASE t = r
    BY <1>2, <2>1 DEF Begin, Knows, Checked, Written, TypeOK
  <2>2. CASE t # r
    <3>1. /\ pc'[t] = pc[t] /\ item'[t] = item[t]
          /\ target'[t] = target[t] /\ seen'[t] = seen[t]
      BY <1>2, <2>2 DEF Begin, TypeOK
    <3> QED
      BY <1>2, <3>1, KnowledgeKept DEF Begin, CallInv
  <2> QED
    BY <2>1, <2>2
<1>3. ASSUME NEW r \in Requests, SelectItem(r)
      PROVE  CallInv'
  <2>1. CASE Reject(r)
    BY <1>1, <2>1
  <2>2. CASE /\ Exists(item[r])
             /\ seen' = [seen EXCEPT ![r] = status[item[r]]]
             /\ Goto(r, "check")
             /\ UNCHANGED <<locks, rows>>
    <3>1. item[r] \in Items /\ status[item[r]] \in held[item[r]]
      BY <1>3, <2>2 DEF SelectItem, CallInv, Knows, RowInv, Coherent, Exists
    <3>2. /\ seen'[r] = status[item[r]] /\ pc'[r] = "check" /\ item'[r] = item[r]
          /\ \A t \in Requests \ {r} : seen'[t] = seen[t]
      BY <2>2 DEF Goto, TypeOK
    <3>3. Knows(r)'
      BY <2>2, <3>1, <3>2 DEF Knows, Checked, Written
    <3> QED
      BY <2>2, <3>2, <3>3, CallsAfterGoto
  <2> QED
    BY <1>3, <2>1, <2>2 DEF SelectItem
<1>4. ASSUME NEW r \in Requests, CheckTransition(r)
      PROVE  CallInv'
  <2>1. CASE Legal(r) /\ MayClose(r) /\ Goto(r, "write") /\ UNCHANGED <<seen, locks, rows>>
    <3>1. pc'[r] = "write" /\ item'[r] = item[r] /\ target'[r] = target[r]
      BY <2>1 DEF Goto, TypeOK
    <3>2. Knows(r)'
      BY <1>4, <2>1, <3>1
         DEF CheckTransition, CallInv, Knows, Checked, Written, Legal, MayClose
    <3> QED
      BY <2>1, <3>2, CallsAfterGoto
  <2> QED
    BY <1>1, <1>4, <2>1 DEF CheckTransition
<1>5. ASSUME NEW r \in Requests, CheckRca(r)
      PROVE  CallInv'
  <2>1. CASE Submittable(r) /\ Goto(r, "write") /\ UNCHANGED <<seen, locks, rows>>
    <3>1. pc'[r] = "write" /\ item'[r] = item[r] /\ target'[r] = target[r]
      BY <2>1 DEF Goto, TypeOK
    <3>2. Knows(r)'
      BY <1>5, <2>1, <3>1
         DEF CheckRca, CallInv, Knows, Checked, Written, Submittable
    <3> QED
      BY <2>1, <3>2, CallsAfterGoto
  <2> QED
    BY <1>1, <1>5, <2>1 DEF CheckRca
<1>6. ASSUME NEW r \in Requests, WriteTransition(r)
      PROVE  CallInv'
  <2>1. pc'[r] = "invalidate" /\ item'[r] = item[r] /\ target'[r] = target[r]
    BY <1>6 DEF WriteTransition, Goto, TypeOK
  <2>2. Knows(r)'
    BY <1>6, <2>1 DEF WriteTransition, CallInv, Knows, Checked, Written, MayClose
  <2> QED
    BY <1>6, <2>2, CallsAfterGoto DEF WriteTransition
<1>7. ASSUME NEW r \in Requests, WriteRca(r)
      PROVE  CallInv'
  <2>1. CASE /\ rcaKey' = [rcaKey EXCEPT ![item[r]] = r]
             /\ Goto(r, "invalidate")
             /\ UNCHANGED <<seen, rowLock, rows>>
    <3>1. pc'[r] = "invalidate" /\ item'[r] = item[r] /\ target'[r] = target[r]
      BY <2>1 DEF Goto, TypeOK
    <3>2. item[r] \in Items /\ rcaKey'[item[r]] = r
      BY <1>7, <2>1 DEF WriteRca, CallInv, Knows, TypeOK
    <3>3. Knows(r)'
      BY <1>7, <2>1, <3>1, <3>2 DEF WriteRca, CallInv, Knows, Checked, Written
    <3>4. \A i \in Items : rcaKey[i] # NoRequest => rcaKey'[i] = rcaKey[i]
      BY <1>7, <2>1 DEF WriteRca, TypeOK
    <3> QED
      BY <2>1, <3>3, <3>4, CallsAfterGoto
  <2> QED
    BY <1>1, <1>7, <2>1 DEF WriteRca
<1>8. ASSUME NEW r \in Requests, Invalidate(r) \/ UpdateMttr(r)
      PROVE  CallInv'
  <2>1. PICK stage \in {"update", "commit"} : Goto(r, stage)
    BY <1>8 DEF Invalidate, UpdateMttr
  <2>2. /\ pc[r] \in {"invalidate", "update"}
        /\ UNCHANGED <<seen, rcaKey, rows>>
    BY <1>8 DEF Invalidate, UpdateMttr
  <2>3. pc'[r] = stage /\ item'[r] = item[r] /\ target'[r] = target[r]
    BY <2>1 DEF Goto, TypeOK
  <2>4. Knows(r)'
    BY <2>2, <2>3 DEF CallInv, Knows, Checked, Written, MayClose
  <2> QED
    BY <2>1, <2>2, <2>4, CallsAfterGoto
<1>9. ASSUME NEW r \in Requests, CommitTransition(r)
      PROVE  CallInv'
  <2>1. \A i \in Items : held[i] \subseteq held'[i]
    BY <1>9 DEF CommitTransition, TypeOK
  <2> QED
    BY <1>9, <2>1, CallsAfterFinish DEF CommitTransition
<1>10. ASSUME NEW r \in Requests, CommitRca(r)
       PROVE  CallInv'
  <2>1. \A i \in Items : rcaCount[i] > 0 => rcaCount'[i] > 0
    BY <1>10 DEF CommitRca, TypeOK
  <2> QED
    BY <1>10, <2>1, CallsAfterFinish DEF CommitRca
<1>11. ASSUME NEW i \in Items, OpenItem(i)
       PROVE  CallInv'
  <2>1. \A j \in Items : held[j] \subseteq held'[j]
    BY <1>11 DEF OpenItem, RowInv, Coherent, TypeOK
  <2> QED
    BY <1>11, <2>1, KnowledgeKept DEF OpenItem, CallInv
<1>12. ASSUME NEW r \in Requests, Abort(r)
       PROVE  CallInv'
  BY <1>1, <1>12 DEF Abort
<1>13. CASE UNCHANGED vars
  BY <1>13, KnowledgeKept DEF vars, CallInv
<1> QED
  BY <1>2, <1>3, <1>4, <1>5, <1>6, <1>7, <1>8, <1>9, <1>10, <1>11, <1>12, <1>13
     DEF Next, Handle

-----------------------------------------------------------------------------
\* Rows nobody writes stay coherent, as keys are only given back or taken by
\* the first RCA.
LEMMA CoherenceKept ==
    ASSUME NEW i \in Items, Coherent(i),
           rcaKey'[i] # NoRequest => rcaCount[i] = 0,
           status'[i] = status[i], held'[i] = held[i], rcaCount'[i] = rcaCount[i],
           mttr'[i] = mttr[i],
           i \in resolvedAt' <=> i \in resolvedAt, i \in closedAt' <=> i \in closedAt
    PROVE  Coherent(i)'
BY DEF Coherent

\* The end of a transaction takes no key.
LEMMA KeysAfterFinish ==
    ASSUME NEW r \in Requests, Finish(r), NEW i \in Items, Coherent(i)
    PROVE  rcaKey'[i] # NoRequest => rcaCount[i] = 0
BY DEF Finish, Release, Coherent

\* Every step keeps the rows of each item coherent.
LEMMA RowStep ==
    ASSUME TypeOK, CallInv, RowInv, [Next]_vars
    PROVE  RowInv'
<1> SUFFICES ASSUME NEW i \in Items
             PROVE  Coherent(i)'
  BY DEF RowInv
<1> USE RequestAssumption DEF calls, locks, rows
<1>1. Coherent(i)
  BY DEF RowInv
<1>2. ASSUME UNCHANGED rows, rcaKey'[i] # NoRequest => rcaCount[i] = 0
      PROVE  Coherent(i)'
  BY <1>1, <1>2, CoherenceKept
<1>3. ASSUME UNCHANGED <<rows, rcaKey>>
      PROVE  Coherent(i)'
  BY <1>1, <1>2, <1>3 DEF Coherent
<1>4. ASSUME NEW r \in Requests, Reject(r)
      PROVE  Coherent(i)'
  BY <1>1, <1>2, <1>4, KeysAfterFinish DEF Reject
<1>5. ASSUME NEW r \in Requests, Begin(r)
      PROVE  Coherent(i)'
  BY <1>3, <1>5 DEF Begin
<1>6. ASSUME NEW r \in Requests, SelectItem(r) \/ CheckTransition(r) \/ CheckRca(r)
      PROVE  Coherent(i)'
  BY <1>3, <1>4, <1>6 DEF SelectItem, CheckTransition, CheckRca
<1>7. ASSUME NEW r \in Requests, WriteTransition(r) \/ Invalidate(r) \/ UpdateMttr(r)
      PROVE  Coherent(i)'
  BY <1>3, <1>7 DEF WriteTransition, Invalidate, UpdateMttr
<1>8. ASSUME NEW r \in Requests, WriteRca(r)
      PROVE  Coherent(i)'
  <2>1. CASE /\ KeyIsFree(item[r])
             /\ rcaKey' = [rcaKey EXCEPT ![item[r]] = r]
             /\ UNCHANGED rows
    <3>1. rcaKey'[i] # NoRequest => rcaCount[i] = 0
      BY <1>1, <2>1 DEF KeyIsFree, Coherent, TypeOK
    <3> QED
      BY <1>2, <2>1, <3>1
  <2> QED
    BY <1>4, <1>8, <2>1 DEF WriteRca
<1>9. ASSUME NEW r \in Requests, CommitTransition(r)
      PROVE  Coherent(i)'
  <2>1. /\ item[r] \in Items /\ target[r] \in Statuses
        /\ seen[r] \in held[item[r]]
        /\ ValidTransition(seen[r], target[r]) /\ MayClose(r)
    BY <1>9 DEF CommitTransition, CallInv, Knows, Checked, TypeOK, Targets
  <2>2. rcaKey'[i] # NoRequest => rcaCount[i] = 0
    BY <1>1, <1>9, KeysAfterFinish DEF CommitTransition
  <2>3. CASE i # item[r]
    <3>1. status'[i] = status[i] /\ held'[i] = held[i] /\ rcaCount'[i] = rcaCount[i]
      BY <1>9, <2>3 DEF CommitTransition, TypeOK
    <3>2. /\ mttr'[i] = mttr[i]
          /\ i \in resolvedAt' <=> i \in resolvedAt
          /\ i \in closedAt' <=> i \in closedAt
      BY <1>9, <2>3 DEF CommitTransition, Stamp, TypeOK
    <3> QED
      BY <1>1, <2>2, <3>1, <3>2, CoherenceKept
  <2>4. CASE i = item[r]
    <3>1. /\ status'[i] = target[r] /\ held'[i] = held[i] \cup {target[r]}
          /\ rcaCount'[i] = rcaCount[i]
      BY <1>9, <2>4 DEF CommitTransition, TypeOK
    <3>2. /\ i \in resolvedAt' <=> i \in resolvedAt \/ target[r] = "RESOLVED"
          /\ i \in closedAt' <=> i \in closedAt \/ target[r] = "CLOSED"
          /\ mttr'[i] = IF target[r] = "CLOSED" THEN "close" ELSE mttr[i]
      BY <1>9, <2>4 DEF CommitTransition, Stamp, TypeOK
    <3>3. target[r] = "CLOSED" => "RESOLVED" \in held[i] /\ rcaCount[i] > 0
      BY <2>1, <2>4 DEF ValidTransition, AllowedTransitions, MayClose, Statuses
    <3>4. target[r] # "NONE"
      BY <2>1 DEF Statuses
    <3> QED
      BY <1>1, <2>2, <3>1, <3>2, <3>3, <3>4 DEF Coherent
  <2> QED
    BY <2>3, <2>4
<1>10. ASSUME NEW r \in Requests, CommitRca(r)
       PROVE  Coherent(i)'
  <2>1. item[r] \in Items /\ rcaKey[item[r]] = r
    BY <1>10 DEF CommitRca, CallInv, Knows, Written
  <2>2. CASE i # item[r]
    <3>1. rcaCount'[i] = rcaCount[i] /\ mttr'[i] = mttr[i]
      BY <1>10, <2>2 DEF CommitRca, TypeOK
    <3>2. rcaKey'[i] # NoRequest => rcaCount[i] = 0
      BY <1>1, <1>10, KeysAfterFinish DEF CommitRca
    <3> QED
      BY <1>1, <1>10, <3>1, <3>2, CoherenceKept DEF CommitRca
  <2>3. CASE i = item[r]
    <3>1. rcaCount[i] = 0 /\ i \notin closedAt
      BY <1>1, <2>1, <2>3 DEF Coherent
    <3>2. rcaCount'[i] = 1
      BY <1>10, <2>1, <2>3, <3>1 DEF CommitRca, TypeOK
    <3>3. rcaKey'[i] = NoRequest
      BY <1>10, <2>1, <2>3 DEF CommitRca, Finish, Release
    <3> QED
      BY <1>1, <1>10, <3>1, <3>2, <3>3 DEF CommitRca, Coherent
  <2> QED
    BY <2>2, <2>3
<1>11. ASSUME NEW j \in Items, OpenItem(j)
       PROVE  Coherent(i)'
  <2>1. CASE i # j
    BY <1>1, <1>11, <2>1, CoherenceKept DEF OpenItem, Coherent, TypeOK
  <2>2. CASE i = j
    <3>1. i \notin closedAt
      BY <1>1, <1>11, <2>2 DEF OpenItem, Coherent
    <3> QED
      BY <1>1, <1>11, <2>2, <3>1 DEF OpenItem, Coherent, TypeOK
  <2> QED
    BY <2>1, <2>2
<1>12. ASSUME NEW r \in Requests, Abort(r)
       PROVE  Coherent(i)'
  BY <1>4, <1>12 DEF Abort
<1>13. CASE UNCHANGED vars
  BY <1>3, <1>13 DEF vars
<1> QED
  BY <1>5, <1>6, <1>7, <1>8, <1>9, <1>10, <1>11, <1>12, <1>13 DEF Next, Handle

-----------------------------------------------------------------------------
\* The invariant holds in every reachable state.
THEOREM ApiInvariant == Spec => []ApiInv
<1>1. Init => ApiInv
  <2> SUFFICES ASSUME Init
               PROVE  ApiInv
    OBVIOUS
  <2>1. TypeOK
    BY DEF Init, TypeOK, Stages, Targets, Statuses
  <2>2. CallInv
    BY DEF Init, CallInv, Knows, Checked, Written
  <2>3. RowInv
    BY DEF Init, RowInv, Coherent
  <2> QED
    BY <2>1, <2>2, <2>3 DEF ApiInv
<1>2. ApiInv /\ [Next]_vars => ApiInv'
  BY ApiTypeStep, CallStep, RowStep DEF ApiInv
<1> QED
  BY <1>1, <1>2, PTL DEF Spec

\* Types are kept.
THEOREM ApiTypeCorrect == Spec => []TypeOK
<1>1. ApiInv => TypeOK
  BY DEF ApiInv
<1> QED
  BY <1>1, ApiInvariant, PTL

\* No incident is closed without a root cause analysis, however many requests
\* overlap.
THEOREM ClosedHasRcaCorrect == Spec => []ClosedHasRca
<1>1. ApiInv => ClosedHasRca
  BY DEF ApiInv, RowInv, Coherent, ClosedHasRca
<1> QED
  BY <1>1, ApiInvariant, PTL

\* Overlapping submissions leave one root cause analysis.
THEOREM OneRcaCorrect == Spec => []OneRcaPerItem
<1>1. ApiInv => OneRcaPerItem
  BY DEF ApiInv, RowInv, Coherent, OneRcaPerItem
<1> QED
  BY <1>1, ApiInvariant, PTL

\* A closed incident has its stamps and the MTTR of its close.
THEOREM ClosedRecordCorrect == Spec => []ClosedRecordComplete
<1>1. ApiInv => ClosedRecordComplete
  BY DEF ApiInv, RowInv, Coherent, ClosedRecordComplete
<1> QED
  BY <1>1, ApiInvariant, PTL

\* No late commit changes the analysis or the MTTR of an incident that has
\* been closed.
THEOREM ClosedFiguresCorrect == Spec => ClosedFiguresFrozen
<1>1. ASSUME ApiInv, [Next]_vars, NEW i \in closedAt
      PROVE  rcaCount'[i] = rcaCount[i] /\ mttr'[i] = mttr[i]
  <2> USE DEF calls, locks, rows
  <2>1. i \in Items /\ Coherent(i) /\ TypeOK /\ CallInv
    BY <1>1 DEF ApiInv, RowInv, TypeOK
  <2>2. rcaCount[i] > 0 /\ mttr[i] = "close" /\ rcaKey[i] = NoRequest
    BY <1>1, <2>1 DEF Coherent, TypeOK
  <2>3. CASE UNCHANGED rows
    BY <2>3
  <2>4. ASSUME NEW r \in Requests, CommitTransition(r)
        PROVE  rcaCount'[i] = rcaCount[i] /\ mttr'[i] = mttr[i]
    BY <2>1, <2>2, <2>4 DEF CommitTransition, Stamp, TypeOK
  <2>5. ASSUME NEW r \in Requests, CommitRca(r)
        PROVE  rcaCount'[i] = rcaCount[i] /\ mttr'[i] = mttr[i]
    <3>1. rcaKey[item[r]] = r
      BY <2>1, <2>5 DEF CommitRca, CallInv, Knows, Written
    <3>2. item[r] # i
      BY <2>2, <3>1, RequestAssumption
    <3> QED
      BY <2>1, <2>5, <3>2 DEF CommitRca, TypeOK
  <2>6. ASSUME NEW j \in Items, OpenItem(j)
        PROVE  rcaCount'[i] = rcaCount[i] /\ mttr'[i] = mttr[i]
    BY <2>6 DEF OpenItem
  <2>7. ASSUME NEW r \in Requests,
               \/ Begin(r) \/ SelectItem(r) \/ CheckTransition(r) \/ WriteTransition(r)
               \/ CheckRca(r) \/ WriteRca(r) \/ Invalidate(r) \/ UpdateMttr(r) \/ Abort(r)
        PROVE  UNCHANGED rows
    BY <2>7 DEF Begin, SelectItem, CheckTransition, WriteTransition, CheckRca,
                WriteRca, Invalidate, UpdateMttr, Abort, Reject
  <2> QED
    BY <1>1, <2>3, <2>4, <2>5, <2>6, <2>7 DEF Next, Handle, vars
<1>2. ApiInv /\ [Next]_vars =>
          [\A i \in closedAt : rcaCount'[i] = rcaCount[i] /\ mttr'[i] = mttr[i]]_vars
  BY <1>1
<1> QED
  BY <1>2, ApiInvariant, PTL DEF Spec, ClosedFiguresFrozen

-----------------------------------------------------------------------------
\* Every step of the API is a step of the incident records, or none.
LEMMA RecordStep ==
    ASSUME ApiInv, [Next]_vars
    PROVE  [Record!Next]_(Record!record)
<1> USE DEF calls, locks, rows, Record!record
<1>1. TypeOK /\ CallInv /\ RowInv
  BY DEF ApiInv
<1>2. ASSUME UNCHANGED rows
      PROVE  UNCHANGED Record!record
  BY <1>2
<1>3. ASSUME NEW r \in Requests,
             \/ Begin(r) \/ SelectItem(r) \/ CheckTransition(r) \/ WriteTransition(r)
             \/ CheckRca(r) \/ WriteRca(r) \/ Invalidate(r) \/ UpdateMttr(r) \/ Abort(r)
      PROVE  UNCHANGED rows
  BY <1>3 DEF Begin, SelectItem, CheckTransition, WriteTransition, CheckRca,
              WriteRca, Invalidate, UpdateMttr, Abort, Reject
<1>4. ASSUME NEW r \in Requests, CommitTransition(r)
      PROVE  \E i \in Items : Record!Close(i) \/ \E to \in Statuses : Record!Move(i, to)
  <2>1. /\ item[r] \in Items /\ target[r] \in Statuses
        /\ seen[r] \in held[item[r]]
        /\ ValidTransition(seen[r], target[r]) /\ MayClose(r)
    BY <1>1, <1>4 DEF CommitTransition, CallInv, Knows, Checked, TypeOK, Targets
  <2>2. Record!Become(item[r], target[r])
    BY <1>4 DEF CommitTransition, Record!Become
  <2>3. CASE target[r] = "CLOSED"
    <3>1. seen[r] = "RESOLVED"
      BY <2>1, <2>3 DEF ValidTransition, AllowedTransitions, Statuses
    <3>2. rcaCount[item[r]] > 0
      BY <2>1, <2>3 DEF MayClose
    <3>3. mttr' = [mttr EXCEPT ![item[r]] = "close"]
      BY <1>4, <2>3 DEF CommitTransition, Stamp
    <3> QED
      BY <2>1, <2>2, <2>3, <3>1, <3>2, <3>3 DEF Record!Close
  <2>4. CASE target[r] # "CLOSED"
    <3>1. UNCHANGED mttr
      BY <1>4, <2>4 DEF CommitTransition, Stamp
    <3>2. \E from \in held[item[r]] : Record!ValidTransition(from, target[r])
      BY <2>1 DEF ValidTransition, AllowedTransitions, Statuses,
                  Record!ValidTransition, Record!AllowedTransitions, Record!Statuses
    <3> QED
      BY <2>1, <2>2, <2>4, <3>1, <3>2 DEF Record!Move
  <2> QED
    BY <2>3, <2>4
<1>5. ASSUME NEW r \in Requests, CommitRca(r)
      PROVE  \E i \in Items : Record!Analyse(i)
  <2>1. /\ item[r] \in Items /\ rcaKey[item[r]] = r
        /\ seen[r] \in held[item[r]]
        /\ seen[r] \in {"INVESTIGATING", "RESOLVED"}
    BY <1>1, <1>5 DEF CommitRca, CallInv, Knows, Checked, Written
  <2>2. rcaCount[item[r]] = 0 /\ "CLOSED" \notin held[item[r]]
    BY <1>1, <2>1, RequestAssumption DEF RowInv, Coherent
  <2>3. {i \in Items : rcaCount'[i] > 0} = {i \in Items : rcaCount[i] > 0} \cup {item[r]}
    BY <1>1, <1>5, <2>1, <2>2 DEF CommitRca, TypeOK
  <2>4. held[item[r]] \cap {"INVESTIGATING", "RESOLVED"} # {}
    BY <2>1
  <2>5. item[r] \notin {i \in Items : rcaCount[i] > 0}
    BY <2>2
  <2>6. UNCHANGED <<status, held>> /\ mttr' = [mttr EXCEPT ![item[r]] = "rca"]
    BY <1>5 DEF CommitRca
  <2>7. ASSUME NEW i \in Items, i = item[r]
        PROVE  Record!Analyse(i)
    BY <2>7, <2>2, <2>3, <2>4, <2>5, <2>6 DEF Record!Analyse
  <2> QED
    BY <2>1, <2>7
<1>6. ASSUME NEW i \in Items, OpenItem(i)
      PROVE  Record!Open(i)
  <2>1. held' = [held EXCEPT ![i] = @ \cup {"OPEN"}]
    BY <1>1, <1>6 DEF OpenItem, RowInv, Coherent
  <2> QED
    BY <1>6, <2>1 DEF OpenItem, Record!Open, Record!Become
<1> QED
  BY <1>2, <1>3, <1>4, <1>5, <1>6
     DEF Next, Handle, vars, Record!Next, Record!Statuses, Statuses

\* The committed rows, written by overlapping and failing requests, behave as
\* the incident records.
THEOREM RecordImplemented == Spec => ImplementsRecord
<1>1. Init => Record!Init
  BY DEF Init, Record!Init
<1>2. ApiInv /\ [Next]_vars => [Record!Next]_(Record!record)
  BY RecordStep
<1> QED
  BY <1>1, <1>2, ApiInvariant, PTL DEF Spec, ImplementsRecord, Record!Spec

-----------------------------------------------------------------------------
(***************************************************************************)
(* The status leaves the state machine only because two transitions of an  *)
(* item overlap: the second one commits what it checked before the first.  *)
(* Were those of an item serialised, by a SELECT that locks the row for    *)
(* example, the status would move along the machine and CLOSED would be    *)
(* terminal, whatever submissions, failures and transitions of other items *)
(* there are.                                                              *)
(***************************************************************************)
Changing(r) == pc[r] # "idle" /\ target[r] # "RCA"

OneTransitionPerItem ==
    \A r, s \in Requests : Changing(r) /\ Changing(s) /\ item[r] = item[s] => r = s

StatusAlongMachine ==
    [][\A i \in Items : status'[i] # status[i] =>
           \/ status[i] = "NONE" /\ status'[i] = "OPEN"
           \/ ValidTransition(status[i], status'[i])]_vars

\* What a transition has read is still so.
SeenCurrent ==
    \A r \in Requests : Changing(r) /\ pc[r] # "select" => seen[r] = status[item[r]]

\* The other requests are where they were.
OthersUntouched(r) ==
    \A t \in Requests \ {r} :
        pc'[t] = pc[t] /\ item'[t] = item[t] /\ target'[t] = target[t] /\ seen'[t] = seen[t]

\* Each step of a handler is that of one request.
LEMMA OneRequestMoves ==
    ASSUME TypeOK, NEW r \in Requests, Begin(r) \/ Handle(r) \/ Abort(r)
    PROVE  OthersUntouched(r)
BY DEF TypeOK, OthersUntouched, Begin, Handle, Abort, Reject, Finish, Goto, SelectItem,
       CheckTransition, WriteTransition, CheckRca, WriteRca, Invalidate, UpdateMttr,
       CommitTransition, CommitRca

\* Where transitions of an item do not overlap, what one has read stays so.
LEMMA SeenStep ==
    ASSUME ApiInv, OneTransitionPerItem, SeenCurrent, [Next]_vars
    PROVE  SeenCurrent'
<1> USE DEF calls, locks, rows
<1>0. TypeOK /\ CallInv
  BY DEF ApiInv
<1>1. ASSUME NEW r \in Requests, OthersUntouched(r), UNCHANGED status,
             pc'[r] \in {"idle", "select"} \/ target'[r] = "RCA"
                 \/ (item'[r] = item[r] /\ seen'[r] = status[item[r]])
      PROVE  SeenCurrent'
  BY <1>1 DEF SeenCurrent, Changing, OthersUntouched
<1>2. ASSUME NEW r \in Requests, Finish(r)
      PROVE  pc'[r] = "idle"
  BY <1>0, <1>2 DEF Finish, TypeOK
<1>3. ASSUME NEW r \in Requests, NEW stage \in Stages, Goto(r, stage), UNCHANGED seen,
             pc[r] \notin {"idle", "select"}
      PROVE  target'[r] = "RCA" \/ (item'[r] = item[r] /\ seen'[r] = status[item[r]])
  BY <1>3 DEF Goto, SeenCurrent, Changing
<1>4. ASSUME NEW r \in Requests, Begin(r)
      PROVE  SeenCurrent'
  <2>1. pc'[r] = "select" /\ UNCHANGED status
    BY <1>0, <1>4 DEF Begin, TypeOK
  <2> QED
    BY <1>0, <1>1, <1>4, <2>1, OneRequestMoves
<1>5. ASSUME NEW r \in Requests, SelectItem(r)
      PROVE  SeenCurrent'
  <2>1. OthersUntouched(r)
    BY <1>0, <1>5, OneRequestMoves DEF Handle
  <2>2. CASE Reject(r)
    BY <1>1, <1>2, <2>1, <2>2 DEF Reject
  <2>3. CASE Exists(item[r]) /\ Goto(r, "check") /\ UNCHANGED rows
                 /\ seen' = [seen EXCEPT ![r] = status[item[r]]]
    <3>1. item'[r] = item[r] /\ seen'[r] = status[item[r]]
      BY <1>0, <2>3 DEF Goto, TypeOK
    <3> QED
      BY <1>1, <2>1, <2>3, <3>1
  <2> QED
    BY <1>5, <2>2, <2>3 DEF SelectItem
<1>6. ASSUME NEW r \in Requests,
             \/ CheckTransition(r) \/ WriteTransition(r) \/ CheckRca(r) \/ WriteRca(r)
             \/ Invalidate(r) \/ UpdateMttr(r) \/ Abort(r)
      PROVE  SeenCurrent'
  <2>1. OthersUntouched(r)
    BY <1>0, <1>6, OneRequestMoves DEF Handle
  <2>2. UNCHANGED status
    BY <1>6 DEF CheckTransition, WriteTransition, CheckRca, WriteRca, Invalidate,
                UpdateMttr, Abort, Reject
  <2>3. \/ Finish(r)
        \/ /\ UNCHANGED seen /\ pc[r] \notin {"idle", "select"}
           /\ \E stage \in Stages : Goto(r, stage)
    BY <1>6 DEF CheckTransition, WriteTransition, CheckRca, WriteRca, Invalidate,
                UpdateMttr, Abort, Reject, Stages
  <2> QED
    BY <1>1, <1>2, <1>3, <2>1, <2>2, <2>3
<1>7. ASSUME NEW r \in Requests, CommitRca(r)
      PROVE  SeenCurrent'
  <2>1. OthersUntouched(r)
    BY <1>0, <1>7, OneRequestMoves DEF Handle
  <2> QED
    BY <1>1, <1>2, <1>7, <2>1 DEF CommitRca
<1>8. ASSUME NEW r \in Requests, CommitTransition(r)
      PROVE  SeenCurrent'
  <2>1. OthersUntouched(r) /\ pc'[r] = "idle"
    BY <1>0, <1>2, <1>8, OneRequestMoves DEF Handle, CommitTransition
  <2>2. Changing(r) /\ \A i \in Items : i # item[r] => status'[i] = status[i]
    BY <1>0, <1>8 DEF CommitTransition, Changing, TypeOK
  <2> SUFFICES ASSUME NEW t \in Requests, Changing(t)', pc'[t] # "select"
               PROVE  seen'[t] = status'[item'[t]]
    BY DEF SeenCurrent
  <2>3. t # r
    BY <2>1 DEF Changing
  <2>4. Changing(t) /\ pc[t] # "select" /\ item'[t] = item[t] /\ seen'[t] = seen[t]
    BY <2>1, <2>3 DEF Changing, OthersUntouched
  <2>5. item[t] # item[r] /\ item[t] \in Items
    BY <1>0, <2>2, <2>3, <2>4 DEF OneTransitionPerItem, CallInv, Knows, Changing
  <2> QED
    BY <2>2, <2>4, <2>5 DEF SeenCurrent
<1>9. ASSUME NEW i \in Items, OpenItem(i)
      PROVE  SeenCurrent'
  <2>1. /\ UNCHANGED calls /\ status[i] = "NONE"
        /\ \A j \in Items : j # i => status'[j] = status[j]
    BY <1>0, <1>9 DEF OpenItem, TypeOK
  <2> SUFFICES ASSUME NEW t \in Requests, Changing(t), pc[t] # "select"
               PROVE  seen[t] = status'[item[t]]
    BY <2>1 DEF SeenCurrent, Changing
  <2>2. seen[t] \in Statuses /\ item[t] \in Items /\ seen[t] = status[item[t]]
    BY <1>0 DEF SeenCurrent, Changing, CallInv, Knows, TypeOK
  <2>3. item[t] # i
    BY <2>1, <2>2 DEF Statuses
  <2> QED
    BY <2>1, <2>2, <2>3
<1>10. CASE UNCHANGED vars
  BY <1>10 DEF vars, SeenCurrent, Changing
<1> QED
  BY <1>4, <1>5, <1>6, <1>7, <1>8, <1>9, <1>10 DEF Next, Handle

\* A status that changes moves along the state machine.
LEMMA MachineStep ==
    ASSUME ApiInv, SeenCurrent, [Next]_vars, NEW i \in Items, status'[i] # status[i]
    PROVE  \/ status[i] = "NONE" /\ status'[i] = "OPEN"
           \/ ValidTransition(status[i], status'[i])
<1> USE DEF calls, locks, rows
<1>0. TypeOK /\ CallInv
  BY DEF ApiInv
<1>1. ASSUME NEW r \in Requests,
             \/ Begin(r) \/ SelectItem(r) \/ CheckTransition(r) \/ WriteTransition(r)
             \/ CheckRca(r) \/ WriteRca(r) \/ Invalidate(r) \/ UpdateMttr(r) \/ Abort(r)
             \/ CommitRca(r)
      PROVE  UNCHANGED status
  BY <1>1 DEF Begin, SelectItem, CheckTransition, WriteTransition, CheckRca,
              WriteRca, Invalidate, UpdateMttr, Abort, Reject, CommitRca
<1>2. ASSUME NEW r \in Requests, CommitTransition(r)
      PROVE  ValidTransition(status[i], status'[i])
  <2>1. item[r] = i /\ status'[i] = target[r] /\ pc[r] = "commit" /\ target[r] # "RCA"
    BY <1>0, <1>2 DEF CommitTransition, TypeOK
  <2>2. seen[r] = status[i] /\ ValidTransition(seen[r], target[r])
    BY <1>0, <2>1 DEF SeenCurrent, Changing, CallInv, Knows, Checked
  <2> QED
    BY <2>1, <2>2
<1>3. ASSUME NEW j \in Items, OpenItem(j)
      PROVE  status[i] = "NONE" /\ status'[i] = "OPEN"
  BY <1>0, <1>3 DEF OpenItem, TypeOK
<1> QED
  BY <1>1, <1>2, <1>3 DEF Next, Handle, vars

\* With one transition of an item at a time every change of its status is one the state
\* machine allows from the status it has.
THEOREM SerialTransitionsLegal == Spec /\ []OneTransitionPerItem => StatusAlongMachine
<1>1. Init => SeenCurrent
  BY DEF Init, SeenCurrent, Changing
<1>2. ApiInv /\ OneTransitionPerItem /\ SeenCurrent /\ [Next]_vars => SeenCurrent'
  BY SeenStep
<1>3. ApiInv /\ SeenCurrent /\ [Next]_vars =>
          [\A i \in Items : status'[i] # status[i] =>
               \/ status[i] = "NONE" /\ status'[i] = "OPEN"
               \/ ValidTransition(status[i], status'[i])]_vars
  BY MachineStep
<1> QED
  BY <1>1, <1>2, <1>3, ApiInvariant, PTL DEF Spec, StatusAlongMachine

\* Hence CLOSED is terminal as long as the transitions of an item do not overlap.
THEOREM SerialCloseTerminal == Spec /\ []OneTransitionPerItem => ClosedIsTerminal
<1>1. [\A i \in Items : status'[i] # status[i] =>
           \/ status[i] = "NONE" /\ status'[i] = "OPEN"
           \/ ValidTransition(status[i], status'[i])]_vars
      => [\A i \in Items : status[i] = "CLOSED" => status'[i] = "CLOSED"]_vars
  BY DEF ValidTransition, AllowedTransitions, Statuses
<1> QED
  BY <1>1, SerialTransitionsLegal, PTL DEF StatusAlongMachine, ClosedIsTerminal
=============================================================================
