---------------------------- MODULE SignalLedger ----------------------------
(***************************************************************************)
(* What the worker promises about the two databases, without queue, tasks, *)
(* attempts or failures: a signal enters the audit log once, is counted at *)
(* most once and only after that, and is linked only to the item that      *)
(* counted it.  Nothing is ever taken back.                                *)
(***************************************************************************)
EXTENDS Integers

CONSTANTS Signals, NoItem

VARIABLES
    log,     \* signals in the audit log
    credit,  \* the item that counted each signal
    tally,   \* the count of each item
    link     \* the item each logged signal points to

ledger == <<log, credit, tally, link>>

Init ==
    /\ log = {}
    /\ credit = [s \in Signals |-> NoItem]
    /\ tally = [i \in Signals |-> 0]
    /\ link = [s \in Signals |-> NoItem]

Record(s) ==
    /\ s \notin log
    /\ log' = log \cup {s}
    /\ UNCHANGED <<credit, tally, link>>

\* The signal opens the item that bears its name, or joins an open one.
Credit(s, i) ==
    /\ s \in log
    /\ credit[s] = NoItem
    /\ \/ i = s /\ tally[i] = 0
       \/ tally[i] > 0
    /\ credit' = [credit EXCEPT ![s] = i]
    /\ tally' = [tally EXCEPT ![i] = @ + 1]
    /\ UNCHANGED <<log, link>>

Link(s) ==
    /\ credit[s] # NoItem
    /\ link' = [link EXCEPT ![s] = credit[s]]
    /\ UNCHANGED <<log, credit, tally>>

Next == \E s \in Signals : Record(s) \/ Link(s) \/ \E i \in Signals : Credit(s, i)

Spec == Init /\ [][Next]_ledger
=============================================================================
