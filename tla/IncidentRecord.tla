--------------------------- MODULE IncidentRecord ---------------------------
(***************************************************************************)
(* What the API keeps of an incident whatever requests overlap, fail or    *)
(* are cut off: it changes its status atomically, along a transition that  *)
(* some status it has held allows; it is closed only with a root cause     *)
(* analysis; it gets at most one of those, never once it has been closed;  *)
(* and its MTTR is that of the analysis until the close sets the last one. *)
(***************************************************************************)
EXTENDS WorkItemStates

CONSTANTS Items

VARIABLES
    state,     \* the status of each incident, "NONE" before it is opened
    past,      \* the statuses it has held
    analysed,  \* incidents with a root cause analysis
    repair     \* which event set the MTTR: "none", "rca" or "close"

record == <<state, past, analysed, repair>>

Init ==
    /\ state = [i \in Items |-> "NONE"]
    /\ past = [i \in Items |-> {}]
    /\ analysed = {}
    /\ repair = [i \in Items |-> "none"]

Become(i, to) ==
    /\ state' = [state EXCEPT ![i] = to]
    /\ past' = [past EXCEPT ![i] = @ \cup {to}]
    /\ UNCHANGED analysed

Open(i) ==
    /\ state[i] = "NONE"
    /\ Become(i, "OPEN")
    /\ UNCHANGED repair

Move(i, to) ==
    /\ to # "CLOSED"
    /\ \E from \in past[i] : ValidTransition(from, to)
    /\ Become(i, to)
    /\ UNCHANGED repair

Close(i) ==
    /\ "RESOLVED" \in past[i]
    /\ i \in analysed
    /\ Become(i, "CLOSED")
    /\ repair' = [repair EXCEPT ![i] = "close"]

Analyse(i) ==
    /\ i \notin analysed
    /\ past[i] \cap {"INVESTIGATING", "RESOLVED"} # {}
    /\ "CLOSED" \notin past[i]
    /\ analysed' = analysed \cup {i}
    /\ repair' = [repair EXCEPT ![i] = "rca"]
    /\ UNCHANGED <<state, past>>

Next ==
    \E i \in Items : Open(i) \/ Close(i) \/ Analyse(i) \/ \E to \in Statuses : Move(i, to)

Spec == Init /\ [][Next]_record
=============================================================================
