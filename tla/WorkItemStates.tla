--------------------------- MODULE WorkItemStates ---------------------------
(***************************************************************************)
(* The work item state machine of backend/app/core/state_machine.py: the   *)
(* four statuses, the transitions each State class allows, and the check   *)
(* that the PATCH handler makes before it writes.                          *)
(***************************************************************************)

Statuses == {"OPEN", "INVESTIGATING", "RESOLVED", "CLOSED"}

\* allowed_transitions of OpenState, InvestigatingState, ResolvedState and
\* ClosedState.
AllowedTransitions ==
    [status \in Statuses |->
        CASE status = "OPEN"          -> {"INVESTIGATING"}
          [] status = "INVESTIGATING" -> {"RESOLVED", "OPEN"}
          [] status = "RESOLVED"      -> {"CLOSED", "INVESTIGATING"}
          [] status = "CLOSED"        -> {}]

\* validate_transition raises ValueError exactly when this is false.
ValidTransition(current, target) ==
    /\ current \in Statuses
    /\ target \in AllowedTransitions[current]

\* The statuses for which a new signal joins the item instead of opening one.
ActiveStatuses == {"OPEN", "INVESTIGATING"}
=============================================================================
