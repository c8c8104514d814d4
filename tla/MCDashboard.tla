----------------------------- MODULE MCDashboard -----------------------------
(***************************************************************************)
(* Instance of Dashboard for TLC.                                          *)
(***************************************************************************)
EXTENDS Dashboard

\* A database, and then a component that no key of the registry matches.
TwoComponents == <<
    << [stem |-> "other", exact |-> FALSE], [stem |-> "DB", exact |-> TRUE] >>,
    << [stem |-> "other", exact |-> TRUE] >> >>

TwoFilters == {NoFilter, [status |-> "OPEN", priority |-> "P3"]}
=============================================================================
