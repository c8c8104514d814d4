---------------------------- MODULE AlertStrategy ----------------------------
(***************************************************************************)
(* The choice of an alert strategy from a component id                     *)
(* (core/alert_strategy.py).  An id is taken apart at its underscores; of  *)
(* each part it matters only which key of the registry it starts with, at  *)
(* most one, and whether it is that key and nothing else.                  *)
(***************************************************************************)
EXTENDS Integers, Sequences

\* _STRATEGY_REGISTRY, in its order, with the priority of each strategy.
Registry == <<
    [key |-> "RDBMS",    priority |-> "P0"],
    [key |-> "DB",       priority |-> "P0"],
    [key |-> "POSTGRES", priority |-> "P0"],
    [key |-> "MYSQL",    priority |-> "P0"],
    [key |-> "CACHE",    priority |-> "P2"],
    [key |-> "REDIS",    priority |-> "P2"],
    [key |-> "MEMCACHE", priority |-> "P2"],
    [key |-> "QUEUE",    priority |-> "P1"],
    [key |-> "KAFKA",    priority |-> "P1"],
    [key |-> "RABBIT",   priority |-> "P1"],
    [key |-> "SQS",      priority |-> "P1"],
    [key |-> "API",      priority |-> "P1"],
    [key |-> "MCP",      priority |-> "P1"],
    [key |-> "SERVICE",  priority |-> "P1"] >>

Entries    == 1..14
Priorities == {"P0", "P1", "P2", "P3"}
Other      == "other"
Parts      == [stem : {Registry[n].key : n \in Entries} \cup {Other}, exact : BOOLEAN]

\* The id starts with the key, or a later part of it is the key.
Matches(key, id) ==
    \/ id[1].stem = key
    \/ \E k \in 2..Len(id) : id[k] = [stem |-> key, exact |-> TRUE]

\* The entries that match, and the first of them.
Hits(id)  == {n \in Entries : Matches(Registry[n].key, id)}
First(id) == CHOOSE n \in Hits(id) : \A m \in Hits(id) : n <= m

\* resolve_strategy and get_priority.
Priority(id) == IF Hits(id) = {} THEN "P3" ELSE Registry[First(id)].priority
=============================================================================
