--------------------------- MODULE IncidentFigures ---------------------------
(***************************************************************************)
(* The figures of incidents: what the worker and the handlers compute from *)
(* times that clients and engineers supply, and from the clock that the    *)
(* debounce window reads too.  Which signals open an incident is the       *)
(* subject of SignalPipeline: here the worker may insert one at any time.  *)
(* A request of the API takes one action, for those that concern one       *)
(* incident do not overlap here: that is the subject of WorkItemApi.       *)
(***************************************************************************)
EXTENDS DebounceWindow, WorkItemStates

CONSTANTS
    Stamps,   \* timestamps that clients put into signals
    Dates,    \* times that engineers put into an RCA
    Second,   \* ticks in a second
    IntMax,   \* the largest value of an INTEGER column
    MaxItems  \* bound: work items

ASSUME FiguresAssumption ==
    /\ Stamps \subseteq Int
    /\ Dates \subseteq Int
    /\ Second \in Nat \ {0}
    /\ IntMax \in Nat
    /\ MaxItems \in Nat

VARIABLE
    rows  \* work_items

\* Values of an INTEGER column.
Integer == -IntMax - 1..IntMax

Row == [component : Components, status : Statuses, first : Int,
        resolved : BOOLEAN,                  \* resolved_at is set
        closed : Int,                        \* closed_at, 0 while it is not set
        mttr : Integer, basis : {"none", "rca", "close"},
        rca : BOOLEAN]

FiguresInit == Init /\ rows = <<>>

-----------------------------------------------------------------------------
NewRow(c, ts) ==
    [component |-> c, status |-> "OPEN", first |-> ts, resolved |-> FALSE,
     closed |-> 0, mttr |-> 0, basis |-> "none", rca |-> FALSE]

\* A signal opens an incident.  Without a timestamp of its own it has the time of its
\* arrival, which may be long past.
InsertItem(c, ts) ==
    /\ Len(rows) < MaxItems
    /\ rows' = Append(rows, NewRow(c, ts))
    /\ UNCHANGED vars

\* int() of a number of seconds, which drops the fraction: towards zero.
Seconds(ticks) == IF ticks >= 0 THEN ticks \div Second ELSE -((-ticks) \div Second)

\* The PATCH handler; the flush of a figure that does not fit the column raises.
Transition(k, to) ==
    /\ ValidTransition(rows[k].status, to)
    /\ \/ /\ to # "CLOSED"
          /\ rows' = [rows EXCEPT ![k].status = to,
                                  ![k].resolved = @ \/ to = "RESOLVED"]
       \/ /\ to = "CLOSED" /\ rows[k].rca
          /\ Seconds(now - rows[k].first) \in Integer
          /\ rows' = [rows EXCEPT ![k].status = to, ![k].closed = now,
                                  ![k].mttr = Seconds(now - rows[k].first),
                                  ![k].basis = "close"]
    /\ UNCHANGED vars

\* Mutation of EndAfterStart: the two dates are not compared.
EndAfterStartUnchecked(start, end) == TRUE

\* The validator of RCACreateRequest.  Dates of which one has a time zone and the
\* other has none cannot be compared; the TypeError, like a refusal, changes nothing.
EndAfterStart(start, end) ==
    start.zoned = end.zoned /\ end.at > start.at

\* The POST handler of an RCA.
SubmitRca(k, start, end) ==
    /\ EndAfterStart(start, end)
    /\ ~rows[k].rca
    /\ rows[k].status \in {"INVESTIGATING", "RESOLVED"}
    /\ Seconds(end.at - start.at) \in Integer
    /\ rows' = [rows EXCEPT ![k].rca = TRUE, ![k].mttr = Seconds(end.at - start.at),
                            ![k].basis = "rca"]
    /\ UNCHANGED vars

RcaDate == [at : Dates, zoned : BOOLEAN]

FiguresNext ==
    \/ Next /\ UNCHANGED rows
    \/ \E c \in Components : \E ts \in Stamps \cup 0..now : InsertItem(c, ts)
    \/ \E k \in DOMAIN rows :
           \/ \E to \in Statuses : Transition(k, to)
           \/ \E start \in RcaDate, end \in RcaDate : SubmitRca(k, start, end)

FiguresSpec == FiguresInit /\ [][FiguresNext]_<<vars, rows>>

-----------------------------------------------------------------------------
\* Types of the variables: the figures fit their columns.
FiguresTypeOK == TypeOK /\ rows \in Seq(Row) /\ Len(rows) <= MaxItems

\* The MTTR an incident shows is that of its RCA, zero for dates less than a second
\* apart and never negative, until the incident is closed; from then on it is the time
\* from its first signal to its close, negative only for a signal whose timestamp is a
\* second or more after that.  This is said of an incident whose requests do not
\* overlap.
FiguresExplained ==
    \A k \in DOMAIN rows : LET row == rows[k] IN
        /\ row.basis = "rca" => row.rca /\ row.status # "CLOSED" /\ row.mttr >= 0
        /\ row.status = "CLOSED" =>
               /\ row.basis = "close" /\ row.rca /\ row.resolved
               /\ row.mttr = Seconds(row.closed - row.first)
               /\ row.mttr < 0 => row.first - row.closed >= Second
=============================================================================
