----------------------------- MODULE RateLimiter -----------------------------
(***************************************************************************)
(* The token bucket of core/rate_limiter.py, which every ingested payload  *)
(* passes.  consume refills the bucket for the time since the last call    *)
(* and takes its tokens, all while it holds the lock and without an await  *)
(* in between, so a call is one action.                                    *)
(*                                                                         *)
(* Time advances in ticks of equal length; RefillRate is counted per tick. *)
(***************************************************************************)
EXTENDS Integers

CONSTANTS
    Capacity,    \* tokens the bucket holds
    RefillRate,  \* tokens it gains in a tick
    Amounts,     \* numbers of tokens that are asked for
    MaxTime      \* bound: ticks in a behavior

ASSUME BucketAssumption ==
    /\ Capacity \in Nat
    /\ RefillRate \in Nat
    /\ Amounts \subseteq Nat
    /\ MaxTime \in Nat

VARIABLES
    now,         \* time.monotonic()
    tokens,      \* _tokens
    lastRefill,  \* _last_refill
    \* History.
    granted,     \* tokens granted so far
    refused,     \* whether the last call was refused, and the tokens it wanted
    since        \* a moment that has been marked: its time, and granted then

bucket == <<tokens, lastRefill>>
vars   == <<now, bucket, granted, refused, since>>

Init ==
    /\ now = 0
    /\ tokens = Capacity
    /\ lastRefill = 0
    /\ granted = 0
    /\ refused = 0
    /\ since = [time |-> 0, granted |-> 0]

Least(a, b) == IF a <= b THEN a ELSE b

\* The tokens a call finds in the bucket.
Refilled == Least(Capacity, tokens + (now - lastRefill) * RefillRate)

\* Mutation of Consume: the time of the refill is not recorded.
ConsumeUnstamped(n) ==
    /\ \/ /\ Refilled >= n
          /\ tokens' = Refilled - n
          /\ granted' = granted + n
          /\ refused' = 0
       \/ /\ Refilled < n
          /\ tokens' = Refilled
          /\ refused' = n
          /\ UNCHANGED granted
    /\ UNCHANGED <<now, lastRefill, since>>

\* Mutation of Consume: a refused call loses the tokens it found.
ConsumeForfeiting(n) ==
    /\ lastRefill' = now
    /\ \/ /\ Refilled >= n
          /\ tokens' = Refilled - n
          /\ granted' = granted + n
          /\ refused' = 0
       \/ /\ Refilled < n
          /\ tokens' = 0
          /\ refused' = n
          /\ UNCHANGED granted
    /\ UNCHANGED <<now, since>>

Consume(n) ==
    /\ lastRefill' = now
    /\ \/ /\ Refilled >= n
          /\ tokens' = Refilled - n
          /\ granted' = granted + n
          /\ refused' = 0
       \/ /\ Refilled < n
          /\ tokens' = Refilled
          /\ refused' = n
          /\ UNCHANGED granted
    /\ UNCHANGED <<now, since>>

\* Time passes.
Tick ==
    /\ now < MaxTime
    /\ now' = now + 1
    /\ UNCHANGED <<bucket, granted, refused, since>>

\* An observer starts to measure.
Mark ==
    /\ since' = [time |-> now, granted |-> granted]
    /\ UNCHANGED <<now, bucket, granted, refused>>

Next ==
    \/ \E n \in Amounts : Consume(n)
    \/ Tick
    \/ Mark

Spec == Init /\ [][Next]_vars

-----------------------------------------------------------------------------
\* Types of the variables; the bucket is never overdrawn and never overfull.
TypeOK ==
    /\ now \in 0..MaxTime
    /\ tokens \in 0..Capacity
    /\ lastRefill \in 0..now
    /\ granted \in Nat
    /\ refused \in Nat
    /\ since \in [time : 0..now, granted : 0..granted]

\* The sustained rate is enforced: whenever one starts to measure, no more is
\* granted than a full bucket and what flows in from then on.
RateEnforced ==
    granted - since.granted <= Capacity + (now - since.time) * RefillRate

\* A refusal is justified: whenever one starts to measure, what was granted from
\* then on and the amount refused exceed what flowed in, or a full bucket.
RefusalsJustified ==
    refused > 0 /\ lastRefill = now =>
        granted - since.granted + refused
            > Least(Capacity, (now - since.time) * RefillRate)
=============================================================================
