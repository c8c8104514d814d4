-------------------------- MODULE RateLimiterProofs --------------------------
(***************************************************************************)
(* The bounds of RateLimiter for every capacity and every rate.  The       *)
(* inductive invariant weighs what was granted since the mark, plus what   *)
(* the bucket holds, against what flowed in since then.                    *)
(***************************************************************************)
EXTENDS RateLimiter, TLAPS

Inflow == (now - since.time) * RefillRate

BucketInv ==
    /\ TypeOK
    /\ granted + Refilled <= Capacity + Inflow + since.granted
    /\ granted + Refilled >= Least(Capacity, Inflow) + since.granted
    /\ RefusalsJustified

\* A product with a tick more.
LEMMA OneMore ==
    ASSUME NEW a \in Int, NEW b \in Int, NEW r \in Nat
    PROVE  /\ (a - b) * r \in Int
           /\ (a + 1 - b) * r = (a - b) * r + r
           /\ a >= b => (a - b) * r >= 0
BY Z3

\* What a call finds is a legal filling.
LEMMA RefilledType ==
    ASSUME TypeOK
    PROVE  Refilled \in 0..Capacity
<1>1. (now - lastRefill) * RefillRate \in Nat
  BY OneMore, BucketAssumption DEF TypeOK
<1> QED
  BY <1>1, BucketAssumption DEF Refilled, Least, TypeOK

\* Every step keeps the balance.
LEMMA BucketStep == BucketInv /\ [Next]_vars => BucketInv'
<1> SUFFICES ASSUME BucketInv, [Next]_vars
             PROVE  BucketInv'
  OBVIOUS
<1> USE BucketAssumption
<1>1. TypeOK /\ Refilled \in 0..Capacity
  BY RefilledType DEF BucketInv
<1>2. Inflow \in Nat
  BY <1>1, OneMore DEF TypeOK, Inflow
<1>3. ASSUME NEW n \in Amounts, Consume(n)
      PROVE  BucketInv'
  <2>1. TypeOK'
    BY <1>1, <1>3 DEF Consume, TypeOK
  <2>2. UNCHANGED Inflow
    BY <1>3 DEF Consume, Inflow
  <2>3. Refilled' = tokens'
    <3>1. (now' - lastRefill') * RefillRate = 0
      BY <1>1, <1>3 DEF Consume, TypeOK
    <3>2. tokens' \in Int /\ tokens' <= Capacity
      BY <2>1 DEF TypeOK
    <3>3. Refilled' = Least(Capacity, tokens' + (now' - lastRefill') * RefillRate)
      BY DEF Refilled, Least
    <3> QED
      BY <3>1, <3>2, <3>3 DEF Least
  <2>4. granted' + Refilled' = granted + Refilled /\ UNCHANGED since
    BY <1>1, <1>3, <2>3 DEF Consume, TypeOK
  <2>5. /\ granted' + Refilled' <= Capacity + Inflow' + since'.granted
        /\ granted' + Refilled' >= Least(Capacity, Inflow') + since'.granted
    BY <2>2, <2>4 DEF BucketInv
  <2>6. RefusalsJustified'
    <3>1. refused' > 0 => granted' = granted /\ Refilled < refused'
      BY <1>1, <1>3 DEF Consume, TypeOK
    <3> QED
      BY <1>1, <1>2, <2>1, <2>2, <2>4, <3>1
         DEF BucketInv, RefusalsJustified, Inflow, Least, TypeOK
  <2> QED
    BY <2>1, <2>5, <2>6 DEF BucketInv
<1>4. CASE Tick
  <2>1. TypeOK'
    BY <1>1, <1>4 DEF Tick, bucket, TypeOK
  <2>2. Inflow' = Inflow + RefillRate
    BY <1>1, <1>4, OneMore DEF Tick, Inflow, TypeOK
  <2>3. \/ Refilled' = Refilled + RefillRate
        \/ Refilled' = Capacity /\ Refilled' <= Refilled + RefillRate
    <3>1. /\ (now - lastRefill) * RefillRate \in Nat
          /\ (now' - lastRefill) * RefillRate = (now - lastRefill) * RefillRate + RefillRate
      BY <1>1, <1>4, OneMore DEF Tick, TypeOK
    <3> QED
      BY <1>1, <1>4, <3>1 DEF Tick, bucket, Refilled, Least, TypeOK
  <2>4. UNCHANGED <<granted, since>>
    BY <1>4 DEF Tick
  <2>5. /\ granted' + Refilled' <= Capacity + Inflow' + since'.granted
        /\ granted' + Refilled' >= Least(Capacity, Inflow') + since'.granted
    BY <1>1, <1>2, <2>2, <2>3, <2>4 DEF BucketInv, TypeOK, Least
  <2>6. RefusalsJustified'
    BY <1>1, <1>4 DEF Tick, bucket, RefusalsJustified, TypeOK
  <2> QED
    BY <2>1, <2>5, <2>6 DEF BucketInv
<1>5. CASE Mark
  <2>1. TypeOK'
    BY <1>1, <1>5 DEF Mark, bucket, TypeOK
  <2>2. /\ since'.granted = granted /\ since'.time = now
        /\ UNCHANGED <<now, granted, refused, lastRefill>>
    BY <1>5 DEF Mark, bucket
  <2>3. Inflow' = 0
    BY <1>1, <2>2 DEF Inflow, TypeOK
  <2>4. UNCHANGED Refilled
    BY <1>5 DEF Mark, bucket, Refilled
  <2>5. /\ granted' + Refilled' <= Capacity + Inflow' + since'.granted
        /\ granted' + Refilled' >= Least(Capacity, Inflow') + since'.granted
    BY <1>1, <2>2, <2>3, <2>4 DEF Least, TypeOK
  <2>6. RefusalsJustified'
    BY <1>1, <2>2, <2>3 DEF RefusalsJustified, Inflow, Least, TypeOK
  <2> QED
    BY <2>1, <2>5, <2>6 DEF BucketInv
<1>6. CASE UNCHANGED vars
  BY <1>6 DEF vars, bucket, BucketInv, TypeOK, Inflow, Refilled, RefusalsJustified
<1> QED
  BY <1>3, <1>4, <1>5, <1>6 DEF Next

\* The invariant holds in every reachable state.
THEOREM BucketInvariant == Spec => []BucketInv
<1>1. Init => BucketInv
  BY BucketAssumption
     DEF Init, BucketInv, TypeOK, Inflow, Refilled, RefusalsJustified, Least
<1> QED
  BY <1>1, BucketStep, PTL DEF Spec

\* The bucket is never overdrawn and never overfull.
THEOREM BucketTypeCorrect == Spec => []TypeOK
<1>1. BucketInv => TypeOK
  BY DEF BucketInv
<1> QED
  BY <1>1, BucketInvariant, PTL

\* From any moment on, no more is granted than a full bucket and the inflow.
THEOREM RateCorrect == Spec => []RateEnforced
<1>1. BucketInv => RateEnforced
  <2> SUFFICES ASSUME BucketInv
               PROVE  RateEnforced
    OBVIOUS
  <2>1. TypeOK /\ Refilled \in 0..Capacity
    BY RefilledType DEF BucketInv
  <2>2. Inflow \in Int
    BY <2>1, OneMore, BucketAssumption DEF Inflow, TypeOK
  <2> QED
    BY <2>1, <2>2, BucketAssumption DEF BucketInv, RateEnforced, Inflow, TypeOK
<1> QED
  BY <1>1, BucketInvariant, PTL

\* A refused call asked for more than the inflow, or a full bucket, had left.
THEOREM RefusalCorrect == Spec => []RefusalsJustified
<1>1. BucketInv => RefusalsJustified
  BY DEF BucketInv
<1> QED
  BY <1>1, BucketInvariant, PTL
=============================================================================
