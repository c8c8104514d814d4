---------------------------- MODULE IngestApiProofs ----------------------------
(***************************************************************************)
(* Theorems about IngestApi, for any number of connections and messages,   *)
(* any queue and any rate.  The endpoints only ever call consume with the  *)
(* units of one token, so the bounds of RateLimiterProofs are theirs.      *)
(*                                                                         *)
(* That the answers are true is proved from what one payload adds to both  *)
(* sides: a signal on the queue, and a count or an answer that says so.    *)
(* The answers on a connection are proved from what the loop has in hand:  *)
(* what became of the messages is what was answered and, while an answer   *)
(* is being sent, that answer.                                             *)
(***************************************************************************)
EXTENDS IngestApi, RateLimiterProofs, FiniteSetTheorems

EndpointTypes ==
    /\ queued \in 0..QueueMax
    /\ batch \in [size : 0..BatchMax, left : 0..BatchMax, accepted : 0..BatchMax,
                  rejected : 0..BatchMax]
    /\ sock \in [Sockets -> {"open", "gone", "closed"}]
    /\ inbox \in [Sockets -> Seq(Kinds)]
    /\ reply \in [Sockets -> Fates \cup {NoReply}]
    /\ acks \in [Sockets -> Seq(Fates)]
    /\ put \in Nat /\ wasted \in Nat /\ reported \in Nat
    /\ fates \in [Sockets -> Seq(Fates)]

BatchSums == batch.accepted + batch.rejected + batch.left = batch.size

\* The answers that call a signal accepted are finitely many, and they are as many as
\* the signals that were put on the queue.
AnswersAdd ==
    /\ IsFiniteSet(AcceptedAnswers)
    /\ put = Told + batch.accepted

\* What the answers on a connection say about its messages.
InHand(c) ==
    /\ sock[c] = "open" =>
           fates[c] = IF reply[c] = NoReply THEN acks[c] ELSE Append(acks[c], reply[c])
    /\ IsPrefix(acks[c], fates[c])

IngestInv ==
    /\ EndpointTypes
    /\ BatchSums
    /\ TokensAccounted
    /\ AnswersAdd
    /\ \A c \in Sockets : InHand(c)

-----------------------------------------------------------------------------
\* Whatever becomes of a payload, it has asked for one token.
LEMMA OfferIsConsume == \A fate : Offer(fate) => Consume(Token)
BY DEF Offer

\* The endpoints use the limiter as RateLimiter describes it.
LEMMA IngestStepIsBucketStep == [IngestNext]_<<vars, ingestVars>> => [Next]_vars
<1> SUFFICES ASSUME [IngestNext]_<<vars, ingestVars>>
             PROVE  [Next]_vars
  OBVIOUS
<1>0. Consume(Token) => Next
  BY IngestAssumption DEF Next
<1>1. CASE IngestSignal \/ IngestBatch
  BY <1>0, <1>1, OfferIsConsume DEF IngestSignal, IngestBatch
<1>2. CASE \E n \in 0..BatchMax + 1 : BeginBatch(n)
  BY <1>2 DEF BeginBatch
<1>3. CASE AnswerBatch \/ RunWorker
  BY <1>3 DEF AnswerBatch, RunWorker
<1>4. ASSUME NEW c \in Sockets, SendMessage(c) \/ Leave(c) \/ EndSocket(c) \/ SendReply(c)
      PROVE  UNCHANGED vars
  BY <1>4 DEF SendMessage, Leave, EndSocket, SendReply
<1>5. ASSUME NEW c \in Sockets, ReceiveMessage(c)
      PROVE  Next
  BY <1>0, <1>5 DEF ReceiveMessage, Judge, Offer
<1>6. CASE Clock
  BY <1>6 DEF Clock, Next
<1> QED
  BY <1>1, <1>2, <1>3, <1>4, <1>5, <1>6 DEF IngestNext, ServeSocket

\* So the rate that RateLimiter enforces is enforced on the three paths together.
THEOREM IngestRefinesBucket == IngestSpec => Spec
<1>1. IngestInit => Init
  BY DEF IngestInit
<1> QED
  BY <1>1, IngestStepIsBucketStep, PTL DEF IngestSpec, Spec

-----------------------------------------------------------------------------
\* A payload and the tokens: what is granted is accounted for at once.
LEMMA OfferStep ==
    ASSUME TypeOK, IngestInv, NEW fate, Offer(fate)
    PROVE  /\ queued' \in 0..QueueMax /\ put' \in Nat /\ wasted' \in Nat
           /\ TokensAccounted'
           /\ put' = put + Accepting(fate)
<1>1. Token \in Nat /\ QueueMax \in Nat
  BY IngestAssumption, BucketAssumption
<1>2. CASE Refilled >= Token /\ EnqueueSignal(fate)
  <2>1. Refilled \in 0..Capacity /\ Capacity \in Nat
    BY RefilledType, BucketAssumption
  <2>2. granted' = granted + Token
    BY <1>1, <1>2, <2>1 DEF Offer, Consume
  <2>3. /\ put' + wasted' = put + wasted + 1
        /\ put' = put + Accepting(fate)
        /\ queued' \in 0..QueueMax /\ put' \in Nat /\ wasted' \in Nat
    <3>1. queued \in 0..QueueMax /\ put \in Nat /\ wasted \in Nat
      BY DEF IngestInv, EndpointTypes
    <3>2. CASE queued < QueueMax
      BY <1>1, <1>2, <3>1, <3>2 DEF EnqueueSignal, Accepting
    <3>3. CASE queued >= QueueMax
      BY <1>1, <1>2, <3>1, <3>3 DEF EnqueueSignal, Accepting
    <3> QED
      BY <1>1, <3>1, <3>2, <3>3
  <2>4. Token * (put + wasted + 1) = Token * (put + wasted) + Token
    <3>1. put + wasted \in Nat
      BY DEF IngestInv, EndpointTypes
    <3> QED
      BY <1>1, <3>1
  <2> QED
    BY <2>2, <2>3, <2>4 DEF IngestInv, TokensAccounted
<1>3. CASE Refilled < Token /\ fate = "rate_limited" /\ UNCHANGED ledger
  <2>1. Refilled \in 0..Capacity /\ Capacity \in Nat
    BY RefilledType, BucketAssumption
  <2>2. granted' = granted
    BY <1>1, <1>3, <2>1 DEF Offer, Consume
  <2> QED
    BY <1>3, <2>2 DEF IngestInv, EndpointTypes, TokensAccounted, Accepting, ledger
<1> QED
  BY <1>2, <1>3 DEF Offer

\* The same for a message of a connection, valid or not.
LEMMA JudgeStep ==
    ASSUME TypeOK, IngestInv, NEW kind, NEW fate, Judge(kind, fate)
    PROVE  /\ queued' \in 0..QueueMax /\ put' \in Nat /\ wasted' \in Nat
           /\ TokensAccounted'
           /\ put' = put + Accepting(fate)
<1>1. Token \in Nat /\ QueueMax \in Nat
  BY IngestAssumption, BucketAssumption
<1>2. CASE Offer(fate)
  BY <1>2, OfferStep
<1>3. CASE /\ Consume(Token) /\ UNCHANGED <<queued, put>>
           /\ Refilled >= Token /\ fate = "error" /\ wasted' = wasted + 1
  <2>1. Refilled \in 0..Capacity /\ Capacity \in Nat
    BY RefilledType, BucketAssumption
  <2>2. granted' = granted + Token
    BY <1>1, <1>3, <2>1 DEF Consume
  <2>3. Token * (put + (wasted + 1)) = Token * (put + wasted) + Token
    BY <1>1 DEF IngestInv, EndpointTypes
  <2> QED
    BY <1>3, <2>2, <2>3 DEF IngestInv, EndpointTypes, TokensAccounted, Accepting
<1>4. CASE /\ Consume(Token) /\ UNCHANGED <<queued, put, wasted>>
           /\ Refilled < Token /\ fate = "rate_limited"
  <2>1. Refilled \in 0..Capacity /\ Capacity \in Nat
    BY RefilledType, BucketAssumption
  <2>2. granted' = granted
    BY <1>1, <1>4, <2>1 DEF Consume
  <2> QED
    BY <1>4, <2>2 DEF IngestInv, EndpointTypes, TokensAccounted, Accepting
<1> QED
  BY <1>2, <1>3, <1>4 DEF Judge

\* A sequence is a prefix of itself and of itself with one more.
LEMMA PrefixOfMore ==
    ASSUME NEW S, NEW s \in Seq(S), NEW t \in Seq(S), NEW x \in S, IsPrefix(s, t)
    PROVE  IsPrefix(s, s) /\ IsPrefix(s, Append(t, x))
<1>1. Len(s) <= Len(t) /\ SubSeq(s, 1, Len(s)) = SubSeq(t, 1, Len(s))
  BY DEF IsPrefix
<1>2. Append(t, x) \in Seq(S) /\ Len(Append(t, x)) = Len(t) + 1
  OBVIOUS
<1>3. SubSeq(Append(t, x), 1, Len(s)) = SubSeq(t, 1, Len(s))
  BY <1>1, <1>2
<1> QED
  BY <1>1, <1>2, <1>3 DEF IsPrefix

\* Which answers call a signal accepted.
LEMMA AcceptedMember ==
    ASSUME NEW p
    PROVE  p \in AcceptedAnswers <=>
               \E c \in Sockets : \E k \in DOMAIN fates[c] :
                   p = <<c, k>> /\ fates[c][k] = "accepted"
BY DEF AcceptedAnswers

\* One more answer on a connection is one more of them when it says accepted, and
\* none otherwise.
LEMMA AnswerAdded ==
    ASSUME fates \in [Sockets -> Seq(Fates)], IsFiniteSet(AcceptedAnswers),
           NEW c \in Sockets, NEW fate \in Fates,
           fates' = [fates EXCEPT ![c] = Append(@, fate)]
    PROVE  /\ IsFiniteSet(AcceptedAnswers')
           /\ Cardinality(AcceptedAnswers') = Cardinality(AcceptedAnswers) + Accepting(fate)
<1> DEFINE n   == Len(fates[c]) + 1
           new == <<c, n>>
<1>1. /\ fates[c] \in Seq(Fates) /\ Len(fates[c]) \in Nat
      /\ DOMAIN fates[c] = 1..Len(fates[c]) /\ n \notin DOMAIN fates[c]
  OBVIOUS
<1>2. /\ fates'[c] = Append(fates[c], fate)
      /\ \A d \in Sockets \ {c} : fates'[d] = fates[d]
  OBVIOUS
<1>3. /\ DOMAIN fates'[c] = DOMAIN fates[c] \cup {n}
      /\ fates'[c][n] = fate
      /\ \A k \in DOMAIN fates[c] : fates'[c][k] = fates[c][k]
  BY <1>1, <1>2
<1>4. ASSUME NEW p
      PROVE  p \in AcceptedAnswers' <=>
                 p \in AcceptedAnswers \/ (p = new /\ fate = "accepted")
  <2> HIDE DEF n
  <2>1. p \in AcceptedAnswers' <=>
            \E d \in Sockets : \E k \in DOMAIN fates'[d] :
                p = <<d, k>> /\ fates'[d][k] = "accepted"
    BY DEF AcceptedAnswers
  <2>2. ASSUME p \in AcceptedAnswers'
        PROVE  p \in AcceptedAnswers \/ (p = new /\ fate = "accepted")
    <3>1. PICK d \in Sockets : \E k \in DOMAIN fates'[d] :
              p = <<d, k>> /\ fates'[d][k] = "accepted"
      BY <2>1, <2>2
    <3>2. PICK k \in DOMAIN fates'[d] : p = <<d, k>> /\ fates'[d][k] = "accepted"
      BY <3>1
    <3>3. CASE d # c
      BY <1>2, <3>2, <3>3, AcceptedMember
    <3>4. CASE d = c /\ k = n
      BY <1>3, <3>2, <3>4
    <3>5. CASE d = c /\ k \in DOMAIN fates[c]
      BY <1>3, <3>2, <3>5, AcceptedMember
    <3> QED
      BY <1>3, <3>3, <3>4, <3>5
  <2>3. ASSUME p \in AcceptedAnswers
        PROVE  p \in AcceptedAnswers'
    <3>1. PICK d \in Sockets : \E k \in DOMAIN fates[d] :
              p = <<d, k>> /\ fates[d][k] = "accepted"
      BY <2>3, AcceptedMember
    <3> QED
      BY <1>2, <1>3, <2>1, <3>1
  <2>4. ASSUME p = new, fate = "accepted"
        PROVE  p \in AcceptedAnswers'
    BY <1>3, <2>1, <2>4
  <2> QED
    BY <2>2, <2>3, <2>4
<1>5. new \notin AcceptedAnswers
  BY <1>1, AcceptedMember
<1> HIDE DEF new
<1>6. CASE fate = "accepted"
  <2>1. AcceptedAnswers' = AcceptedAnswers \cup {new}
    BY <1>4, <1>6
  <2>2. /\ IsFiniteSet(AcceptedAnswers \cup {new})
        /\ Cardinality(AcceptedAnswers \cup {new}) = Cardinality(AcceptedAnswers) + 1
    BY <1>5, FS_AddElement
  <2> QED
    BY <1>6, <2>1, <2>2 DEF Accepting
<1>7. CASE fate # "accepted"
  <2>1. AcceptedAnswers' = AcceptedAnswers
    BY <1>4, <1>7
  <2>2. Cardinality(AcceptedAnswers) \in Nat
    BY FS_CardinalityType
  <2> QED
    BY <1>7, <2>1, <2>2 DEF Accepting
<1> QED
  BY <1>6, <1>7

\* An action that leaves both sides alone, or adds the same to both.
LEMMA AnswersKept ==
    ASSUME EndpointTypes, AnswersAdd, NEW more \in 0..1,
           UNCHANGED fates, put' = put + more,
           \/ reported' = reported + more /\ UNCHANGED batch
           \/ UNCHANGED reported /\ batch'.accepted = batch.accepted + more
    PROVE  AnswersAdd'
<1>1. AcceptedAnswers' = AcceptedAnswers
  BY DEF AcceptedAnswers
<1>2. Cardinality(AcceptedAnswers) \in Nat
  BY FS_CardinalityType DEF AnswersAdd
<1>3. reported \in Nat /\ batch.accepted \in 0..BatchMax /\ BatchMax \in Nat
  BY IngestAssumption DEF EndpointTypes
<1> QED
  BY <1>1, <1>2, <1>3 DEF AnswersAdd, Told

\* In particular one that touches none of it.
LEMMA AnswersUntouched ==
    ASSUME EndpointTypes, AnswersAdd, UNCHANGED <<fates, put, reported, batch>>
    PROVE  AnswersAdd'
BY AnswersKept DEF EndpointTypes

\* One step per action of the connections.
LEMMA SocketStep ==
    ASSUME TypeOK, IngestInv, NEW c \in Sockets,
           SendMessage(c) \/ Leave(c) \/ ServeSocket(c)
    PROVE  IngestInv'
<1> USE DEF IngestInv, ledger
<1>1. CASE SendMessage(c)
  <2>1. PICK kind \in Kinds : inbox' = [inbox EXCEPT ![c] = Append(@, kind)]
    BY <1>1 DEF SendMessage
  <2>2. EndpointTypes'
    BY <1>1, <2>1 DEF SendMessage, EndpointTypes
  <2>3. AnswersAdd'
    BY <1>1, AnswersUntouched DEF SendMessage
  <2> QED
    BY <1>1, <2>2, <2>3 DEF SendMessage, BatchSums, TokensAccounted, InHand, vars
<1>2. CASE Leave(c)
  <2>1. EndpointTypes'
    BY <1>2 DEF Leave, EndpointTypes
  <2>2. \A d \in Sockets : InHand(d)'
    BY <1>2 DEF Leave, InHand, EndpointTypes
  <2>3. AnswersAdd'
    BY <1>2, AnswersUntouched DEF Leave
  <2> QED
    BY <1>2, <2>1, <2>2, <2>3 DEF Leave, BatchSums, TokensAccounted, vars
<1>3. CASE EndSocket(c)
  <2>1. EndpointTypes'
    BY <1>3 DEF EndSocket, EndpointTypes
  <2>2. \A d \in Sockets : InHand(d)'
    BY <1>3 DEF EndSocket, InHand, EndpointTypes
  <2>3. AnswersAdd'
    BY <1>3, AnswersUntouched DEF EndSocket
  <2> QED
    BY <1>3, <2>1, <2>2, <2>3 DEF EndSocket, BatchSums, TokensAccounted, vars
<1>4. CASE ReceiveMessage(c)
  <2>1. PICK fate \in Fates :
            /\ Judge(Head(inbox[c]), fate)
            /\ fates' = [fates EXCEPT ![c] = Append(@, fate)]
            /\ reply' = [reply EXCEPT ![c] = fate]
    BY <1>4 DEF ReceiveMessage, ReplyTo
  <2>2. /\ inbox' = [inbox EXCEPT ![c] = Tail(@)] /\ inbox[c] # <<>>
        /\ sock[c] # "closed" /\ reply[c] = NoReply
        /\ UNCHANGED <<batch, sock, acks, reported>>
    BY <1>4 DEF ReceiveMessage
  <2>3. /\ queued' \in 0..QueueMax /\ put' \in Nat /\ wasted' \in Nat
        /\ TokensAccounted' /\ put' = put + Accepting(fate)
    BY <2>1, JudgeStep
  <2>4. EndpointTypes'
    <3>1. Tail(inbox[c]) \in Seq(Kinds) /\ Append(fates[c], fate) \in Seq(Fates)
      BY <2>2 DEF EndpointTypes
    <3> QED
      BY <2>1, <2>2, <2>3, <3>1 DEF EndpointTypes
  <2>5. \A d \in Sockets \ {c} : InHand(d)'
    BY <2>1, <2>2 DEF InHand, EndpointTypes
  <2>6. InHand(c)'
    <3>1. fates'[c] = Append(fates[c], fate) /\ reply'[c] = fate /\ fate # NoReply
      BY <2>1 DEF EndpointTypes, Fates, NoReply
    <3>2. IsPrefix(acks[c], Append(fates[c], fate))
      BY PrefixOfMore DEF EndpointTypes, InHand
    <3> QED
      BY <2>2, <3>1, <3>2 DEF InHand
  <2>7. AnswersAdd'
    <3>1. /\ IsFiniteSet(AcceptedAnswers')
          /\ Cardinality(AcceptedAnswers') = Cardinality(AcceptedAnswers) + Accepting(fate)
      BY <2>1, AnswerAdded DEF EndpointTypes, AnswersAdd
    <3>2. /\ reported \in Nat /\ batch.accepted \in 0..BatchMax /\ BatchMax \in Nat
          /\ Cardinality(AcceptedAnswers) \in Nat /\ Accepting(fate) \in 0..1
      BY IngestAssumption, FS_CardinalityType DEF EndpointTypes, AnswersAdd, Accepting
    <3> QED
      BY <2>2, <2>3, <3>1, <3>2 DEF AnswersAdd, Told
  <2> QED
    BY <2>2, <2>3, <2>4, <2>5, <2>6, <2>7 DEF BatchSums
<1>5. CASE SendReply(c)
  <2>1. /\ reply[c] \in Fates /\ reply[c] # NoReply
        /\ reply' = [reply EXCEPT ![c] = NoReply]
        /\ UNCHANGED <<vars, ledger, batch, fates, reported>>
    BY <1>5 DEF SendReply, EndpointTypes
  <2>2. EndpointTypes'
    <3>1. acks' \in [Sockets -> Seq(Fates)]
      <4>1. Append(acks[c], reply[c]) \in Seq(Fates)
        BY <2>1 DEF EndpointTypes
      <4> QED
        BY <1>5, <4>1 DEF SendReply, EndpointTypes
    <3>2. inbox' \in [Sockets -> Seq(Kinds)]
      <4>1. inbox' = inbox \/ inbox' = [inbox EXCEPT ![c] = <<>>]
        BY <1>5 DEF SendReply
      <4>2. <<>> \in Seq(Kinds)
        OBVIOUS
      <4> QED
        BY <4>1, <4>2 DEF EndpointTypes
    <3>3. sock' \in [Sockets -> {"open", "gone", "closed"}]
      BY <1>5 DEF SendReply, EndpointTypes
    <3>4. reply' \in [Sockets -> Fates \cup {NoReply}]
      BY <2>1 DEF EndpointTypes
    <3>5. UNCHANGED <<queued, put, wasted, reported, batch, fates>>
      BY <2>1
    <3> QED
      BY <3>1, <3>2, <3>3, <3>4, <3>5 DEF EndpointTypes
  <2>3. \A d \in Sockets \ {c} : InHand(d)'
    BY <1>5, <2>1 DEF SendReply, InHand, EndpointTypes
  <2>4. InHand(c)'
    <3>1. CASE sock[c] = "open"
      <4>1. /\ acks'[c] = fates[c] /\ reply'[c] = NoReply /\ fates'[c] = fates[c]
            /\ sock'[c] = "open"
        BY <1>5, <2>1, <3>1 DEF SendReply, EndpointTypes, InHand
      <4>2. IsPrefix(fates[c], fates[c])
        BY DEF IsPrefix, EndpointTypes
      <4> QED
        BY <4>1, <4>2 DEF InHand
    <3>2. CASE sock[c] # "open"
      BY <1>5, <2>1, <3>2 DEF SendReply, EndpointTypes, InHand
    <3> QED
      BY <3>1, <3>2
  <2>5. AnswersAdd'
    BY <2>1, AnswersUntouched
  <2> QED
    BY <2>1, <2>2, <2>3, <2>4, <2>5 DEF BatchSums, TokensAccounted, vars
<1> QED
  BY <1>1, <1>2, <1>3, <1>4, <1>5 DEF ServeSocket

\* The HTTP handlers, the worker and the clock.
LEMMA EndpointStep ==
    ASSUME TypeOK, IngestInv,
           \/ IngestSignal \/ IngestBatch \/ AnswerBatch \/ RunWorker \/ Clock
           \/ \E n \in 0..BatchMax + 1 : BeginBatch(n)
    PROVE  IngestInv'
<1> USE DEF IngestInv, ledger
<1>1. CASE IngestSignal
  <2>1. PICK fate \in Fates : Offer(fate) /\ reported' = reported + Accepting(fate)
    BY <1>1 DEF IngestSignal
  <2>2. EndpointTypes' /\ TokensAccounted'
    BY <1>1, <2>1, OfferStep DEF IngestSignal, EndpointTypes, Accepting, link
  <2>3. AnswersAdd'
    <3>1. Accepting(fate) \in 0..1
      BY DEF Accepting
    <3>2. UNCHANGED <<batch, fates>> /\ put' = put + Accepting(fate)
      BY <1>1, <2>1, OfferStep DEF IngestSignal, link
    <3> QED
      BY <2>1, <3>1, <3>2, AnswersKept
  <2> QED
    BY <1>1, <2>2, <2>3 DEF IngestSignal, BatchSums, InHand, link
<1>2. CASE IngestBatch
  <2>1. PICK fate \in Fates : Offer(fate) /\ batch' = Tally(fate)
    BY <1>2 DEF IngestBatch
  <2>2. /\ batch' \in [size : 0..BatchMax, left : 0..BatchMax, accepted : 0..BatchMax,
                       rejected : 0..BatchMax]
        /\ BatchSums'
    <3>1. BatchMax \in Nat
      BY IngestAssumption
    <3>2. /\ batch.size \in 0..BatchMax /\ batch.left \in 0..BatchMax
          /\ batch.accepted \in 0..BatchMax /\ batch.rejected \in 0..BatchMax
          /\ batch.accepted + batch.rejected + batch.left = batch.size
          /\ batch.left > 0
      BY <1>2 DEF IngestBatch, EndpointTypes, BatchSums
    <3>3. Accepting(fate) \in 0..1
      BY DEF Accepting
    <3> DEFINE more == Accepting(fate)
    <3>4. batch' = [size |-> batch.size, left |-> batch.left - 1,
                    accepted |-> batch.accepted + more,
                    rejected |-> batch.rejected + 1 - more]
      BY <2>1 DEF Tally, EndpointTypes
    <3> HIDE DEF more
    <3>5. more \in 0..1
      BY <3>3 DEF more
    <3>6. /\ batch.left - 1 \in 0..BatchMax
          /\ batch.accepted + more \in 0..BatchMax
          /\ batch.rejected + 1 - more \in 0..BatchMax
          /\ (batch.accepted + more) + (batch.rejected + 1 - more) + (batch.left - 1)
                = batch.size
      BY <3>1, <3>2, <3>5
    <3> QED
      BY <3>2, <3>4, <3>6 DEF BatchSums
  <2>3. EndpointTypes' /\ TokensAccounted'
    BY <1>2, <2>1, <2>2, OfferStep DEF IngestBatch, EndpointTypes, link
  <2>4. AnswersAdd'
    <3>1. Accepting(fate) \in 0..1
      BY DEF Accepting
    <3>2. UNCHANGED <<reported, fates>> /\ put' = put + Accepting(fate)
      BY <1>2, <2>1, OfferStep DEF IngestBatch, link
    <3>3. batch'.accepted = batch.accepted + Accepting(fate)
      BY <2>1 DEF Tally, EndpointTypes
    <3> QED
      BY <3>1, <3>2, <3>3, AnswersKept
  <2> QED
    BY <1>2, <2>2, <2>3, <2>4 DEF IngestBatch, InHand, link
<1>3. CASE AnswerBatch
  <2>1. AnswersAdd'
    <3>1. /\ reported' = reported + batch.accepted /\ batch'.accepted = 0
          /\ UNCHANGED <<fates, put>>
      BY <1>3 DEF AnswerBatch, NoBatch, link
    <3>2. AcceptedAnswers' = AcceptedAnswers
      BY <3>1 DEF AcceptedAnswers
    <3>3. Cardinality(AcceptedAnswers) \in Nat
      BY FS_CardinalityType DEF AnswersAdd
    <3>4. reported \in Nat /\ batch.accepted \in 0..BatchMax /\ BatchMax \in Nat
      BY IngestAssumption DEF EndpointTypes
    <3> QED
      BY <3>1, <3>2, <3>3, <3>4 DEF AnswersAdd, Told
  <2> QED
    BY <1>3, <2>1, IngestAssumption
       DEF AnswerBatch, NoBatch, EndpointTypes, BatchSums, TokensAccounted, InHand, link, vars
<1>4. CASE RunWorker
  <2>1. AnswersAdd'
    BY <1>4, AnswersUntouched DEF RunWorker, link
  <2> QED
    BY <1>4, <2>1, IngestAssumption DEF RunWorker, EndpointTypes, BatchSums,
                                           TokensAccounted, InHand, link, vars
<1>5. CASE Clock
  <2>1. AnswersAdd'
    BY <1>5, AnswersUntouched DEF Clock, ingestVars, link
  <2> QED
    BY <1>5, <2>1 DEF Clock, Tick, Mark, ingestVars, EndpointTypes, BatchSums,
                      TokensAccounted, InHand, link
<1>6. ASSUME NEW n \in 0..BatchMax + 1, BeginBatch(n)
      PROVE  IngestInv'
  <2>1. /\ UNCHANGED <<vars, ledger, link, reported>>
        /\ \/ n \in 1..BatchMax /\ batch' = [size |-> n, left |-> n, accepted |-> 0,
                                             rejected |-> 0]
           \/ UNCHANGED batch
    BY <1>6 DEF BeginBatch, NoBatch
  <2>2. /\ batch' \in [size : 0..BatchMax, left : 0..BatchMax, accepted : 0..BatchMax,
                       rejected : 0..BatchMax]
        /\ BatchSums'
    BY <2>1, IngestAssumption DEF EndpointTypes, BatchSums
  <2>3. AnswersAdd'
    <3>1. batch'.accepted = batch.accepted + 0
      <4>1. batch.accepted = 0
        BY <1>6 DEF BeginBatch, LoopFree, NoBatch
      <4>2. batch'.accepted = 0
        BY <2>1, <4>1
      <4> QED
        BY <4>1, <4>2
    <3>2. put' = put + 0 /\ UNCHANGED <<fates, reported>>
      BY <2>1 DEF EndpointTypes, link
    <3> QED
      BY <3>1, <3>2, AnswersKept
  <2> QED
    BY <2>1, <2>2, <2>3 DEF EndpointTypes, TokensAccounted, InHand, link, vars
<1> QED
  BY <1>1, <1>2, <1>3, <1>4, <1>5, <1>6

-----------------------------------------------------------------------------
\* The invariant of the endpoints.
THEOREM IngestInvariant == IngestSpec => []IngestInv
<1>1. IngestInit => IngestInv
  <2> SUFFICES ASSUME IngestInit
               PROVE  IngestInv
    OBVIOUS
  <2> USE IngestAssumption, BucketAssumption DEF IngestInit, Init
  <2>1. EndpointTypes
    BY DEF EndpointTypes, NoBatch
  <2>2. BatchSums
    BY DEF BatchSums, NoBatch
  <2>3. TokensAccounted
    BY DEF TokensAccounted
  <2>4. \A c \in Sockets : InHand(c)
    BY DEF InHand, IsPrefix
  <2>5. AnswersAdd
    <3>1. AcceptedAnswers = {}
      BY DEF AcceptedAnswers
    <3> QED
      BY <3>1, FS_EmptySet DEF AnswersAdd, Told, NoBatch
  <2> QED
    BY <2>1, <2>2, <2>3, <2>4, <2>5 DEF IngestInv
<1>2. TypeOK /\ IngestInv /\ [IngestNext]_<<vars, ingestVars>> => IngestInv'
  <2> SUFFICES ASSUME TypeOK, IngestInv, [IngestNext]_<<vars, ingestVars>>
               PROVE  IngestInv'
    OBVIOUS
  <2>1. CASE IngestNext
    BY <2>1, EndpointStep, SocketStep DEF IngestNext
  <2>2. CASE UNCHANGED <<vars, ingestVars>>
    <3>1. AnswersAdd'
      BY <2>2, AnswersUntouched DEF IngestInv, ingestVars, ledger, link
    <3> QED
      BY <2>2, <3>1 DEF vars, ingestVars, ledger, link, IngestInv, EndpointTypes, BatchSums,
                        TokensAccounted, InHand
  <2> QED
    BY <2>1, <2>2
<1> QED
  BY <1>1, <1>2, IngestRefinesBucket, BucketTypeCorrect, PTL DEF IngestSpec

\* Type correctness; in particular the queue stays within its capacity.
THEOREM IngestTypeCorrect == IngestSpec => []IngestTypeOK
<1>1. TypeOK /\ IngestInv => IngestTypeOK
  BY DEF IngestInv, EndpointTypes, IngestTypeOK
<1> QED
  BY <1>1, IngestInvariant, IngestRefinesBucket, BucketTypeCorrect, PTL

\* The sustained rate holds for the three paths together, for any number of
\* connections and any mix of payloads.
THEOREM IngestRateCorrect == IngestSpec => []RateEnforced
BY IngestRefinesBucket, RateCorrect, PTL

\* And no payload is refused that the rate allows.
THEOREM IngestRefusalCorrect == IngestSpec => []RefusalsJustified
BY IngestRefinesBucket, RefusalCorrect, PTL

\* Every token granted is accounted for.
THEOREM TokensCorrect == IngestSpec => []TokensAccounted
<1>1. IngestInv => TokensAccounted
  BY DEF IngestInv
<1> QED
  BY <1>1, IngestInvariant, PTL

\* What the answers say is what the queue took, on all paths together.
THEOREM AnswersTrueCorrect == IngestSpec => []AnswersTrue
<1>1. IngestInv => AnswersTrue
  BY DEF IngestInv, AnswersAdd, BatchSums, AnswersTrue
<1> QED
  BY <1>1, IngestInvariant, PTL

\* The answers on a connection keep in step with its messages.
THEOREM AnswersInStepCorrect == IngestSpec => []AnswersInStep
<1>1. IngestInv => AnswersInStep
  <2> SUFFICES ASSUME IngestInv, NEW c \in Sockets
               PROVE  /\ IsPrefix(acks[c], fates[c])
                      /\ sock[c] = "open" =>
                             Len(fates[c]) - Len(acks[c])
                                 = IF reply[c] = NoReply THEN 0 ELSE 1
    BY DEF AnswersInStep
  <2>1. IsPrefix(acks[c], fates[c]) /\ acks[c] \in Seq(Fates) /\ fates[c] \in Seq(Fates)
    BY DEF IngestInv, InHand, EndpointTypes
  <2>2. CASE sock[c] = "open" /\ reply[c] = NoReply
    BY <2>1, <2>2 DEF IngestInv, InHand
  <2>3. CASE sock[c] = "open" /\ reply[c] # NoReply
    <3>1. fates[c] = Append(acks[c], reply[c]) /\ reply[c] \in Fates
      BY <2>3 DEF IngestInv, InHand, EndpointTypes
    <3>2. Len(fates[c]) = Len(acks[c]) + 1
      BY <2>1, <3>1
    <3>3. Len(acks[c]) \in Nat
      BY <2>1
    <3> QED
      BY <2>1, <2>3, <3>2, <3>3
  <2> QED
    BY <2>1, <2>2, <2>3
<1> QED
  BY <1>1, IngestInvariant, PTL
=============================================================================
