------------------------------ MODULE IngestApi ------------------------------
(***************************************************************************)
(* The ingestion endpoints of api/signals.py on the limiter and the queue  *)
(* they share: POST ingest, POST ingest/batch and the WebSocket loop.      *)
(*                                                                         *)
(* Neither consume nor enqueue_signal suspends, so a payload passes both   *)
(* in one action and a batch keeps the event loop to itself until its last *)
(* payload, although time passes meanwhile.  The WebSocket loop suspends   *)
(* in receive_json and in send_json.  A payload that fails validation      *)
(* never reaches the two HTTP handlers.                                    *)
(***************************************************************************)
EXTENDS RateLimiter, Sequences, FiniteSets, SequencesExt

CONSTANTS
    Token,       \* the units of the bucket that make up one token
    Sockets,     \* WebSocket connections
    QueueMax,    \* settings.queue_max_size
    BatchMax,    \* the largest batch that is taken
    MaxMessages  \* bound: messages a client sends over a connection

ASSUME IngestAssumption ==
    /\ Token \in Amounts \ {0}
    /\ QueueMax \in Nat \ {0}
    /\ BatchMax \in Nat
    /\ MaxMessages \in Nat

VARIABLES
    queued,    \* signals on the queue
    batch,     \* the batch the event loop is in
    sock,      \* each connection: "open", "gone" once the client has left, "closed"
    inbox,     \* messages that have arrived and not been received yet
    reply,     \* the answer the loop is about to send, NoReply while it receives
    acks,      \* answers the client has got
    \* History.
    put,       \* signals put on the queue so far
    wasted,    \* tokens taken for a payload that did not get there
    reported,  \* signals that answers to finished HTTP requests called accepted
    fates      \* what became of each message that was received

link       == <<sock, inbox, reply, acks, fates>>
ledger     == <<queued, put, wasted>>
ingestVars == <<ledger, batch, link, reported>>

NoReply == "none"
Kinds   == {"valid", "invalid", "garbled"}
Fates   == {"accepted", "queue_full", "rate_limited", "error"}

NoBatch == [size |-> 0, left |-> 0, accepted |-> 0, rejected |-> 0]

IngestInit ==
    /\ Init
    /\ queued = 0
    /\ batch = NoBatch
    /\ sock = [c \in Sockets |-> "open"]
    /\ inbox = [c \in Sockets |-> <<>>]
    /\ reply = [c \in Sockets |-> NoReply]
    /\ acks = [c \in Sockets |-> <<>>]
    /\ put = 0
    /\ wasted = 0
    /\ reported = 0
    /\ fates = [c \in Sockets |-> <<>>]

-----------------------------------------------------------------------------
\* The event loop runs other handlers only while no batch is in its own loop.
LoopFree == batch = NoBatch

\* Mutation of EnqueueSignal: one more than the queue holds.
EnqueueSignalLate(fate) ==
    /\ queued <= QueueMax
    /\ fate = "accepted"
    /\ queued' = queued + 1
    /\ put' = put + 1
    /\ UNCHANGED wasted

\* Mutation of EnqueueSignal: a full queue is reported as success.
EnqueueSignalBlindly(fate) ==
    \/ /\ queued < QueueMax
       /\ fate = "accepted"
       /\ queued' = queued + 1
       /\ put' = put + 1
       /\ UNCHANGED wasted
    \/ /\ queued >= QueueMax
       /\ fate = "accepted"
       /\ wasted' = wasted + 1
       /\ UNCHANGED <<queued, put>>

\* enqueue_signal: put_nowait, or the signal is dropped.
EnqueueSignal(fate) ==
    \/ /\ queued < QueueMax
       /\ fate = "accepted"
       /\ queued' = queued + 1
       /\ put' = put + 1
       /\ UNCHANGED wasted
    \/ /\ queued >= QueueMax
       /\ fate = "queue_full"
       /\ wasted' = wasted + 1
       /\ UNCHANGED <<queued, put>>

\* Mutation of Offer: what the limiter answers is not looked at.
OfferUnlimited(fate) == Consume(Token) /\ EnqueueSignal(fate)

\* A payload passes the limiter and then the queue.
Offer(fate) ==
    /\ Consume(Token)
    /\ \/ Refilled >= Token /\ EnqueueSignal(fate)
       \/ Refilled < Token /\ fate = "rate_limited" /\ UNCHANGED ledger

Accepting(fate) == IF fate = "accepted" THEN 1 ELSE 0

\* POST ingest: 202 with accepted true or false, or 429.
IngestSignal ==
    /\ LoopFree
    /\ \E fate \in Fates : Offer(fate) /\ reported' = reported + Accepting(fate)
    /\ UNCHANGED <<batch, link>>

\* POST ingest/batch begins.  A batch that is empty, or too large (400), is
\* answered at once.
BeginBatch(n) ==
    /\ LoopFree
    /\ \/ /\ n \in 1..BatchMax
          /\ batch' = [NoBatch EXCEPT !.size = n, !.left = n]
       \/ /\ n \notin 1..BatchMax
          /\ UNCHANGED batch
    /\ UNCHANGED <<vars, ledger, link, reported>>

Tally(fate) ==
    [batch EXCEPT !.left = @ - 1,
                  !.accepted = @ + Accepting(fate),
                  !.rejected = @ + 1 - Accepting(fate)]

\* One turn of its loop.
IngestBatch ==
    /\ batch.left > 0
    /\ \E fate \in Fates : Offer(fate) /\ batch' = Tally(fate)
    /\ UNCHANGED <<link, reported>>

\* The answer after the last turn.
AnswerBatch ==
    /\ batch # NoBatch /\ batch.left = 0
    /\ reported' = reported + batch.accepted
    /\ batch' = NoBatch
    /\ UNCHANGED <<vars, ledger, link>>

-----------------------------------------------------------------------------
\* A client sends a message.
SendMessage(c) ==
    /\ sock[c] = "open"
    /\ Len(fates[c]) + Len(inbox[c]) < MaxMessages
    /\ \E kind \in Kinds : inbox' = [inbox EXCEPT ![c] = Append(@, kind)]
    /\ UNCHANGED <<vars, ledger, batch, sock, reply, acks, fates, reported>>

\* A client closes the connection or loses it.
Leave(c) ==
    /\ sock[c] = "open"
    /\ sock' = [sock EXCEPT ![c] = "gone"]
    /\ UNCHANGED <<vars, ledger, batch, inbox, reply, acks, fates, reported>>

\* The token first, then validation, then the queue.
Judge(kind, fate) ==
    \/ kind = "valid" /\ Offer(fate)
    \/ /\ kind = "invalid"
       /\ Consume(Token)
       /\ \/ Refilled >= Token /\ fate = "error" /\ wasted' = wasted + 1
          \/ Refilled < Token /\ fate = "rate_limited" /\ UNCHANGED wasted
       /\ UNCHANGED <<queued, put>>

\* Mutation of ReplyTo: a message that is rate limited gets no answer.
ReplyToUnlimited(fate) == IF fate = "rate_limited" THEN NoReply ELSE fate

ReplyTo(fate) == fate

\* receive_json returns a message, which is dealt with up to its answer.
ReceiveMessage(c) ==
    /\ LoopFree
    /\ sock[c] # "closed" /\ reply[c] = NoReply
    /\ inbox[c] # <<>> /\ Head(inbox[c]) # "garbled"
    /\ inbox' = [inbox EXCEPT ![c] = Tail(@)]
    /\ \E fate \in Fates :
           /\ Judge(Head(inbox[c]), fate)
           /\ fates' = [fates EXCEPT ![c] = Append(@, fate)]
           /\ reply' = [reply EXCEPT ![c] = ReplyTo(fate)]
    /\ UNCHANGED <<batch, sock, acks, reported>>

\* receive_json raises: the client has left, or the message is not JSON.
EndSocket(c) ==
    /\ LoopFree
    /\ sock[c] # "closed" /\ reply[c] = NoReply
    /\ \/ inbox[c] # <<>> /\ Head(inbox[c]) = "garbled"
       \/ inbox[c] = <<>> /\ sock[c] = "gone"
    /\ sock' = [sock EXCEPT ![c] = "closed"]
    /\ inbox' = [inbox EXCEPT ![c] = <<>>]
    /\ UNCHANGED <<vars, ledger, batch, reply, acks, fates, reported>>

\* send_json.  To a client that has gone it raises, and so does the answer that the
\* except clause sends after it; while the loss is not noticed the answer is lost.
SendReply(c) ==
    /\ LoopFree
    /\ sock[c] # "closed" /\ reply[c] # NoReply
    /\ reply' = [reply EXCEPT ![c] = NoReply]
    /\ \/ /\ sock[c] = "open"
          /\ acks' = [acks EXCEPT ![c] = Append(@, reply[c])]
          /\ UNCHANGED <<sock, inbox>>
       \/ /\ sock[c] = "gone"
          /\ \/ /\ sock' = [sock EXCEPT ![c] = "closed"]
                /\ inbox' = [inbox EXCEPT ![c] = <<>>]
             \/ UNCHANGED <<sock, inbox>>
          /\ UNCHANGED acks
    /\ UNCHANGED <<vars, ledger, batch, fates, reported>>

\* run_worker takes all that is queued.
RunWorker ==
    /\ LoopFree
    /\ queued > 0
    /\ queued' = 0
    /\ UNCHANGED <<vars, put, wasted, batch, link, reported>>

Clock == (Tick \/ Mark) /\ UNCHANGED ingestVars

ServeSocket(c) == ReceiveMessage(c) \/ EndSocket(c) \/ SendReply(c)

IngestNext ==
    \/ IngestSignal
    \/ \E n \in 0..BatchMax + 1 : BeginBatch(n)
    \/ IngestBatch \/ AnswerBatch
    \/ \E c \in Sockets : SendMessage(c) \/ Leave(c) \/ ServeSocket(c)
    \/ RunWorker
    \/ Clock

IngestSpec == IngestInit /\ [][IngestNext]_<<vars, ingestVars>>

(***************************************************************************)
(* A batch comes to its end, and the event loop resumes every connection   *)
(* that can go on again and again, batches in between or not.              *)
(***************************************************************************)
IngestFairness ==
    /\ WF_<<vars, ingestVars>>(IngestBatch \/ AnswerBatch)
    /\ \A c \in Sockets : SF_<<vars, ingestVars>>(ServeSocket(c))

IngestFairSpec == IngestSpec /\ IngestFairness

-----------------------------------------------------------------------------
\* Types of the variables; the queue never exceeds its capacity.
IngestTypeOK ==
    /\ TypeOK
    /\ queued \in 0..QueueMax
    /\ batch \in [size : 0..BatchMax, left : 0..BatchMax, accepted : 0..BatchMax,
                  rejected : 0..BatchMax]
    /\ sock \in [Sockets -> {"open", "gone", "closed"}]
    /\ inbox \in [Sockets -> Seq(Kinds)]
    /\ reply \in [Sockets -> Fates \cup {NoReply}]
    /\ acks \in [Sockets -> Seq(Fates)]
    /\ put \in Nat /\ wasted \in Nat /\ reported \in Nat
    /\ fates \in [Sockets -> Seq(Fates)]

\* "All three paths go through the same rate limiter and queue": every token that
\* was granted, whoever asked for it, stands for one signal that got on the queue,
\* one that found it full, or one WebSocket message that was not valid.
TokensAccounted == granted = Token * (put + wasted)

\* The k-th answer on a connection is about the k-th message, which is all a
\* client has to tell them apart: every path of the loop answers once, and an
\* answer is missing only while it is being sent or once the client has left.
AnswersInStep ==
    \A c \in Sockets :
        /\ IsPrefix(acks[c], fates[c])
        /\ sock[c] = "open" =>
               Len(fates[c]) - Len(acks[c]) = IF reply[c] = NoReply THEN 0 ELSE 1

\* What the answers say is what the queue took: the signals that finished HTTP
\* requests, the batch in progress and the answers on all connections call accepted
\* are those that were put on the queue, and a batch calls the rest of its payloads
\* rejected, whether the limiter or the queue refused them.
AcceptedAnswers ==
    UNION {{c} \X {k \in DOMAIN fates[c] : fates[c][k] = "accepted"} : c \in Sockets}

Told == reported + Cardinality(AcceptedAnswers)

AnswersTrue ==
    /\ put = Told + batch.accepted
    /\ batch.accepted + batch.rejected + batch.left = batch.size

\* Every message is answered, unless the client leaves or has sent something that
\* is not JSON, however busy the HTTP handlers keep the limiter and the loop.
MessageAnswered ==
    \A c \in Sockets : \A k \in 1..MaxMessages :
        Len(fates[c]) + Len(inbox[c]) >= k ~> Len(acks[c]) >= k \/ sock[c] # "open"
=============================================================================
