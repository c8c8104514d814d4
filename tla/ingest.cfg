\* One connection with two messages, batches of up to two payloads and single
\* requests; a bucket of two tokens, counted in halves, that gains one half in a
\* tick; a queue of one.
CONSTANTS
    Capacity = 4
    RefillRate = 1
    Amounts = {2}
    MaxTime = 2
    Token = 2
    Sockets = {c1}
    QueueMax = 1
    BatchMax = 2
    MaxMessages = 2
SPECIFICATION IngestFairSpec
INVARIANTS
    IngestTypeOK
    RateEnforced
    RefusalsJustified
    TokensAccounted
    AnswersInStep
    AnswersTrue
PROPERTIES
    MessageAnswered
