CONSTANTS
    Events = {e1}
    Times = {1}
    Callers = {c1}
    Removers = {}
    Workers = {w1, w2}
    Definitions <- Mixed
    MaxTries = 2
    MaxNow = 1
    MaxOid = 2
    MaxRetries = 2
    RetryDelay = 1
    RedisErrors = TRUE
    LostReplies = FALSE
    Crashes = TRUE
    DbErrors = TRUE
SPECIFICATION DSpec
SYMMETRY Symmetry
INVARIANTS DTypeOK HeldOnce  NeverEarly LogConsistent
PROPERTIES NoCallAfterSuccess ImplementsDelivery
