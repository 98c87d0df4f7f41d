CONSTANTS
    Events = {e1}
    Times = {1}
    Callers = {c1}
    Removers = {r1}
    Workers = {w1, w2}
    Definitions <- OneTime
    MaxTries = 1
    MaxNow = 1
    MaxOid = 2
    MaxRetries = 2
    RetryDelay = 1
    RedisErrors = FALSE
    LostReplies = FALSE
    Crashes = FALSE
    DbErrors = FALSE
SPECIFICATION DFairSpec
PROPERTIES ImplementsDelivery DeliveredOrExhausted OneTimeInactivated EventuallySettled
