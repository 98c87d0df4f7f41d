CONSTANTS
    Events = {e1}
    Times = {0, 2}
    Callers = {c1}
    Removers = {}
    MaxTries = 3
    MaxNow = 2
    MaxOid = 3
    RedisErrors = TRUE
    LostReplies = TRUE
    Crashes = TRUE
SPECIFICATION FairSpec
INVARIANTS StoredIsScheduled
PROPERTIES EventuallyQueued
