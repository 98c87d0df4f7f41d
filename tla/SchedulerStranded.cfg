CONSTANTS
    Events = {e1}
    Times = {0}
    Callers = {c1, c2}
    Removers = {}
    MaxTries = 3
    MaxNow = 1
    MaxOid = 2
    RedisErrors = FALSE
    LostReplies = FALSE
    Crashes = FALSE
SPECIFICATION Spec
INVARIANTS StoredIsScheduled
