CONSTANTS
    Events = {e1}
    Times = {0, 1}
    Callers = {c1, c2}
    Removers = {r1}
    MaxTries = 2
    MaxNow = 1
    MaxOid = 3
    RedisErrors = TRUE
    LostReplies = FALSE
    Crashes = TRUE
SPECIFICATION Spec
INVARIANTS TypeOK OidInOnePlace
PROPERTIES NothingDropped
