CONSTANTS
    Conns = {c1, c2}
    Handshakes <- SomeHandshakes
    Events = {e1}
    Tokens = {"q:", "a", "u"}
    Creates <- SomeCreates
    Updates <- SomeUpdates
    Requests = {}
    Workers = {w1}
    MaxDispatches = 1
SPECIFICATION FairSpec
PROPERTIES CleanedUp
CHECK_DEADLOCK FALSE
