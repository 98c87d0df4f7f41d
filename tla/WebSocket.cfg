CONSTANTS
    Conns = {c1, c2}
    Handshakes <- SomeHandshakes
    Events = {e1}
    Tokens = {"q:", "a", "u"}
    Creates <- SomeCreates
    Updates <- SomeUpdates
    Requests = {r1}
    Workers = {w1, w2}
    MaxDispatches = 2
SPECIFICATION FairSpec
INVARIANTS WTypeOK RegistryExact OnlyItsClient PickInRange RoutedAsAsked
PROPERTIES DeadLeave NobodyBlocks
CHECK_DEADLOCK FALSE
