CONSTANTS
    Minute = 1
    Hour = 2
    Day = 1
    DaysPerWeek = 3
    Monday = 1
    MonthsPerYear = 2
    MonthLengths <- Months
    MaxDuration = 1000
    LookAhead = 3
    GracePeriod = 0
    Events = {e1}
    Definitions <- Defs
    Edits <- SomeEdits
    Loops = {l1}
    Goroutines = {g1}
    Requests = {r1}
    Workers = {w1}
    MaxRetries = 2
    ExpansionInterval = 1
    Retention = 2
    Archives = TRUE
    Prompt = TRUE
    MaxFaults = 1
    MaxNow = 4
SPECIFICATION Spec
INVARIANTS ETypeOK WindowExact LoopAdvances NothingMissed DeliveredOnce
PROPERTIES GoneForGood
CHECK_DEADLOCK FALSE
