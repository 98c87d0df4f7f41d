CONSTANTS
    Minute = 1
    Hour = 2
    Day = 1
    DaysPerWeek = 3
    Monday = 1
    MonthsPerYear = 2
    MonthLengths <- Months
    MaxDuration = 1000
    LookAhead = 3
    GracePeriod = 1
    Events = {e1}
    Definitions <- Defs
    Edits <- SomeEdits
    Loops = {l1}
    Goroutines = {g1}
    Requests = {}
    Workers = {w1}
    MaxRetries = 2
    ExpansionInterval = 1
    Retention = 2
    Archives = FALSE
    Prompt = TRUE
    MaxFaults = 0
    MaxNow = 4
SPECIFICATION Spec
INVARIANTS DeliveredOnce
CHECK_DEADLOCK FALSE
