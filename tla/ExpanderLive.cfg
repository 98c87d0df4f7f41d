CONSTANTS
    Minute = 1
    Hour = 2
    Day = 1
    DaysPerWeek = 3
    Monday = 1
    MonthsPerYear = 2
    MonthLengths <- Months
    MaxDuration = 1000
    LookAhead = 2
    GracePeriod = 0
    Events = {e1}
    Definitions <- Ending
    Edits <- Rescheduled
    Loops = {l1}
    Goroutines = {g1}
    Requests = {r1}
    Workers = {w1, w2}
    MaxRetries = 2
    ExpansionInterval = 1
    Retention = 1
    Archives = TRUE
    Prompt = TRUE
    MaxFaults = 0
    MaxNow = 1
SPECIFICATION FairSpec
PROPERTIES EndedEventsDrain CountInactivates
CHECK_DEADLOCK FALSE
