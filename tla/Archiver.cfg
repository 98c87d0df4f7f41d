CONSTANTS
    Instances = {i1, i2}
    Connections = {c1, c2}
    CheckPeriod = 4
    Second = 2
    MaxLevel = 2
    Errors = TRUE
    Crashes = TRUE
SPECIFICATION FairSpec
INVARIANTS ATypeOK OneArchiver
PROPERTIES OncePerPeriod ArchivalGoesOn
