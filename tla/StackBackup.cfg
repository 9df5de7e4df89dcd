\* A database and a second service, two operations, a failure and a restart.
SPECIFICATION Spec
CONSTANTS
    Last = 2
    MaxOps = 2
    MaxFaults = 1
    MaxCrashes = 1
    None = None
INVARIANTS
    TypeOK
    SucceededMeansArchived
PROPERTIES
    ServicesReturn
    NothingLeft
CHECK_DEADLOCK FALSE
