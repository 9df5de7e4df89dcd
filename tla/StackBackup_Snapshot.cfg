\* One backup, no fault: services started while volumes are archived.
SPECIFICATION Spec
CONSTANTS
    Last = 2
    MaxOps = 1
    MaxFaults = 0
    MaxCrashes = 0
    None = None
INVARIANTS
    SnapshotConsistent
CHECK_DEADLOCK FALSE
