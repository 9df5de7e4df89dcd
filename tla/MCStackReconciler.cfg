\* One stack, the loop and a sweep, one fault.
CONSTANTS
    None = None
    Loop = Loop
    owner = owner
    Names = {a}
    Tenants <- OneTenant
    TenantOf <- AllOfOneTenant
    Sweeps = {s1}
    Concurrency = 2
    MaxWrites = 2
    MaxFaults = 1
SPECIFICATION Spec
INVARIANTS
    TypeOK
    LockExclusion
    RunningOpsOwned
PROPERTIES
    OpsTerminate
    HostMatches
CHECK_DEADLOCK FALSE
