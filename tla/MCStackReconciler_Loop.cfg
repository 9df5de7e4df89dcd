\* One stack, the loop alone: what a run may never do to live data.
CONSTANTS
    None = None
    Loop = Loop
    owner = owner
    Names = {a}
    Tenants <- OneTenant
    TenantOf <- AllOfOneTenant
    Sweeps = {}
    Concurrency = 1
    MaxWrites = 3
    MaxFaults = 2
SPECIFICATION Spec
PROPERTIES
    LiveDataSafe
    SucceededMeansApplied
    UnitNeverRegresses
CHECK_DEADLOCK FALSE
