\* One write, no fault: a new stack removed as a remnant.
CONSTANTS
    None = None
    Loop = Loop
    owner = owner
    Names = {a}
    Tenants <- OneTenant
    TenantOf <- AllOfOneTenant
    Sweeps = {}
    Concurrency = 1
    MaxWrites = 2
    MaxFaults = 0
SPECIFICATION Spec
PROPERTIES
    AbsentOnlyDeletes
CHECK_DEADLOCK FALSE
