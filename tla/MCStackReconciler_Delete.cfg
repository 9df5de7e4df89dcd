\* Two writes, no fault: a deletion overwritten by a cycle that began before it.
CONSTANTS
    None = None
    Loop = Loop
    owner = owner
    Names = {a}
    Tenants <- OneTenant
    TenantOf <- AllOfOneTenant
    Sweeps = {}
    Concurrency = 1
    MaxWrites = 2
    MaxFaults = 0
SPECIFICATION Spec
PROPERTIES
    DeleteIsFinal
CHECK_DEADLOCK FALSE
