\* Two stacks of one tenant, the loop and a sweep: a tenant collected under a new stack.
CONSTANTS
    None = None
    Loop = Loop
    owner = owner
    Names = {a, b}
    Tenants <- OneTenant
    TenantOf <- AllOfOneTenant
    Sweeps = {s1}
    Concurrency = 2
    MaxWrites = 2
    MaxFaults = 0
SPECIFICATION Spec
INVARIANTS
    TenantSafe
CHECK_DEADLOCK FALSE
