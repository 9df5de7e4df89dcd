\* Every shape, two tenants, three writes, two faults.
CONSTANTS
    None = None
    web = web
    worker = worker
    data = data
    t1 = t1
    t2 = t2
    Tenants = {t1, t2}
    Owner = t1
    Busy = {}
    Services <- MCServices
    Volumes <- MCVolumes
    Shapes <- MCShapes
    MaxGen = 3
    MaxFaults = 2
SPECIFICATION Spec
INVARIANTS
    TypeOK
    PlanConverges
    EmptyPlanIffConverged
    
PROPERTIES
    StoppedBeforeRemoved
    HostHeals
CHECK_DEADLOCK FALSE
