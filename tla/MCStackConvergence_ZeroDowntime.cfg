\* No fault at all: the zero-downtime action never runs.
CONSTANTS
    None = None
    web = web
    worker = worker
    data = data
    t1 = t1
    t2 = t2
    Tenants = {t1, t2}
    Owner = t1
    Busy = {}
    Services <- MCServices
    Volumes <- MCVolumes
    Shapes <- MCShapes
    MaxGen = 2
    MaxFaults = 0
SPECIFICATION Spec
PROPERTY EventuallyRunsDesired
CHECK_DEADLOCK FALSE
