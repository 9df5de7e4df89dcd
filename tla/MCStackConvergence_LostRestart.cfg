\* No zero-downtime service; one fault: a restart that is never made.
CONSTANTS
    None = None
    web = web
    worker = worker
    data = data
    t1 = t1
    t2 = t2
    Tenants = {t1, t2}
    Owner = t1
    Busy = {}
    Services <- MCServices
    Volumes <- MCVolumes
    Shapes <- MCRestartShapes
    MaxGen = 2
    MaxFaults = 1
SPECIFICATION Spec
PROPERTY EventuallyRunsDesired
CHECK_DEADLOCK FALSE
