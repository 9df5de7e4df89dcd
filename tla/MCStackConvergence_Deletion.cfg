\* One fault: a deletion that is never completed.
CONSTANTS
    None = None
    web = web
    worker = worker
    data = data
    t1 = t1
    t2 = t2
    Tenants = {t1, t2}
    Owner = t1
    Busy = {}
    Services <- MCServices
    Volumes <- MCVolumes
    Shapes <- MCRestartShapes
    MaxGen = 2
    MaxFaults = 1
SPECIFICATION Spec
PROPERTY DeletionCompletes
CHECK_DEADLOCK FALSE
