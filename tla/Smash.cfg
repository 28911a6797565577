SPECIFICATION Spec
CONSTANTS
    Pids = {p1, p2, p3}
    MAX_JOBS_NUM = 2
    MaxId = 3
    FdLimit = 3
    Capacity = 2
    Output = 2
CHECK_DEADLOCK FALSE
INVARIANTS
    TypeOK
    JobTable
    JobsAreChildren
    StdoutRestored
PROPERTIES
    ChildrenTracked
    CtrlCKillsForeground
    PromptReturns
