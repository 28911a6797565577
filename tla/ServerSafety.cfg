SPECIFICATION Spec
CONSTANTS
    MaxThreads = 2
    Fds = {f1, f2, f3, f4}
    MaxTasks = 3
    MaxConns = 4
    Policies = {"block", "dt", "dh", "bf", "random"}
    Kinds = {"static", "dynamic", "error"}
SYMMETRY FdSymmetry
INVARIANTS
    TypeOK
    QueueBound
    BusyMatchesWorkers
    DescriptorsOwned
    NoLostWakeup
    MainSleepsOnlyWhenFull
    StatsPerThread
PROPERTY
    ImplementsAdmission
