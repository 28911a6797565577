SPECIFICATION Spec
CONSTANTS
    MaxThreads = 2
    Fds = {f1, f2, f3}
    MaxTasks = 2
    MaxConns = 3
    Policies = {"bf"}
    Kinds = {"static"}
PROPERTY
    FlushDrains
