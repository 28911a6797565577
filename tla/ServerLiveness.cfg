SPECIFICATION FairSpec
CONSTANTS
    MaxThreads = 2
    Fds = {f1, f2, f3}
    MaxTasks = 2
    MaxConns = 3
    Policies = {"block", "dt", "dh", "bf", "random"}
    Kinds = {"static"}
PROPERTIES
    EveryConnectionCloses
    BlockAnswersAll
    OverloadEnds
