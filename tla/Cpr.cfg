SPECIFICATION FairSpec
CONSTANTS
    MaxWorkers = 3
    MaxTasks = 2
    MaxThreads = 2
    Width = 6
    Interceptors = 2
    Verbs = {"GET", "HEAD", "POST", "PUT", "DELETE"}
    Multis = {m1, m2}
    Sessions = {s1, s2}
    NoMulti = NoMulti
INVARIANTS
    NothingRunsAfterStop
    SendsWhatWasAsked
    AllAreAsked
    LockedWhileAdded
    EachIsAnswered
PROPERTIES
    TasksAreRun
CHECK_DEADLOCK FALSE
