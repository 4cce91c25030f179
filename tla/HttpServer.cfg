\* Both backends, two workers of hyper and one of h3, one connection.
CONSTANTS
    Backends = {"hyper", "h3"}
    WorkerTasks <- TwoOfHyper
    Conns = {c1}
    MaxFaults = 1
    Root = Root
    Owner = Owner
    NoHandler = NoHandler
SPECIFICATION FairSpec
INVARIANT RunDrains
PROPERTIES ShutdownEnds DroppedDrains
\* run returns and clients stop coming
CHECK_DEADLOCK FALSE
