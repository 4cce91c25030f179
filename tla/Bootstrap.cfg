\* Two services around SignalSvc, with default hooks or any hooks, gentle or stubborn.
CONSTANTS
    s1 = s1
    s2 = s2
    int = int
    term = term
    Services = {s1, s2}
    SignalService = SignalService
    Signals <- TwoSignals
    Order <- SignalMiddle
    Setups <- AllSetups
    Root = Root
    NoHandler = NoHandler
    Waiter = Waiter
SPECIFICATION FairSpec
INVARIANTS OkMeansOver
PROPERTIES SignalEnds SignalForcesEnd
\* the process ends
CHECK_DEADLOCK FALSE
