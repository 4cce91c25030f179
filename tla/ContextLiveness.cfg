\* Two handlers, two contexts and two concurrent calls, under fairness.
CONSTANTS
    Handlers = {h1, h2}
    Contexts = {c1, c2}
    Callers = {w1, w2}
    NoHandler = NoHandler
    MaxClones = 1
    RelaxedReorder = FALSE
    ReuseWhileDropping = TRUE
SPECIFICATION FairSpec
INVARIANTS NoLostWakeup
PROPERTIES ShutdownReturns RootDoneReturns
\* every context may be gone and every call finished
CHECK_DEADLOCK FALSE
