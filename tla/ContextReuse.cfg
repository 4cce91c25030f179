\* A new context is made while the drop of the last one is half done.
CONSTANTS
    Handlers = {h1}
    Contexts = {c1, c2}
    Callers = {w1}
    NoHandler = NoHandler
    MaxClones = 1
    RelaxedReorder = FALSE
    ReuseWhileDropping = TRUE
SPECIFICATION Spec
INVARIANTS GracefulReturn
\* every context may be gone and every call finished
CHECK_DEADLOCK FALSE
