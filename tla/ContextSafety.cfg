\* Two handlers, two contexts and two concurrent calls, with relaxed loads reordered.
CONSTANTS
    Handlers = {h1, h2}
    Contexts = {c1, c2}
    Callers = {w1, w2}
    NoHandler = NoHandler
    MaxClones = 2
    RelaxedReorder = TRUE
    ReuseWhileDropping = FALSE
SPECIFICATION Spec
SYMMETRY Symmetry
INVARIANTS Accounting GracefulReturn NoUnreachableContext
PROPERTIES KeepsPromise
\* every context may be gone and every call finished
CHECK_DEADLOCK FALSE
