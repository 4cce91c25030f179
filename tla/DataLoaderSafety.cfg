\* A call for k2 and k1 and one for k1, batches of 2, one permit.
CONSTANTS
    w1 = w1
    w2 = w2
    k1 = k1
    k2 = k2
    Calls = {w1, w2}
    Keys = {k1, k2}
    Wanted <- Sharing
    BatchSize = 2
    Concurrency = 1
    Nobody = Nobody
SPECIFICATION FairSpec
INVARIANTS WaitersMatch ResultExact FailsByOwnBatch Fresh
PROPERTIES CallsReturn
\* every call may be over, and idle turns of batch_loop are left out
CHECK_DEADLOCK FALSE
