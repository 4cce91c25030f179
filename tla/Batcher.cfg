\* Calls of 3 and 1 requests, batches of 2, a concurrency of 0 (one permit), a delay of 2 ticks.
CONSTANTS
    w1 = w1
    w2 = w2
    Calls = {w1, w2}
    Size <- Sizes
    BatchSize = 2
    Concurrency = 0
    Delay = 2
    Nobody = Nobody
SPECIFICATION FairSpec
INVARIANTS RequestsOnce BatchBounds NeverOverdue SettledByOwnBatch
PROPERTIES MeetsContract CallsReturn
