\* A reader, a clone of it, two writers, messages of up to 3 bytes and reads of 1 or 2.
CONSTANTS
    Writers = {w1, w2}
    Readers = {r1, r2}
    First = r1
    Nobody = Nobody
    Kinds <- AllKinds
    Capacity = 2
    Sizes = {0, 1, 3}
    Wants = {1, 2}
    MaxBytes = 4
    MaxQueue = 2
SPECIFICATION Spec
INVARIANTS InOrder NothingLost EofIsEnd
\* all are gone, or the bytes are written
CHECK_DEADLOCK FALSE
