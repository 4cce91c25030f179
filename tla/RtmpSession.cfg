\* Four clients: two polite, of chunks and of commands, and two that send junk.
CONSTANTS
    InitSize = 1
    MaxSize = 2
    MaxHeaders = 2
    MaxPartial = 2
    MaxPartialSize = 3
    TsLimit = 3
    HelloSize = 1
    MaxRead = 4
    Window = 3
    SeqLimit = 8
    Setups <- AllSetups
SPECIFICATION Spec
INVARIANTS Reassembly NothingLeft LimitsHold AckInTime
PROPERTIES ResultTells
\* a session ends
CHECK_DEADLOCK FALSE
