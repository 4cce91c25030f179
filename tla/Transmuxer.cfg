\* The initial segment and up to three frames after it.
CONSTANTS
    None = None
    Second = 10
    AudioFrame = 7
    MaxQueued = 2
    Narrow = 25
    Tags <- AllTags
    Setups <- HeadersAndStreams
    MaxTags = 5
SPECIFICATION Spec
INVARIANTS SegmentsFollowTags SamplesKept InSync
\* all tags are out
CHECK_DEADLOCK FALSE
