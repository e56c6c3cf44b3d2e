SPECIFICATION FairSpec
CONSTANTS
    empty = empty
    small = small
    large = large
    huge = huge
    Frames = {empty, small, large, huge}
    Size <- MCSize
    MaxEvents = 2
    MaxBytes = 3
    CompactAt = 1
    Producers = {p1, p2}
    Consumers = {c1, c2}
    NoFrame = NoFrame
INVARIANTS
    BytesAreExact
    NoLostWakeup
    SliceIsBounded
PROPERTIES
    ImplementsFifo
    EnqueueReturns
    CloseReleasesConsumers
