SPECIFICATION Spec
CONSTANTS
    small = small
    medium = medium
    large = large
    Frames = {small, medium, large}
    Size <- MCSize
    EntrySize <- MCEntrySize
    MaxEvents = 2
    MaxBytes = 3
    Workers = {w1, w2}
    ParsedCap = 1
    BatchMaxEvents = 2
    BatchMaxBytes = 4
    MaxAttempts = 2
    NoFrame = NoFrame
INVARIANTS
    ForcedStopSettlesAll
