SPECIFICATION FairSpec
CONSTANTS
    small = small
    medium = medium
    large = large
    Frames = {small, large}
    Size <- MCSize
    EntrySize <- MCEntrySize
    MaxEvents = 2
    MaxBytes = 3
    Workers = {w1, w2}
    ParsedCap = 1
    BatchMaxEvents = 2
    BatchMaxBytes = 4
    MaxAttempts = 2
    NoFrame = NoFrame
PROPERTIES
    StopReturns
    AdmittedIsSettled
