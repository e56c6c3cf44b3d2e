SPECIFICATION QueriesSpec
CONSTANTS
    Rows = {a, b, c, d}
    Start = 0
    End = 2
    MaxRange = 2
    MaxTime = 3
    Limits = {0, 1, 2, 4}
    DefaultLimit = 2
    MaxLimit = 3
    Sizes = {1, 2}
    MaxHits = 4
    MaxRows = 3
    MaxBytes = 5
    Spans = {2, 3, 400}
    Times = {0, 1, 3, 4}
    Values = {"", "x", "y", "z"}
    Stored <- MCStored
    MaxArrivals = 3
    VolumeLimit = 3
    GroupLimit = 3
INVARIANTS
    PagesAreExact
    ExportIsHonest
    
PROPERTIES
    WalkEnds
