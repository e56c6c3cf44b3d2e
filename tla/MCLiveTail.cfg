SPECIFICATION Spec
CONSTANTS
    Rows = {a, b, c}
    Window = 3
    Limit = 2
    Capacity = 2
    MaxDelay = 1
    MaxTime = 5
SYMMETRY RowSymmetry
INVARIANTS
    TailIsFaithful
    PromptRowsAreSent
