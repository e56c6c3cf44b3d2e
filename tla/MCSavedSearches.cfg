SPECIFICATION Spec
CONSTANTS
    Tokens = {t1}
    Requests = {r1, r2, r3}
    MaxRestarts = 1
SYMMETRY Symmetry
INVARIANTS
    SearchesAreKept
    SessionsAreRespected
