SPECIFICATION InputSpec
CONSTANTS
    Paths = {"listeners", "framing", "parser", "structured", "year"}
    MaxSent = 2
    Messages <- ByteMessages
    Counts <- SomeCounts
    Framings = {"auto", "newline", "octet_counting"}
    MaxBytes = 4
    MaxDigits = 2
    Priorities <- SomePriorities
    NoPri <- NoBrackets
    NotNumber <- NoNumber
    Data <- SomeData
    Texts <- SomeTexts
    Years <- SomeYears
    Received <- YearsOfReceipt
    Days <- SomeDays
    UDP = {u}
    TCP = {t1, t2}
    Conns = {c1, c2, c3}
    MaxConnections = 2
    MaxBuffered = 1
    NoConn = NoConn
SYMMETRY ConnSymmetry
INVARIANTS
    SlotsAreExact
    OpenIsReachable
    CloseLeavesNothing
    StreamIsDelivered
    ParsingIsFaithful
    StructuredDataIsFaithful
    NearestOfAllYears
