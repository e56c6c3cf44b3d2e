SPECIFICATION InputSpec
CONSTANTS
    Paths = {"listeners"}
    MaxSent = 0
    Messages <- ByteMessages
    Counts <- SomeCounts
    Framings = {"auto", "newline", "octet_counting"}
    MaxBytes = 4
    MaxDigits = 2
    Priorities <- SomePriorities
    NoPri <- NoBrackets
    NotNumber <- NoNumber
    Data <- SomeData
    Texts <- SomeTexts
    Years <- SomeYears
    Received <- YearsOfReceipt
    Days <- SomeDays
    UDP = {u}
    TCP = {t1}
    Conns = {c1, c2}
    MaxConnections = 1
    MaxBuffered = 1
    NoConn = NoConn
INVARIANTS
    CloseIsClean
