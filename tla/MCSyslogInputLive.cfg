SPECIFICATION InputFairSpec
CONSTANTS
    Paths = {"listeners", "framing"}
    MaxSent = 1
    Messages <- ByteMessages
    Counts <- SomeCounts
    Framings = {"auto", "newline", "octet_counting"}
    MaxBytes = 4
    MaxDigits = 2
    Priorities <- SomePriorities
    NoPri <- NoBrackets
    NotNumber <- NoNumber
    Data <- SomeData
    Texts <- SomeTexts
    Years <- SomeYears
    Received <- YearsOfReceipt
    Days <- SomeDays
    UDP = {u}
    TCP = {t1}
    Conns = {c1, c2}
    MaxConnections = 1
    MaxBuffered = 2
    NoConn = NoConn
PROPERTIES
    CloseReturns
    ConnectionHandlerReturns
