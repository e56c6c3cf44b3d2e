SPECIFICATION ServiceSpec
CONSTANTS
    Requests = {r1, r2, r3}
    ControlStore = TRUE
    Texts <- MCTexts
    Files <- MCFiles
    Envs <- MCEnvs
    Flags = {"", "flag"}
    Count = 7
    Rate = 2
    Burst = 1
    BatchSize = 2
    MaxTime = 5
    Bodies <- MCBodies
    MaxItems = 2
    MaxTries = 3
    Parts <- MCParts
    Keys <- MCKeys
INVARIANTS
    ShutdownIsOrderly
    LoadIsSound
    GeneratorIsHonest
    AnswersAreReliable
    FieldsAreKept
PROPERTIES
    SignalEndsService
