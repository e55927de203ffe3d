SPECIFICATION MCSpec
CONSTANTS
    BitLength = 6
    IdLength = 3
    ByteWidth = 2
    HashBits = 6
    HashBasis = 37
    HashShift = 4
    HashPrime = 11
    CharBits = 3
    k1 = k1
    k2 = k2
    k3 = k3
    Keys <- MCKeys
    NoKey = NoKey
    CutKey = CutKey
    NoPage = NoPage
    Sites <- MCSites
    EnginePages <- MCEnginePages
    LongLine = 3
    QueueBound = 3
    FindsBound = 4
    Char <- MCChar
    Names <- MCNames
    Settings <- MCSettings
    MaxLines = 3
    Radix = 3
    IdBytes = 2
    Sendable <- MCSendable
    Forms <- MCForms
    Headers <- MCHeaders
    Requests <- MCRequests
    Beyond = {0, 65}
INVARIANTS
    LoopsComputeIds
    WordsHashAlike
    SettingsFound
    MessagesArrive
    FormsReachPages
    OnlyKnownLeaks
    SameAddress
    FindsHandedOver
CHECK_DEADLOCK FALSE
