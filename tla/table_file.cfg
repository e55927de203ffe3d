SPECIFICATION RestartsSpec
CONSTANTS
    BitLength = 3
    BucketMax = 2
    StalesThr = 1
    Addresses = {"a", "self"}
    NoAddress = ""
    SelfAddress = "self"
    SelfId <- MCSelfId
    ConfigPeers <- FilePeers
    Contacts <- FileContacts
    Counts = {1, 2}
    TargetSets <- MCTargetSets
    MaxNow = 1
    MaxStales = 1
    MaxHeld = 0
CONSTRAINT Bounded
INVARIANTS
    ListedOnce
    AnswersProgress
