SPECIFICATION Spec
CONSTANTS
    BitLength = 3
    BucketMax = 2
    StalesThr = 1
    Addresses = {"a", "self"}
    NoAddress = ""
    SelfAddress = "self"
    SelfId <- MCSelfId
    ConfigPeers <- MCConfigPeers
    Contacts <- FarContacts
    Counts = {1}
    TargetSets <- MCTargetSets
    MaxNow = 1
    MaxStales = 1
    MaxHeld = 1
CONSTRAINT Bounded
INVARIANT AnswerTellsPresence
