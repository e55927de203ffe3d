SPECIFICATION MCSpec
CONSTANTS
    BitLength = 2
    BucketMax = 2
    StalesThr = 1
    Addresses = {"a", "self"}
    NoAddress = ""
    SelfAddress = "self"
    SelfId <- MCSelfId
    ConfigPeers = {}
    Contacts <- NearContacts
    Counts = {2, 3}
    TargetSets <- MCTargetSets
    Alpha = 2
    Replies <- NearReplies
    KClosest = 3
    Queries <- MCQueries
    Batches <- MCBatches
    Together = {{"lookup"}, {"search", "publish"}}
    MaxNow = 2
    MaxStales = 0
CONSTRAINT Bounded
CHECK_DEADLOCK FALSE
INVARIANTS
    TasksTypeOK
    UnheardFew
    EntriesLeave
    NeverFull
PROPERTY TasksEnd
