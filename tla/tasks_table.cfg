SPECIFICATION MCSpec
CONSTANTS
    BitLength = 3
    BucketMax = 2
    StalesThr = 1
    Addresses = {"a", "self"}
    NoAddress = ""
    SelfAddress = "self"
    SelfId <- MCSelfId
    ConfigPeers <- OldFarSelf
    Contacts <- FarContacts
    Counts = {2, 3}
    TargetSets <- MCTargetSets
    Alpha = 2
    Replies <- FarReplies
    KClosest = 3
    Queries <- MCQueries
    Batches <- MCBatches
    Together = {{"lookup"}, {"search"}, {"publish"}, {"search", "publish"}}
    MaxNow = 1
    MaxStales = 1
CONSTRAINT Bounded
CHECK_DEADLOCK FALSE
PROPERTIES
    ImplementsTable
    OnlyFailedPenalised
