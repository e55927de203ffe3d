SPECIFICATION Spec
CONSTANTS
    Titles <- MCTitles
    Entries <- MCEntries
    EmptyEntry <- MCEmptyEntry
    NoEntry = NoEntry
    Oversized <- MCOversized
    UnixHour = 1
    UnixDay = 3
    MaxGap = 3
INVARIANTS
    StoreTypeOK
    TrackedIsStored
PROPERTIES
    NothingExpires
    Republished
