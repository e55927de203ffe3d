SPECIFICATION Spec
CONSTANTS
    Titles <- MCTitles
    Entries <- MCEntries
    EmptyEntry <- MCEmptyEntry
    NoEntry = NoEntry
    Oversized <- MCOversized
    UnixHour = 1
    UnixDay = 3
    MaxGap = 3
PROPERTY KeyedByUrl
