\* Two senders, chunks of two bytes, one retry; one of them may type first.
CONSTANTS
    Threads = {s1, s2}
    ClockValues <- MCClockValues
    MaxCalls = 3
    Sizes <- MCSizes
    MaxBytes = 4
    SmallLimit = 1
    ChunkSize = 2
    MaxRetries = 1
    Typists = {s1}
SPECIFICATION Spec
INVARIANTS PostedFilesUsable PendingExact UniqueIDs
PROPERTIES SendEnds FreshIDs
CHECK_DEADLOCK FALSE
