\* Two threads on a scaled-down clock: the delays keep their order, and a pass
\* may outlast the base delay; t1 may fail until its delay overflows, and recover.
CONSTANTS
    Threads = {"t1", "t2"}
    Conversations <- MCConversations
    SelfID <- MCSelfID
    BaseDelay = 2
    IdleCap = 6
    FailureCap = 20
    RetryAfters = {1, 9}
    DiscoveryInterval = 6
    WakeInterval = 8
    MinSleep = 1
    PassDurations = {0, 2}
    MaxFailures <- MCFailures
SPECIFICATION PollSpec
INVARIANTS OnTime BackoffBounded DirectChatsNamed
PROPERTIES KeepsPolling
CHECK_DEADLOCK FALSE
