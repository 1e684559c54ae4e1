\* One thread with the durations of the code, in ticks of 100 ms, and more
\* failures in a row than the shift allows (half an hour of outage).
CONSTANTS
    Threads = {"t1"}
    Conversations <- OneConversation
    SelfID <- MCSelfID
    BaseDelay = 20
    IdleCap = 300
    FailureCap = 600
    RetryAfters = {110}
    DiscoveryInterval = 300
    WakeInterval = 50
    MinSleep = 1
    PassDurations = {0}
    MaxFailures <- OutageFailures
SPECIFICATION PollSpec
INVARIANTS ExponentialUpToCap
CHECK_DEADLOCK FALSE
