\* Overlapping pollers, failing requests, a queue that fills up, no lost events.
CONSTANTS
    Pollers = {p1, p2}
    ClientIDs = {c1}
    NoCid = NoCid
    RemoteSenders = {"user", "system"}
    PageSize = 3
    MaxMsgs = 3
    MaxQueue = 1
    MaxCrashes = 0
    MaxRejects = 0
SPECIFICATION FairSpec
PROPERTY RelaySpec
CHECK_DEADLOCK FALSE
