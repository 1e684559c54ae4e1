\* One poller, no fault, three messages and a page of one.
CONSTANTS
    Pollers = {p1}
    ClientIDs = {c1}
    NoCid = NoCid
    RemoteSenders = {"user"}
    PageSize = 1
    MaxMsgs = 3
    MaxQueue = 2
    MaxCrashes = 0
    MaxRejects = 0
SPECIFICATION Spec
INVARIANT PageReachesCursor
CHECK_DEADLOCK FALSE
