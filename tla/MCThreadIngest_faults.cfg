\* Two pollers, a page smaller than the thread, crashes and rejected events.
CONSTANTS
    Pollers = {p1, p2}
    ClientIDs = {c1}
    NoCid = NoCid
    RemoteSenders = {"user"}
    PageSize = 2
    MaxMsgs = 3
    MaxQueue = 2
    MaxCrashes = 1
    MaxRejects = 1
SPECIFICATION Spec
INVARIANT NoMessageSkipped
INVARIANT NoEchoDuplicate
INVARIANT BridgedInOrder
PROPERTY OnlyStalePollsMoveBack
SYMMETRY Interchangeable
CHECK_DEADLOCK FALSE
