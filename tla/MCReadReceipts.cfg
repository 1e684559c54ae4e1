\* Two handlers against the poll loop, two messages from Matrix among four.
CONSTANTS
    Handlers = {h1, h2}
    ClientIDs = {c1, c2}
    NoCid = NoCid
    MaxMsgs = 4
    MaxFailures = 1
    MaxCrashes = 1
SPECIFICATION Spec
SYMMETRY Symmetry
INVARIANTS OncePerUnreadCycle ReadReachesTeams
