\* Two callers, failed writes, a crash, responses without a lifetime.
CONSTANTS
    Callers = {g1, g2}
    NoCaller = NoCaller
    MaxTokens = 3
    MaxSaveFailures = 1
    MaxCrashes = 1
SPECIFICATION Spec
INVARIANT RotationKept
INVARIANT NoRedundantRefresh
INVARIANT LogoutHolds
PROPERTY GraphTokenKept
PROPERTY CallsReturn
PROPERTY LoginEnds
CHECK_DEADLOCK FALSE
