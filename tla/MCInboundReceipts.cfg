\* Two pollers, a restart, passes of up to one interval.
CONSTANTS
    Pollers = {p1, p2}
    MaxHorizon = 2
    MaxPass = 1
    MaxCrashes = 1
SPECIFICATION Spec
INVARIANTS ReceiptsAdvance
PROPERTIES MonotonicPersistence ReceiptArrives
