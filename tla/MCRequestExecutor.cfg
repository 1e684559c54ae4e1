\* The executor as NewClient builds it, in ticks of 100 ms.
CONSTANTS
    MaxRetries = 4
    BaseBackoff = 5
    MaxBackoff = 100
    RetryAfters = {0, 300}
SPECIFICATION Spec
INVARIANTS BoundedRetries CancelStops BodiesClosed
PROPERTIES DoReturns
CHECK_DEADLOCK FALSE
