\* Thirty attempts with a 5 s base: 5 * (1 << 29) overflows int.
CONSTANTS
    MaxReconnectAttempts = 30
    ReconnectInterval = 5
SPECIFICATION Spec
INVARIANT
    BackoffWithinCap
