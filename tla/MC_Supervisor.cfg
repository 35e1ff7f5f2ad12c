\* Four attempts with a 10 s base: delays of 20, 40 and 60 (capped) seconds,
\* the final error returned, and session_with_recovery always returning.
CONSTANTS
    MaxReconnectAttempts = 4
    ReconnectInterval = 10
SPECIFICATION FairSpec
INVARIANTS
    TypeOK
    BackoffWithinCap
    LastErrorReturned
PROPERTY
    SupervisorReturns
