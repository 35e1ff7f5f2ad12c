\* Two attempts with a 1 s base: does the retry on a healed network connect?
CONSTANTS
    MaxReconnectAttempts = 2
    ReconnectInterval = 1
SPECIFICATION FairSpec
PROPERTY
    RetryConnects
