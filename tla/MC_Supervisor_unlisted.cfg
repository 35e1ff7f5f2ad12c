\* Two attempts: does run() only emit events the transition table lists?
CONSTANTS
    MaxReconnectAttempts = 2
    ReconnectInterval = 1
SPECIFICATION Spec
INVARIANT
    OnlyListedTransitions
