\* when_any whose winner completes after P has suspended.
CONSTANTS
    Combinators = {"when_any"}
    N = 2
    MaxYields = 1
    Timeout = 0
SPECIFICATION Spec
INVARIANT
    NoRunningFrameDestroyed
