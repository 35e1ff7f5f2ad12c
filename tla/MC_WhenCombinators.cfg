\* when_all and when_any with three children that yield up to twice each:
\* P resumed once, after the last (when_all) or first (when_any) completion,
\* with the first completer's index; the caller always gets control back.
\* with_timeout over an operation that yields up to twice or for ever, its
\* timeout loop testing a dead deadline, shares when_any's safety.
CONSTANTS
    Combinators = {"when_all", "when_any", "with_timeout"}
    N = 3
    MaxYields = 2
    Timeout = 2
SPECIFICATION FairSpec
INVARIANTS
    ParentResumedOnceWhenReady
    WinnerIsFirst
PROPERTY
    CombinatorReturns
