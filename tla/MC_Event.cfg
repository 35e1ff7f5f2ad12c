\* nfx::Event with two waiters awaiting twice and two signallers calling
\* set() or reset() twice: no lost or doubled waiter, every waiter a set()
\* takes is resumed, and the word refines AbstractEvent.
CONSTANTS
    e1 = e1
    e2 = e2
    s1 = s1
    s2 = s2
    Nil = Nil
    Waiters <- MCWaiters
    Signallers <- MCSignallers
    MaxWaits = 2
    MaxOps = 2
SPECIFICATION FairSpec
INVARIANTS
    NoLostWaiter
PROPERTIES
    SetResumesTaken
    ImplementsAbstractEvent
\* Waiters still suspended when every signaller has made its calls wait
\* for good: the program stops there.
CHECK_DEADLOCK FALSE
