\* Three tasks locking twice each, under the scheduling fairness of FairSpec:
\* mutual exclusion, an intact waiter list, refinement of AbstractLock and
\* no starvation.
CONSTANTS
    t1 = t1
    t2 = t2
    t3 = t3
    Nil = Nil
    Tasks <- MCTasks
    MaxLocks = 2
SPECIFICATION FairSpec
INVARIANTS
    MutualExclusion
    NoLostWaiter
PROPERTIES
    ImplementsAbstractLock
    LockEventuallyGranted
CHECK_DEADLOCK FALSE
