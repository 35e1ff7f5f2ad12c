\* sleep_for(1) and sleep_for(2) on a clock that runs to 3.
CONSTANTS
    Durations = {1, 2}
    MaxTime = 3
SPECIFICATION Spec
INVARIANT
    SleepReachesDeadline
