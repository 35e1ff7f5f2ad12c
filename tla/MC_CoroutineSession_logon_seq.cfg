\* The first ResendRequest after a successful logon.
SPECIFICATION Spec
CONSTANTS
    AppTasks <- NoApps
    PeerTypes <- AppTraffic
    MaxRecv = 2
    MaxTimerSends = 0
    StoreCap = 0
    SendMayBlock = FALSE
    RecvMayBlock = FALSE
    PeerMayClose = FALSE
INVARIANT
    ResendOnlyMissing
