\* The store key of a sent message.
SPECIFICATION Spec
CONSTANTS
    AppTasks <- NoApps
    PeerTypes <- LogonLogout
    MaxRecv = 1
    MaxTimerSends = 0
    StoreCap = 2
    SendMayBlock = FALSE
    RecvMayBlock = FALSE
    PeerMayClose = FALSE
INVARIANT
    StoredUnderOwnSeq
