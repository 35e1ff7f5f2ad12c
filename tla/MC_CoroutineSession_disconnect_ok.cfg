\* The value run() returns when the connection drops in the active phase.
SPECIFICATION Spec
CONSTANTS
    AppTasks <- NoApps
    PeerTypes <- LogonLogout
    MaxRecv = 1
    MaxTimerSends = 0
    StoreCap = 0
    SendMayBlock = FALSE
    RecvMayBlock = FALSE
    PeerMayClose = TRUE
PROPERTY
    RunSucceedsOnlyOnOrderlyEnd
