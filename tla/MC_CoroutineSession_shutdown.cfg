\* After request_shutdown(), run() returns, with every loop racing it.
SPECIFICATION FairSpec
CONSTANTS
    AppTasks <- NoApps
    PeerTypes <- ReplyTraffic
    MaxRecv = 2
    MaxTimerSends = 1
    StoreCap = 0
    SendMayBlock = TRUE
    RecvMayBlock = FALSE
    PeerMayClose = TRUE
PROPERTY
    ShutdownEndsRun
