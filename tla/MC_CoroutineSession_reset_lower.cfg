\* Delivery of inbound application messages.
SPECIFICATION Spec
CONSTANTS
    AppTasks <- NoApps
    PeerTypes <- AppTraffic
    MaxRecv = 3
    MaxTimerSends = 0
    StoreCap = 0
    SendMayBlock = FALSE
    RecvMayBlock = FALSE
    PeerMayClose = FALSE
PROPERTY
    InboundNeverRewinds
