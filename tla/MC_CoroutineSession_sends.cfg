\* Outbound ordering under WouldBlock, LIFO mutex hand-over and the three
\* loops of the active phase, with the peer asking for test replies and
\* resends.
SPECIFICATION Spec
CONSTANTS
    AppTasks <- NoApps
    PeerTypes <- AdminTraffic
    MaxRecv = 2
    MaxTimerSends = 1
    StoreCap = 2
    SendMayBlock = TRUE
    RecvMayBlock = FALSE
    PeerMayClose = TRUE
INVARIANTS
    TypeOK
    LockedSendsInOrder
    GapFillConsistent
