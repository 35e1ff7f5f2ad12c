\* Frames of when_any losers, destroyed while linked in send_mutex_ or in
\* shutdown_event_.
SPECIFICATION Spec
CONSTANTS
    AppTasks <- NoApps
    PeerTypes <- ReplyTraffic
    MaxRecv = 2
    MaxTimerSends = 1
    StoreCap = 0
    SendMayBlock = TRUE
    RecvMayBlock = FALSE
    PeerMayClose = TRUE
INVARIANT
    NoDestroyedFrameResumed
