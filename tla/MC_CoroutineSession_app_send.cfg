\* send_app_message() taking send_mutex_ twice.
SPECIFICATION AppSpec
CONSTANTS
    AppTasks <- OneApp
    PeerTypes <- LogonLogout
    MaxRecv = 1
    MaxTimerSends = 0
    StoreCap = 0
    SendMayBlock = FALSE
    RecvMayBlock = FALSE
    PeerMayClose = FALSE
INVARIANT
    NoSelfWait
