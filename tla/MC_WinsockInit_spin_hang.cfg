\* A failed WSAStartup while another thread spins on initialized_.
CONSTANTS
    w1 = w1
    w2 = w2
    w3 = w3
    Threads <- MCThreads
    MaxCalls = 1
    StartupMayFail = TRUE
    VersionMayMismatch = FALSE
SPECIFICATION FairSpec
PROPERTY InitReturns
