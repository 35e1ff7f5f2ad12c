\* WSAStartup and the version check may fail; two initialize() calls per
\* thread (the owner's connect and listen each cost one).
CONSTANTS
    o1 = o1
    w1 = w1
    w2 = w2
    Threads <- MCThreads
    Owner = o1
    MaxCalls = 2
    StartupMayFail = TRUE
    VersionMayMismatch = TRUE
    ListenWhileListening = FALSE
SPECIFICATION Spec
SYMMETRY OtherSymmetry
INVARIANTS
    StartupExclusive
    TrueMeansReady
    NoLeakAtExit
    NoHandleLeak
    ConnectedMeansLink
    SocketNeedsWinsock
    OptionsApplied
