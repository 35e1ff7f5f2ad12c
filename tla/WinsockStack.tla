---------------------------- MODULE WinsockStack ----------------------------
(***************************************************************************)
(* WinsockInit composed with the WinsockTransport and WinsockAcceptor of   *)
(* one owner thread (transport/winsock_transport.hpp).  The socket objects *)
(* reach the singleton through WinsockInit::ensure(): create(), called by  *)
(* connect() when fd_ is invalid, and listen() call it before ::socket(). *)
(* The owner's ensure() is an initialize() call of thread Owner in the     *)
(* WinsockInit model, racing the other threads' initialize() calls; the   *)
(* socket call resumes when it returns, with init_failed exactly when it   *)
(* returned false.  `call` is the socket operation suspended in ensure().  *)
(***************************************************************************)
EXTENDS Naturals

CONSTANTS
    Threads, MaxCalls, StartupMayFail, VersionMayMismatch,
    ListenWhileListening,
    Owner               \* the thread that owns the transport and acceptor

ASSUME Owner \in Threads

VARIABLES
    initialized, initializing, errorCode, wsaRefs, pc, calls, ret, destroyed,
    fd, sstate, os, nonblocking, afd, handles, lastSend, opt, sockOpt,
    call                \* "none", or the socket call waiting on ensure()

WI == INSTANCE WinsockInit
WS == INSTANCE WinsockSocket

initVars == <<initialized, initializing, errorCode, wsaRefs, pc, calls, ret,
             destroyed>>
sockAll == <<fd, sstate, os, nonblocking, afd, handles, lastSend, opt, sockOpt>>
vars == <<initVars, sockAll, call>>

Init == WI!Init /\ WS!Init /\ call = "none"

-----------------------------------------------------------------------------
(* The owner's socket calls that go through WinsockInit::ensure()          *)

\* connect() with fd_ invalid calls create(), whose first step is
\* WinsockInit::ensure(): the owner enters initialize().
ConnectEnsure ==
    /\ call = "none" /\ fd = "invalid"
    /\ WI!Initialize(Owner)
    /\ call' = "connect"
    /\ UNCHANGED sockAll

\* Fault variant: create() goes on to ::socket() whatever ensure() returned.
ConnectAfterEnsureIgnoresResult(r) ==
    /\ call = "connect" /\ pc[Owner] = "idle"
    /\ r # "init_failed"
    /\ WS!Connect(r)
    /\ call' = "none"
    /\ UNCHANGED initVars

\* ensure() has returned: false makes create() return make_init_error()
\* and connect() return it; true goes on to ::socket() and the rest of
\* connect().
ConnectAfterEnsure(r) ==
    /\ call = "connect" /\ pc[Owner] = "idle"
    /\ (r = "init_failed") = (ret[Owner] = "false")
    /\ WS!Connect(r)
    /\ call' = "none"
    /\ UNCHANGED initVars

\* connect() with fd_ valid skips create() and Winsock is not consulted.
ConnectReady(r) ==
    /\ call = "none" /\ fd = "valid" /\ ~destroyed
    /\ WS!Connect(r)
    /\ UNCHANGED <<initVars, call>>

\* WinsockAcceptor::listen(): WinsockInit::ensure() first.
ListenEnsure ==
    /\ call = "none"
    /\ afd = "valid" => ListenWhileListening
    /\ WI!Initialize(Owner)
    /\ call' = "listen"
    /\ UNCHANGED sockAll

\* ensure() has returned: false returns make_init_error(), true goes on to
\* ::socket(), bind and listen.
ListenAfterEnsure(r) ==
    /\ call = "listen" /\ pc[Owner] = "idle"
    /\ (r = "init_failed") = (ret[Owner] = "false")
    /\ WS!Listen(r)
    /\ call' = "none"
    /\ UNCHANGED initVars

\* The owner's other calls, which do not touch WinsockInit, and the peer
\* closing the connection.
SocketOp ==
    /\ call = "none" /\ ~destroyed
    /\ \/ \E r \in WS!SendResults : WS!SendAsync(r)
       \/ \E r \in WS!RecvResults : WS!ReceiveAsync(r)
       \/ \E b \in BOOLEAN : WS!SetNonblocking(b)
       \/ \E v \in WS!OptValues : WS!SetOption(v) \/ WS!SetTuning(v)
       \/ WS!Close \/ WS!AcceptorClose \/ WS!PeerCloses
    /\ UNCHANGED <<initVars, call>>

\* Other threads calling WinsockInit::initialize() directly, every thread's
\* steps inside init(), and the static destructor once the owner's calls
\* are over.
InitOp ==
    /\ \/ \E t \in Threads \ {Owner} : WI!Initialize(t)
       \/ \E t \in Threads : WI!InitStep(t)
       \/ call = "none" /\ WI!Destroy
    /\ UNCHANGED <<sockAll, call>>

\* After exit nothing more happens.
Exited == destroyed /\ UNCHANGED vars

Next ==
    \/ ConnectEnsure
    \/ \E r \in WS!ConnectResults : ConnectAfterEnsure(r) \/ ConnectReady(r)
    \/ ListenEnsure
    \/ \E r \in WS!ListenResults : ListenAfterEnsure(r)
    \/ SocketOp
    \/ InitOp
    \/ Exited

Spec == Init /\ [][Next]_vars

-----------------------------------------------------------------------------
(* Properties: those of the two components, checked on the composition,   *)
(* and what the composition adds.                                          *)

TypeOK == WI!TypeOK /\ WS!TypeOK /\ call \in {"none", "connect", "listen"}

\* WSAStartup runs in one thread at a time and at most once without a
\* WSACleanup between (WinsockInit::init's CAS on initializing_).
StartupExclusive == WI!StartupExclusive

\* An initialize() or ensure() that returned true saw Winsock ready.
TrueMeansReady == WI!TrueMeansReady

\* Every WSAStartup reference is released by exit.
NoLeakAtExit == WI!NoLeakAtExit

\* Every kernel socket the transport and acceptor open is one their fd_
\* names (connect() creates only when fd_ is invalid).
NoHandleLeak == WS!NoHandleLeak

\* is_connected() only while the kernel connection has not been seen to fail.
ConnectedMeansLink == WS!ConnectedMeansLink

\* A kernel socket exists only while Winsock is started: create() and
\* listen() call ::socket() only after ensure() returned true, even when
\* another thread's initialize() is electing, failing or retrying at the
\* same time, and until the static destructor's WSACleanup.
SocketNeedsWinsock == (handles > 0 /\ ~destroyed) => wsaRefs = 1

\* A connected transport's kernel socket carries the options options_
\* records, across reconnects that create() a new socket after close().
OptionsApplied == WS!OptionsApplied
=============================================================================
