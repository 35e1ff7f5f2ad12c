---------------------------- MODULE WinsockSocket ----------------------------
(***************************************************************************)
(* WinsockSocket, WinsockTransport and WinsockAcceptor                     *)
(* (transport/winsock_transport.hpp), with AsyncTransport's wrappers       *)
(* (transport/async_transport.hpp) over them.  The object's fields fd_ and *)
(* state_ are variables; so is the kernel socket fd_ names, whose status   *)
(* the object only learns from the results of its calls.  Every Winsock   *)
(* call is one step whose result is an input chosen from a small set.      *)
(* `handles` counts kernel sockets the objects opened and have not closed. *)
(***************************************************************************)
EXTENDS Naturals

CONSTANTS
    ListenWhileListening  \* the owner may call listen() on a listening acceptor

VARIABLES
    fd,           \* WinsockSocket::fd_: "invalid" or "valid"
    sstate,       \* WinsockSocket::state_ (ConnectionState)
    os,           \* the kernel socket fd_ names
    nonblocking,  \* FIONBIO is set on that kernel socket
    afd,          \* WinsockAcceptor::fd_
    handles,      \* kernel sockets opened by the objects and not yet closed
    lastSend,     \* the last send_async(): what it returned, what the kernel took
    opt,          \* WinsockSocket::options_: "dflt", or the values the owner set
    sockOpt       \* the options the kernel socket fd_ names carries

sockVars == <<fd, sstate, os, nonblocking, opt, sockOpt>>
vars == <<fd, sstate, os, nonblocking, afd, handles, lastSend, opt, sockOpt>>
optVars == <<opt, sockOpt>>

ConnectionStates == {"Disconnected", "Connecting", "Connected", "Disconnecting", "Error"}
OsStates == {"none", "unconnected", "connected", "peer_closed", "reset", "broken"}

\* The results a Winsock call can give: the setup steps of connect(), the
\* WSAStartup/socket()/bind()/listen() steps of listen(), and the data calls.
ConnectResults == {"ok", "init_failed", "socket_failed", "resolve_failed", "refused"}
ListenResults == {"ok", "init_failed", "socket_failed", "bind_failed", "listen_failed"}
SendResults == {"all", "some", "would_block", "error"}
RecvResults == {"data", "would_block", "closed", "error"}
OptValues == {"dflt", "set"}

\* The constructor: fd_{INVALID_SOCKET_HANDLE}, state_{Disconnected}.
Init ==
    /\ fd = "invalid" /\ sstate = "Disconnected" /\ os = "none"
    /\ nonblocking = FALSE
    /\ afd = "invalid"
    /\ handles = 0
    /\ lastSend = [ok |-> FALSE, taken |-> "none"]
    /\ opt = "dflt" /\ sockOpt = "dflt"

\* is_connected(): state_ == Connected && is_valid_socket(fd_).
IsConnected == sstate = "Connected" /\ fd = "valid"

\* apply_options(): every field of options_ set on fd_ (the setters'
\* results are discarded; setsockopt on a valid socket is taken to work).
ApplyOptions == sockOpt' = opt

-----------------------------------------------------------------------------
(* WinsockSocket                                                           *)

\* Fault variant: connect() calls create() whatever fd_ holds.
ConnectAlwaysCreates(r) ==
    /\ r \in ConnectResults
    /\ IF r \in {"init_failed", "socket_failed"}
          THEN UNCHANGED <<sockVars, handles>>
          ELSE /\ fd' = "valid" /\ nonblocking' = FALSE
               /\ handles' = handles + 1
               /\ sstate' = IF r = "ok" THEN "Connected" ELSE "Error"
               /\ os' = CASE r = "ok" -> "connected"
                          [] r = "refused" -> "broken"
                          [] OTHER -> "unconnected"
               /\ IF r = "ok" THEN ApplyOptions ELSE sockOpt' = "dflt"
               /\ UNCHANGED opt
    /\ UNCHANGED <<afd, lastSend>>

\* connect(): create() if fd_ is invalid (WinsockInit::ensure() and
\* ::socket() may fail, leaving everything as it was); state_ = Connecting;
\* getaddrinfo failure or a failing ::connect sets state_ = Error.  A kernel
\* socket that is already connected answers WSAEISCONN whatever the peer
\* does.  On success apply_options() and state_ = Connected; a socket
\* create() made and a failed ::connect left has the kernel's defaults.
Connect(r) ==
    /\ r \in ConnectResults
    /\ r \in {"init_failed", "socket_failed"} => fd = "invalid"
    /\ LET fresh  == fd = "invalid"
           before == IF fresh THEN "unconnected" ELSE os
           isconn == before \in {"connected", "peer_closed"}
       IN IF r \in {"init_failed", "socket_failed"}
             THEN UNCHANGED <<sockVars, handles>>
             ELSE /\ fd' = "valid"
                  /\ nonblocking' = (nonblocking /\ ~fresh)
                  /\ handles' = IF fresh THEN handles + 1 ELSE handles
                  /\ sstate' = IF r = "ok" /\ ~isconn THEN "Connected" ELSE "Error"
                  /\ os' = CASE isconn -> before
                             [] r = "ok" -> "connected"
                             [] r = "refused" -> "broken"
                             [] OTHER -> before
                  /\ IF r = "ok" /\ ~isconn
                        THEN ApplyOptions
                        ELSE sockOpt' = IF fresh THEN "dflt" ELSE sockOpt
                  /\ UNCHANGED opt
    /\ UNCHANGED <<afd, lastSend>>

\* close() / WinsockTransport::disconnect(): if fd_ is valid, shutdown,
\* closesocket, fd_ = INVALID, state_ = Disconnected.
Close ==
    /\ IF fd = "valid"
          THEN /\ fd' = "invalid" /\ sstate' = "Disconnected" /\ os' = "none"
               /\ nonblocking' = FALSE /\ sockOpt' = "dflt"
               /\ handles' = handles - 1 /\ UNCHANGED opt
          ELSE UNCHANGED <<sockVars, handles>>
    /\ UNCHANGED <<afd, lastSend>>

\* set_nonblocking(): ioctlsocket(FIONBIO) on the current fd_ only.
SetNonblocking(b) ==
    /\ fd = "valid" /\ nonblocking' = b
    /\ UNCHANGED <<fd, sstate, os, afd, handles, lastSend, opt, sockOpt>>

\* Fault variant: a setter that only records the value in options_.
SetOptionRecordOnly(v) ==
    /\ opt' = v
    /\ UNCHANGED <<fd, sstate, os, nonblocking, afd, handles, lastSend, sockOpt>>

\* set_nodelay() / set_keepalive(): the value goes into options_, and onto
\* fd_ at once if fd_ is valid (otherwise connect()'s apply_options()
\* sets it later).
SetOption(v) ==
    /\ opt' = v
    /\ sockOpt' = IF fd = "valid" THEN v ELSE sockOpt
    /\ UNCHANGED <<fd, sstate, os, nonblocking, afd, handles, lastSend>>

\* set_receive_timeout() / set_send_timeout() / set_buffer_sizes(): the
\* same store-then-apply-if-valid pattern for the remaining fields.
SetTuning(v) == SetOption(v)

\* The kernel's answer to ::send: a blocking socket takes everything or
\* fails; a non-blocking one may take part of it, or nothing
\* (WSAEWOULDBLOCK).  A connection the peer has closed may still take data.
SendAllowed(r) ==
    \/ r = "error"
    \/ os \in {"connected", "peer_closed"} /\ (r = "all" \/ nonblocking)

\* Fault variant: a send error that leaves state_ as it was.
SendAsyncKeepsState(r) ==
    /\ r \in SendResults
    /\ IF ~IsConnected
          THEN /\ lastSend' = [ok |-> FALSE, taken |-> "none"]
               /\ UNCHANGED <<sstate, os>>
          ELSE /\ SendAllowed(r)
               /\ os' = IF r = "error" THEN "broken" ELSE os
               /\ lastSend' = [ok |-> r # "error",
                               taken |-> IF r = "all" THEN "all" ELSE "none"]
               /\ UNCHANGED sstate
    /\ UNCHANGED <<fd, nonblocking, afd, handles, opt, sockOpt>>

\* AsyncTransport::send_async() over WinsockSocket::send(): not connected
\* gives ConnectionClosed; SOCKET_ERROR with WSAEWOULDBLOCK returns the
\* value 0, any other error sets state_ = Error; otherwise the count sent.
\* send_async() retries only a WouldBlock *error*, so it returns at once.
SendAsync(r) ==
    /\ r \in SendResults
    /\ IF ~IsConnected
          THEN /\ lastSend' = [ok |-> FALSE, taken |-> "none"]
               /\ UNCHANGED <<sstate, os>>
          ELSE /\ SendAllowed(r)
               /\ sstate' = IF r = "error" THEN "Error" ELSE sstate
               /\ os' = IF r = "error" THEN "broken" ELSE os
               /\ lastSend' = [ok |-> r # "error",
                               taken |-> CASE r = "all" -> "all"
                                           [] r = "some" -> "some"
                                           [] OTHER -> "none"]
    /\ UNCHANGED <<fd, nonblocking, afd, handles, opt, sockOpt>>

\* The kernel's answer to ::recv.
RecvAllowed(r) ==
    CASE os = "peer_closed" -> r \in {"data", "closed", "error"}
      [] os = "connected" -> r \in {"data", "error"} \/ (r = "would_block" /\ nonblocking)
      [] OTHER -> r = "error"

\* receive_async() over receive(): WSAEWOULDBLOCK returns 0; 0 bytes means
\* the peer closed: state_ = Disconnected and ConnectionClosed; another
\* error sets state_ = Error.
ReceiveAsync(r) ==
    /\ r \in RecvResults
    /\ IF ~IsConnected
          THEN UNCHANGED <<sstate, os>>
          ELSE /\ RecvAllowed(r)
               /\ sstate' = CASE r = "closed" -> "Disconnected"
                              [] r = "error" -> "Error"
                              [] OTHER -> sstate
               /\ os' = IF r = "error" THEN "broken" ELSE os
    /\ UNCHANGED <<fd, nonblocking, afd, handles, lastSend, opt, sockOpt>>

\* The remote end closes or resets the connection; the object learns of it
\* from its next call.
PeerCloses ==
    /\ os = "connected"
    /\ \E o \in {"peer_closed", "reset"} : os' = o
    /\ UNCHANGED <<fd, sstate, nonblocking, afd, handles, lastSend, opt, sockOpt>>

-----------------------------------------------------------------------------
(* WinsockAcceptor                                                         *)

\* listen(): WinsockInit::ensure(), then fd_ = ::socket() (the old fd_ is
\* overwritten), SO_REUSEADDR, bind, listen; a bind or listen failure
\* closes the new socket.
Listen(r) ==
    /\ r \in ListenResults
    /\ afd = "valid" => ListenWhileListening
    /\ CASE r = "init_failed" -> UNCHANGED <<afd, handles>>
         [] r = "socket_failed" -> afd' = "invalid" /\ UNCHANGED handles
         [] r \in {"bind_failed", "listen_failed"} ->
                afd' = "invalid" /\ handles' = handles
         [] r = "ok" -> afd' = "valid" /\ handles' = handles + 1
    /\ UNCHANGED <<sockVars, lastSend>>

\* close(): closesocket if fd_ is valid.
AcceptorClose ==
    /\ IF afd = "valid" THEN afd' = "invalid" /\ handles' = handles - 1
                        ELSE UNCHANGED <<afd, handles>>
    /\ UNCHANGED <<sockVars, lastSend>>

-----------------------------------------------------------------------------
(* The owner of a WinsockTransport and a WinsockAcceptor calls any         *)
(* operation at any time; the peer may close.                             *)

Next ==
    \/ \E r \in ConnectResults : Connect(r)
    \/ \E r \in SendResults : SendAsync(r)
    \/ \E r \in RecvResults : ReceiveAsync(r)
    \/ \E r \in ListenResults : Listen(r)
    \/ \E b \in BOOLEAN : SetNonblocking(b)
    \/ \E v \in OptValues : SetOption(v) \/ SetTuning(v)
    \/ Close \/ AcceptorClose \/ PeerCloses

Spec == Init /\ [][Next]_vars

-----------------------------------------------------------------------------
(* Properties                                                              *)

TypeOK ==
    /\ fd \in {"invalid", "valid"} /\ afd \in {"invalid", "valid"}
    /\ sstate \in ConnectionStates /\ os \in OsStates
    /\ nonblocking \in BOOLEAN
    /\ handles \in Nat
    /\ lastSend \in [ok : BOOLEAN, taken : {"all", "some", "none"}]
    /\ opt \in OptValues /\ sockOpt \in OptValues

\* Every kernel socket the objects open is the one fd_ names and is closed
\* by close(): connect() creates a socket only when fd_ is invalid, and
\* listen()'s failure paths close what they opened.
NoHandleLeak ==
    handles = (IF fd = "valid" THEN 1 ELSE 0) + (IF afd = "valid" THEN 1 ELSE 0)

\* is_connected() is true only while the kernel socket holds a connection
\* that no call has yet seen fail (the peer may have closed or reset it
\* unobserved): every failed send, receive or connect is reflected in
\* state_.
ConnectedMeansLink == IsConnected => os \in {"connected", "peer_closed", "reset"}

\* A send_async() that returns a value has handed the whole message to the
\* kernel: send_raw_unlocked() counts it as sent and the session never
\* sends it again.
SendOkMeansAllTaken == lastSend.ok => lastSend.taken = "all"
\* A connected socket carries the options options_ records: connect()
\* applies them to the socket it connected, and a setter called while fd_
\* is valid applies the new value at once, so a reconnect on a new socket
\* or a setter called mid-session never leaves the kernel socket stale.
OptionsApplied == IsConnected => sockOpt = opt
====
