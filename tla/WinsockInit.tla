---------------------------- MODULE WinsockInit ----------------------------
(***************************************************************************)
(* nfx::WinsockInit (transport/winsock_init.hpp), the process-wide        *)
(* singleton that calls WSAStartup once.  Threads call initialize(), which *)
(* runs init() on the instance: a fast-path load of initialized_, a CAS on *)
(* initializing_ that elects one thread to call WSAStartup, and a spin on  *)
(* initialized_ for the threads that lose the CAS.  Every atomic access is *)
(* one step.  WSAStartup and the version check are free choices.           *)
(* `wsaRefs` is Winsock's own reference count: WSAStartup calls that       *)
(* succeeded minus WSACleanup calls.  The static destructor runs once at   *)
(* exit, when no thread is inside init().                                  *)
(***************************************************************************)
EXTENDS Naturals

CONSTANTS
    Threads,            \* threads calling WinsockInit::initialize()
    MaxCalls,           \* initialize() calls per thread
    StartupMayFail,     \* WSAStartup may return an error
    VersionMayMismatch  \* WSAStartup may grant a version other than 2.2

ASSUME MaxCalls \in Nat \ {0}

VARIABLES
    initialized,    \* initialized_
    initializing,   \* initializing_
    errorCode,      \* error_code_ ("none" is 0)
    wsaRefs,        \* Winsock's WSAStartup reference count
    pc,             \* where each thread is
    calls,          \* completed initialize() calls per thread
    ret,            \* what each thread's last initialize() returned
    destroyed       \* ~WinsockInit has run

vars == <<initialized, initializing, errorCode, wsaRefs, pc, calls, ret,
          destroyed>>

Pcs == {"idle", "fast", "cas", "spin", "startup", "version"}

\* The constructor: initialized_{false}, error_code_{0}, initializing_{false}.
Init ==
    /\ initialized = FALSE
    /\ initializing = FALSE
    /\ errorCode = "none"
    /\ wsaRefs = 0
    /\ pc = [t \in Threads |-> "idle"]
    /\ calls = [t \in Threads |-> 0]
    /\ ret = [t \in Threads |-> "none"]
    /\ destroyed = FALSE

\* init() returns b to the caller of initialize().
Return(t, b) ==
    /\ pc' = [pc EXCEPT ![t] = "idle"]
    /\ ret' = [ret EXCEPT ![t] = IF b THEN "true" ELSE "false"]
    /\ calls' = [calls EXCEPT ![t] = @ + 1]

Goto(t, l) == pc' = [pc EXCEPT ![t] = l] /\ UNCHANGED <<ret, calls>>

\* WinsockInit::initialize() / ensure(): instance().init().
Initialize(t) ==
    /\ pc[t] = "idle" /\ calls[t] < MaxCalls /\ ~destroyed
    /\ Goto(t, "fast")
    /\ UNCHANGED <<initialized, initializing, errorCode, wsaRefs, destroyed>>

\* Fault variant: the fast path tests initializing_ instead.
FastPathWrongFlag(t) ==
    /\ pc[t] = "fast"
    /\ IF initializing THEN Return(t, TRUE) ELSE Goto(t, "cas")
    /\ UNCHANGED <<initialized, initializing, errorCode, wsaRefs, destroyed>>

\* Fast path: initialized_.load() is true, return true.
FastPath(t) ==
    /\ pc[t] = "fast"
    /\ IF initialized THEN Return(t, TRUE) ELSE Goto(t, "cas")
    /\ UNCHANGED <<initialized, initializing, errorCode, wsaRefs, destroyed>>

\* Fault variant: the election done as a load followed by a store.
ElectLoadStore(t) ==
    /\ pc[t] = "cas"
    /\ \/ Goto(t, "startup") /\ initializing' = TRUE
       \/ initializing /\ Goto(t, "spin") /\ UNCHANGED initializing
    /\ UNCHANGED <<initialized, errorCode, wsaRefs, destroyed>>

\* initializing_.compare_exchange_strong(false, true): the winner calls
\* WSAStartup, a loser spins.
Elect(t) ==
    /\ pc[t] = "cas"
    /\ IF ~initializing
          THEN initializing' = TRUE /\ Goto(t, "startup")
          ELSE UNCHANGED initializing /\ Goto(t, "spin")
    /\ UNCHANGED <<initialized, errorCode, wsaRefs, destroyed>>

\* while (!initialized_.load()) Sleep(0); return error_code_ == 0.  A
\* load that sees false changes nothing: the thread stays in the loop.
Spin(t) ==
    /\ pc[t] = "spin"
    /\ IF initialized THEN Return(t, errorCode = "none")
                      ELSE UNCHANGED <<pc, ret, calls>>
    /\ UNCHANGED <<initialized, initializing, errorCode, wsaRefs, destroyed>>

\* WSAStartup(MAKEWORD(2,2)): on failure record the error, clear
\* initializing_ and return false.
Startup(t) ==
    /\ pc[t] = "startup"
    /\ \/ /\ wsaRefs' = wsaRefs + 1
          /\ Goto(t, "version")
          /\ UNCHANGED <<initializing, errorCode>>
       \/ /\ StartupMayFail
          /\ errorCode' = "startup_failed"
          /\ initializing' = FALSE
          /\ Return(t, FALSE)
          /\ UNCHANGED wsaRefs
    /\ UNCHANGED <<initialized, destroyed>>

\* Fault variant: the version mismatch path without WSACleanup().
VersionCheckNoCleanup(t) ==
    /\ pc[t] = "version"
    /\ \/ /\ errorCode' = "none"
          /\ initialized' = TRUE
          /\ Return(t, TRUE)
          /\ UNCHANGED initializing
       \/ /\ VersionMayMismatch
          /\ errorCode' = "version_not_supported"
          /\ initializing' = FALSE
          /\ Return(t, FALSE)
          /\ UNCHANGED initialized
    /\ UNCHANGED <<wsaRefs, destroyed>>

\* The granted version is 2.2: error_code_ = 0, initialized_ = true.
\* Otherwise WSACleanup(), clear initializing_, return false.
VersionCheck(t) ==
    /\ pc[t] = "version"
    /\ \/ /\ errorCode' = "none"
          /\ initialized' = TRUE
          /\ Return(t, TRUE)
          /\ UNCHANGED <<initializing, wsaRefs>>
       \/ /\ VersionMayMismatch
          /\ errorCode' = "version_not_supported"
          /\ wsaRefs' = wsaRefs - 1
          /\ initializing' = FALSE
          /\ Return(t, FALSE)
          /\ UNCHANGED initialized
    /\ UNCHANGED destroyed

\* ~WinsockInit at static destruction: WSACleanup() if initialized_.
Destroy ==
    /\ ~destroyed
    /\ \A t \in Threads : pc[t] = "idle"
    /\ destroyed' = TRUE
    /\ wsaRefs' = IF initialized THEN wsaRefs - 1 ELSE wsaRefs
    /\ UNCHANGED <<initialized, initializing, errorCode, pc, calls, ret>>

\* The threads' own steps inside init().
InitStep(t) ==
    FastPath(t) \/ Elect(t) \/ Spin(t) \/ Startup(t) \/ VersionCheck(t)

\* After exit nothing more happens.
Exited == destroyed /\ UNCHANGED vars

Next ==
    \/ \E t \in Threads : Initialize(t) \/ InitStep(t)
    \/ Destroy
    \/ Exited

Spec == Init /\ [][Next]_vars

\* Threads are scheduled by the OS and Sleep(0) yields without blocking:
\* a thread inside init() keeps taking steps.  Whether a thread calls
\* initialize() again, and when the process exits, is the program's
\* choice and gets no fairness.
FairSpec == Spec /\ \A t \in Threads : WF_vars(InitStep(t))

-----------------------------------------------------------------------------
(* Properties                                                              *)

TypeOK ==
    /\ initialized \in BOOLEAN /\ initializing \in BOOLEAN
    /\ errorCode \in {"none", "startup_failed", "version_not_supported"}
    /\ wsaRefs \in Nat
    /\ pc \in [Threads -> Pcs]
    /\ calls \in [Threads -> 0..MaxCalls]
    /\ ret \in [Threads -> {"none", "true", "false"}]
    /\ destroyed \in BOOLEAN

\* "Thread-safe singleton ensures WSAStartup is called exactly once": at
\* most one thread is between winning the initializing_ CAS and leaving
\* init(), and Winsock is never started twice without a cleanup between.
StartupExclusive ==
    /\ \A t, u \in Threads :
          t # u => ~(pc[t] \in {"startup", "version"} /\ pc[u] \in {"startup", "version"})
    /\ wsaRefs <= 1

\* An initialize() that returned true, by the fast path, the winner or a
\* spinner, saw Winsock ready: initialized_ is set and WSAStartup holds a
\* reference.  (error_code_ starts at 0, so a spinner that stopped waiting
\* early would report success.)
TrueMeansReady ==
    \A t \in Threads : ret[t] = "true" =>
        initialized /\ (wsaRefs = 1 \/ destroyed)

\* No WSAStartup reference is leaked: once the static destructor has run,
\* every successful WSAStartup has been matched by a WSACleanup (on the
\* version-mismatch path of init() or in ~WinsockInit).
NoLeakAtExit == destroyed => wsaRefs = 0

\* Every initialize() call returns: a thread that loses the election does
\* not spin forever.
InitReturns == \A t \in Threads : pc[t] = "fast" ~> pc[t] = "idle"
=============================================================================
