----------------------------- MODULE Supervisor -----------------------------
(***************************************************************************)
(* session_with_recovery (session/coroutine_session.hpp) driving          *)
(* CoroutineSession::run() again and again on one session object over one *)
(* WinsockTransport.  run() is taken at the granularity of its phases:     *)
(* each step is the code between two suspension points that matter to the  *)
(* outcome, with every transition() it makes applied through next_state   *)
(* (SessionFsm) and every transport call applied to the socket model       *)
(* (WinsockSocket).  What happens inside the active phase is checked by    *)
(* CoroutineSession; here only how it ends matters.  `healthy` says the   *)
(* network and the peer have started to behave: from then on connect,     *)
(* send and receive succeed and the peer answers the Logon.                *)
(***************************************************************************)
EXTENDS Integers, SessionFsm

CONSTANTS
    MaxReconnectAttempts,  \* config.max_reconnect_attempts
    ReconnectInterval      \* config.reconnect_interval (seconds)

ASSUME MaxReconnectAttempts \in Int /\ ReconnectInterval \in 1..60

VARIABLES
    state,      \* CoroutineSession::state_
    unlisted,   \* (state, event) pairs transition() was called with that the
                \* table does not list (ghost)
    pc,         \* where session_with_recovery and run() are
    attempts,   \* session_with_recovery's attempts
    delay,      \* delay_sec as computed for the current wait
    waitLeft,   \* seconds until the backoff deadline
    runResult,  \* what the last run() returned
    outcome,    \* what session_with_recovery returned
    healthy,    \* the network has recovered
    fd, sstate, os, nonblocking, afd, handles, lastSend, opt, sockOpt  \* the WinsockTransport

sockVars == <<fd, sstate, os, nonblocking, afd, handles, lastSend, opt, sockOpt>>
vars == <<state, unlisted, pc, attempts, delay, waitLeft, runResult, outcome, healthy,
          sockVars>>

\* The session owns no acceptor; nothing it runs calls set_nonblocking()
\* or the option setters, so those variables keep their initial values.
Sock == INSTANCE WinsockSocket WITH ListenWhileListening <- FALSE

Errors == {"NotConnected", "LogonTimeout", "HeartbeatTimeout", "Disconnected"}

-----------------------------------------------------------------------------
(* 32-bit int arithmetic of `reconnect_interval * (1 << attempts)`        *)

\* 2 * x in a two's-complement 32-bit int (imul wraps).
Dbl32(x) ==
    LET h == 2^30 IN
    CASE x >= h  -> (x - h - h) + (x - h - h)
      [] x < -h  -> (x + h + h) + (x + h + h)
      [] OTHER   -> 2 * x

\* x doubled k times, each time in 32 bits.
RECURSIVE DoubleTimes(_, _)
DoubleTimes(x, k) == IF k = 0 THEN x ELSE DoubleTimes(Dbl32(x), k - 1)

\* Fault variant: the shift count one less than the attempt.
BackoffProductOffByOne(a) == DoubleTimes(ReconnectInterval, (a - 1) % 32)

\* reconnect_interval * (1 << a): x86 and AArch64 take a 32-bit shift
\* count modulo 32; the product is the interval doubled that many times.
BackoffProduct(a) == DoubleTimes(ReconnectInterval, a % 32)

\* The delay spec.md 4.9 asks for: base * 2^attempt, capped at 60.
IdealDelay(a) ==
    LET e == IF a > 6 THEN 6 ELSE a
    IN IF ReconnectInterval * 2^e > 60 THEN 60 ELSE ReconnectInterval * 2^e

-----------------------------------------------------------------------------

Init ==
    /\ state = "Disconnected" /\ unlisted = {}
    /\ pc = "loop"
    /\ attempts = 0 /\ delay = 0 /\ waitLeft = 0
    /\ runResult = "none" /\ outcome = "none"
    /\ healthy = FALSE
    /\ Sock!Init

\* transition(e): next_state(state_, e), noting a pair the table omits.
Transition(e) ==
    /\ state' = NextState(state, e)
    /\ unlisted' = IF Listed(state, e) THEN unlisted ELSE unlisted \cup {<<state, e>>}

\* transition(e1) followed by transition(e2).
TransitionTwice(e1, e2) ==
    LET mid == NextState(state, e1)
    IN /\ state' = NextState(mid, e2)
       /\ unlisted' = unlisted \cup {p \in {<<state, e1>>, <<mid, e2>>} : ~Listed(p[1], p[2])}

\* run() returns res; control is back in session_with_recovery.
RunReturns(res) == runResult' = res /\ pc' = "returned"

\* The environment's answers once the network is healthy.
Good(results) == IF healthy THEN results \cap {"ok", "all", "data"} ELSE results

\* The network recovers, and stays recovered.
NetworkHeals ==
    /\ ~healthy /\ healthy' = TRUE
    /\ UNCHANGED <<state, unlisted, pc, attempts, delay, waitLeft, runResult, outcome, sockVars>>

-----------------------------------------------------------------------------
(* run(): connect_phase, logon_phase, active_phase, logout_phase           *)

\* connect_phase(): connect_async() is one connect() on the blocking
\* socket.  Failure: transition(Error), NotConnected.  Success:
\* transition(Connect).
ConnectPhase ==
    /\ pc = "connect"
    /\ \E r \in Good(Sock!ConnectResults) : Sock!Connect(r)
    /\ IF sstate' = "Connected"
          THEN Transition("Connect") /\ pc' = "logon" /\ UNCHANGED runResult
          ELSE Transition("Error") /\ RunReturns("NotConnected")
    /\ UNCHANGED <<attempts, delay, waitLeft, outcome, healthy>>

\* logon_phase(): send_raw(Logon); an error gives NotConnected, otherwise
\* transition(LogonSent) and wait_for_logon_with_deadline().
LogonSend ==
    /\ pc = "logon"
    /\ \E r \in Good(Sock!SendResults) : Sock!SendAsync(r)
    /\ IF lastSend'.ok
          THEN Transition("LogonSent") /\ pc' = "logon_wait" /\ UNCHANGED runResult
          ELSE UNCHANGED <<state, unlisted>> /\ RunReturns("NotConnected")
    /\ UNCHANGED <<attempts, delay, waitLeft, outcome, healthy>>

\* receive_async() gave an error: the object was not connected, or recv failed.
RecvFailed(r) == ~Sock!IsConnected \/ r \in {"closed", "error"}

\* What a received buffer parses to.
InMsgs == {"Logon", "Logout", "Other"}

\* while (state_ == LogonSent): the loop condition no longer holds.
LogonLoopExit ==
    /\ pc = "logon_wait" /\ state # "LogonSent"
    /\ pc' = "logon_check"
    /\ UNCHANGED <<state, unlisted, attempts, delay, waitLeft, runResult, outcome, healthy, sockVars>>

\* Clock::now() >= deadline: co_return.
LogonDeadline ==
    /\ pc = "logon_wait" /\ state = "LogonSent" /\ ~healthy
    /\ pc' = "logon_check"
    /\ UNCHANGED <<state, unlisted, attempts, delay, waitLeft, runResult, outcome, healthy, sockVars>>

\* One receive: an error transitions on Disconnect and ends the wait; a
\* Logon transitions on LogonReceived, a Logout on LogonRejected; anything
\* else loops.
LogonReceive ==
    /\ pc = "logon_wait" /\ state = "LogonSent"
    /\ \E r \in Good(Sock!RecvResults) :
          /\ Sock!ReceiveAsync(r)
          /\ IF RecvFailed(r)
                THEN Transition("Disconnect") /\ pc' = "logon_check"
                ELSE /\ \E m \in (IF healthy THEN {"Logon"} ELSE InMsgs) :
                          CASE m = "Logon"  -> Transition("LogonReceived")
                            [] m = "Logout" -> Transition("LogonRejected")
                            [] OTHER        -> UNCHANGED <<state, unlisted>>
                     /\ UNCHANGED pc
    /\ UNCHANGED <<attempts, delay, waitLeft, runResult, outcome, healthy>>

\* After the wait: not Active means transition(HeartbeatTimeout) and
\* LogonTimeout; otherwise the heartbeat timer is reset and on_logon().
LogonCheck ==
    /\ pc = "logon_check"
    /\ IF state # "Active"
          THEN Transition("HeartbeatTimeout") /\ RunReturns("LogonTimeout")
          ELSE pc' = "active" /\ UNCHANGED <<state, unlisted, runResult>>
    /\ UNCHANGED <<attempts, delay, waitLeft, outcome, healthy, sockVars>>

\* active_phase() ends with the first of its three loops to finish, then
\* run() goes on to logout_phase() (also after a heartbeat timeout), which
\* does nothing unless the state is Active or LogoutReceived:
\*  - heartbeat_loop times out: transition(HeartbeatTimeout), the run
\*    fails with HeartbeatTimeout;
\*  - message_receiver_loop's receive fails: transition(Disconnect); the
\*    state is no longer Active, so active_phase() and run() succeed;
\*  - the receiver handles a Logout: transition(LogoutReceived); the run
\*    succeeds after logout_phase() disconnects and transitions Disconnect;
\*  - request_shutdown(): logout_phase() sends the Logout.
ActivePhase ==
    /\ pc = "active"
    /\ \/ /\ ~healthy
          /\ Transition("HeartbeatTimeout") /\ RunReturns("HeartbeatTimeout")
          /\ UNCHANGED sockVars
       \/ /\ ~healthy
          /\ Sock!ReceiveAsync("error")
          /\ Transition("Disconnect") /\ RunReturns("ok")
       \/ /\ Sock!Close
          /\ TransitionTwice("LogoutReceived", "Disconnect") /\ RunReturns("ok")
       \/ /\ pc' = "logout"
          /\ UNCHANGED <<state, unlisted, runResult, sockVars>>
    /\ UNCHANGED <<attempts, delay, waitLeft, outcome, healthy>>

\* logout_phase() from Active: send_raw(Logout), its result ignored;
\* transition(LogoutSent); wait_for_logout_with_deadline().
LogoutSend ==
    /\ pc = "logout"
    /\ \E r \in Good(Sock!SendResults) : Sock!SendAsync(r)
    /\ Transition("LogoutSent") /\ pc' = "logout_wait"
    /\ UNCHANGED <<attempts, delay, waitLeft, runResult, outcome, healthy>>

\* while (state_ == LogoutPending): the loop condition no longer holds.
LogoutLoopExit ==
    /\ pc = "logout_wait" /\ state # "LogoutPending"
    /\ pc' = "logout_end"
    /\ UNCHANGED <<state, unlisted, attempts, delay, waitLeft, runResult, outcome, healthy, sockVars>>

\* Clock::now() >= deadline: co_return.
LogoutDeadline ==
    /\ pc = "logout_wait" /\ state = "LogoutPending" /\ ~healthy
    /\ pc' = "logout_end"
    /\ UNCHANGED <<state, unlisted, attempts, delay, waitLeft, runResult, outcome, healthy, sockVars>>

\* One receive: an error ends the wait without a transition; a Logout
\* transitions on LogoutReceived; anything else loops.
LogoutReceive ==
    /\ pc = "logout_wait" /\ state = "LogoutPending"
    /\ \E r \in Good(Sock!RecvResults) :
          /\ Sock!ReceiveAsync(r)
          /\ IF RecvFailed(r)
                THEN pc' = "logout_end" /\ UNCHANGED <<state, unlisted>>
                ELSE /\ \E m \in (IF healthy THEN {"Logout"} ELSE InMsgs) :
                          IF m = "Logout" THEN Transition("LogoutReceived")
                                          ELSE UNCHANGED <<state, unlisted>>
                     /\ UNCHANGED pc
    /\ UNCHANGED <<attempts, delay, waitLeft, runResult, outcome, healthy>>

\* on_logout(); transport_.disconnect(); transition(Disconnect); run()
\* succeeds.
LogoutEnd ==
    /\ pc = "logout_end"
    /\ Sock!Close
    /\ Transition("Disconnect") /\ RunReturns("ok")
    /\ UNCHANGED <<attempts, delay, waitLeft, outcome, healthy>>

-----------------------------------------------------------------------------
(* session_with_recovery                                                   *)

\* while (attempts < max_reconnect_attempts): run the session again, or
\* leave the loop with Disconnected.
LoopHead ==
    /\ pc = "loop"
    /\ IF attempts < MaxReconnectAttempts
          THEN pc' = "connect" /\ UNCHANGED outcome
          ELSE pc' = "done" /\ outcome' = "Disconnected"
    /\ UNCHANGED <<state, unlisted, attempts, delay, waitLeft, runResult, healthy, sockVars>>

\* Fault variant: the 60 s cap left out.
CapDelayMissing(d) == d

\* delay_sec after `if (delay_sec > 60) delay_sec = 60`.
CapDelay(d) == IF d > 60 THEN 60 ELSE d

\* Fault variant: no exhaustion test after a failed run; the loop head
\* ends the supervisor instead.
AfterRunNoExhaustCheck ==
    /\ pc = "returned"
    /\ IF runResult = "ok"
          THEN pc' = "done" /\ outcome' = "ok" /\ UNCHANGED <<attempts, delay, waitLeft>>
          ELSE /\ attempts' = attempts + 1
               /\ delay' = CapDelay(BackoffProduct(attempts + 1))
               /\ waitLeft' = delay'
               /\ pc' = "wait" /\ UNCHANGED outcome
    /\ UNCHANGED <<state, unlisted, runResult, healthy, sockVars>>

\* Fault variant: ++attempts missing.
AfterRunNoIncrement ==
    /\ pc = "returned"
    /\ IF runResult = "ok"
          THEN pc' = "done" /\ outcome' = "ok" /\ UNCHANGED <<delay, waitLeft>>
          ELSE /\ delay' = CapDelay(BackoffProduct(attempts + 1))
               /\ waitLeft' = delay'
               /\ pc' = "wait" /\ UNCHANGED outcome
    /\ UNCHANGED <<attempts, state, unlisted, runResult, healthy, sockVars>>

\* After run(): a value ends the supervisor with success.  An error counts
\* an attempt; when attempts are exhausted it is returned, otherwise the
\* backoff is computed and the wait begins.
AfterRun ==
    /\ pc = "returned"
    /\ IF runResult = "ok"
          THEN pc' = "done" /\ outcome' = "ok" /\ UNCHANGED <<attempts, delay, waitLeft>>
          ELSE /\ attempts' = attempts + 1
               /\ IF attempts + 1 >= MaxReconnectAttempts
                     THEN pc' = "done" /\ outcome' = runResult
                          /\ UNCHANGED <<delay, waitLeft>>
                     ELSE /\ delay' = CapDelay(BackoffProduct(attempts + 1))
                          /\ waitLeft' = delay'
                          /\ pc' = "wait" /\ UNCHANGED outcome
    /\ UNCHANGED <<state, unlisted, runResult, healthy, sockVars>>

\* while (Clock::now() < deadline) co_await Yield{}: a second passes.
WaitTick ==
    /\ pc = "wait" /\ waitLeft > 0
    /\ waitLeft' = waitLeft - 1
    /\ UNCHANGED <<state, unlisted, pc, attempts, delay, runResult, outcome, healthy, sockVars>>

\* The deadline has passed (at once if delay_sec <= 0).
WaitOver ==
    /\ pc = "wait" /\ waitLeft <= 0
    /\ pc' = "loop"
    /\ UNCHANGED <<state, unlisted, attempts, delay, waitLeft, runResult, outcome, healthy, sockVars>>

\* session_with_recovery has returned.
Done == pc = "done" /\ UNCHANGED vars

SupervisorStep ==
    \/ ConnectPhase \/ LogonSend \/ LogonLoopExit \/ LogonDeadline \/ LogonReceive
    \/ LogonCheck \/ ActivePhase \/ LogoutSend \/ LogoutLoopExit
    \/ LogoutDeadline \/ LogoutReceive \/ LogoutEnd
    \/ LoopHead \/ AfterRun \/ WaitTick \/ WaitOver

Next == SupervisorStep \/ NetworkHeals \/ Done

Spec == Init /\ [][Next]_vars

\* One cooperative thread runs the supervisor; every step above is
\* followed by the next.  steady_clock advances, so a deadline that is
\* being polled eventually passes.  Whether the network heals is not
\* assumed.
FairSpec ==
    /\ Spec
    /\ WF_vars(SupervisorStep)
    /\ WF_vars(LogonDeadline) /\ WF_vars(LogoutDeadline)
-----------------------------------------------------------------------------
(* Properties                                                              *)

TypeOK ==
    /\ state \in SessionStates
    /\ pc \in {"loop", "connect", "logon", "logon_wait", "logon_check", "active",
               "logout", "logout_wait", "logout_end", "returned", "wait", "done"}
    /\ attempts \in 0..MaxReconnectAttempts
    /\ delay \in -(2^30) - 2^30 .. 60 /\ waitLeft \in -(2^30) - 2^30 .. 60
    /\ runResult \in Errors \cup {"none", "ok"}
    /\ outcome \in Errors \cup {"none", "ok"}
    /\ healthy \in BOOLEAN
    /\ unlisted \subseteq SessionStates \X SessionEvents

\* spec.md 4.9: after a failed attempt the supervisor sleeps base *
\* 2^attempt seconds, capped at 60, before it retries.
BackoffWithinCap == pc = "wait" => delay = IdealDelay(attempts)

\* spec.md 4.9: the supervisor succeeds only when a run did, and when it
\* gives up it has used every attempt and returns the last run's error.
LastErrorReturned ==
    pc = "done" =>
        \/ outcome = "ok" /\ runResult = "ok"
        \/ outcome = runResult /\ attempts = MaxReconnectAttempts
        \/ outcome = "Disconnected" /\ runResult = "none" /\ MaxReconnectAttempts <= 0

\* session_with_recovery returns, whatever the network does.
SupervisorReturns == <>(pc = "done")

\* spec.md 4.9 (the supervisor reconnects): once the network has
\* recovered, a supervisor waiting to retry gets a connection again --
\* the retry's connect_phase() succeeds and run() goes on to logon.  It
\* needs the transport run() left behind to be one connect() can use.
RetryConnects == (healthy /\ pc = "wait") ~> (pc = "logon")

\* spec.md 4.7: pairs the transition table does not list "are invalid and
\* must not occur": run() never calls transition() with one.
OnlyListedTransitions == unlisted = {}
====
