-------------------------- MODULE CoroutineSession --------------------------
(***************************************************************************)
(* nfx::CoroutineSession (session/coroutine_session.hpp): run() =         *)
(* connect -> logon -> active -> logout, the three loops of the active     *)
(* phase joined by when_any, the send_mutex_ that serialises outbound      *)
(* bytes, sequence numbers, and the message store used for resends.        *)
(*                                                                         *)
(* Scheduling.  Everything runs on one cooperative thread.  A step of a    *)
(* task runs from one suspension point to the next; `stack` is the chain  *)
(* of inline resumptions (a driver tick resumes one task; an unlock        *)
(* resumes the popped waiter inline; a finishing when_any child resumes    *)
(* its parent inline), and only the task on top of it may step.  When the  *)
(* stack is empty the driver resumes any suspended task: which one is not  *)
(* fixed by the source (coroutine.hpp is not in the tree), so it is left  *)
(* open.  when_any's co_return destroys its drivers and with them the     *)
(* losers' frames (async_primitives.hpp:389); a destroyed loser that was  *)
(* waiting for send_mutex_ or shutdown_event_ stays linked there, and     *)
(* resuming it is undefined behaviour, modelled as the thread crashing.   *)
(*                                                                         *)
(* Data.  A message is a record of its type and MsgSeqNum (and the two     *)
(* numbers of a ResendRequest or SequenceReset); bytes, timestamps and     *)
(* CompIDs are left out.  The peer and the transport are the environment:  *)
(* each receive returns nothing, an error, or one peer message; each send  *)
(* succeeds, would block, or fails.  The HeartbeatTimer and the logon and  *)
(* logout deadlines read the wall clock, so their answers are free         *)
(* choices at each check.                                                  *)
(***************************************************************************)
EXTENDS Naturals, Sequences, SequencesExt, SessionFsm

CONSTANTS
    AppTasks,       \* application coroutines calling send_app_message
    PeerTypes,      \* message types the peer may send
    MaxRecv,        \* bound on messages the peer sends
    MaxTimerSends,  \* bound on heartbeats/test requests the timer asks for
    StoreCap,       \* MemoryStore max_messages (0: no store attached)
    SendMayBlock,   \* transport send may answer WouldBlock
    RecvMayBlock,   \* transport receive may answer WouldBlock
    PeerMayClose    \* the connection may drop at any send or receive

ASSUME /\ MaxRecv \in Nat /\ MaxTimerSends \in Nat /\ StoreCap \in Nat
       /\ SendMayBlock \in BOOLEAN /\ RecvMayBlock \in BOOLEAN
       /\ PeerMayClose \in BOOLEAN

MsgTypes == {"Logon", "Heartbeat", "TestRequest", "ResendRequest", "Reject",
             "SequenceReset", "Logout", "App"}
ASSUME PeerTypes \subseteq MsgTypes

Loops == <<"hb", "rx", "sd">>       \* when_any children, index 0, 1, 2
Tasks == {"main", "hb", "rx", "sd"} \cup AppTasks
NoTask == "none"

\* Outbound message: `alloc` says when its MsgSeqNum was taken:
\* "lock"   - next_outbound() after acquiring send_mutex_,
\* "before" - next_outbound() before send_raw() takes the mutex,
\* "fill"   - SequenceReset gap fill: MsgSeqNum = BeginSeqNo, NewSeqNo =
\*            current_outbound() read under the mutex,
\* "app"    - send_app_message: next_outbound() under its own lock, after
\*            which it calls send_raw(), which locks again,
\* "copy"   - a message sent again unchanged.
Msg(type, seq, alloc, lo, hi) ==
    [type |-> type, seq |-> seq, alloc |-> alloc, lo |-> lo, hi |-> hi]

VARIABLES
    state,        \* state_
    nextOut,      \* sequences_: next outbound MsgSeqNum
    expIn,        \* sequences_: expected inbound MsgSeqNum
    holder,       \* send_mutex_: owning task or NoTask
    waiters,      \* send_mutex_: waiter list, head (most recent) first
    shutdownSet,  \* shutdown_event_ is SET
    connected,    \* the transport is connected
    store,        \* message_store_: <<key, message>> pairs in insertion order
    wire,         \* every message the transport accepted, in order
    delivered,    \* MsgSeqNums handed to on_app_message, in order
    pc,           \* where each task is
    out,          \* the message a task is sending
    ret,          \* where a task returns after its send: [pc, yield]
    sendOk,       \* result of a task's last send
    cur,          \* the inbound message a task is processing
    pend,         \* receiver: stored messages still to resend
    stack,        \* inline resumption chain, running task last
    done,         \* when_any: some child has finished
    winner,       \* when_any: index of the first child to finish
    result,       \* value run() returns ("none" while running)
    peerSeq,      \* the peer's next MsgSeqNum
    received,     \* MsgSeqNums of the peer messages received, in order
    timerSends    \* timer-driven sends so far

vars == <<state, nextOut, expIn, holder, waiters, shutdownSet, connected,
          store, wire, delivered, pc, out, ret, sendOk, cur, pend, stack,
          done, winner, result, peerSeq, received, timerSends>>

NoMsg == Msg("none", 0, "copy", 0, 0)

-----------------------------------------------------------------------------
(* Cooperative scheduling                                                  *)

\* A destroyed frame has been resumed: the thread runs freed memory, and
\* nothing defined happens after that.
Crashed == \E t \in Tasks : pc[t] = "resumed_dead"

\* t may step: it is running, or nothing runs and the driver resumes it.
CanRun(t) == ~Crashed /\ IF stack = <<>> THEN TRUE ELSE Last(stack) = t

Running(t) == IF stack = <<>> THEN <<t>> ELSE stack

\* t keeps running after this step.
Continue(t) == stack' = Running(t)

\* t suspends (or finishes); control returns to whoever resumed it.
Suspend(t) == stack' = IF stack = <<>> THEN <<>> ELSE Front(stack)

\* t resumes w inline and continues once w suspends.
ResumeInline(t, w) == stack' = Running(t) \o <<w>>

\* t finishes and w, resumed by t's last act, runs in its place.
HandOver(t, w) == stack' = (IF stack = <<>> THEN <<>> ELSE Front(stack)) \o <<w>>

Transition(e) == state' = NextState(state, e)

-----------------------------------------------------------------------------
(* send_mutex_.scoped_lock(), send_raw_unlocked(), unlock()                *)

\* Begin sending m; afterwards go to label r, suspending there if y.
CallSend(t, m, r, y) ==
    /\ pc' = [pc EXCEPT ![t] = "lock"]
    /\ out' = [out EXCEPT ![t] = m]
    /\ ret' = [ret EXCEPT ![t] = [pc |-> r, yield |-> y]]

\* Fault variant: the gap fill's NewSeqNo read as the last number sent.
BuiltFillLastSent(m) ==
    CASE m.alloc \in {"lock", "app"} -> [m EXCEPT !.seq = nextOut]
      [] m.alloc = "fill"             -> [m EXCEPT !.lo = nextOut - 1]
      [] OTHER                        -> m

\* The message as built once the mutex is held.
Built(m) ==
    CASE m.alloc \in {"lock", "app"} -> [m EXCEPT !.seq = nextOut]
      [] m.alloc = "fill"             -> [m EXCEPT !.lo = nextOut]
      [] OTHER                        -> m

Allocate(m) ==
    nextOut' = IF m.alloc \in {"lock", "app"} THEN nextOut + 1 ELSE nextOut

\* Where a task goes once it holds the mutex: send_app_message calls
\* send_raw(); every other caller goes on to send_raw_unlocked().
AfterLock(m) == IF m.alloc = "app" THEN "a_send_raw" ELSE "send"

\* Fault variant: the lock taken without looking at the holder.
LockIgnoresHolder(t) ==
    /\ pc[t] = "lock"
    /\ holder' = t
    /\ out' = [out EXCEPT ![t] = Built(out[t])]
    /\ Allocate(out[t])
    /\ pc' = [pc EXCEPT ![t] = AfterLock(out[t])]
    /\ Continue(t)
    /\ UNCHANGED <<waiters, state, expIn, shutdownSet, connected, store, wire,
                   delivered, ret, sendOk, cur, pend, done, winner, result,
                   peerSeq, received, timerSends>>

\* co_await send_mutex_.scoped_lock(): take a free mutex and build, or
\* push onto the waiter list and suspend.
Lock(t) ==
    /\ pc[t] = "lock"
    /\ IF holder = NoTask
          THEN /\ holder' = t
               /\ out' = [out EXCEPT ![t] = Built(out[t])]
               /\ Allocate(out[t])
               /\ pc' = [pc EXCEPT ![t] = AfterLock(out[t])]
               /\ Continue(t)
               /\ UNCHANGED waiters
          ELSE /\ waiters' = <<t>> \o waiters
               /\ pc' = [pc EXCEPT ![t] = "lock_wait"]
               /\ Suspend(t)
               /\ UNCHANGED <<holder, out, nextOut>>
    /\ UNCHANGED <<state, expIn, shutdownSet, connected, store, wire,
                   delivered, ret, sendOk, cur, pend, done, winner, result,
                   peerSeq, received, timerSends>>

\* A waiter resumed by unlock() now holds the mutex and builds.
Locked(t) ==
    /\ pc[t] = "locked"
    /\ out' = [out EXCEPT ![t] = Built(out[t])]
    /\ Allocate(out[t])
    /\ pc' = [pc EXCEPT ![t] = AfterLock(out[t])]
    /\ Continue(t)
    /\ UNCHANGED <<state, expIn, holder, waiters, shutdownSet, connected,
                   store, wire, delivered, ret, sendOk, cur, pend, done,
                   winner, result, peerSeq, received, timerSends>>

\* send_app_message, holding the mutex with its message built, calls
\* send_raw(), whose scoped_lock() is taken on the same mutex again.
AppSendRaw(t) ==
    /\ pc[t] = "a_send_raw"
    /\ out' = [out EXCEPT ![t].alloc = "copy"]
    /\ pc' = [pc EXCEPT ![t] = "lock"]
    /\ Continue(t)
    /\ UNCHANGED <<state, nextOut, expIn, holder, waiters, shutdownSet,
                   connected, store, wire, delivered, ret, sendOk, cur, pend,
                   done, winner, result, peerSeq, received, timerSends>>

\* Fault variant: store() without its capacity check.
StoreMsgUnbounded(key, m) ==
    store' = IF StoreCap = 0 THEN store
             ELSE IF \E i \in DOMAIN store : store[i][1] = key
                  THEN [i \in DOMAIN store |->
                          IF store[i][1] = key THEN <<key, m>> ELSE store[i]]
                  ELSE Append(store, <<key, m>>)

\* MemoryStore::store(seq_num, msg): refuse when full, else update the
\* entry of seq_num in place, else append.  No store attached: no-op.
StoreMsg(key, m) ==
    store' = IF StoreCap = 0 \/ Len(store) >= StoreCap THEN store
             ELSE IF \E i \in DOMAIN store : store[i][1] = key
                  THEN [i \in DOMAIN store |->
                          IF store[i][1] = key THEN <<key, m>> ELSE store[i]]
                  ELSE Append(store, <<key, m>>)

\* MemoryStore::retrieve_range(begin, end), end 0 meaning no bound: the
\* messages of the entries in range, in insertion order.
RetrieveRange(lo, hi) ==
    LET inRange(e) == e[1] >= lo /\ (hi = 0 \/ e[1] <= hi)
        picked == SelectSeq(store, inRange)
    IN  [i \in 1..Len(picked) |-> [picked[i][2] EXCEPT !.alloc = "copy"]]

\* unlock() with waiters: the most recent one is popped, owns the mutex
\* and is resumed inline.  Its frame may have been destroyed.
PopWaiter ==
    /\ holder' = Head(waiters)
    /\ waiters' = Tail(waiters)

Woken == IF pc[Head(waiters)] = "destroyed" THEN "resumed_dead" ELSE "locked"

\* The send's result is known: the ScopedLock goes out of scope and
\* unlock() pops the most recent waiter and resumes it inline, or frees
\* the mutex.  The sender then returns to ret[t].
Unlock(t, ok) ==
    /\ sendOk' = [sendOk EXCEPT ![t] = ok]
    /\ IF waiters = <<>>
          THEN /\ holder' = NoTask
               /\ UNCHANGED waiters
               /\ pc' = [pc EXCEPT ![t] = ret[t].pc]
               /\ IF ret[t].yield THEN Suspend(t) ELSE Continue(t)
          ELSE /\ PopWaiter
               /\ pc' = [pc EXCEPT ![t] = "unlocked", ![Head(waiters)] = Woken]
               /\ ResumeInline(t, Head(waiters))

\* The sender is back on top after the waiter it resumed has suspended.
Unlocked(t) ==
    /\ pc[t] = "unlocked"
    /\ pc' = [pc EXCEPT ![t] = ret[t].pc]
    /\ IF ret[t].yield THEN Suspend(t) ELSE Continue(t)
    /\ UNCHANGED <<state, nextOut, expIn, holder, waiters, shutdownSet,
                   connected, store, wire, delivered, out, ret, sendOk, cur,
                   pend, done, winner, result, peerSeq, received, timerSends>>

\* One transport_.send() inside send_async(): accepted, WouldBlock (yield
\* and try again, still holding the mutex), or failed.
SendResults == {"accepted", "would_block", "failed"}

TransportSend(t, r) ==
    CASE r = "accepted" ->
            /\ connected
            /\ wire' = Append(wire, out[t])
            /\ Unlock(t, TRUE)
            /\ UNCHANGED connected
      [] r = "would_block" ->
            /\ connected /\ SendMayBlock
            /\ pc' = [pc EXCEPT ![t] = "send_retry"]
            /\ Suspend(t)
            /\ UNCHANGED <<wire, connected, holder, waiters, sendOk>>
      [] r = "failed" ->
            /\ ~connected \/ PeerMayClose
            /\ connected' = FALSE
            /\ Unlock(t, FALSE)
            /\ UNCHANGED wire

\* send_raw_unlocked(): store under current_outbound(), then send_async().
SendRawUnlocked(t, r) ==
    /\ pc[t] = "send"
    /\ StoreMsg(nextOut, out[t])
    /\ TransportSend(t, r)
    /\ UNCHANGED <<state, nextOut, expIn, shutdownSet, delivered, out, ret,
                   cur, pend, done, winner, result, peerSeq, received,
                   timerSends>>

\* send_async() resumed after a WouldBlock: send again.
SendRetry(t, r) ==
    /\ pc[t] = "send_retry"
    /\ TransportSend(t, r)
    /\ UNCHANGED <<state, nextOut, expIn, shutdownSet, store, delivered, out,
                   ret, cur, pend, done, winner, result, peerSeq, received,
                   timerSends>>

\* A send of t that the transport accepts.
SendGetsThrough(t) ==
    CanRun(t) /\ (SendRawUnlocked(t, "accepted") \/ SendRetry(t, "accepted"))

SendStep(t) ==
    \/ Lock(t) \/ Locked(t) \/ AppSendRaw(t) \/ Unlocked(t)
    \/ \E r \in SendResults : SendRawUnlocked(t, r) \/ SendRetry(t, r)

-----------------------------------------------------------------------------
(* The peer, seen through transport_.receive()                             *)

\* A peer message: in order, one ahead (a gap), or one behind (a duplicate,
\* possibly flagged PossDup).  A ResendRequest asks for a range of what
\* was sent; a SequenceReset carries NewSeqNo in `lo`, above its own
\* MsgSeqNum or below it.
InMsg(type, seq, dup, lo, hi) ==
    [type |-> type, seq |-> seq, possDup |-> dup, lo |-> lo, hi |-> hi]

PeerMsgs ==
    LET seqs == {peerSeq, peerSeq + 1} \cup
                (IF peerSeq > 1 THEN {peerSeq - 1} ELSE {})
        dups(s) == IF s < peerSeq THEN BOOLEAN ELSE {FALSE}
        ranges(ty, s) ==
            CASE ty = "ResendRequest" ->
                    UNION {{<<l, 0>>, <<l, l>>} : l \in 1..(nextOut - 1)}
              [] ty = "SequenceReset" ->
                    {<<s + 1, 0>>, <<s + 2, 0>>} \cup
                    (IF s > 1 THEN {<<s - 1, 0>>} ELSE {})
              [] OTHER -> {<<0, 0>>}
    IN  UNION {{InMsg(ty, s, d, r[1], r[2]) : d \in dups(s), r \in ranges(ty, s)} :
                  ty \in PeerTypes, s \in seqs}

\* What one transport_.receive() gives.
RecvResults == {"would_block", "nothing", "failed", "message"}

\* The outcomes that do not wait on the peer: nothing has arrived, or the
\* connection is already gone.
RecvOwn(r) == r = "nothing" \/ (r = "failed" /\ ~connected)

\* The peer's next MsgSeqNum once it has sent m.
PeerAfter(m) ==
    LET n == IF m.type = "SequenceReset" THEN m.lo ELSE m.seq + 1
    IN  IF n > peerSeq THEN n ELSE peerSeq

\* The transport hands over one peer message.
Deliver(m) ==
    /\ connected /\ Len(received) < MaxRecv
    /\ peerSeq' = PeerAfter(m)
    /\ received' = Append(received, m.seq)

\* The receive fails: the connection is gone or drops now.
RecvFails == (~connected \/ PeerMayClose) /\ connected' = FALSE

-----------------------------------------------------------------------------
(* when_any: a driver whose child has finished                             *)

\* Child t (index i) returns; its driver claims victory if `done` was
\* false and resumes the parent when it is already suspended in the
\* WhenAnyAwaiter.  A loser completes silently.
Finish(t, i) ==
    IF ~done /\ pc["main"] = "m_wait_any"
       THEN /\ done' = TRUE /\ winner' = i
            /\ pc' = [pc EXCEPT ![t] = "finished", !["main"] = "m_active_result"]
            /\ HandOver(t, "main")
       ELSE /\ done' = TRUE
            /\ winner' = IF done THEN winner ELSE i
            /\ pc' = [pc EXCEPT ![t] = "finished"]
            /\ Suspend(t)

-----------------------------------------------------------------------------
(* run(): connect_phase, logon_phase                                       *)

\* connect_async() then, on success, logon_phase() builds its Logon with
\* next_outbound() and calls send_raw().
ConnectPhase ==
    /\ pc["main"] = "m_connect"
    /\ \/ /\ Transition("Error")
          /\ result' = "NotConnected"
          /\ pc' = [pc EXCEPT !["main"] = "m_done"]
          /\ Suspend("main")
          /\ UNCHANGED <<nextOut, connected, out, ret>>
       \/ /\ Transition("Connect")
          /\ connected' = TRUE
          /\ nextOut' = nextOut + 1
          /\ CallSend("main", Msg("Logon", nextOut, "before", 0, 0),
                      "m_logon_sent", FALSE)
          /\ Continue("main")
          /\ UNCHANGED result
    /\ UNCHANGED <<expIn, holder, waiters, shutdownSet, store, wire, delivered,
                   sendOk, cur, pend, done, winner, peerSeq, received,
                   timerSends>>

LogonSent ==
    /\ pc["main"] = "m_logon_sent"
    /\ IF sendOk["main"]
          THEN /\ Transition("LogonSent")
               /\ pc' = [pc EXCEPT !["main"] = "m_logon_wait"]
               /\ Continue("main")
               /\ UNCHANGED result
          ELSE /\ result' = "NotConnected"
               /\ pc' = [pc EXCEPT !["main"] = "m_done"]
               /\ Suspend("main")
               /\ UNCHANGED state
    /\ UNCHANGED <<nextOut, expIn, holder, waiters, shutdownSet, connected,
                   store, wire, delivered, out, ret, sendOk, cur, pend, done,
                   winner, peerSeq, received, timerSends>>

\* wait_for_logon_with_deadline() returns (state left LogonSent, or the
\* deadline passed); logon_phase() then fails unless the state is Active.
LogonEnd ==
    /\ IF state = "Active"
          THEN /\ pc' = [pc EXCEPT !["main"] = "m_active"]
               /\ Continue("main")
               /\ UNCHANGED <<state, result>>
          ELSE /\ Transition("HeartbeatTimeout")
               /\ result' = "LogonTimeout"
               /\ pc' = [pc EXCEPT !["main"] = "m_done"]
               /\ Suspend("main")
    /\ UNCHANGED <<nextOut, expIn, holder, waiters, shutdownSet, connected,
                   store, wire, delivered, out, ret, sendOk, cur, pend, done,
                   winner, peerSeq, received, timerSends>>

\* The loop left because the state is no longer LogonSent, or because the
\* receive failed (co_return after transition(Disconnect)).
LogonLeft ==
    /\ \/ pc["main"] = "m_logon_wait" /\ state # "LogonSent"
       \/ pc["main"] = "m_logon_end"
    /\ LogonEnd

\* The loop left because steady_clock passed the deadline.
LogonDeadline ==
    /\ pc["main"] = "m_logon_wait" /\ state = "LogonSent"
    /\ LogonEnd

\* One receive_async() of the logon loop.  A Logon makes the session
\* Active, a Logout rejects the logon; the MsgSeqNum is not validated.
LogonReceive(r) ==
    /\ \/ pc["main"] = "m_logon_wait" /\ state = "LogonSent"
       \/ pc["main"] = "m_logon_recv"
    /\ \/ /\ r = "would_block" /\ RecvMayBlock /\ connected
          /\ pc' = [pc EXCEPT !["main"] = "m_logon_recv"]
          /\ Suspend("main")
          /\ UNCHANGED <<state, connected, peerSeq, received>>
       \/ /\ r = "nothing" /\ connected
          /\ pc' = [pc EXCEPT !["main"] = "m_logon_wait"]
          /\ Suspend("main")
          /\ UNCHANGED <<state, connected, peerSeq, received>>
       \/ /\ r = "failed" /\ RecvFails
          /\ Transition("Disconnect")
          /\ pc' = [pc EXCEPT !["main"] = "m_logon_end"]
          /\ Continue("main")
          /\ UNCHANGED <<peerSeq, received>>
       \/ r = "message" /\ \E m \in PeerMsgs :
             /\ Deliver(m)
             /\ state' = CASE m.type = "Logon"  -> NextState(state, "LogonReceived")
                           [] m.type = "Logout" -> NextState(state, "LogonRejected")
                           [] OTHER             -> state
             /\ pc' = [pc EXCEPT !["main"] = "m_logon_wait"]
             /\ Continue("main")
             /\ UNCHANGED connected
    /\ UNCHANGED <<nextOut, expIn, holder, waiters, shutdownSet, store, wire,
                   delivered, out, ret, sendOk, cur, pend, done, winner,
                   result, timerSends>>

-----------------------------------------------------------------------------
(* run(): active_phase                                                     *)

\* when_any() starts its drivers in order; each runs its child inline
\* until the child first suspends (or finishes).
StartLoop(i) ==
    LET here == <<"m_active", "m_start_rx", "m_start_sd">>[i]
        next == <<"m_start_rx", "m_start_sd", "m_any">>[i]
        child == Loops[i]
        entry == <<"hb_loop", "rx_loop", "sd_wait">>[i]
    IN  /\ pc["main"] = here
        /\ pc' = [pc EXCEPT !["main"] = next, ![child] = entry]
        /\ ResumeInline("main", child)
        /\ UNCHANGED <<state, nextOut, expIn, holder, waiters, shutdownSet,
                       connected, store, wire, delivered, out, ret, sendOk,
                       cur, pend, done, winner, result, peerSeq, received,
                       timerSends>>

\* The value active_phase() gives for the winning index.
ActiveResult ==
    CASE winner = 0                      -> "HeartbeatTimeout"
      [] winner = 1 /\ state = "Active"  -> "Disconnected"
      [] OTHER                           -> "Ok"

\* active_phase() returns and run() enters logout_phase(): send a Logout
\* numbered by next_outbound() before send_raw() takes the mutex when
\* Active; end at once when LogoutReceived; do nothing otherwise.
LogoutPhase ==
    /\ result' = ActiveResult
    /\ CASE state = "Active" ->
              /\ nextOut' = nextOut + 1
              /\ CallSend("main", Msg("Logout", nextOut, "before", 0, 0),
                          "m_logout_sent", FALSE)
              /\ Continue("main")
              /\ UNCHANGED <<state, connected>>
         [] state = "LogoutReceived" ->
              /\ connected' = FALSE
              /\ Transition("Disconnect")
              /\ pc' = [pc EXCEPT !["main"] = "m_done"]
              /\ Suspend("main")
              /\ UNCHANGED <<nextOut, out, ret>>
         [] OTHER ->
              /\ pc' = [pc EXCEPT !["main"] = "m_done"]
              /\ Suspend("main")
              /\ UNCHANGED <<state, connected, nextOut, out, ret>>

\* co_await WhenAnyAwaiter: go on if a child has finished, else suspend.
AwaitAny ==
    /\ pc["main"] = "m_any"
    /\ pc' = [pc EXCEPT !["main"] = IF done THEN "m_drop_hb" ELSE "m_wait_any"]
    /\ IF done THEN Continue("main") ELSE Suspend("main")
    /\ UNCHANGED <<state, nextOut, expIn, holder, waiters, shutdownSet,
                   connected, store, wire, delivered, out, ret, sendOk, cur,
                   pend, done, winner, result, peerSeq, received, timerSends>>

\* Resumed by the winning driver.
AnyResumed ==
    /\ pc["main"] = "m_active_result"
    /\ pc' = [pc EXCEPT !["main"] = "m_drop_hb"]
    /\ Continue("main")
    /\ UNCHANGED <<state, nextOut, expIn, holder, waiters, shutdownSet,
                   connected, store, wire, delivered, out, ret, sendOk, cur,
                   pend, done, winner, result, peerSeq, received, timerSends>>

DropLabels == <<"m_drop_hb", "m_drop_rx", "m_drop_sd", "m_any_return">>

\* when_any's co_return: ~vector<Task<void>> destroys the drivers in
\* order, each with its child's frame.  A child suspended in a WouldBlock
\* retry holds a ScopedLock, whose destructor calls unlock(); a child
\* waiting for the mutex or for shutdown_event_ leaves its awaiter linked.
DropLoop(i) ==
    LET l == Loops[i]
        next == [pc EXCEPT !["main"] = DropLabels[i + 1]]
    IN  /\ pc["main"] = DropLabels[i]
        /\ CASE pc[l] \in {"idle", "finished"} ->
                  pc' = next /\ Continue("main") /\ UNCHANGED <<holder, waiters>>
             [] holder = l /\ waiters # <<>> ->
                  /\ PopWaiter
                  /\ pc' = [next EXCEPT ![l] = "destroyed", ![Head(waiters)] = Woken]
                  /\ ResumeInline("main", Head(waiters))
             [] OTHER ->
                  /\ holder' = IF holder = l THEN NoTask ELSE holder
                  /\ pc' = [next EXCEPT ![l] = "destroyed"]
                  /\ Continue("main")
                  /\ UNCHANGED waiters
        /\ UNCHANGED <<state, nextOut, expIn, shutdownSet, connected, store,
                       wire, delivered, out, ret, sendOk, cur, pend, done,
                       winner, result, peerSeq, received, timerSends>>

\* active_phase() returns its result and run() goes on to logout_phase().
AnyReturned ==
    /\ pc["main"] = "m_any_return"
    /\ LogoutPhase
    /\ UNCHANGED <<expIn, holder, waiters, shutdownSet, store, wire, delivered,
                   sendOk, cur, pend, done, winner, peerSeq, received,
                   timerSends>>

-----------------------------------------------------------------------------
(* run(): logout_phase after its Logout was sent                           *)

LogoutSent ==
    /\ pc["main"] = "m_logout_sent"
    /\ Transition("LogoutSent")
    /\ pc' = [pc EXCEPT !["main"] = "m_logout_wait"]
    /\ Continue("main")
    /\ UNCHANGED <<nextOut, expIn, holder, waiters, shutdownSet, connected,
                   store, wire, delivered, out, ret, sendOk, cur, pend, done,
                   winner, result, peerSeq, received, timerSends>>

\* wait_for_logout_with_deadline() has returned: on_logout, disconnect,
\* transition(Disconnect), and run() returns.
LogoutEnd ==
    /\ connected' = FALSE
    /\ Transition("Disconnect")
    /\ pc' = [pc EXCEPT !["main"] = "m_done"]
    /\ Suspend("main")
    /\ UNCHANGED <<nextOut, expIn, holder, waiters, shutdownSet, store, wire,
                   delivered, out, ret, sendOk, cur, pend, done, winner,
                   result, peerSeq, received, timerSends>>

\* The loop left because the state is no longer LogoutPending.
LogoutLeft ==
    /\ pc["main"] = "m_logout_wait" /\ state # "LogoutPending"
    /\ LogoutEnd

\* Fault variant: the logout loop without its deadline check.
LogoutDeadlineNeverChecked ==
    /\ pc["main"] = "m_logout_wait" /\ state = "LogoutPending"
    /\ FALSE
    /\ LogoutEnd

\* The loop left because steady_clock passed the deadline.
LogoutDeadline ==
    /\ pc["main"] = "m_logout_wait" /\ state = "LogoutPending"
    /\ LogoutEnd

\* One receive_async() of the logout loop: a failed receive ends the
\* wait, a Logout moves to LogoutReceived, anything else is dropped.
LogoutReceive(r) ==
    /\ \/ pc["main"] = "m_logout_wait" /\ state = "LogoutPending"
       \/ pc["main"] = "m_logout_recv"
    /\ \/ /\ r = "would_block" /\ RecvMayBlock /\ connected
          /\ pc' = [pc EXCEPT !["main"] = "m_logout_recv"]
          /\ Suspend("main")
          /\ UNCHANGED <<state, connected, peerSeq, received>>
       \/ /\ r = "nothing" /\ connected
          /\ pc' = [pc EXCEPT !["main"] = "m_logout_wait"]
          /\ Suspend("main")
          /\ UNCHANGED <<state, connected, peerSeq, received>>
       \/ /\ r = "failed" /\ RecvFails
          /\ Transition("Disconnect")
          /\ pc' = [pc EXCEPT !["main"] = "m_done"]
          /\ Suspend("main")
          /\ UNCHANGED <<peerSeq, received>>
       \/ r = "message" /\ \E m \in PeerMsgs :
             /\ Deliver(m)
             /\ state' = IF m.type = "Logout"
                            THEN NextState(state, "LogoutReceived") ELSE state
             /\ pc' = [pc EXCEPT !["main"] = "m_logout_wait"]
             /\ Continue("main")
             /\ UNCHANGED connected
    /\ UNCHANGED <<nextOut, expIn, holder, waiters, shutdownSet, store, wire,
                   delivered, out, ret, sendOk, cur, pend, done, winner,
                   result, timerSends>>

-----------------------------------------------------------------------------
(* heartbeat_loop()                                                        *)

\* Loop head: leave when not Active; otherwise ask the HeartbeatTimer.
\* has_timed_out -> HeartbeatTimeout and return; should_send_test_request
\* -> send a TestRequest; should_send_heartbeat -> send a Heartbeat;
\* then co_await Yield{}.  c names the branch taken.
HbChoices == {"exit", "timeout", "send", "idle"}

HeartbeatLoop(c) ==
    /\ pc["hb"] = "hb_loop"
    /\ \/ /\ c = "exit" /\ state # "Active"
          /\ Finish("hb", 0)
          /\ UNCHANGED <<state, out, ret, timerSends>>
       \/ /\ c = "timeout" /\ state = "Active"
          /\ Transition("HeartbeatTimeout")
          /\ Finish("hb", 0)
          /\ UNCHANGED <<out, ret, timerSends>>
       \/ /\ c = "send" /\ state = "Active" /\ timerSends < MaxTimerSends
          /\ \E ty \in {"TestRequest", "Heartbeat"} :
                CallSend("hb", Msg(ty, 0, "lock", 0, 0), "hb_loop", TRUE)
          /\ timerSends' = timerSends + 1
          /\ Continue("hb")
          /\ UNCHANGED <<state, done, winner>>
       \/ /\ c = "idle" /\ state = "Active"
          /\ Suspend("hb")
          /\ UNCHANGED <<state, pc, out, ret, done, winner, timerSends>>
    /\ UNCHANGED <<nextOut, expIn, holder, waiters, shutdownSet, connected,
                   store, wire, delivered, sendOk, cur, pend, result,
                   peerSeq, received>>

-----------------------------------------------------------------------------
(* message_receiver_loop() and handle_admin_message()                      *)

\* Route message m; e is expected_inbound after validate_inbound().
\* Admin messages go to their handler, application messages to
\* on_app_message.  A TestRequest is answered with a Heartbeat; a
\* ResendRequest is answered from the store, or else with a gap-fill
\* SequenceReset (MsgSeqNum = BeginSeqNo, NewSeqNo = current_outbound()).
Route(m, e) ==
    LET stored == IF StoreCap > 0 THEN RetrieveRange(m.lo, m.hi) ELSE <<>>
        reply == CASE m.type = "TestRequest" -> Msg("Heartbeat", 0, "lock", 0, 0)
                   [] m.type = "ResendRequest" /\ stored = <<>> ->
                         Msg("SequenceReset", m.lo, "fill", 0, 0)
                   [] OTHER -> NoMsg
    IN  /\ expIn' = IF m.type = "SequenceReset" THEN m.lo ELSE e
        /\ state' = IF m.type = "Logout"
                       THEN NextState(state, "LogoutReceived") ELSE state
        /\ delivered' = IF m.type = "App" THEN Append(delivered, m.seq)
                        ELSE delivered
        /\ pend' = IF m.type = "ResendRequest" THEN stored ELSE pend
        /\ IF reply # NoMsg
              THEN CallSend("rx", reply, "rx_loop", FALSE)
              ELSE /\ pc' = [pc EXCEPT !["rx"] =
                        IF m.type = "ResendRequest" THEN "rx_resend"
                        ELSE "rx_loop"]
                   /\ UNCHANGED <<out, ret>>
        /\ Continue("rx")

\* validate_inbound(): Expected advances expected_inbound and routes;
\* GapDetected sends ResendRequest(expected, received - 1) under the mutex
\* and routes afterwards; TooLow without PossDup is reported and skipped;
\* TooLow with PossDup falls through to routing.
Process(m) ==
    CASE m.seq = expIn ->
            Route(m, expIn + 1) /\ UNCHANGED cur
      [] m.seq > expIn ->
            /\ cur' = [cur EXCEPT !["rx"] = m]
            /\ CallSend("rx", Msg("ResendRequest", 0, "lock", expIn, m.seq - 1),
                        "rx_route", FALSE)
            /\ Continue("rx")
            /\ UNCHANGED <<state, expIn, delivered, pend>>
      [] ~m.possDup ->
            /\ pc' = [pc EXCEPT !["rx"] = "rx_loop"]
            /\ Continue("rx")
            /\ UNCHANGED <<state, expIn, delivered, out, ret, cur, pend>>
      [] OTHER ->
            Route(m, expIn) /\ UNCHANGED cur

\* One receive_async(): WouldBlock (yield inside it and retry), zero
\* bytes (yield, back to the loop head), failure (Disconnect and return),
\* or a message to process.
ReceiverReceive(r) ==
    /\ \/ pc["rx"] = "rx_loop" /\ state = "Active"
       \/ pc["rx"] = "rx_recv"
    /\ \/ /\ r = "would_block" /\ RecvMayBlock /\ connected
          /\ pc' = [pc EXCEPT !["rx"] = "rx_recv"]
          /\ Suspend("rx")
          /\ UNCHANGED <<state, connected, expIn, delivered, out, ret, cur,
                         pend, done, winner, peerSeq, received>>
       \/ /\ r = "nothing" /\ connected
          /\ pc' = [pc EXCEPT !["rx"] = "rx_loop"]
          /\ Suspend("rx")
          /\ UNCHANGED <<state, connected, expIn, delivered, out, ret, cur,
                         pend, done, winner, peerSeq, received>>
       \/ /\ r = "failed" /\ RecvFails
          /\ Transition("Disconnect")
          /\ Finish("rx", 1)
          /\ UNCHANGED <<expIn, delivered, out, ret, cur, pend, peerSeq,
                         received>>
       \/ r = "message" /\ \E m \in PeerMsgs :
             /\ Deliver(m)
             /\ Process(m)
             /\ UNCHANGED <<connected, done, winner>>
    /\ UNCHANGED <<nextOut, holder, waiters, shutdownSet, store, wire, sendOk,
                   result, timerSends>>

\* Loop head with the state no longer Active: the receiver returns.
ReceiverExit ==
    /\ pc["rx"] = "rx_loop" /\ state # "Active"
    /\ Finish("rx", 1)
    /\ UNCHANGED <<state, nextOut, expIn, holder, waiters, shutdownSet,
                   connected, store, wire, delivered, out, ret, sendOk, cur,
                   pend, result, peerSeq, received, timerSends>>

\* After the ResendRequest for a gap: route the message that revealed it.
ReceiverRoute ==
    /\ pc["rx"] = "rx_route"
    /\ Route(cur["rx"], expIn)
    /\ UNCHANGED <<nextOut, holder, waiters, shutdownSet, connected, store,
                   wire, sendOk, cur, done, winner, result, peerSeq,
                   received, timerSends>>

\* handle_resend_request(): send_raw() each retrieved message in turn.
ReceiverResend ==
    /\ pc["rx"] = "rx_resend"
    /\ IF pend = <<>>
          THEN /\ pc' = [pc EXCEPT !["rx"] = "rx_loop"]
               /\ UNCHANGED <<out, ret, pend>>
          ELSE /\ CallSend("rx", Head(pend), "rx_resend", FALSE)
               /\ pend' = Tail(pend)
    /\ Continue("rx")
    /\ UNCHANGED <<state, nextOut, expIn, holder, waiters, shutdownSet,
                   connected, store, wire, delivered, sendOk, cur, done,
                   winner, result, peerSeq, received, timerSends>>

-----------------------------------------------------------------------------
(* wait_for_shutdown(), request_shutdown(), send_app_message()             *)

\* co_await shutdown_event_: return at once if SET, else wait.
ShutdownWait ==
    /\ pc["sd"] = "sd_wait"
    /\ IF shutdownSet
          THEN Finish("sd", 2)
          ELSE /\ pc' = [pc EXCEPT !["sd"] = "sd_waiting"]
               /\ Suspend("sd")
               /\ UNCHANGED <<done, winner>>
    /\ UNCHANGED <<state, nextOut, expIn, holder, waiters, shutdownSet,
                   connected, store, wire, delivered, out, ret, sendOk, cur,
                   pend, result, peerSeq, received, timerSends>>

\* Resumed by Event::set(): the waiter returns.
ShutdownResumed ==
    /\ pc["sd"] = "sd_resumed"
    /\ Finish("sd", 2)
    /\ UNCHANGED <<state, nextOut, expIn, holder, waiters, shutdownSet,
                   connected, store, wire, delivered, out, ret, sendOk, cur,
                   pend, result, peerSeq, received, timerSends>>

\* request_shutdown(), called between two steps of the cooperative
\* thread: shutdown_event_.set() resumes a waiting shutdown waiter inline,
\* also one whose frame when_any has destroyed: a destroyed wait_for_shutdown
\* was always suspended in the event, since it runs at its start.
RequestShutdown ==
    /\ ~Crashed /\ stack = <<>> /\ ~shutdownSet
    /\ shutdownSet' = TRUE
    /\ CASE pc["sd"] = "sd_waiting" ->
              pc' = [pc EXCEPT !["sd"] = "sd_resumed"] /\ stack' = <<"sd">>
         [] pc["sd"] = "destroyed" ->
              pc' = [pc EXCEPT !["sd"] = "resumed_dead"] /\ stack' = <<"sd">>
         [] OTHER -> UNCHANGED <<pc, stack>>
    /\ UNCHANGED <<state, nextOut, expIn, holder, waiters, connected, store,
                   wire, delivered, out, ret, sendOk, cur, pend, done, winner,
                   result, peerSeq, received, timerSends>>

\* send_app_message(): InvalidState unless Active, else lock, build with
\* next_outbound() and send_raw().
SendAppMessage(t) ==
    /\ pc[t] = "a_idle"
    /\ IF CanSendAppMessages(state)
          THEN /\ CallSend(t, Msg("App", 0, "app", 0, 0), "a_done", TRUE)
               /\ Continue(t)
          ELSE /\ pc' = [pc EXCEPT ![t] = "a_done"]
               /\ Suspend(t)
               /\ UNCHANGED <<out, ret>>
    /\ UNCHANGED <<state, nextOut, expIn, holder, waiters, shutdownSet,
                   connected, store, wire, delivered, sendOk, cur, pend, done,
                   winner, result, peerSeq, received, timerSends>>

-----------------------------------------------------------------------------

Init ==
    /\ state = "Disconnected"
    /\ nextOut = 1
    /\ expIn = 1
    /\ holder = NoTask
    /\ waiters = <<>>
    /\ shutdownSet = FALSE
    /\ connected = FALSE
    /\ store = <<>>
    /\ wire = <<>>
    /\ delivered = <<>>
    /\ pc = [t \in Tasks |-> CASE t = "main"    -> "m_connect"
                               [] t \in AppTasks -> "a_idle"
                               [] OTHER          -> "idle"]
    /\ out = [t \in Tasks |-> NoMsg]
    /\ ret = [t \in Tasks |-> [pc |-> "idle", yield |-> FALSE]]
    /\ sendOk = [t \in Tasks |-> FALSE]
    /\ cur = [t \in Tasks |-> InMsg("none", 0, FALSE, 0, 0)]
    /\ pend = <<>>
    /\ stack = <<>>
    /\ done = FALSE
    /\ winner = 0
    /\ result = "none"
    /\ peerSeq = 1
    /\ received = <<>>
    /\ timerSends = 0

MainStep ==
    /\ CanRun("main")
    /\ \/ ConnectPhase \/ LogonSent \/ LogonLeft \/ LogonDeadline
       \/ \E r \in RecvResults : LogonReceive(r)
       \/ StartLoop(1) \/ StartLoop(2) \/ StartLoop(3)
       \/ AwaitAny \/ AnyResumed \/ \E i \in 1..3 : DropLoop(i)
       \/ AnyReturned \/ LogoutSent \/ LogoutLeft \/ LogoutDeadline
       \/ \E r \in RecvResults : LogoutReceive(r)
       \/ SendStep("main")

HeartbeatStep ==
    CanRun("hb") /\ ((\E c \in HbChoices : HeartbeatLoop(c)) \/ SendStep("hb"))

ReceiverStep ==
    /\ CanRun("rx")
    /\ \/ \E r \in RecvResults : ReceiverReceive(r)
       \/ ReceiverExit \/ ReceiverRoute
       \/ ReceiverResend \/ SendStep("rx")

ShutdownStep == CanRun("sd") /\ (ShutdownWait \/ ShutdownResumed)

AppStep(t) == CanRun(t) /\ (SendAppMessage(t) \/ SendStep(t))

\* Everything has returned, or the thread has crashed: the program has
\* stopped.
Stopped ==
    /\ \/ /\ pc["main"] = "m_done"
          /\ \A t \in Tasks \ {"main"} :
                pc[t] \in {"idle", "finished", "a_done", "destroyed"}
       \/ Crashed
    /\ UNCHANGED vars

\* The session with its own three loops and request_shutdown().
Next ==
    \/ MainStep \/ HeartbeatStep \/ ReceiverStep \/ ShutdownStep
    \/ RequestShutdown
    \/ Stopped

Spec == Init /\ [][Next]_vars

\* The session with application coroutines calling send_app_message().
\* Their first call holds send_mutex_ forever (see NoSelfWait), so they
\* are composed only into the runs that ask about them.
AppNext == Next \/ \E t \in AppTasks : AppStep(t)

AppSpec == Init /\ [][AppNext]_vars

\* The steps a task takes by itself, without waiting for the peer, the
\* socket or the clock.
SendInternal(t) ==
    \/ Lock(t) \/ Locked(t) \/ AppSendRaw(t) \/ Unlocked(t)
    \/ ~connected /\ (SendRawUnlocked(t, "failed") \/ SendRetry(t, "failed"))

MainInternal ==
    /\ CanRun("main")
    /\ \/ ConnectPhase \/ LogonSent \/ LogonLeft \/ StartLoop(1)
       \/ StartLoop(2) \/ StartLoop(3) \/ AwaitAny \/ AnyResumed
       \/ \E i \in 1..3 : DropLoop(i) \/ AnyReturned
       \/ LogoutSent \/ LogoutLeft \/ SendInternal("main")
       \/ \E r \in RecvResults :
             RecvOwn(r) /\ (LogonReceive(r) \/ LogoutReceive(r))

HeartbeatInternal ==
    /\ CanRun("hb")
    /\ \/ HeartbeatLoop("exit") \/ HeartbeatLoop("idle")
       \/ SendInternal("hb")

ReceiverInternal ==
    /\ CanRun("rx")
    /\ \/ ReceiverExit \/ ReceiverRoute \/ ReceiverResend
       \/ SendInternal("rx")
       \/ \E r \in RecvResults : RecvOwn(r) /\ ReceiverReceive(r)

\* The cooperative thread keeps resuming every runnable coroutine, so a
\* task's own steps are weakly fair; steady_clock eventually passes a
\* deadline, and a socket offered a message again and again eventually
\* takes it, hence strong fairness for both.  The peer's messages, the
\* HeartbeatTimer's answers and connection drops get no fairness.
Fairness ==
    /\ WF_vars(MainInternal) /\ WF_vars(HeartbeatInternal)
    /\ WF_vars(ReceiverInternal) /\ WF_vars(ShutdownStep)
    /\ \A t \in AppTasks : WF_vars(AppStep(t))
    /\ SF_vars(CanRun("main") /\ (LogonDeadline \/ LogoutDeadline))
    /\ \A t \in Tasks : SF_vars(SendGetsThrough(t))

FairSpec == Spec /\ Fairness

-----------------------------------------------------------------------------
(* Properties                                                              *)

Pcs == {"idle", "finished", "lock", "lock_wait", "locked", "send",
        "send_retry", "unlocked", "m_connect", "m_logon_sent",
        "m_logon_wait", "m_logon_recv", "m_logon_end", "m_active",
        "m_start_rx", "m_start_sd", "m_any", "m_wait_any",
        "m_active_result", "m_drop_hb", "m_drop_rx", "m_drop_sd",
        "m_any_return", "destroyed", "resumed_dead", "m_logout_sent", "m_logout_wait",
        "m_logout_recv", "m_done", "hb_loop", "rx_loop", "rx_recv",
        "rx_route", "rx_resend", "sd_wait", "sd_waiting", "sd_resumed",
        "a_idle", "a_send_raw", "a_done"}

OutMsgs == [type : MsgTypes \cup {"none"}, seq : Nat,
            alloc : {"lock", "before", "fill", "app", "copy"},
            lo : Nat, hi : Nat]

TypeOK ==
    /\ state \in SessionStates
    /\ nextOut \in Nat \ {0} /\ expIn \in Nat
    /\ holder \in Tasks \cup {NoTask}
    /\ waiters \in Seq(Tasks)
    /\ shutdownSet \in BOOLEAN /\ connected \in BOOLEAN
    /\ store \in Seq(Nat \X OutMsgs) /\ Len(store) <= StoreCap
    /\ wire \in Seq(OutMsgs)
    /\ delivered \in Seq(Nat) /\ received \in Seq(Nat)
    /\ pc \in [Tasks -> Pcs]
    /\ out \in [Tasks -> OutMsgs]
    /\ sendOk \in [Tasks -> BOOLEAN]
    /\ pend \in Seq(OutMsgs)
    /\ stack \in Seq(Tasks)
    /\ done \in BOOLEAN /\ winner \in 0..2
    /\ result \in {"none", "Ok", "NotConnected", "LogonTimeout",
                   "HeartbeatTimeout", "Disconnected"}
    /\ Len(received) <= MaxRecv /\ timerSends <= MaxTimerSends

\* The messages on the wire that took a fresh MsgSeqNum, of the given kinds.
Fresh(kinds) == SelectSeq(wire, LAMBDA m : m.alloc \in kinds)

Increasing(s) == \A i, j \in DOMAIN s : i < j => s[i].seq < s[j].seq

\* Messages numbered by next_outbound() while holding send_mutex_ (the
\* heartbeat loop's Heartbeat/TestRequest, the receiver's replies and
\* ResendRequests) reach the transport in MsgSeqNum order, each number
\* once, whatever the interleaving of the loops, WouldBlock retries and
\* the LIFO hand-over of the mutex in unlock().
LockedSendsInOrder == Increasing(Fresh({"lock", "app"}))

\* A gap-fill SequenceReset tells the peer that NewSeqNo is the next
\* MsgSeqNum: every freshly numbered message sent before it is below
\* NewSeqNo and every message numbered under the mutex after it is at
\* least NewSeqNo, so the peer neither expects a message that never comes
\* nor drops one as too low.
GapFillConsistent ==
    \A i \in DOMAIN wire : wire[i].alloc = "fill" =>
        /\ \A j \in 1..(i - 1) :
              wire[j].alloc \in {"lock", "app", "before"} => wire[j].seq < wire[i].lo
        /\ \A j \in (i + 1)..Len(wire) :
              wire[j].alloc \in {"lock", "app"} => wire[j].seq >= wire[i].lo

\* Spec.md 4.7: a message is stored under the MsgSeqNum it was built with,
\* so that a ResendRequest for that number returns it.
StoredUnderOwnSeq ==
    \A i \in DOMAIN store :
        store[i][2].alloc \in {"lock", "app", "before"} => store[i][1] = store[i][2].seq

\* A ResendRequest asks only for MsgSeqNums the session has not received.
ResendOnlyMissing ==
    \A i \in DOMAIN wire : wire[i].type = "ResendRequest" =>
        \A k \in DOMAIN received : received[k] # wire[i].lo

\* on_app_message sees each inbound MsgSeqNum at most once, in order.
AppDeliveredOnce ==
    \A i, j \in DOMAIN delivered : i < j => delivered[i] < delivered[j]

\* handle_sequence_reset() never rewinds expected_inbound: numbers the
\* receiver has already validated and routed do not become Expected again.
InboundNeverRewinds == [][expIn' >= expIn]_expIn

\* send_mutex_ is not recursive: no task waits for the mutex it holds
\* (nobody would ever unlock it).
NoSelfWait == \A t \in Tasks : pc[t] = "lock_wait" => holder # t

\* run() returns success only after an orderly end of the active phase:
\* the shutdown waiter won, or the peer's Logout was received.  A success
\* makes session_with_recovery stop instead of reconnecting.
RunSucceedsOnlyOnOrderlyEnd ==
    [][result' = "Ok" /\ result # "Ok" =>
         winner = 2 \/ state = "LogoutReceived"]_vars

\* Once request_shutdown() has been called, run() returns: the shutdown
\* waiter wins or another loop has already ended the active phase, the
\* losers' destruction does not leave send_mutex_ held, and the logout
\* exchange is bounded by its deadline.  A resumed destroyed frame (see
\* NoDestroyedFrameResumed) ends the program instead.
ShutdownEndsRun == shutdownSet ~> (pc["main"] = "m_done" \/ Crashed)

\* No coroutine frame that when_any's co_return destroyed is resumed
\* later: neither by unlock() popping a loser's awaiter still linked in
\* send_mutex_'s waiter list, nor by request_shutdown()'s
\* shutdown_event_.set() walking to the destroyed wait_for_shutdown().
NoDestroyedFrameResumed == ~Crashed
=============================================================================
