# TLA+ models of NexusFix's coroutine session layer and Windows transport

These modules model the coroutine-based FIX session of NexusFix
(`src/include/nexusfix/session/`) and the async primitives it is built on.
TLC checks them. Every action is translated from the C++ source.
`PROJECT.json` maps each definition to the lines it models.

## The system

- **`AsyncMutex`** (`async_primitives.hpp:17-167`) is a lock-free coroutine
  mutex.
  - One atomic word holds `nullptr`, a "locked" sentinel, or the head of an
    intrusive LIFO list of `LockAwaiter`s.
  - `unlock()` pops the newest waiter and resumes it inline.
- **`Event`** and **`when_any` / `when_all`** (`async_primitives.hpp:170-390`)
  are the other primitives. `when_any` starts one driver per child. The first
  driver to finish CASes `done` and resumes the parent. The parent's
  `co_return` destroys every driver and, with it, every child frame; the
  losers are destroyed wherever they were suspended.
- **`AsyncTransport`** (`transport/async_transport.hpp`) wraps a non-blocking
  transport. It turns `WouldBlock` into `co_await Yield{}` and tries again.
- **`CoroutineSession::run()`** (`session/coroutine_session.hpp`) runs the
  session in phases: connect, logon (send a Logon, then poll for the answer
  until a deadline), active, logout, disconnect.
  - The active phase is `when_any` of three coroutines: `heartbeat_loop`,
    `message_receiver_loop` and `wait_for_shutdown`.
  - All outbound messages share `send_mutex_`. The sequence number is taken
    under it (except for the Logon and the Logout), and the message is stored
    in the `MessageStore` before `send_async()`.
- **`session_with_recovery`** is a supervisor that reruns `run()` with
  backoff.
- **`WinsockInit`** (`transport/winsock_init.hpp`) starts Winsock once per
  process: a CAS elects one thread to call `WSAStartup`, the others spin on
  `initialized_`.
- **`WinsockSocket` / `WinsockTransport` / `WinsockAcceptor`**
  (`transport/winsock_transport.hpp`) are the Windows TCP transport under
  `AsyncTransport`. `create()` (called by `connect()` on an invalid
  `fd_`) and `WinsockAcceptor::listen()` start with
  `WinsockInit::ensure()`. `transport_factory` and `socket_types` are
  platform plumbing.
- **`MessageStore`** (`store/message_store.hpp`) is a `std::variant` of a
  `NullStore` (accepts and drops everything) and a `MemoryStore` (a bounded
  vector of `<seq, bytes>` pairs searched linearly), every call dispatched
  by `std::visit`. The session stores each message it sends and answers a
  ResendRequest from `retrieve_range`.

Everything runs on one thread (spec.md 4.1). A coroutine gives up control
only at a `co_await` that suspends. A task it resumes inline (a popped
mutex waiter, the `when_any` parent) runs on top of it until that task
suspends. `AsyncMutex` and `Event` are also written to be safe across
threads (spec.md 5), and `WinsockInit` is called from any thread.

## Modules

| module | models | how |
|---|---|---|
| `SessionFsm` | `SessionState`, `SessionEvent`, `next_state` (state.hpp, not in the tree: from spec.md 4.7) | constant operators; an unlisted pair leaves the state unchanged |
| `AbstractLock` | what `AsyncMutex` promises | holder and waiter set; `Acquire`, `Wait`, `Release` |
| `AsyncMutex` | `AsyncMutex` at atomic-operation granularity | each load/CAS of `scoped_lock`/`await_ready`/`await_suspend`/`unlock` is an action; tasks on separate threads; refines `AbstractLock` |
| `AbstractEvent` | what `Event` promises (spec.md 4.3) | set flag, waiting and pending tasks; `Wait`, `Signal`, `Resume`, `Clear` |
| `Event` | `Event::set`, `reset` and `EventAwaiter` (`async_primitives.hpp:178-268`) | one atomic access per step; waiters and signallers on separate threads; `set()` walks the list it took, resuming each awaiter inline; refines `AbstractEvent` |
| `WhenCombinators` | `when_all`, `when_any` and `with_timeout` (`async_primitives.hpp:275-390`, `437-482`) | frames P (combinator), C (its caller), D_i (drivers), K_i (children) with a `stack` of executing frames and an `alive` flag per frame |
| `SleepAwaitable` | `SleepAwaitable` and `sleep_for` (`async_primitives.hpp:399-429`) | the clock `now`, `deadline_`, `handle_` and where the awaiting coroutine is |
| `CoroutineSession` | `run()` and everything it calls, with the mutex, the store, `when_any`, the shutdown `Event` and `AsyncTransport` | one action per stretch of code between two suspension points |
| `WinsockInit` | `WinsockInit::initialize/ensure/init` and the destructor (`winsock_init.hpp`) | threads; one step per atomic access; WSAStartup and the version check are free choices; `wsaRefs` is Winsock's reference count |
| `WinsockSocket` | `WinsockSocket`, `WinsockTransport`, `WinsockAcceptor`, and `AsyncTransport::send_async` over them | `fd_` and `state_` as variables, plus the kernel socket's real status `os`, which the object learns only from call results; `handles` counts open kernel sockets |
| `WinsockStack` | `WinsockInit` composed with the owner's `WinsockTransport` and `WinsockAcceptor` | `INSTANCE`s both modules over shared variables; the owner's `ensure()` is an `initialize()` call of a distinguished thread racing the others, and `connect()`/`listen()` continue with the failure it returned |
| `AbstractStore` | what a message store promises (spec.md 4.8) | a map from numbers to messages, the first-store order, the two counters; refusal allowed only when full |
| `MessageStore` | the `MessageStore` variant, `NullStore` and `MemoryStore` (`message_store.hpp:49-335`) | one action per call, dispatched on `kind`; `messages_` as a sequence of pairs; numbers scaled to `0..SeqMax` with `SeqMax` for `UINT32_MAX`; refines `AbstractStore` |
| `Supervisor` | `session_with_recovery` rerunning `run()` on one session and one `WinsockTransport` | composes `SessionFsm` and `WinsockSocket` (by `INSTANCE`); `run()` at phase granularity; 32-bit backoff arithmetic |
| `MC_*` | TLC instantiations | model values, symmetry sets and the constant sets the cfgs use |

### Event

`state` is `state_`: `nullptr`, the set sentinel, or the newest
`EventAwaiter` (a waiter's model value). `next` is each awaiter's `next_`,
`old` the `old_state` local of `await_suspend`. A signaller's `set()` is
three actions: the exchange (`SetExchange`), reading `next_` and resuming
the awaiter (`WalkResume`), and moving on once the resumed task has
suspended again or finished (`WalkAdvance`), with `saved` the `next` local.
The resumed task may await the event again before the walk moves on, which
is why the walk must use the `next_` it read before the resume. The
refinement maps the suspended awaiters that a walk still has ahead of it to
AbstractEvent's `pending`, and the others to `waiting`.

### WhenCombinators

Init chooses `when_all` or `when_any` and how many Yields each child makes.
`StartDriver` is one turn of the start loop: the driver runs on top of P,
starts its child (`AwaitChild`) and the child runs until it yields or
completes (`ChildStep`). A completed child transfers to its driver
(`AfterChild`): `fetch_sub` or the `done` CAS, then `continuation.resume()`
runs P on top of the driver. `AwaitAll` is the awaiter (ready test,
continuation store, inline resume if the state is already ready). `Complete`
is P's `co_return`: the `drivers` and `tasks` vectors are destroyed, and
with them every D and K frame. `ResumeYielded` is the top-level loop
resuming a yielded child. Task and Yield (coroutine.hpp) are not in the
tree; their behaviour is taken from spec.md 4.1.

`with_timeout` is the third combinator: C is `with_timeout`'s frame and P
the `when_any` it awaits over two children, `op_wrapper` (child 1, the
operation, which yields up to `MaxYields` times or for ever) and
`timeout_task` (child 2, `TimeoutStep`). Both are lambda coroutines called
in the statement that creates them (`async_primitives.hpp:442-451`). The
lambda object holding the captures dies at the end of that statement,
before `when_any` first runs the lazy task. So `TimeoutStep` tests a
`deadline` read from dead storage, and either yields or completes, freely.
`WithTimeoutReturns` is the winner-index test after the `co_await`. When
the operation won, the `result` it wrote through a dead reference may or
may not have landed. `Tick` advances `steady_clock` (`now`) up to the
deadline, and the ghost `opDoneAt` records when the operation completed.

### SleepAwaitable

`SleepFor` constructs the awaitable (`deadline_ = now() + d`), `AwaitReady`
compares the clock, and `AwaitSuspend` stores the handle and resumes it
inline, so the coroutine runs on (`sleptAt`). It is only checked against
spec.md's description of a deadline-polled sleep (see the finding).

### WinsockSocket and Supervisor

Each Winsock call is one step whose result is a choice from a small set:
`ConnectResults` (ok, WinsockInit failure, `socket()` failure, resolve
failure, refused), `SendResults` (all, some, would-block, error),
`RecvResults` and `ListenResults`. The kernel answers only what it can: a
blocking socket never returns would-block, and a connected kernel socket
answers a second `connect()` with WSAEISCONN. The peer may close or reset
the connection at any time (`PeerCloses`).

`options_` is one abstract value `opt` (defaults, or what the owner set),
and `sockOpt` is what the kernel socket `fd_` names carries. The setters
(`SetOption` for `set_nodelay`/`set_keepalive`, `SetTuning` for the
timeouts and buffer sizes) record the value and apply it when `fd_` is
valid; `connect()` runs `ApplyOptions` on success; a socket that
`create()` made starts from the kernel's defaults, and `close()` drops
it. `setsockopt` on a valid socket is taken to succeed (`apply_options`
discards its results anyway).

`Supervisor` runs the attempt loop of `session_with_recovery`: `LoopHead`,
one `run()` (connect, logon send, the logon wait loop, the logon check, the
way the active phase ends, the logout send, wait and end), `AfterRun` (the
success return, `++attempts`, the exhaustion return, the backoff), and the
cooperative wait (`WaitTick`, one second; `WaitOver`). Every `transition()`
goes through `next_state`, and a ghost set `unlisted` records pairs the
table does not list. `healthy` says the network and peer have recovered:
from then on every call succeeds and the peer answers.
`reconnect_interval * (1 << attempts)` is computed as repeated doubling in
two's-complement 32-bit int (`Dbl32`), with the shift count taken modulo
32 as x86 and AArch64 do.

### CoroutineSession: state and scheduling

**Variables and the code they stand for:**

| variable | code |
|---|---|
| `state` | `state_` |
| `nextOut` / `expIn` | `SequenceManager`'s next outbound and expected inbound numbers |
| `holder` / `waiters` | `send_mutex_`, with the waiter list head first |
| `shutdownSet` | `shutdown_event_` |
| `store` | a `MemoryStore` of `StoreCap` entries (0 = none attached) |
| `connected` | the transport |
| `done` / `winner` | `when_any`'s state |
| `result` | `run()`'s return value |

**Ghost variables** record the history that the properties read:

- `wire` is every message the transport accepted.
- `delivered` is every message passed to `on_app_message`.
- `received` is the peer sequence numbers received.

**Tasks.** `pc`, `out` and `ret` hold each task's position, the message it
is sending and where its send returns. The tasks are main, hb, rx, sd and
optional application callers.

**Scheduling.** `stack` is the chain of inline resumptions. A task may step
only when the stack is empty, so that the driver picks it, or when the task
is on top. This gives exactly the interleavings of the one-threaded
scheduler:

- **Drivers.** `Suspend`, `ResumeInline` and `HandOver` model `co_await`
  suspending, `unlock()` resuming a waiter, and a `when_any` driver
  transferring to the parent. The driver may resume any suspended task in any
  order, because `coroutine.hpp`, which defines it, is not in the tree.
- **The end of `when_any`.** Once main has passed the `WhenAnyAwaiter`
  (`AwaitAny` or `AnyResumed`), `DropLoop(1..3)` destroys hb, rx and sd in
  vector order: `pc` becomes `"destroyed"`. A loser held in a `WouldBlock`
  retry still holds the mutex, so its `~ScopedLock` runs `unlock()`. That
  pops the newest waiter (`PopWaiter`) and resumes it inline, even in the
  middle of the destruction. A loser that was waiting for the mutex, or for
  `shutdown_event_` (sd is always waiting there when it is destroyed), stays
  linked there. Resuming such a frame (`Woken`, or `RequestShutdown` on a
  destroyed sd) sets its `pc` to `"resumed_dead"`. That is undefined
  behaviour, modelled as the thread crashing: `Crashed` disables every
  further step. `AnyReturned` is `run()` going on to `logout_phase()`.
- **Messages.** A message is a record of type, number, a tag saying how its
  number was taken, and a range (ResendRequest, gap-fill NewSeqNo). Text
  encoding is left out: no property reads it.
- **Peer and timers.** The peer sends a message in order, one ahead (a gap)
  or one behind (a duplicate, maybe PossDup), drawn from a per-run set of
  types. A SequenceReset's NewSeqNo is one or two above its MsgSeqNum, or
  one below it. `HeartbeatTimer` decisions and deadline expiry are free choices.
  `MaxTimerSends` bounds the timer-driven sends, and `MaxRecv` bounds the
  messages received.

## Runs

Every run finishes in under a minute on two workers. `MC_WinsockInit` and
`MC_WinsockSocket` instantiate the two Winsock modules on their own. The
winsock_spin_hang run and two further configurations use them; the passing
checks of both modules run on their composition, `MC_WinsockStack`.

| run | cfg | result | what it shows |
|---|---|---|---|
| mutex | `MC_AsyncMutex` | pass | `MutualExclusion`, `NoLostWaiter`, refinement of `AbstractLock`, and `LockEventuallyGranted` (every locker is eventually granted the lock while each task locks at most twice; unbounded contention is out of reach): three threads × two rounds, every CAS interleaving |
| session_sends | `MC_CoroutineSession_sends` | pass | numbers taken under the mutex reach the wire in order; every gap fill's NewSeqNo is the next number; the store never exceeds its capacity |
| session_shutdown | `MC_CoroutineSession_shutdown` | pass | after `request_shutdown()`, `run()` always returns (or the thread has crashed on a destroyed frame), with the `when_any` losers destroyed wherever they were: the mutex a destroyed loser held is released by its `~ScopedLock` |
| event | `MC_Event` | pass | `NoLostWaiter`: every suspended awaiter is linked exactly once; `SetResumesTaken`: every awaiter a `set()` took is resumed by it; the word refines `AbstractEvent` |
| winsock_stack | `MC_WinsockStack` | pass | the owner's `connect()`/`listen()` racing two threads' `initialize()`, failures allowed: `StartupExclusive`, `TrueMeansReady` (a true return means Winsock is up), `NoLeakAtExit` (every WSAStartup balanced at exit), `NoHandleLeak`, `ConnectedMeansLink` (`is_connected()` only over a live link), `SocketNeedsWinsock` (no kernel socket exists unless Winsock is started), and `OptionsApplied` (a connected socket carries the options `options_` records) |
| when | `MC_WhenCombinators` | pass | `ParentResumedOnceWhenReady` and `WinnerIsFirst` for `when_all`, `when_any` and `with_timeout`, and `CombinatorReturns` for `when_all` and `when_any` (a `with_timeout` whose timeout loop reads a dead deadline may spin for ever) |
| supervisor | `MC_Supervisor` | pass | `BackoffWithinCap`, `LastErrorReturned`, and `SupervisorReturns` whatever the network does |
| store | `MC_MessageStore` | pass | `StoredCountMatches` (`messages_stored` counts the entries) and refinement of `AbstractStore`: the last successful store wins, ranges come in insertion order with end 0 unbounded, a store is refused only when full, reset empties |
| when_frames | `MC_WhenCombinators_frames` | **violation** | the winning driver resumes P inline and P's `co_return` destroys that driver's frame while it runs |
| winsock_spin_hang | `MC_WinsockInit_spin_hang` | **violation** | after a failed WSAStartup the threads that lost the election spin forever |
| supervisor_retry | `MC_Supervisor_retry` | **violation** | `RetryConnects`: after a rejected logon, `run()` returns with the socket still connected, and the retry's `connect()` fails with WSAEISCONN on a healed network |
| session_dead_frames | `MC_CoroutineSession_dead_frames` | **violation** | `NoDestroyedFrameResumed`: the receiver wins on a dropped connection, `run()` returns, and a later `request_shutdown()` resumes the destroyed `wait_for_shutdown` frame |

Further configurations, each reproducing one more finding of
`PROJECT.json` (each checks one property, which TLC reports violated):

| cfg | property | what the trace shows |
|---|---|---|
| `MC_CoroutineSession_store_key` | `StoredUnderOwnSeq` | messages are stored under their number + 1 |
| `MC_CoroutineSession_logon_seq` | `ResendOnlyMissing` | a spurious ResendRequest(1,1) for the peer's Logon |
| `MC_CoroutineSession_app_send` | `NoSelfWait` | `send_app_message()` waits on the mutex it holds |
| `MC_CoroutineSession_app_delivery` | `AppDeliveredOnce` | a PossDup duplicate is delivered to the application again |
| `MC_CoroutineSession_disconnect_ok` | `RunSucceedsOnlyOnOrderlyEnd` | a dropped connection makes `run()` return success |
| `MC_WinsockSocket_send_drop` | `SendOkMeansAllTaken` | `send_async()` reports success for a would-block or partial send |
| `MC_WinsockSocket_listen_leak` | `NoHandleLeak` | a second `listen()` leaks the first socket |
| `MC_Supervisor_overflow` | `BackoffWithinCap` | at attempt 29 with a 5 s base the delay wraps to -1610612736 and the wait is skipped |
| `MC_CoroutineSession_reset_lower` | `InboundNeverRewinds` | a SequenceReset with NewSeqNo below its MsgSeqNum moves `expected_inbound` back |
| `MC_MessageStore_full_update` | `UpdateNeverRefused` | a full `MemoryStore` refuses to replace a message it holds |
| `MC_WhenCombinators_timeout` | `NoEarlyTimeout` | the operation wins at tick 0, its write through `op_wrapper`'s dead reference misses `result`, and `with_timeout` returns `std::nullopt` (spec.md TO1 says Some) |
| `MC_SleepAwaitable` | `SleepReachesDeadline` | `co_await sleep_for(1)` returns at tick 0: `await_suspend` resumes at once and nothing polls |
| `MC_Supervisor_unlisted` | `OnlyListedTransitions` | `run()` emits LogonSent+Disconnect, which spec.md 4.7 says must not occur |

`PROJECT.json` "findings" explains each violation against the code and
spec.md. Every property of a passing run has a mutant: a plausible bug in the
mapped code under which TLC finds that property violated. The mutants are
listed in "mutants".

### Bounds

- **Mutex.** Three tasks with two rounds each give a holder, two waiters
  (the smallest list with a tail) and a task re-locking past older waiters,
  which is the LIFO case. Pushes race pops at every CAS.
- **session_sends.**
  - `MaxRecv = 2` lets the peer ask for a TestRequest reply and a resend, or
    open a gap, while the heartbeat loop sends one message (`MaxTimerSends =
    1`) and every send may hit `WouldBlock`. That makes three senders
    contending for the mutex, a hand-over chain, and a gap fill taken while
    another sender waits.
  - `StoreCap = 2` makes the store fill up.
  - `MaxRecv = 3` exceeds 10⁷ states.
- **session_shutdown.** Peer messages are limited to Logon, TestRequest and
  Logout. The shutdown can still race a reply that is waiting out
  `WouldBlock` while holding the mutex, a peer Logout, a drop, and
  `when_any` finishing before or after main suspends.

- **Event.** Two waiters awaiting twice and two signallers with two calls
  each: a list of two being walked while the first resumed waiter awaits
  again, and a `reset()` on the other thread in between.
- **WinsockStack.** The owner and two other threads, two `initialize()`
  calls each (the owner's `connect()` and `listen()` each make one): the
  owner's `ensure()` can win the election, spin behind another thread's
  WSAStartup, retry after a failure, or take the fast path, and each
  outcome is followed by every socket call (75,232 states). Symmetry is
  taken over the two non-owner threads only.
- **WhenCombinators.** Three children with up to two Yields each give every
  order of completion relative to the start loop and to P's suspension. The
  frames run needs only two children and one Yield. `with_timeout` has an
  operation that yields 0, 1, 2 times or for ever, against a timeout loop
  whose every test can go either way, so either side can win at any point.
- **WinsockSocket.** No bound is needed: the socket's own state space is
  finite; `handles` stays within 0..2 unless a leak occurs.
- **MessageStore.** Numbers 0..2 (2 standing for `UINT32_MAX`), two
  payloads and room for two messages: the third number is refused, a held
  number is updated both when the store is full and when it is not, and a
  range can hold two messages in an order that differs from number order
  or end at 0. `MaxCount = 2` caps `messages_retrieved` and
  `store_failures` between resets, enough for a two-message range. Numbers
  0..3 give the same cases in nine minutes.
- **Supervisor.** Four attempts with a 10 s base reach the 60 s cap (20,
  40, then 80 capped). The retry run needs only two attempts: a first run
  that fails with the socket connected, and one retry after the network
  heals. The overflow configuration needs 30 attempts; its
  wait is skipped, so the state space stays small.

### Fairness (FairSpec)

Weak fairness covers only what the code does by itself:

- each task's own steps, when it can run;
- a receive that finds nothing, or fails on a closed connection;
- a send that fails on a closed connection.

Strong fairness covers two events that nothing in the code bounds:

- the deadlines: `steady_clock` advances, so a polling loop eventually sees
  `now() >= deadline`;
- a socket that is offered the same message again and again eventually
  accepting it.

The peer, timer choices and connection drops get no fairness. No run
assumes the peer ever sends anything.

The other modules:

- **Event, AsyncMutex, WinsockInit.** Each thread's own straight-line code
  is weakly fair (the OS schedules threads; `Sleep(0)` yields without
  blocking). Whether a task awaits again, or a thread calls `set()`,
  `reset()` or `initialize()` again, is the program's choice and gets no
  fairness.
- **WhenCombinators.** P's steps, each driver's and child's steps and the
  clock are weakly fair. The top-level loop resuming a yielded child is
  strongly fair: spec.md 3 says `get()` drives resumption until the root
  is ready, even while another child keeps yielding. A yielded child can be
  resumed only while no frame runs, so it is enabled only intermittently.
- **Supervisor.** The supervisor's steps are weakly fair, and so are the
  two deadlines (`steady_clock` advances). Whether the network heals is not
  assumed.

## Not modelled yet (plan for later work)

1. **The session over the `MessageStore` variant.** The session calls an
   `IMessageStore` (not in the tree); `CoroutineSession` gives its store
   `MemoryStore`'s semantics directly.

Not modelled at all:

- `transport_factory` and `socket_types`: platform selection and thin
  wrappers, with no state machine (`set_socket_nonblocking` is the
  `SetNonblocking` step).
- `WinsockSocket`'s move operations (the model has one object of each
  class), `accept()` (its socket belongs to the caller) and
  `poll_read`/`poll_write`, which only query the kernel.
- Message encoding and parsing.
- `bytes_stored` and the payload bytes (messages are model values), and
  the read-only calls `session_id()`, `stats()`, `type()`, `is_null()`,
  `is_memory()` and the counter getters.
- Statistics, logging and handler callbacks other than `on_app_message`.
- Tests and benchmarks.
