---------------------------- MODULE AsyncMutex ----------------------------
(***************************************************************************)
(* nfx::AsyncMutex (session/async_primitives.hpp) at the granularity of   *)
(* its atomic operations.  The mutex is one atomic word `state` that is    *)
(* Unlocked (nullptr), Sentinel (&locked_sentinel_tag_, locked with no     *)
(* waiters) or the address of the LockAwaiter at the head of an intrusive  *)
(* LIFO list linked through the awaiters' `next_` fields.                  *)
(*                                                                         *)
(* Each task runs `co_await scoped_lock()`, a critical section, and the    *)
(* ScopedLock destructor's `unlock()`, MaxLocks times.  A task stands for  *)
(* its awaiter: the model value of the task is the awaiter's address.      *)
(* Every load and every compare-exchange is one step, so tasks driven from *)
(* different threads interleave between any two of them (spec.md 5 asks   *)
(* the primitive to stay correct under such use).  The inline              *)
(* `waiter->handle_.resume()` of unlock is the step that moves the popped  *)
(* waiter into its critical section.                                       *)
(***************************************************************************)
EXTENDS Naturals, FiniteSets, Sequences

CONSTANTS
    Tasks,      \* tasks contending for the mutex (model values)
    MaxLocks,   \* lock/unlock rounds each task performs (finite contention)
    Nil         \* the null `next_` pointer

ASSUME MaxLocks \in Nat \ {0} /\ Nil \notin Tasks

Unlocked == "nullptr"
Sentinel == "locked_sentinel"

VARIABLES
    state,      \* AsyncMutex::state_
    next,       \* LockAwaiter::next_ of each task's awaiter
    old,        \* the local `old_state` of await_suspend / unlock
    pc,         \* where each task is
    rounds      \* completed critical sections per task

vars == <<state, next, old, pc, rounds>>

Pcs == {"idle", "await_ready", "suspend_load", "suspend_cas", "waiting",
        "cs", "unlock_load", "unlock_fast", "unlock_slow_load",
        "unlock_slow_cas"}

\* The lock is owned from the acquiring CAS until the releasing CAS.
HoldingPcs == {"cs", "unlock_load", "unlock_fast", "unlock_slow_load",
               "unlock_slow_cas"}

Holders == {t \in Tasks : pc[t] \in HoldingPcs}
Waiting == {t \in Tasks : pc[t] = "waiting"}

Init ==
    /\ state = Unlocked
    /\ next = [t \in Tasks |-> Nil]
    /\ old = [t \in Tasks |-> Unlocked]
    /\ pc = [t \in Tasks |-> "idle"]
    /\ rounds = [t \in Tasks |-> 0]

Goto(t, to) == pc' = [pc EXCEPT ![t] = to]

-----------------------------------------------------------------------------
(* co_await mutex.scoped_lock()                                            *)

ScopedLock(t) ==
    /\ pc[t] = "idle"
    /\ rounds[t] < MaxLocks
    /\ Goto(t, "await_ready")
    /\ UNCHANGED <<state, next, old, rounds>>

\* Fault variant: await_ready stores the sentinel without comparing.
AwaitReadyStoreNotCas(t) ==
    /\ pc[t] = "await_ready"
    /\ state' = Sentinel
    /\ Goto(t, "cs")
    /\ UNCHANGED <<next, old, rounds>>

\* LockAwaiter::await_ready: CAS nullptr -> sentinel.
AwaitReady(t) ==
    /\ pc[t] = "await_ready"
    /\ IF state = Unlocked
          THEN state' = Sentinel /\ Goto(t, "cs")
          ELSE UNCHANGED state /\ Goto(t, "suspend_load")
    /\ UNCHANGED <<next, old, rounds>>

\* LockAwaiter::await_suspend: handle_ = handle; old_state = state_.load().
SuspendLoad(t) ==
    /\ pc[t] = "suspend_load"
    /\ old' = [old EXCEPT ![t] = state]
    /\ Goto(t, "suspend_cas")
    /\ UNCHANGED <<state, next, rounds>>

\* The mutex was seen unlocked: CAS nullptr -> sentinel, do not suspend.
SuspendAcquire(t) ==
    /\ pc[t] = "suspend_cas"
    /\ old[t] = Unlocked
    /\ IF state = Unlocked
          THEN state' = Sentinel /\ Goto(t, "cs") /\ UNCHANGED old
          ELSE old' = [old EXCEPT ![t] = state] /\ UNCHANGED <<state, pc>>
    /\ UNCHANGED <<next, rounds>>

\* Fault variant: next_ left null instead of linking the previous head.
SuspendEnqueueUnlinked(t) ==
    /\ pc[t] = "suspend_cas"
    /\ old[t] # Unlocked
    /\ IF state = old[t]
          THEN /\ next' = [next EXCEPT ![t] = Nil]
               /\ state' = t
               /\ Goto(t, "waiting")
               /\ UNCHANGED old
          ELSE /\ old' = [old EXCEPT ![t] = state]
               /\ UNCHANGED <<state, next, pc>>
    /\ UNCHANGED rounds

\* The mutex was seen locked: next_ = previous head (or null when the word
\* was the sentinel), then CAS old_state -> this; on success, suspend.
SuspendEnqueue(t) ==
    /\ pc[t] = "suspend_cas"
    /\ old[t] # Unlocked
    /\ IF state = old[t]
          THEN /\ next' = [next EXCEPT ![t] =
                             IF old[t] = Sentinel THEN Nil ELSE old[t]]
               /\ state' = t
               /\ Goto(t, "waiting")
               /\ UNCHANGED old
          ELSE /\ old' = [old EXCEPT ![t] = state]
               /\ UNCHANGED <<state, next, pc>>
    /\ UNCHANGED rounds

\* The critical section; leaving it destroys the ScopedLock, which unlocks.
CriticalSection(t) ==
    /\ pc[t] = "cs"
    /\ rounds' = [rounds EXCEPT ![t] = @ + 1]
    /\ Goto(t, "unlock_load")
    /\ UNCHANGED <<state, next, old>>

-----------------------------------------------------------------------------
(* AsyncMutex::unlock()                                                    *)

UnlockLoad(t) ==
    /\ pc[t] = "unlock_load"
    /\ old' = [old EXCEPT ![t] = state]
    /\ Goto(t, IF state = Sentinel THEN "unlock_fast" ELSE "unlock_slow_load")
    /\ UNCHANGED <<state, next, rounds>>

\* Fault variant: the fast path stores nullptr instead of a CAS, so a
\* waiter pushed since the load is dropped.
UnlockFastStore(t) ==
    /\ pc[t] = "unlock_fast"
    /\ state' = Unlocked
    /\ Goto(t, "idle")
    /\ UNCHANGED <<next, old, rounds>>

\* Fast path: CAS sentinel -> nullptr; on failure fall to the slow path.
UnlockFast(t) ==
    /\ pc[t] = "unlock_fast"
    /\ IF state = Sentinel
          THEN state' = Unlocked /\ Goto(t, "idle")
          ELSE UNCHANGED state /\ Goto(t, "unlock_slow_load")
    /\ UNCHANGED <<next, old, rounds>>

UnlockSlowLoad(t) ==
    /\ pc[t] = "unlock_slow_load"
    /\ old' = [old EXCEPT ![t] = state]
    /\ Goto(t, "unlock_slow_cas")
    /\ UNCHANGED <<state, next, rounds>>

\* Fault variant: the pop installs the sentinel, dropping w->next_.
UnlockSlowPopDropsTail(t) ==
    /\ pc[t] = "unlock_slow_cas"
    /\ old[t] \in Tasks
    /\ LET w == old[t] IN
         IF state = w
            THEN /\ state' = Sentinel
                 /\ pc' = [pc EXCEPT ![t] = "idle", ![w] = "cs"]
            ELSE UNCHANGED state /\ Goto(t, "unlock_slow_load")
    /\ UNCHANGED <<next, old, rounds>>

\* Slow path, head waiter w seen: CAS w -> (w->next_ or sentinel); on
\* success resume w, which now holds the lock.  The slow path is entered
\* only after the word was seen holding a waiter, and only the holder pops,
\* so its reload never sees the sentinel: the `old_state == sentinel`
\* branch of the loop is dead code and has no action here.
UnlockSlowPop(t) ==
    /\ pc[t] = "unlock_slow_cas"
    /\ old[t] \in Tasks
    /\ LET w == old[t] IN
         IF state = w
            THEN /\ state' = IF next[w] = Nil THEN Sentinel ELSE next[w]
                 /\ pc' = [pc EXCEPT ![t] = "idle", ![w] = "cs"]
            ELSE UNCHANGED state /\ Goto(t, "unlock_slow_load")
    /\ UNCHANGED <<next, old, rounds>>

-----------------------------------------------------------------------------
TaskStep(t) ==
    \/ ScopedLock(t) \/ AwaitReady(t) \/ SuspendLoad(t)
    \/ SuspendAcquire(t) \/ SuspendEnqueue(t) \/ CriticalSection(t)
    \/ UnlockLoad(t) \/ UnlockFast(t) \/ UnlockSlowLoad(t)
    \/ UnlockSlowPop(t)

Next == \E t \in Tasks : TaskStep(t)

\* Every task is a thread of control that the scheduler keeps running; a
\* waiting task takes no step of its own, it is resumed by an unlocker.
Fairness == \A t \in Tasks : WF_vars(TaskStep(t))

Spec == Init /\ [][Next]_vars
FairSpec == Spec /\ Fairness

-----------------------------------------------------------------------------
(* Properties                                                              *)

TypeOK ==
    /\ state \in {Unlocked, Sentinel} \cup Tasks
    /\ next \in [Tasks -> Tasks \cup {Nil}]
    /\ old \in [Tasks -> {Unlocked, Sentinel} \cup Tasks]
    /\ pc \in [Tasks -> Pcs]
    /\ rounds \in [Tasks -> 0..MaxLocks]

\* The waiter list read from the state word through the next_ links, cut
\* after `fuel` nodes so that a cyclic list still yields a finite value.
RECURSIVE Chain(_, _)
Chain(p, fuel) ==
    IF fuel = 0 \/ p \notin Tasks THEN <<>>
    ELSE <<p>> \o Chain(next[p], fuel - 1)

WaitList == Chain(state, Cardinality(Tasks) + 1)

\* IM1: at most one task is between its acquiring CAS and its releasing CAS
\* of state_, and the word reads nullptr exactly when no task holds the lock
\* (a waiter list with no holder would never be popped by anyone).
MutualExclusion ==
    /\ Cardinality(Holders) <= 1
    /\ (state = Unlocked) <=> (Holders = {})

\* No lost or duplicated waiter: the list hanging off state_ through the
\* awaiters' next_ fields is acyclic and holds every suspended task of
\* await_suspend exactly once, so unlock() will eventually pop each of them.
NoLostWaiter ==
    /\ Len(WaitList) = Cardinality(Waiting)
    /\ {WaitList[i] : i \in 1..Len(WaitList)} = Waiting

\* Under finite contention every `co_await scoped_lock()` completes: the
\* LIFO pop in unlock() cannot starve a waiter forever (spec.md 3).
LockEventuallyGranted ==
    \A t \in Tasks : pc[t] = "await_ready" ~> pc[t] = "cs"

\* The CAS-level mutex implements the atomic lock of AbstractLock: the
\* holder is the task between its acquiring and releasing CAS, the waiters
\* are the tasks suspended in the list.
Abs == INSTANCE AbstractLock WITH
         NoTask <- Nil,
         holder <- IF Holders = {} THEN Nil ELSE CHOOSE t \in Holders : TRUE,
         waiters <- Waiting

ImplementsAbstractLock == Abs!AbsSpec
=============================================================================
