------------------------------- MODULE Event -------------------------------
(***************************************************************************)
(* nfx::Event (session/async_primitives.hpp) at the granularity of its    *)
(* atomic operations, driven from several threads (spec.md 5: the event   *)
(* word is meant to stay correct under concurrent access).  `state` is    *)
(* state_: Null (not set, no waiters), Set (&set_sentinel_tag_) or the    *)
(* EventAwaiter at the head of a LIFO list linked through next_.           *)
(*                                                                         *)
(* Waiter tasks co_await the event MaxWaits times.  Signaller threads call *)
(* set() or reset(), MaxOps calls each.  set() exchanges the word for Set  *)
(* and walks the list it took, resuming each awaiter inline: the resumed   *)
(* task runs on the signaller's thread until it suspends again or stops,   *)
(* and only then does the walk go on.                                     *)
(***************************************************************************)
EXTENDS Naturals, FiniteSets, Sequences, FiniteSetsExt

CONSTANTS
    Waiters,      \* tasks awaiting the event (their awaiters' addresses)
    Signallers,   \* threads calling set() and reset()
    MaxWaits,     \* co_await rounds per waiter
    MaxOps,       \* set()/reset() calls per signaller
    Nil           \* the null next_ / end of a walk

ASSUME MaxWaits \in Nat \ {0} /\ MaxOps \in Nat \ {0} /\ Nil \notin Waiters

Null == "nullptr"
Set == "set_sentinel"

VARIABLES
    state,    \* Event::state_
    next,     \* EventAwaiter::next_
    old,      \* await_suspend's local old_state
    pc,       \* where each waiter is
    rounds,   \* completed co_awaits per waiter
    spc,      \* where each signaller is
    ops,      \* completed set()/reset() calls per signaller
    walk,     \* set()'s local `waiter`: the node being resumed
    saved     \* set()'s local `next`, read before the resume

vars == <<state, next, old, pc, rounds, spc, ops, walk, saved>>

\* A waiter in these places is running (on its own thread, or on the
\* signaller's thread after an inline resume).
Running == {"ready", "suspend_load", "suspend_cas", "after"}

Init ==
    /\ state = Null
    /\ next = [w \in Waiters |-> Nil]
    /\ old = [w \in Waiters |-> Null]
    /\ pc = [w \in Waiters |-> "idle"]
    /\ rounds = [w \in Waiters |-> 0]
    /\ spc = [s \in Signallers |-> "idle"]
    /\ ops = [s \in Signallers |-> 0]
    /\ walk = [s \in Signallers |-> Nil]
    /\ saved = [s \in Signallers |-> Nil]

WaiterVars == <<next, old, pc, rounds>>
SignallerVars == <<spc, ops, walk, saved>>

GotoW(w, l) == pc' = [pc EXCEPT ![w] = l]

-----------------------------------------------------------------------------
(* co_await event: EventAwaiter                                            *)

\* The task reaches `co_await event`.
Await(w) ==
    /\ pc[w] = "idle" /\ rounds[w] < MaxWaits
    /\ GotoW(w, "ready")
    /\ UNCHANGED <<state, next, old, rounds>> /\ UNCHANGED SignallerVars

\* await_ready: state_.load() == set_sentinel means no suspension.
AwaitReady(w) ==
    /\ pc[w] = "ready"
    /\ GotoW(w, IF state = Set THEN "after" ELSE "suspend_load")
    /\ UNCHANGED <<state, next, old, rounds>> /\ UNCHANGED SignallerVars

\* await_suspend: handle_ = handle; old_state = state_.load().
SuspendLoad(w) ==
    /\ pc[w] = "suspend_load"
    /\ old' = [old EXCEPT ![w] = state]
    /\ GotoW(w, "suspend_cas")
    /\ UNCHANGED <<state, next, rounds>> /\ UNCHANGED SignallerVars

\* One turn of the await_suspend loop: an old_state of Set returns false
\* (no suspension); otherwise next_ = old_state (null for nullptr) and the
\* CAS old_state -> this; on failure old_state is reloaded.
SuspendCas(w) ==
    /\ pc[w] = "suspend_cas"
    /\ IF old[w] = Set
          THEN GotoW(w, "after") /\ UNCHANGED <<state, next, old>>
          ELSE IF state = old[w]
          THEN /\ next' = [next EXCEPT ![w] = IF old[w] = Null THEN Nil ELSE old[w]]
               /\ state' = w
               /\ GotoW(w, "waiting")
               /\ UNCHANGED old
          ELSE /\ old' = [old EXCEPT ![w] = state]
               /\ UNCHANGED <<state, next, pc>>
    /\ UNCHANGED rounds /\ UNCHANGED SignallerVars

\* await_resume() and the task's code after the co_await, up to its next
\* suspension elsewhere.
Resumed(w) ==
    /\ pc[w] = "after"
    /\ rounds' = [rounds EXCEPT ![w] = @ + 1]
    /\ GotoW(w, "idle")
    /\ UNCHANGED <<state, next, old>> /\ UNCHANGED SignallerVars

-----------------------------------------------------------------------------
(* Event::set() and Event::reset()                                         *)

\* Fault variant: reset() as a plain store of nullptr.
ResetStore(s) ==
    /\ spc[s] = "idle" /\ ops[s] < MaxOps
    /\ state' = Null
    /\ ops' = [ops EXCEPT ![s] = @ + 1]
    /\ UNCHANGED <<spc, walk, saved>> /\ UNCHANGED WaiterVars

\* reset(): CAS set_sentinel -> nullptr; a no-op when not set.
Reset(s) ==
    /\ spc[s] = "idle" /\ ops[s] < MaxOps
    /\ state' = IF state = Set THEN Null ELSE state
    /\ ops' = [ops EXCEPT ![s] = @ + 1]
    /\ UNCHANGED <<spc, walk, saved>> /\ UNCHANGED WaiterVars

\* set(): old_state = state_.exchange(set_sentinel); a waiter list in
\* old_state is walked.
SetExchange(s) ==
    /\ spc[s] = "idle" /\ ops[s] < MaxOps
    /\ state' = Set
    /\ IF state \in Waiters
          THEN walk' = [walk EXCEPT ![s] = state] /\ spc' = [spc EXCEPT ![s] = "walk"]
               /\ UNCHANGED ops
          ELSE ops' = [ops EXCEPT ![s] = @ + 1] /\ UNCHANGED <<spc, walk>>
    /\ UNCHANGED saved /\ UNCHANGED WaiterVars

\* next = waiter->next_; waiter->handle_.resume().
WalkResume(s) ==
    /\ spc[s] = "walk"
    /\ saved' = [saved EXCEPT ![s] = next[walk[s]]]
    /\ pc' = [pc EXCEPT ![walk[s]] = "after"]
    /\ spc' = [spc EXCEPT ![s] = "resumed"]
    /\ UNCHANGED <<state, next, old, rounds, ops, walk>>

\* Fault variant: the walk follows next_ as it is after the resume.
WalkAdvanceRereads(s) ==
    /\ spc[s] = "resumed" /\ pc[walk[s]] \notin Running
    /\ walk' = [walk EXCEPT ![s] = next[walk[s]]]
    /\ IF next[walk[s]] = Nil
          THEN spc' = [spc EXCEPT ![s] = "idle"] /\ ops' = [ops EXCEPT ![s] = @ + 1]
          ELSE spc' = [spc EXCEPT ![s] = "walk"] /\ UNCHANGED ops
    /\ UNCHANGED saved /\ UNCHANGED <<state>> /\ UNCHANGED WaiterVars

\* Fault variant: the walk stops after the first awaiter.
WalkAdvanceStops(s) ==
    /\ spc[s] = "resumed" /\ pc[walk[s]] \notin Running
    /\ walk' = [walk EXCEPT ![s] = Nil]
    /\ spc' = [spc EXCEPT ![s] = "idle"] /\ ops' = [ops EXCEPT ![s] = @ + 1]
    /\ UNCHANGED saved /\ UNCHANGED <<state>> /\ UNCHANGED WaiterVars

\* The resumed task has suspended or stopped: waiter = next; the loop ends
\* at null.
WalkAdvance(s) ==
    /\ spc[s] = "resumed" /\ pc[walk[s]] \notin Running
    /\ walk' = [walk EXCEPT ![s] = saved[s]]
    /\ IF saved[s] = Nil
          THEN spc' = [spc EXCEPT ![s] = "idle"] /\ ops' = [ops EXCEPT ![s] = @ + 1]
          ELSE spc' = [spc EXCEPT ![s] = "walk"] /\ UNCHANGED ops
    /\ UNCHANGED saved /\ UNCHANGED <<state>> /\ UNCHANGED WaiterVars

-----------------------------------------------------------------------------
WaiterStep(w) == AwaitReady(w) \/ SuspendLoad(w) \/ SuspendCas(w) \/ Resumed(w)

WalkStep(s) == WalkResume(s) \/ WalkAdvance(s)

Next ==
    \/ \E w \in Waiters : Await(w) \/ WaiterStep(w)
    \/ \E s \in Signallers : Reset(s) \/ SetExchange(s) \/ WalkStep(s)

Spec == Init /\ [][Next]_vars

\* A running task and a walk in progress keep going (each is a thread's
\* straight-line code); whether a task awaits again and whether a thread
\* calls set() or reset() is the program's choice.
FairSpec == Spec /\ \A w \in Waiters : WF_vars(WaiterStep(w))
                 /\ \A s \in Signallers : WF_vars(WalkStep(s))

-----------------------------------------------------------------------------
(* Properties                                                              *)

TypeOK ==
    /\ state \in {Null, Set} \cup Waiters
    /\ next \in [Waiters -> Waiters \cup {Nil}]
    /\ old \in [Waiters -> {Null, Set} \cup Waiters]
    /\ pc \in [Waiters -> {"idle", "waiting"} \cup Running]
    /\ rounds \in [Waiters -> 0..MaxWaits]
    /\ spc \in [Signallers -> {"idle", "walk", "resumed"}]
    /\ ops \in [Signallers -> 0..MaxOps]
    /\ walk \in [Signallers -> Waiters \cup {Nil}]
    /\ saved \in [Signallers -> Waiters \cup {Nil}]

\* The list from node p through next_, cut after `fuel` nodes.
RECURSIVE Chain(_, _)
Chain(p, fuel) ==
    IF fuel = 0 \/ p \notin Waiters THEN <<>>
    ELSE <<p>> \o Chain(next[p], fuel - 1)

Fuel == Cardinality(Waiters) + 1

\* What set() still has to resume: from the node it is at (not yet
\* resumed) or from the saved next_ (the node it has resumed is done).
StillToResume(s) ==
    CASE spc[s] = "walk"    -> Chain(walk[s], Fuel)
      [] spc[s] = "resumed" -> Chain(saved[s], Fuel)
      [] OTHER              -> <<>>

\* How often w occurs in sequence q.
Occurrences(q, w) == Cardinality({i \in DOMAIN q : q[i] = w})

\* Where w is linked: in the list hanging off state_ and in the rest of
\* every walk in progress.
Links(w) == Occurrences(Chain(state, Fuel), w)
            + MapThenSumSet(LAMBDA s : Occurrences(StillToResume(s), w), Signallers)

\* EV1, no lost and no doubled waiter: every suspended awaiter is linked
\* exactly once, either in the event's list (a later set() will take it)
\* or in the part of a set() walk still ahead, and nothing else is linked.
NoLostWaiter ==
    \A w \in Waiters : Links(w) = IF pc[w] = "waiting" THEN 1 ELSE 0

\* EV1: a waiter that a set() took with its exchange is resumed by it.
SetResumesTaken ==
    \A w \in Waiters :
        (\E s \in Signallers : Occurrences(StillToResume(s), w) > 0)
            ~> pc[w] = "after"

\* The atomic word implements the abstract event: pending are the
\* suspended awaiters some set() walk still has ahead of it, waiting the
\* other suspended awaiters.
PendingA == {w \in Waiters : pc[w] = "waiting" /\
                             \E s \in Signallers : Occurrences(StillToResume(s), w) > 0}

AbsEv == INSTANCE AbstractEvent WITH
           Tasks <- Waiters,
           isSet <- state = Set,
           waiting <- {w \in Waiters : pc[w] = "waiting"} \ PendingA,
           pending <- PendingA

ImplementsAbstractEvent == AbsEv!EvSpec
=============================================================================
