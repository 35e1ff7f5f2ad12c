--------------------------- MODULE SleepAwaitable ---------------------------
(***************************************************************************)
(* SleepAwaitable and sleep_for (session/async_primitives.hpp) awaited by  *)
(* one coroutine on the cooperative thread, with steady_clock as a tick    *)
(* counter.  `pc` is where the awaiting coroutine is in                    *)
(* `co_await sleep_for(d)`; `sleptAt` is the tick at which it ran on past  *)
(* the co_await.                                                            *)
(***************************************************************************)
EXTENDS Naturals

CONSTANTS
    Durations,   \* the durations sleep_for is called with, in ticks
    MaxTime      \* bound on the clock

ASSUME Durations \subseteq Nat /\ MaxTime \in Nat

VARIABLES
    now,         \* steady_clock::now()
    deadline,    \* SleepAwaitable::deadline_
    handle,      \* SleepAwaitable::handle_ has been stored
    pc,          \* "idle", "ready_check", "suspend" or "resumed"
    sleptAt      \* when the coroutine went on past the co_await (ghost)

vars == <<now, deadline, handle, pc, sleptAt>>

Init ==
    /\ now = 0 /\ deadline = 0 /\ handle = FALSE
    /\ pc = "idle" /\ sleptAt = 0

\* sleep_for(d): SleepAwaitable{d}, whose constructor sets
\* deadline_ = Clock::now() + duration.
SleepFor(d) ==
    /\ pc = "idle" /\ now + d <= MaxTime
    /\ deadline' = now + d /\ handle' = FALSE
    /\ pc' = "ready_check"
    /\ UNCHANGED <<now, sleptAt>>

\* await_ready(): Clock::now() >= deadline_ goes straight on.
AwaitReady ==
    /\ pc = "ready_check"
    /\ IF now >= deadline
          THEN pc' = "resumed" /\ sleptAt' = now
          ELSE pc' = "suspend" /\ UNCHANGED sleptAt
    /\ UNCHANGED <<now, deadline, handle>>

\* await_suspend(h): handle_ = h, then h.resume() inline; await_resume()
\* returns nothing and the coroutine runs on.
AwaitSuspend ==
    /\ pc = "suspend"
    /\ handle' = TRUE
    /\ pc' = "resumed" /\ sleptAt' = now
    /\ UNCHANGED <<now, deadline>>

\* The coroutine goes on to its next co_await sleep_for(...).
SleepAgain ==
    /\ pc = "resumed" /\ pc' = "idle"
    /\ UNCHANGED <<now, deadline, handle, sleptAt>>

\* Time passes.
Tick ==
    /\ now < MaxTime /\ now' = now + 1
    /\ UNCHANGED <<deadline, handle, pc, sleptAt>>

Next ==
    \/ \E d \in Durations : SleepFor(d)
    \/ AwaitReady \/ AwaitSuspend \/ SleepAgain \/ Tick

Spec == Init /\ [][Next]_vars

-----------------------------------------------------------------------------
(* Properties                                                              *)

\* spec.md 2 and 4.5: sleep_for is a deadline-polled sleep, so a coroutine
\* that awaits sleep_for(d) goes on only once the clock has reached the
\* deadline (await_suspend's inline resume was meant to poll, not to
\* return).
SleepReachesDeadline == pc = "resumed" => sleptAt >= deadline
=============================================================================
