--------------------------- MODULE AbstractLock ---------------------------
(***************************************************************************)
(* What nfx::AsyncMutex promises its callers (spec.md 4.2), stated        *)
(* without the atomic state word: at most one task holds the lock, a task  *)
(* that finds it held becomes a waiter, and a release either frees the     *)
(* lock, when nobody waits, or hands it directly to one of the waiters.    *)
(* No order among waiters is promised (the implementation is LIFO).        *)
(***************************************************************************)
CONSTANTS Tasks, NoTask

ASSUME NoTask \notin Tasks

VARIABLES holder, waiters

absVars == <<holder, waiters>>

Idle(t) == t # holder /\ t \notin waiters

\* A task takes the free lock without waiting.
Acquire(t) ==
    /\ holder = NoTask
    /\ Idle(t)
    /\ holder' = t
    /\ UNCHANGED waiters

\* A task finds the lock held and is queued.
Wait(t) ==
    /\ holder # NoTask
    /\ Idle(t)
    /\ waiters' = waiters \cup {t}
    /\ UNCHANGED holder

\* The holder releases: the lock is freed if nobody waits, otherwise it is
\* passed to exactly one waiter.
Release ==
    /\ holder # NoTask
    /\ \/ /\ waiters = {}
          /\ holder' = NoTask
          /\ UNCHANGED waiters
       \/ \E w \in waiters :
             /\ holder' = w
             /\ waiters' = waiters \ {w}

AbsInit == holder = NoTask /\ waiters = {}

AbsNext == (\E t \in Tasks : Acquire(t) \/ Wait(t)) \/ Release

AbsSpec == AbsInit /\ [][AbsNext]_absVars
=============================================================================
