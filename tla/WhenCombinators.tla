--------------------------- MODULE WhenCombinators ---------------------------
(***************************************************************************)
(* when_all, when_any and with_timeout (session/async_primitives.hpp) on  *)
(* the single cooperative thread of spec.md 4.1, with the frames they      *)
(* create and destroy; with_timeout is a when_any over its operation and  *)
(* a timeout loop, both lambda coroutines whose captures are already dead  *)
(* when they first run (async_primitives.hpp:442-451).  The combinator    *)
(* coroutine P is awaited by a caller C.  It wraps child Task K_i in       *)
(* driver D_i, starts the drivers in order, then                           *)
(* awaits WhenAllAwaiter / WhenAnyAwaiter.  A child yields a chosen number *)
(* of times before it completes; a yielded child is resumed later by the   *)
(* top-level driver loop.                                                  *)
(*                                                                         *)
(* `stack` is the chain of frames executing on the thread, innermost      *)
(* last.  Awaiting a Task starts it on top of the awaiter; a completing    *)
(* task transfers to its awaiter; a suspension returns control to the      *)
(* resumer of the whole chain; coroutine_handle::resume() runs the        *)
(* resumed frame on top of the caller.  A Task owns its frame (spec.md 3,  *)
(* coroutine.hpp is not in the tree): P's locals `drivers` and `tasks`     *)
(* going out of scope at its co_return destroy every driver frame and,     *)
(* through the driver's Task parameter, every child frame.                 *)
(***************************************************************************)
EXTENDS Naturals, Sequences, SequencesExt

CONSTANTS
    Combinators,  \* subset of {"when_all", "when_any", "with_timeout"}
    N,            \* number of child tasks of when_all / when_any
    MaxYields,    \* most Yields a child performs before completing
    Timeout       \* with_timeout's duration, in clock ticks

ASSUME Combinators \subseteq {"when_all", "when_any", "with_timeout"}
       /\ N \in Nat \ {0} /\ MaxYields \in Nat /\ Timeout \in Nat
       /\ ("with_timeout" \in Combinators => N >= 2)

\* with_timeout's operation may never complete: it yields for ever.
Forever == MaxYields + 1
\* opDoneAt before the operation completes: past every tick the clock shows.
NotDone == Timeout + 1

P == <<"P", 0>>
C == <<"C", 0>>
D(i) == <<"D", i>>
K(i) == <<"K", i>>
Children == 1..N
Frames == {P, C} \cup {D(i) : i \in Children} \cup {K(i) : i \in Children}

VARIABLES
    combinator, \* which combinator P is
    pc,         \* where each frame is
    alive,      \* the frame has not been destroyed
    stack,      \* frames executing on the thread, innermost last
    yieldsLeft, \* Yields each child still performs
    started,    \* P's start loop: the next driver to resume
    remaining,  \* WhenAllState::remaining
    done,       \* WhenAnyState::done
    winner,     \* WhenAnyState::winner_index
    cont,       \* the state's continuation has been set to P
    resumes,    \* times P was resumed after suspending (ghost)
    order,      \* children in the order they completed (ghost)
    result,     \* the value P returned (when_any)
    now,        \* steady_clock::now(), in ticks since with_timeout started
    opDoneAt,   \* when with_timeout's operation completed (ghost)
    ret         \* what with_timeout returned: "none", "some" or "nullopt"

vars == <<combinator, pc, alive, stack, yieldsLeft, started, remaining, done, winner,
          cont, resumes, order, result, now, opDoneAt, ret>>

\* with_timeout calls when_any over two tasks: op_wrapper (index 0, child
\* 1), which awaits the operation, and timeout_task (index 1, child 2).
NumTasks == IF combinator = "with_timeout" THEN 2 ELSE N
IsTimeoutTask(i) == combinator = "with_timeout" /\ i = 2

Top == IF stack = <<>> THEN <<"none", 0>> ELSE Last(stack)

\* The awaiter's readiness test: the counter is zero, or the flag is set.
Ready == IF combinator = "when_all" THEN remaining = 0 ELSE done


Init ==
    /\ combinator \in Combinators
    /\ pc = [f \in Frames |-> "init"]
    /\ alive = [f \in Frames |-> f \in {P, C}]
    /\ stack = <<P>>
    /\ IF combinator = "with_timeout"
          THEN \E y \in 0..Forever : yieldsLeft = [i \in Children |-> IF i = 1 THEN y ELSE 0]
          ELSE yieldsLeft \in [Children -> 0..MaxYields]
    /\ started = 1
    /\ remaining = N
    /\ done = FALSE
    /\ winner = 0
    /\ cont = FALSE
    /\ resumes = 0
    /\ order = <<>>
    /\ result = 0
    /\ now = 0 /\ opDoneAt = NotDone /\ ret = "none"

-----------------------------------------------------------------------------
(* The combinator coroutine P                                              *)

\* for (auto& d : drivers) d.resume(): driver i is created (make_driver)
\* and runs on top of P until it suspends or completes.
StartDriver ==
    /\ Top = P /\ pc[P] = "init" /\ started <= NumTasks
    /\ alive' = [alive EXCEPT ![D(started)] = TRUE, ![K(started)] = TRUE]
    /\ pc' = [pc EXCEPT ![D(started)] = "await_child"]
    /\ stack' = Append(stack, D(started))
    /\ started' = started + 1
    /\ UNCHANGED <<combinator, yieldsLeft, remaining, done, winner, cont, resumes, order, result,
               now, opDoneAt, ret>>

\* Fault variant: await_ready dropped, P always suspends.
AwaitAllAlwaysSuspends ==
    /\ Top = P /\ pc[P] = "init" /\ started = NumTasks + 1
    /\ cont' = TRUE
    /\ pc' = [pc EXCEPT ![P] = "suspended"]
    /\ stack' = <<>>
    /\ UNCHANGED <<combinator, alive, yieldsLeft, started, remaining, done, winner, resumes, order, result,
               now, opDoneAt, ret>>

\* co_await When*Awaiter: await_ready; otherwise await_suspend stores the
\* continuation and resumes P inline if the state is already ready, else
\* P suspends and control leaves the chain.
AwaitAll ==
    /\ Top = P /\ pc[P] = "init" /\ started = NumTasks + 1
    /\ IF Ready
          THEN pc' = [pc EXCEPT ![P] = "resumed"] /\ UNCHANGED <<cont, stack>>
          ELSE /\ cont' = TRUE
               /\ pc' = [pc EXCEPT ![P] = "suspended"]
               /\ stack' = <<>>
    /\ UNCHANGED <<combinator, alive, yieldsLeft, started, remaining, done, winner, resumes, order, result,
               now, opDoneAt, ret>>

\* await_resume and co_return: the locals go out of scope, destroying every
\* driver and child frame; final_suspend transfers to the caller C.
Complete ==
    /\ Top = P /\ pc[P] = "resumed"
    /\ alive' = [f \in Frames |-> alive[f] /\ f \in {P, C}]
    /\ pc' = [pc EXCEPT ![P] = "done", ![C] = "resumed"]
    /\ stack' = Append(Front(stack), C)
    /\ result' = winner
    /\ UNCHANGED <<combinator, yieldsLeft, started, remaining, done, winner, cont, resumes, order,
               now, opDoneAt, ret>>

\* The caller runs on after `co_await when_*(...)` and returns.
CallerReturns ==
    /\ Top = C /\ pc[C] = "resumed" /\ combinator # "with_timeout"
    /\ pc' = [pc EXCEPT ![C] = "done"]
    /\ stack' = Front(stack)
    /\ UNCHANGED <<combinator, alive, yieldsLeft, started, remaining, done, winner, cont, resumes, order, result,
               now, opDoneAt, ret>>

\* with_timeout after `co_await when_any(...)`: winner 0 (op_wrapper)
\* returns `result`, any other index std::nullopt.  op_wrapper is a
\* lambda coroutine called in the expression that creates it: the lambda
\* object holding the reference to `result` dies at the end of that
\* statement, before the lazy task first runs, so `result = co_await op`
\* writes through a reference read from dead storage.  It may still land
\* in `result`, or not, leaving std::nullopt.
WithTimeoutReturns ==
    /\ Top = C /\ pc[C] = "resumed" /\ combinator = "with_timeout"
    /\ ret' \in IF result = 1 THEN {"some", "nullopt"} ELSE {"nullopt"}
    /\ pc' = [pc EXCEPT ![C] = "done"]
    /\ stack' = Front(stack)
    /\ UNCHANGED <<combinator, alive, yieldsLeft, started, remaining, done, winner, cont,
                   resumes, order, result, now, opDoneAt>>

\* steady_clock advances while with_timeout is in progress (up to the
\* deadline; later ticks change nothing the model tells apart).
Tick ==
    /\ combinator = "with_timeout" /\ pc[C] # "done" /\ now < Timeout
    /\ now' = now + 1
    /\ UNCHANGED <<combinator, pc, alive, stack, yieldsLeft, started, remaining, done, winner,
                   cont, resumes, order, result, opDoneAt, ret>>

-----------------------------------------------------------------------------
(* The drivers                                                             *)

\* co_await task: the lazy child starts on top of its driver.
AwaitChild(i) ==
    /\ Top = D(i) /\ pc[D(i)] = "await_child"
    /\ pc' = [pc EXCEPT ![D(i)] = "awaiting", ![K(i)] = "run"]
    /\ stack' = Append(stack, K(i))
    /\ UNCHANGED <<combinator, alive, yieldsLeft, started, remaining, done, winner, cont, resumes, order, result,
               now, opDoneAt, ret>>

\* Fault variant: the last-completer test dropped from the when_all driver.
AfterChildAnyCount(i) ==
    /\ Top = D(i) /\ pc[D(i)] = "after_child"
    /\ remaining' = remaining - 1
    /\ IF cont THEN /\ pc' = [pc EXCEPT ![D(i)] = "tail", ![P] = "resumed"]
                    /\ resumes' = resumes + 1
                    /\ stack' = Append(stack, P)
               ELSE pc' = [pc EXCEPT ![D(i)] = "tail"] /\ UNCHANGED <<resumes, stack>>
    /\ UNCHANGED <<combinator, alive, yieldsLeft, started, done, winner, cont, order, result,
               now, opDoneAt, ret>>

\* Fault variant: the when_any driver records its index without the CAS.
AfterChildNoCas(i) ==
    /\ Top = D(i) /\ pc[D(i)] = "after_child"
    /\ done' = TRUE /\ winner' = i
    /\ IF cont /\ ~done
          THEN /\ pc' = [pc EXCEPT ![D(i)] = "tail", ![P] = "resumed"]
               /\ resumes' = resumes + 1
               /\ stack' = Append(stack, P)
          ELSE pc' = [pc EXCEPT ![D(i)] = "tail"] /\ UNCHANGED <<resumes, stack>>
    /\ UNCHANGED <<combinator, alive, yieldsLeft, started, remaining, cont, order, result,
               now, opDoneAt, ret>>

\* The child has completed.  when_all: fetch_sub(1) == 1 resumes the
\* continuation if set.  when_any: the CAS of done from false claims
\* victory, stores the index and resumes the continuation if set.  A
\* resumed P runs on top of the driver.
AfterChild(i) ==
    /\ Top = D(i) /\ pc[D(i)] = "after_child"
    /\ LET claims == IF combinator = "when_all" THEN remaining = 1 ELSE ~done
       IN /\ remaining' = IF combinator = "when_all" THEN remaining - 1 ELSE remaining
          /\ done' = (done \/ (combinator # "when_all"))
          /\ winner' = IF combinator # "when_all" /\ ~done THEN i ELSE winner
          /\ IF claims /\ cont
                THEN /\ pc' = [pc EXCEPT ![D(i)] = "tail", ![P] = "resumed"]
                     /\ resumes' = resumes + 1
                     /\ stack' = Append(stack, P)
                ELSE pc' = [pc EXCEPT ![D(i)] = "tail"] /\ UNCHANGED <<resumes, stack>>
    /\ UNCHANGED <<combinator, alive, yieldsLeft, started, cont, order, result, now, opDoneAt, ret>>

\* The rest of the driver after the resume() call returns: the lambda
\* body ends and the driver's final_suspend returns to its resumer.
DriverEnds(i) ==
    /\ Top = D(i) /\ pc[D(i)] = "tail"
    /\ pc' = [pc EXCEPT ![D(i)] = "final"]
    /\ stack' = Front(stack)
    /\ UNCHANGED <<combinator, alive, yieldsLeft, started, remaining, done, winner, cont, resumes, order, result,
               now, opDoneAt, ret>>

-----------------------------------------------------------------------------
(* The children                                                            *)

\* The stack without K_i and, when it runs directly beneath, its driver
\* (a child resumed by the top-level loop runs alone).
Beneath(i) ==
    IF Len(stack) > 1 /\ stack[Len(stack) - 1] = D(i)
       THEN SubSeq(stack, 1, Len(stack) - 2)
       ELSE Front(stack)

\* co_await Yield{}: the chain K_i <- D_i suspends and control returns to
\* its resumer; or the child completes and transfers to its driver.
ChildStep(i) ==
    /\ Top = K(i) /\ pc[K(i)] = "run" /\ ~IsTimeoutTask(i)
    /\ IF yieldsLeft[i] > 0
          THEN /\ yieldsLeft' = [yieldsLeft EXCEPT ![i] = IF @ = Forever THEN @ ELSE @ - 1]
               /\ pc' = [pc EXCEPT ![K(i)] = "yielded"]
               /\ stack' = Beneath(i)
               /\ UNCHANGED <<order, opDoneAt>>
          ELSE /\ pc' = [pc EXCEPT ![K(i)] = "final", ![D(i)] = "after_child"]
               /\ stack' = Append(Beneath(i), D(i))
               /\ order' = Append(order, i)
               /\ opDoneAt' = IF combinator = "with_timeout" THEN now ELSE opDoneAt
               /\ UNCHANGED yieldsLeft
    /\ UNCHANGED <<combinator, alive, started, remaining, done, winner, cont, resumes, result,
               now, ret>>

\* with_timeout's timeout_task: `while (Clock::now() < deadline) co_await
\* Yield{};`.  The lambda object that holds the copy of deadline is a
\* temporary that dies at the end of the statement creating the task,
\* before when_any first resumes it; every test reads that dead object's
\* storage, so it may go either way.  Leaving the loop completes the task.
TimeoutStep(i) ==
    /\ Top = K(i) /\ pc[K(i)] = "run" /\ IsTimeoutTask(i)
    /\ \/ /\ pc' = [pc EXCEPT ![K(i)] = "yielded"]
          /\ stack' = Beneath(i)
          /\ UNCHANGED order
       \/ /\ pc' = [pc EXCEPT ![K(i)] = "final", ![D(i)] = "after_child"]
          /\ stack' = Append(Beneath(i), D(i))
          /\ order' = Append(order, i)
    /\ UNCHANGED <<combinator, alive, yieldsLeft, started, remaining, done, winner, cont,
                   resumes, result, now, opDoneAt, ret>>

\* The top-level driver loop resumes a yielded child that still exists.
ResumeYielded(i) ==
    /\ stack = <<>> /\ pc[K(i)] = "yielded" /\ alive[K(i)]
    /\ pc' = [pc EXCEPT ![K(i)] = "run"]
    /\ stack' = <<K(i)>>
    /\ UNCHANGED <<combinator, alive, yieldsLeft, started, remaining, done, winner, cont, resumes, order, result,
               now, opDoneAt, ret>>

\* The top-level loop finds nothing to resume: no frame runs and no live
\* child is yielded (normally because the caller has returned).
Idle ==
    /\ stack = <<>> /\ \A i \in Children : ~(pc[K(i)] = "yielded" /\ alive[K(i)])
    /\ UNCHANGED vars

DriverStep(i) ==
    AwaitChild(i) \/ AfterChild(i) \/ DriverEnds(i) \/ ChildStep(i) \/ TimeoutStep(i)

Next ==
    \/ StartDriver \/ AwaitAll \/ Complete \/ CallerReturns \/ WithTimeoutReturns
    \/ Tick
    \/ \E i \in Children : DriverStep(i) \/ ResumeYielded(i)
    \/ Idle

Spec == Init /\ [][Next]_vars

\* Code runs until it suspends; the steady clock keeps advancing; the
\* driver loop keeps resuming yielded tasks (spec.md 3: get() drives
\* resume until the root is ready) and passes over none of them for ever,
\* even while another task keeps yielding (spec.md 4.5: the timeout loop
\* must get to look at the clock), hence strong fairness: a yielded task
\* can be resumed only while no other frame is running.
FairSpec ==
    /\ Spec
    /\ WF_vars(StartDriver \/ AwaitAll \/ Complete \/ CallerReturns \/ WithTimeoutReturns)
    /\ WF_vars(Tick)
    /\ \A i \in Children : WF_vars(DriverStep(i)) /\ SF_vars(ResumeYielded(i))

-----------------------------------------------------------------------------
(* Properties                                                              *)

TypeOK ==
    /\ combinator \in Combinators
    /\ alive \in [Frames -> BOOLEAN]
    /\ stack \in Seq(Frames)
    /\ yieldsLeft \in [Children -> 0..Forever]
    /\ started \in 1..N + 1
    /\ remaining \in 0..N
    /\ done \in BOOLEAN /\ cont \in BOOLEAN
    /\ winner \in 0..N /\ result \in 0..N
    /\ resumes \in 0..1
    /\ order \in Seq(Children)
    /\ now \in 0..Timeout /\ opDoneAt \in 0..NotDone
    /\ ret \in {"none", "some", "nullopt"}

\* WA1 / WY1: P leaves its co_await exactly once, and only when the state
\* says so: after the N-th completion for when_all, after the first for
\* when_any.
ParentResumedOnceWhenReady ==
    /\ resumes <= 1
    /\ pc[P] \in {"resumed", "done"} =>
          IF combinator = "when_all" THEN Len(order) = N ELSE Len(order) >= 1

\* WY1: when_any returns the index of the child that completed first.
WinnerIsFirst == pc[P] = "done" /\ combinator # "when_all" => result = Head(order)

\* when_all and when_any return to their caller whatever the children's
\* timing: the last completion (when_all) or the first (when_any) resumes
\* P, inline in the start loop or later.  with_timeout is left out: its
\* timeout loop tests a dead deadline and may spin for ever.
CombinatorReturns == combinator # "with_timeout" => <>(pc[C] = "done")

\* TO1 (spec.md 4.5): with_timeout reports a timeout only once the
\* deadline has passed, and never when the operation had completed first
\* (its result would be thrown away).
NoEarlyTimeout == ret = "nullopt" => opDoneAt = NotDone /\ now >= Timeout

\* No frame executing on the thread has been destroyed.
NoRunningFrameDestroyed == \A k \in DOMAIN stack : alive[stack[k]]
=============================================================================
