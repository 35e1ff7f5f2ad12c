--------------------------- MODULE MC_AsyncMutex ---------------------------
(* Three tasks, two rounds each: enough for a waiter list of two behind a  *)
(* holder, for a push racing a pop, and for a task re-locking while older  *)
(* waiters are queued (the LIFO case).                                     *)
EXTENDS AsyncMutex, TLC

CONSTANTS t1, t2, t3

MCTasks == {t1, t2, t3}

TaskSymmetry == Permutations(MCTasks)
=============================================================================
