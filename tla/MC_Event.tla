------------------------------ MODULE MC_Event ------------------------------
(* Two waiters awaiting twice each and two signallers: enough for a list  *)
(* of two being walked while the first resumed waiter awaits again and    *)
(* the other thread resets the event under it.                            *)
EXTENDS Event, TLC

CONSTANTS e1, e2, s1, s2

MCWaiters == {e1, e2}
MCSignallers == {s1, s2}

Symmetry == Permutations(MCWaiters) \cup Permutations(MCSignallers)
=============================================================================
