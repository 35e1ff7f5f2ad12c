--------------------------- MODULE MC_WinsockStack ---------------------------
(* The transport's owner and two other threads calling initialize(): the  *)
(* owner's ensure() may win the election, spin behind another thread, or  *)
(* take the fast path, and its socket calls follow what it returned.      *)
EXTENDS WinsockStack, TLC

CONSTANTS o1, w1, w2

MCThreads == {o1, w1, w2}

\* The owner is distinguished; the other threads are interchangeable.
OtherSymmetry == Permutations({w1, w2})
=============================================================================
