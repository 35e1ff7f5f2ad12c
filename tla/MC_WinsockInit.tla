--------------------------- MODULE MC_WinsockInit ---------------------------
(* Three threads calling initialize() twice each: an election with two   *)
(* losers spinning, a retry after a failed WSAStartup, and the fast path  *)
(* taken by a thread arriving after success.                              *)
EXTENDS WinsockInit, TLC

CONSTANTS w1, w2, w3

MCThreads == {w1, w2, w3}

ThreadSymmetry == Permutations(MCThreads)
=============================================================================
