--------------------------- MODULE MC_SleepAwaitable ---------------------------
(* SleepAwaitable with its constants given by the cfg. *)
EXTENDS SleepAwaitable
=============================================================================
