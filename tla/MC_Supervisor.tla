------------------------------ MODULE MC_Supervisor ------------------------------
(* session_with_recovery over a WinsockTransport; the configuration values *)
(* are given in the cfgs.                                                   *)
EXTENDS Supervisor
=============================================================================
