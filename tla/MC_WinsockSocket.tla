---------------------------- MODULE MC_WinsockSocket ----------------------------
(* One WinsockTransport and one WinsockAcceptor driven by their owner.      *)
EXTENDS WinsockSocket
=============================================================================
