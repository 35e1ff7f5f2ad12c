------------------------ MODULE MC_CoroutineSession ------------------------
(***************************************************************************)
(* Instances of CoroutineSession for TLC.  The peer's message kinds are   *)
(* chosen per run: each run offers the kinds its question needs.           *)
(***************************************************************************)
EXTENDS CoroutineSession

\* No application coroutine.
NoApps == {}

\* One application coroutine calling send_app_message.
OneApp == {"app1"}

\* The admin traffic that makes the loops send under the mutex.
AdminTraffic == {"Logon", "TestRequest", "ResendRequest", "Logout"}

\* Application traffic, with resends and resets.
AppTraffic == {"Logon", "App", "SequenceReset"}

\* Traffic that makes the receiver reply under the mutex.
ReplyTraffic == {"Logon", "TestRequest", "Logout"}

\* Only the logon answer and the logout exchange.
LogonLogout == {"Logon", "Logout"}
=============================================================================
