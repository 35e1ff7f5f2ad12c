----------------------------- MODULE SessionFsm -----------------------------
(***************************************************************************)
(* SessionState, SessionEvent and next_state (session/state.hpp, which is  *)
(* not in the source tree; taken from the transition table of spec.md     *)
(* 4.7).  A pair the table does not list leaves the state as it is: the   *)
(* caller CoroutineSession::transition() only assigns and notifies when    *)
(* next_state differs from the current state.                             *)
(***************************************************************************)

SessionStates == {"Disconnected", "SocketConnected", "LogonSent", "Active",
                  "LogoutPending", "LogoutReceived", "Error"}

SessionEvents == {"Connect", "LogonSent", "LogonReceived", "LogonRejected",
                  "HeartbeatTimeout", "LogoutSent", "LogoutReceived",
                  "Disconnect", "Error"}

\* The listed (from, event) -> to triples of spec.md 4.7.
Table ==
    [from : {"Disconnected"}, ev : {"Connect"}, to : {"SocketConnected"}]
    \cup [from : {"SocketConnected"}, ev : {"LogonSent"}, to : {"LogonSent"}]
    \cup [from : {"LogonSent"}, ev : {"LogonReceived"}, to : {"Active"}]
    \cup [from : {"LogonSent"}, ev : {"LogonRejected"}, to : {"Disconnected"}]
    \cup [from : {"LogonSent", "Active"}, ev : {"HeartbeatTimeout"}, to : {"Error"}]
    \cup [from : {"Active"}, ev : {"LogoutSent"}, to : {"LogoutPending"}]
    \cup [from : {"Active", "LogoutPending"}, ev : {"LogoutReceived"},
          to : {"LogoutReceived"}]
    \cup [from : {"Active", "LogoutReceived"}, ev : {"Disconnect"},
          to : {"Disconnected"}]
    \cup [from : SessionStates, ev : {"Error"}, to : {"Error"}]

Listed(s, e) == \E r \in Table : r.from = s /\ r.ev = e

\* next_state(current, event)
NextState(s, e) ==
    IF Listed(s, e) THEN (CHOOSE r \in Table : r.from = s /\ r.ev = e).to
    ELSE s

\* can_send_app_messages(state)
CanSendAppMessages(s) == s = "Active"
=============================================================================
