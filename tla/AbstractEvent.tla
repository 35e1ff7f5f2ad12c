--------------------------- MODULE AbstractEvent ---------------------------
(***************************************************************************)
(* What nfx::Event promises (spec.md 3 and 4.3, EV1, EV2) without its     *)
(* atomic word: the event is set or not; a task that awaits an unset       *)
(* event waits; set() makes every waiting task pending, and each pending   *)
(* task is resumed exactly once; reset() clears a set event.               *)
(***************************************************************************)
CONSTANTS Tasks

VARIABLES isSet, waiting, pending

evVars == <<isSet, waiting, pending>>

\* A task finds the event not set and starts waiting.
Wait(t) ==
    /\ ~isSet
    /\ t \notin waiting \cup pending
    /\ waiting' = waiting \cup {t}
    /\ UNCHANGED <<isSet, pending>>

\* set(): every task waiting at this moment will be resumed.
Signal ==
    /\ isSet' = TRUE
    /\ pending' = pending \cup waiting
    /\ waiting' = {}

\* One pending task is resumed.
Resume(t) ==
    /\ t \in pending
    /\ pending' = pending \ {t}
    /\ UNCHANGED <<isSet, waiting>>

\* reset(): a set event becomes unset.
Clear ==
    /\ isSet
    /\ isSet' = FALSE
    /\ UNCHANGED <<waiting, pending>>

EvInit == ~isSet /\ waiting = {} /\ pending = {}

EvNext == Signal \/ Clear \/ \E t \in Tasks : Wait(t) \/ Resume(t)

EvSpec == EvInit /\ [][EvNext]_evVars
=============================================================================
