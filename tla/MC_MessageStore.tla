--------------------------- MODULE MC_MessageStore ---------------------------
(* Either alternative, sequence numbers 0..3 with 3 standing for          *)
(* UINT32_MAX, room for two messages so that the third distinct number is *)
(* refused and an update of a held number can happen full and not full.   *)
EXTENDS MessageStore

CONSTANTS m1, m2
=============================================================================
