------------------------- MODULE MC_WhenCombinators -------------------------
(* The combinators are instantiated directly from the cfgs: three children *)
(* that yield up to twice give every order of completion relative to the  *)
(* start loop and to P's suspension.                                      *)
EXTENDS WhenCombinators
=============================================================================
