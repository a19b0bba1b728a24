------------------------------ MODULE MCEventBus ------------------------------
(***************************************************************************)
(* A small instance of EventBus for TLC.                                   *)
(***************************************************************************)
EXTENDS EventBus, TLC

CONSTANTS a, b

(* Stream a asks for no types in particular, and so gets lag reports too;  *)
(* stream b asks for the types a client may name.                          *)
MCFilters == (a :> {Types \cup {Lagging}}) @@ (b :> {Types})
=============================================================================
