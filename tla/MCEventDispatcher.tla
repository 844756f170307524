------------------------- MODULE MCEventDispatcher -------------------------
(* EventDispatcher by itself, with named types. *)
EXTENDS EventDispatcher

CONSTANTS t1, t2

Spec == InitDispatcher /\ [][NextDispatcher]_dispatcherVars
=============================================================================
