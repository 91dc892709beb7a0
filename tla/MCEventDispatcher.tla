------------------------- MODULE MCEventDispatcher -------------------------
(* A small instance of EventDispatcher. *)
EXTENDS EventDispatcher

CONSTANTS shutdown, coordinator

MCFlushers == {shutdown, coordinator}
=============================================================================
