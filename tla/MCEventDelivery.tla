-------------------------- MODULE MCEventDelivery --------------------------
(* Small instances of EventDelivery. *)
EXTENDS EventDelivery

\* The callers of flush_to are checked with the dispatcher alone.
MCNoFlushers == {}
=============================================================================
