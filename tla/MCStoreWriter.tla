--------------------------- MODULE MCStoreWriter ----------------------------
(***************************************************************************)
(* StoreWriter on small instances.                                         *)
(***************************************************************************)
EXTENDS StoreWriter

MCDelays == <<1, 2>>

=============================================================================
