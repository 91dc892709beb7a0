----------------------------- MODULE MCStartup ------------------------------
(***************************************************************************)
(* Startup on small instances.                                             *)
(***************************************************************************)
EXTENDS Startup, TLC

MCSymmetry == Permutations(Launches) \cup Permutations(Ports)

=============================================================================
