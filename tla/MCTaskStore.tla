----------------------------- MODULE MCTaskStore ----------------------------
(***************************************************************************)
(* TaskStore on two request ids, two inputs and one failure code.          *)
(***************************************************************************)
EXTENDS TaskStore, TLC

\* Request ids and inputs are only compared for equality.
Symmetry == Permutations(Requests) \cup Permutations(Inputs)

=============================================================================
