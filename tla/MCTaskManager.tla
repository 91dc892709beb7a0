---------------------------- MODULE MCTaskManager ---------------------------
(***************************************************************************)
(* TaskManager on small instances.                                         *)
(***************************************************************************)
EXTENDS TaskManager, TLC

MCFailures == Codes

\* A clock that advances: the tasks rank in the order of their insertion.
MCForward == [t \in Ids |-> t]

\* A clock set back, or a tie the ids decide: the later insertion ranks first.
MCBackward == [t \in Ids |-> MaxTasks - t]

=============================================================================
