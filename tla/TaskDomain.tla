----------------------------- MODULE TaskDomain -----------------------------
(***************************************************************************)
(* The vocabulary of the domain crate: the states of a task, the           *)
(* transitions between them, and the kinds of the durable events.          *)
(*                                                                         *)
(* A task id (a UUID in the code) is the position of its row in the order  *)
(* of insertion.  The queries list rows in (created_at, id) order, which   *)
(* is another: a wall clock gives the first and chance the second.         *)
(* NoTask is the NULL of the column retry_of.                              *)
(***************************************************************************)
EXTENDS Naturals, FiniteSets

CONSTANT Failures            \* the codes a TaskFailure may carry

NoTask == 0

NoFailure == "NO_FAILURE"    \* failure_json IS NULL

ASSUME FailuresAssumption == NoFailure \notin Failures

TaskStatus ==
  {"Queued", "Running", "Completed", "Failed", "Cancelled", "Interrupted"}

can_transition_to(from, to) ==
  \/ from = "Queued"  /\ to \in {"Running", "Cancelled", "Interrupted"}
  \/ from = "Running" /\ to \in {"Completed", "Failed", "Cancelled", "Interrupted"}

is_retryable(status) ==
  status \in {"Completed", "Failed", "Cancelled", "Interrupted"}

Incomplete(status) == status \in {"Queued", "Running"}

\* What a TaskTransition carries: the next state, and a failure for two of them.
TaskTransition ==
  {[next |-> s, failure |-> NoFailure] : s \in {"Running", "Completed", "Cancelled"}}
    \cup [next : {"Failed", "Interrupted"}, failure : Failures]

LifecycleKinds ==
  {"task.queued", "task.started", "task.completed", "task.failed",
   "task.cancelled", "task.interrupted"}

\* The four panel kinds (plan, activity, diff, test) differ in payload only.
PanelKind == "panel"

TaskEventKind == LifecycleKinds \cup {PanelKind}

TerminalKinds == LifecycleKinds \ {"task.queued", "task.started"}

lifecycle_kind(status) ==
  CASE status = "Queued"      -> "task.queued"
    [] status = "Running"     -> "task.started"
    [] status = "Completed"   -> "task.completed"
    [] status = "Failed"      -> "task.failed"
    [] status = "Cancelled"   -> "task.cancelled"
    [] status = "Interrupted" -> "task.interrupted"

\* The listings of a finite set of ids, each id once: what ORDER BY created_at, id
\* may make of it.
Listings(S) ==
  {o \in [1..Cardinality(S) -> S] :
     /\ \A i, j \in 1..Cardinality(S) : o[i] = o[j] => i = j
     /\ \A t \in S : \E i \in 1..Cardinality(S) : o[i] = t}

=============================================================================
