------------------------------ MODULE TaskTable -----------------------------
(***************************************************************************)
(* What the store promises about the table of tasks, with the event log,   *)
(* the client requests and the timestamps left out: every operation is one *)
(* atomic step on the rows, a row changes state only along                 *)
(* can_transition_to, and a finished row has at most one retry.            *)
(*                                                                         *)
(* TaskStore is the detailed specification that implements this one, and   *)
(* TaskManager is composed with this one.                                  *)
(***************************************************************************)
EXTENDS TaskDomain, Sequences

CONSTANT MaxTasks            \* bound: rows the table may hold

ASSUME MaxTasksAssumption == MaxTasks \in Nat

VARIABLE rows                \* the table, in order of insertion

Row == [status : TaskStatus, failure : Failures \cup {NoFailure}, retry_of : Nat]

TableTypeOK == rows \in Seq(Row)

TableInit == rows = << >>

NewRow(source) ==
  [status |-> "Queued", failure |-> NoFailure, retry_of |-> source]

HasRetryChild(source) ==
  \E t \in DOMAIN rows : rows[t].retry_of = source

\* create_task that inserts: a first attempt.
InsertTask ==
  /\ Len(rows) < MaxTasks
  /\ rows' = Append(rows, NewRow(NoTask))

\* retry_task that inserts: the only child of a finished task.
InsertRetry(source) ==
  /\ Len(rows) < MaxTasks
  /\ source \in DOMAIN rows
  /\ is_retryable(rows[source].status)
  /\ ~HasRetryChild(source)
  /\ rows' = Append(rows, NewRow(source))

\* The row a transition leaves behind.
Moved(row, status, failure) ==
  [status |-> status, failure |-> failure, retry_of |-> row.retry_of]

\* transition_with_event when the row is in the expected state.
ApplyTransition(t, expected, transition) ==
  /\ can_transition_to(expected, transition.next)
  /\ t \in DOMAIN rows
  /\ rows[t].status = expected
  /\ rows' = [rows EXCEPT ![t] = Moved(@, transition.next, transition.failure)]

Interrupted(row, failure) ==
  IF Incomplete(row.status) THEN Moved(row, "Interrupted", failure) ELSE row

\* A recovery that overlooks the tasks that never started.
RecoverRows_Mutant(failure) ==
  rows' = [t \in DOMAIN rows |->
             IF rows[t].status = "Running" THEN Interrupted(rows[t], failure) ELSE rows[t]]

\* recover_incomplete: every queued or running row, in one transaction.
RecoverRows(failure) ==
  rows' = [t \in DOMAIN rows |-> Interrupted(rows[t], failure)]

TableNext ==
  \/ InsertTask
  \/ \E source \in DOMAIN rows : InsertRetry(source)
  \/ \E t \in DOMAIN rows, expected \in TaskStatus, transition \in TaskTransition :
       ApplyTransition(t, expected, transition)
  \/ \E failure \in Failures : RecoverRows(failure)

TableSpec == TableInit /\ [][TableNext]_rows

=============================================================================
