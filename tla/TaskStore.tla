------------------------------ MODULE TaskStore -----------------------------
(***************************************************************************)
(* The SQLite store (crates/coding-agent-store): the table of tasks and    *)
(* the append-only log of task events.  Every operation is one             *)
(* BEGIN IMMEDIATE transaction and therefore one action.  An operation     *)
(* that changes nothing (a replay, a conflict, a rejection) is a disjunct  *)
(* that leaves the variables alone; the comment names its outcome.         *)
(*                                                                         *)
(* Timestamps are kept as present or absent.  A client request id sent by  *)
(* a caller is a member of Requests; the fresh id a retry gives its row is *)
(* OwnRequest, which no caller ever sends.                                 *)
(***************************************************************************)
EXTENDS TaskDomain, Sequences, FiniteSets

CONSTANTS
  Requests,     \* client request ids callers send
  Inputs,       \* what a request asks for: a repository and a prompt
  OwnRequest,   \* the ClientRequestId::new() of a retry
  NoSnapshot,   \* the payload of a panel event holds no task
  MaxAttempt,   \* u32::MAX in the code
  MaxTasks,     \* bound: rows of the table
  MaxEvents     \* bound: rows of the log

ASSUME StoreAssumption ==
  /\ OwnRequest \notin Requests
  /\ MaxAttempt \in Nat \ {0}
  /\ MaxTasks \in Nat
  /\ MaxEvents \in Nat

VARIABLES
  tasks,        \* table tasks, in order of insertion: the id is the position
  events        \* table task_events: the id is the position

vars == <<tasks, events>>

Task ==
  [request : Requests \cup {OwnRequest}, input : Inputs,
   status : TaskStatus, attempt : 1..MaxAttempt, retry_of : Nat,
   started : BOOLEAN, finished : BOOLEAN,
   failure : Failures \cup {NoFailure}, last_event_id : Nat]

Event ==
  [task : Nat \ {0}, kind : TaskEventKind, snapshot : Task \cup {NoSnapshot}]

ASSUME SnapshotAssumption == NoSnapshot \notin Task

Init ==
  /\ tasks = << >>
  /\ events = << >>

-----------------------------------------------------------------------------
(* The two statements every lifecycle write ends with: the event is        *)
(* inserted, its id is stored in the row, and the row as it then stands    *)
(* becomes the event's payload.                                            *)

Stamped(row, id) == [row EXCEPT !.last_event_id = id]

LifecycleEvent(t, row) ==
  [task |-> t, kind |-> lifecycle_kind(row.status), snapshot |-> row]

PanelEvent(t) == [task |-> t, kind |-> PanelKind, snapshot |-> NoSnapshot]

append_lifecycle_event(t, row) ==
  /\ Len(events) < MaxEvents
  /\ events' = Append(events, LifecycleEvent(t, Stamped(row, Len(events) + 1)))

InsertQueued(row) ==
  /\ Len(tasks) < MaxTasks
  /\ append_lifecycle_event(Len(tasks) + 1, row)
  /\ tasks' = Append(tasks, Stamped(row, Len(events) + 1))

-----------------------------------------------------------------------------
QueuedRow(request, input, attempt, source) ==
  [request |-> request, input |-> input, status |-> "Queued",
   attempt |-> attempt, retry_of |-> source, started |-> FALSE,
   finished |-> FALSE, failure |-> NoFailure, last_event_id |-> 0]

WithRequest(request) == {t \in DOMAIN tasks : tasks[t].request = request}

\* A replay is recognised by the whole request and not by its id alone.
create_task_Mutant(request, input) ==
  LET same == {t \in WithRequest(request) : tasks[t].input = input} IN
  \/ \E t \in same : UNCHANGED vars            \* Existing
  \/ /\ same = {}
     /\ InsertQueued(QueuedRow(request, input, 1, NoTask))

create_task(request, input) ==
  \/ \E t \in WithRequest(request) :
       /\ tasks[t].input # input
       /\ UNCHANGED vars                       \* IdempotencyConflict
  \/ \E t \in WithRequest(request) :
       /\ tasks[t].input = input
       /\ UNCHANGED vars                       \* Existing
  \/ /\ WithRequest(request) = {}
     /\ InsertQueued(QueuedRow(request, input, 1, NoTask))

RetryChildren(source) == {t \in DOMAIN tasks : tasks[t].retry_of = source}

\* A retry that does not look for the child an earlier call inserted.
retry_task_Mutant(source) ==
  /\ is_retryable(tasks[source].status)
  /\ tasks[source].attempt < MaxAttempt
  /\ InsertQueued(QueuedRow(OwnRequest, tasks[source].input,
                            tasks[source].attempt + 1, source))

\* A retry that counts on without looking at the width of the counter.
retry_task_MutantUnchecked(source) ==
  /\ is_retryable(tasks[source].status)
  /\ RetryChildren(source) = {}
  /\ InsertQueued(QueuedRow(OwnRequest, tasks[source].input,
                            tasks[source].attempt + 1, source))

retry_task(source) ==
  \/ /\ ~is_retryable(tasks[source].status)
     /\ UNCHANGED vars                       \* TaskNotRetryable
  \/ /\ is_retryable(tasks[source].status)
     /\ RetryChildren(source) # {}
     /\ UNCHANGED vars                       \* Existing
  \/ /\ is_retryable(tasks[source].status)
     /\ RetryChildren(source) = {}
     /\ tasks[source].attempt = MaxAttempt
     /\ UNCHANGED vars                       \* TaskAttemptOverflow
  \/ /\ is_retryable(tasks[source].status)
     /\ RetryChildren(source) = {}
     /\ tasks[source].attempt < MaxAttempt
     /\ InsertQueued(QueuedRow(OwnRequest, tasks[source].input,
                               tasks[source].attempt + 1, source))

-----------------------------------------------------------------------------
\* A running row keeps the failure of nothing before it, a finished one gets both.
UpdatedRow_Mutant(row, transition) ==
  [row EXCEPT !.status = transition.next, !.finished = TRUE,
              !.failure = transition.failure]

UpdatedRow(row, transition) ==
  IF transition.next = "Running"
    THEN [row EXCEPT !.status = "Running", !.started = TRUE,
                     !.finished = FALSE, !.failure = NoFailure]
    ELSE [row EXCEPT !.status = transition.next, !.finished = TRUE,
                     !.failure = transition.failure]

\* The update is not conditional on the expected state.
transition_with_event_Mutant(t, expected, transition) ==
  /\ can_transition_to(expected, transition.next)
  /\ LET row == UpdatedRow(tasks[t], transition) IN
       /\ append_lifecycle_event(t, row)
       /\ tasks' = [tasks EXCEPT ![t] = Stamped(row, Len(events) + 1)]

transition_with_event(t, expected, transition) ==
  \/ /\ ~can_transition_to(expected, transition.next)
     /\ UNCHANGED vars                       \* IllegalTransition
  \/ /\ can_transition_to(expected, transition.next)
     /\ tasks[t].status # expected
     /\ UNCHANGED vars                       \* Conflict
  \/ /\ can_transition_to(expected, transition.next)
     /\ tasks[t].status = expected
     /\ LET row == UpdatedRow(tasks[t], transition) IN
          /\ append_lifecycle_event(t, row)
          /\ tasks' = [tasks EXCEPT ![t] = Stamped(row, Len(events) + 1)]

\* A panel event is taken for any task that has not finished.
append_running_event_Mutant(t) ==
  /\ Incomplete(tasks[t].status)
  /\ Len(events) < MaxEvents
  /\ events' = Append(events, PanelEvent(t))
  /\ tasks' = [tasks EXCEPT ![t].last_event_id = Len(events) + 1]

append_running_event(t) ==
  \/ /\ tasks[t].status # "Running"
     /\ UNCHANGED vars                       \* NotRunning
  \/ /\ tasks[t].status = "Running"
     /\ Len(events) < MaxEvents
     /\ events' = Append(events, PanelEvent(t))
     /\ tasks' = [tasks EXCEPT ![t].last_event_id = Len(events) + 1]

-----------------------------------------------------------------------------
IncompleteTasks == {t \in DOMAIN tasks : Incomplete(tasks[t].status)}

\* The row recovery leaves behind, with the id of its event.
RecoveredRow(t, failure, id) ==
  Stamped(UpdatedRow(tasks[t], [next |-> "Interrupted", failure |-> failure]), id)

\* The place of t in the listing o: its event is the place-th of the transaction.
Place(o, t) == CHOOSE i \in DOMAIN o : o[i] = t

\* The rows are updated in one statement and the log is not written.
recover_incomplete_Mutant(failure) ==
  /\ tasks' = [t \in DOMAIN tasks |->
                 IF Incomplete(tasks[t].status)
                   THEN RecoveredRow(t, failure, tasks[t].last_event_id)
                   ELSE tasks[t]]
  /\ UNCHANGED events

recover_incomplete(failure) ==
  \E o \in Listings(IncompleteTasks) :
    LET n      == Cardinality(IncompleteTasks)
        id(i)  == Len(events) + i
    IN  /\ Len(events) + n <= MaxEvents
        /\ events' = [i \in 1..(Len(events) + n) |->
                        IF i <= Len(events)
                          THEN events[i]
                          ELSE LET t == o[i - Len(events)] IN
                               LifecycleEvent(t, RecoveredRow(t, failure, i))]
        /\ tasks' = [t \in DOMAIN tasks |->
                       IF Incomplete(tasks[t].status)
                         THEN RecoveredRow(t, failure, id(Place(o, t)))
                         ELSE tasks[t]]

Next ==
  \/ \E request \in Requests, input \in Inputs : create_task(request, input)
  \/ \E source \in DOMAIN tasks : retry_task(source)
  \/ \E t \in DOMAIN tasks, expected \in TaskStatus, transition \in TaskTransition :
       transition_with_event(t, expected, transition)
  \/ \E t \in DOMAIN tasks : append_running_event(t)
  \/ \E failure \in Failures : recover_incomplete(failure)

Spec == Init /\ [][Next]_vars

-----------------------------------------------------------------------------
(* Properties.                                                             *)

\* The variables hold what their tables hold (migrations/0001_initial.sql).
TypeOK ==
  /\ tasks \in Seq(Task)
  /\ events \in Seq(Event)

\* Task::try_from_stored: the states of the optional columns a reader accepts.
\* A row outside them makes every query that meets it fail.
try_from_stored(row) ==
  CASE row.status = "Queued"      -> ~row.started /\ ~row.finished /\ row.failure = NoFailure
    [] row.status = "Running"     ->  row.started /\ ~row.finished /\ row.failure = NoFailure
    [] row.status = "Completed"   ->  row.started /\  row.finished /\ row.failure = NoFailure
    [] row.status = "Failed"      ->  row.started /\  row.finished /\ row.failure # NoFailure
    [] row.status = "Cancelled"   ->  row.finished /\ row.failure = NoFailure
    [] row.status = "Interrupted" ->  row.finished /\ row.failure # NoFailure

\* Whatever the order of operations, every stored row can be read back: the
\* two UPDATE statements of transition_with_event and the one of
\* recover_incomplete keep the optional columns in step with the status.
StoredTasksValid ==
  \A t \in DOMAIN tasks : try_from_stored(tasks[t])

EventsOf(t) == {i \in DOMAIN events : events[i].task = t}

LifecycleEventsOf(t) == {i \in EventsOf(t) : events[i].snapshot # NoSnapshot}

IsLast(i, S) == i \in S /\ \A j \in S : j <= i

\* The event with id i is the last lifecycle event of t, and its payload is
\* the row of t but for the events that only moved last_event_id.
SnapshotsRow(t, i) ==
  /\ IsLast(i, LifecycleEventsOf(t))
  /\ events[i].snapshot = Stamped(tasks[t], i)

\* The log is enough to rebuild the table (projection.rs replays it for the
\* task detail, and the browser for its list): last_event_id is the last
\* event of the task, and the last lifecycle event carries the current row.
LogDescribesTable ==
  \A t \in DOMAIN tasks :
    /\ IsLast(tasks[t].last_event_id, EventsOf(t))
    /\ \E i \in LifecycleEventsOf(t) : SnapshotsRow(t, i)

\* Every lifecycle event passes the checks of projection.rs lifecycle_task:
\* the payload is the task of the event, in the state the kind names, and
\* its last_event_id is the id of the event itself.
LifecyclePayloadsConsistent ==
  \A i \in DOMAIN events :
    /\ events[i].task \in DOMAIN tasks
    /\ events[i].snapshot = NoSnapshot <=> events[i].kind = PanelKind
    /\ events[i].snapshot # NoSnapshot =>
         /\ events[i].kind = lifecycle_kind(events[i].snapshot.status)
         /\ events[i].snapshot.last_event_id = i

\* The history of one task in the log reads queued, then perhaps started and
\* panel events, then at most one terminal event and nothing after it: no
\* late runner event, late result or second recovery is ever recorded.
LogFollowsLifecycle ==
  /\ \A i, j \in DOMAIN events :
       i < j /\ events[i].task = events[j].task =>
         /\ events[i].kind \notin TerminalKinds
         /\ events[j].kind # "task.queued"
         /\ events[j].kind = "task.started" => events[i].kind = "task.queued"
  /\ \A j \in DOMAIN events :
       events[j].kind \in {PanelKind, "task.completed", "task.failed"} =>
         \E i \in DOMAIN events :
           i < j /\ events[i].task = events[j].task /\ events[i].kind = "task.started"

\* The log never runs ahead of the table or behind it: a queued task has only
\* been queued, a running one has been started, and neither has a final event.
LogMatchesStatus ==
  \A t \in DOMAIN tasks :
    /\ tasks[t].status = "Queued" => \A i \in EventsOf(t) : events[i].kind = "task.queued"
    /\ tasks[t].status = "Running" =>
         /\ \A i \in EventsOf(t) : events[i].kind \notin TerminalKinds
         /\ \E i \in EventsOf(t) : events[i].kind = "task.started"

\* Retries form chains: a task has at most one retry, which asks for the same
\* thing, was inserted after the task had finished, and counts one attempt more,
\* which the width of the counter holds.
RetriesFormChains ==
  \A t \in DOMAIN tasks :
    /\ tasks[t].attempt <= MaxAttempt
    /\ tasks[t].retry_of = NoTask => tasks[t].attempt = 1
    /\ tasks[t].retry_of # NoTask =>
         LET source == tasks[t].retry_of IN
           /\ source \in 1..(t - 1)
           /\ is_retryable(tasks[source].status)
           /\ tasks[t].attempt = tasks[source].attempt + 1
           /\ tasks[t].input = tasks[source].input
           /\ RetryChildren(source) = {t}

\* A client request id names one task for ever, however often it is sent and
\* whatever it is sent with: a duplicated POST cannot start a second task.
RequestsNameOneTask ==
  \A t, u \in DOMAIN tasks :
    tasks[t].request = tasks[u].request /\ tasks[t].request \in Requests => t = u

\* The log only grows, a finished row never changes again, and no row is lost:
\* what a client has been told stays true.
HistoryStep ==
  /\ Len(events) <= Len(events')
  /\ \A i \in DOMAIN events : events'[i] = events[i]
  /\ Len(tasks) <= Len(tasks')
  /\ \A t \in DOMAIN tasks :
       is_retryable(tasks[t].status) => tasks'[t] = tasks[t]

HistoryIsImmutable == [][HistoryStep]_vars

-----------------------------------------------------------------------------
(* The store implements the abstract table.                                *)

TableRows ==
  [t \in DOMAIN tasks |-> [status |-> tasks[t].status, failure |-> tasks[t].failure,
                           retry_of |-> tasks[t].retry_of]]

Table == INSTANCE TaskTable WITH rows <- TableRows

\* Every transaction of the store is one atomic step of TaskTable on the rows
\* or leaves them alone.
ImplementsTaskTable == Table!TableSpec

=============================================================================
