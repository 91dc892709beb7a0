----------------------------- MODULE BrowserState ---------------------------
(***************************************************************************)
(* The browser's projection of the server: the reducer and the hook around *)
(* it, with answers of REST calls, events and bootstraps arriving in any   *)
(* order.                                                                  *)
(*                                                                         *)
(* The server is its event log, which determines the rows (TaskStore) and  *)
(* only grows.  An answer is the place in the log at which it was read.    *)
(* Events come one by one and in order (EventDelivery).                    *)
(***************************************************************************)
EXTENDS TaskDomain, Sequences, FiniteSets, FiniteSetsExt

CONSTANTS
  Tasks,
  Calls,            \* bound: REST calls under way
  MaxEvents,        \* bound: events in the log
  MaxSelections     \* bound: selections that are made

ASSUME TasksAssumption == NoTask \notin Tasks

VARIABLES
  log,              \* the durable events: [task, change]
  shown,            \* tasksById
  applied,          \* appliedEventId, and the stream client's cursor
  selected,         \* selectedTaskId
  generation,       \* selectionGeneration
  loading,          \* detailLoading
  detail,           \* selectedDetail
  buffer,           \* liveBufferByTaskId, which has the selected task only
  cancels,          \* commands.cancelByTaskId
  fetched,          \* the generation whose detail was asked for last
  calls,            \* REST calls under way
  recovery          \* the bootstrap under way, if the stream waits for one

screenVars == <<shown, applied, selected, generation, loading, detail, buffer, cancels>>
hookVars == <<fetched, calls, recovery>>
vars == <<log, screenVars, hookVars>>

NoRow == [status |-> "none", last |-> 0]
NoDetail == [task |-> NoTask, row |-> NoRow, events |-> {}, cursor |-> 0]
Idle == [kind |-> "none", task |-> NoTask, generation |-> 0, stage |-> "idle", at |-> 0]
Open == [stage |-> "none", at |-> 0]

\* Before the first bootstrap, which is asked for like any other.
Init ==
  /\ log = << >>
  /\ shown = [t \in Tasks |-> NoRow]
  /\ applied = 0 /\ selected = NoTask /\ generation = 0 /\ loading = FALSE
  /\ detail = NoDetail /\ buffer = {}
  /\ cancels = [t \in Tasks |-> "none"]
  /\ fetched = 0
  /\ calls = [c \in Calls |-> Idle]
  /\ recovery = [stage |-> "sent", at |-> 0]

-----------------------------------------------------------------------------
(* The server.                                                             *)

\* Failed and Interrupted are as Completed to a browser.
Changes == {"Queued", "Running", "Completed", "Cancelled"} \cup {PanelKind}

isLifecycleEvent(i) == log[i].change # PanelKind

\* The events of a task and its row, as the store shows them at a place in the log.
EventsOf(t, n) == {i \in 1..n : log[i].task = t}

RowAt(t, n) ==
  LET events == EventsOf(t, n)
  IN  IF events = {} THEN NoRow
      ELSE [status |-> log[Max({i \in events : isLifecycleEvent(i)})].change,
            last |-> Max(events)]

\* project_task_detail.
DetailAt(t, n) ==
  [task |-> t, row |-> RowAt(t, n), events |-> EventsOf(t, n), cursor |-> n]

Now(t) == RowAt(t, Len(log))

Appends(t, change) ==
  /\ Len(log) < MaxEvents
  /\ log' = Append(log, [task |-> t, change |-> change])

\* A task is created, moves or does something, by a runner or another browser.
Commit(t) ==
  /\ LET status == Now(t).status
     IN  \E change \in Changes :
           /\ Appends(t, change)
           /\ \/ status = "none" /\ change = "Queued"
              \/ can_transition_to(status, change)
              \/ status = "Running" /\ change = PanelKind
  /\ UNCHANGED <<screenVars, hookVars>>

-----------------------------------------------------------------------------
(* The reducer.                                                            *)

isTerminalTask(row) == is_retryable(row.status)

\* lifecycle_task: the row in the payload of a lifecycle event.
PayloadRow(i) == [status |-> log[i].change, last |-> i]

\* An answer that may be older than what the screen shows already.
upsertRestTask_Mutant(t, row) ==
  shown' = [shown EXCEPT ![t] = row]

\* upsertRestTask, and the same in cancel.succeeded.
upsertRestTask(t, row) ==
  IF /\ shown[t] # NoRow
     /\ \/ row.last < shown[t].last
        \/ isTerminalTask(shown[t]) /\ ~isTerminalTask(row)
  THEN UNCHANGED shown
  ELSE shown' = [shown EXCEPT ![t] = row]

updateSummaryForEvent(t, i) ==
  IF isLifecycleEvent(i)
  THEN IF /\ shown[t] # NoRow
          /\ \/ i <= shown[t].last
             \/ isTerminalTask(shown[t]) /\ ~isTerminalTask(PayloadRow(i))
       THEN UNCHANGED shown
       ELSE shown' = [shown EXCEPT ![t] = PayloadRow(i)]
  ELSE IF shown[t] = NoRow \/ shown[t].last >= i
       THEN UNCHANGED shown
       ELSE shown' = [shown EXCEPT ![t].last = i]

\* applyEventToDetail for the events of a set, in their order; the row is that of the
\* last lifecycle event among them.
Replayed(d, events) ==
  LET lifecycle == {i \in events : isLifecycleEvent(i)}
  IN  IF events = {} THEN d
      ELSE [d EXCEPT !.row = [status |-> IF lifecycle = {} THEN d.row.status
                                         ELSE log[Max(lifecycle)].change,
                              last |-> Max(events)],
                     !.events = @ \cup events,
                     !.cursor = Max(events)]

applyEventToDetail(i) ==
  detail' = IF log[i].task # detail.task \/ i <= detail.cursor THEN detail
            ELSE Replayed(detail, {i})

removeCancelCommand(t) == cancels' = [cancels EXCEPT ![t] = "none"]

\* event.received, for the next event of the stream.
Receive ==
  LET i == applied + 1
      t == log[i].task
  IN  /\ recovery = Open /\ applied < Len(log)
      /\ updateSummaryForEvent(t, i)
      /\ IF selected = t /\ detail # NoDetail THEN applyEventToDetail(i)
         ELSE UNCHANGED detail
      /\ buffer' = IF selected = t /\ detail = NoDetail THEN buffer \cup {i} ELSE buffer
      /\ IF isLifecycleEvent(i) /\ isTerminalTask(PayloadRow(i))
         THEN removeCancelCommand(t)
         ELSE UNCHANGED cancels
      /\ applied' = i
      /\ UNCHANGED <<log, selected, generation, loading, hookVars>>

\* A slow answer about an earlier selection of the task.
Current_Mutant(call) == selected = call.task

\* Is an answer about the selection on the screen?
Current(call) == selected = call.task /\ generation = call.generation

\* detail.received.
installDetail(call) ==
  LET t == call.task
      installed == Replayed(DetailAt(t, call.at), {i \in buffer : i > call.at})
  IN  IF Current(call)
      THEN /\ shown' = IF shown[t] # NoRow /\ shown[t].last > installed.row.last THEN shown
                       ELSE [shown EXCEPT ![t] = installed.row]
           /\ detail' = installed /\ buffer' = {} /\ loading' = FALSE
           /\ UNCHANGED <<applied, selected, generation, cancels>>
      ELSE UNCHANGED screenVars

\* detail.failed.
DetailFailed(call) ==
  /\ loading' = (loading /\ ~Current(call))
  /\ UNCHANGED <<shown, applied, selected, generation, detail, buffer, cancels>>

\* cancel.succeeded: the row was read at any time since the task was cancelled.
CancelSucceeded(t, row) ==
  /\ upsertRestTask(t, row)
  /\ IF isTerminalTask(shown'[t]) THEN removeCancelCommand(t) ELSE UNCHANGED cancels
  /\ UNCHANGED <<applied, selected, generation, loading, detail, buffer>>

\* cancel.failed.
CancelFailed(t) ==
  /\ IF isTerminalTask(shown[t]) THEN removeCancelCommand(t)
     ELSE cancels' = [cancels EXCEPT ![t] = "error"]
  /\ UNCHANGED <<shown, applied, selected, generation, loading, detail, buffer>>

\* The commands stay as they are, whatever the snapshot says of their tasks.
reconcileCommands_Mutant(n) == UNCHANGED cancels

reconcileCommands(n) ==
  cancels' = [t \in Tasks |-> IF RowAt(t, n) # NoRow /\ ~isTerminalTask(RowAt(t, n))
                              THEN cancels[t] ELSE "none"]

\* bootstrap.received; the stream goes on from the snapshot.
ReceiveBootstrap ==
  LET n == recovery.at
      kept == selected # NoTask /\ RowAt(selected, n) # NoRow
  IN  /\ recovery.stage = "served" /\ recovery' = Open
      /\ shown' = [t \in Tasks |-> RowAt(t, n)]
      /\ applied' = n
      /\ selected' = IF kept THEN selected ELSE NoTask
      /\ generation' = IF kept THEN generation + 1 ELSE generation
      /\ loading' = kept
      /\ detail' = NoDetail /\ buffer' = {}
      /\ reconcileCommands(n)
      /\ UNCHANGED <<log, fetched, calls>>

-----------------------------------------------------------------------------
(* The hook.                                                               *)

\* task.selected.
Select(t) ==
  /\ shown[t] # NoRow /\ generation < MaxSelections
  /\ selected' = t /\ generation' = generation + 1
  /\ loading' = TRUE /\ detail' = NoDetail /\ buffer' = {}
  /\ UNCHANGED <<log, shown, applied, cancels, hookVars>>

Sends(c, kind, t) ==
  /\ calls[c] = Idle
  /\ calls' = [calls EXCEPT ![c] =
       [kind |-> kind, task |-> t, stage |-> "sent", at |-> 0,
        generation |-> IF kind = "detail" THEN generation ELSE 0]]

\* The effect that runs when a selection has no detail yet, once a generation.
Fetch(c) ==
  /\ loading /\ fetched < generation
  /\ Sends(c, "detail", selected)
  /\ fetched' = generation
  /\ UNCHANGED <<log, screenVars, recovery>>

\* newCreateTask(...).execute and retryTask: the answer says which task it is.  It may
\* be under way during a recovery.
SendCreate(c) ==
  /\ recovery = Open
  /\ Sends(c, "create", NoTask)
  /\ UNCHANGED <<log, screenVars, fetched, recovery>>

\* cancelTask and cancel.started, for the task on the screen.
SendCancel(c) ==
  /\ selected # NoTask /\ Incomplete(shown[selected].status)
  /\ cancels[selected] # "pending"
  /\ cancels' = [cancels EXCEPT ![selected] = "pending"]
  /\ Sends(c, "cancel", selected)
  /\ UNCHANGED <<log, shown, applied, selected, generation, loading, detail, buffer,
                 fetched, recovery>>

Served(c, t, at) ==
  calls' = [calls EXCEPT ![c].stage = "served", ![c].task = t, ![c].at = at]

\* The server does what was asked for, or refuses.  A create or a retry that is
\* repeated is answered with its task, and the row of a running task is read again
\* after it was told to stop, when it may be over already.
Serve(c) ==
  /\ calls[c].stage = "sent"
  /\ LET t == calls[c].task
     IN  \/ calls' = [calls EXCEPT ![c].stage = "failed"] /\ UNCHANGED log
         \/ /\ calls[c].kind = "detail"
            /\ Served(c, t, Len(log)) /\ UNCHANGED log
         \/ /\ calls[c].kind = "create"
            /\ \E u \in Tasks :
                 IF Now(u) = NoRow
                 THEN Appends(u, "Queued") /\ Served(c, u, Len(log) + 1)
                 ELSE Served(c, u, Len(log)) /\ UNCHANGED log
         \/ /\ calls[c].kind = "cancel"
            /\ IF Now(t).status = "Queued"
               THEN Appends(t, "Cancelled") /\ Served(c, t, Len(log) + 1)
               ELSE Served(c, t, Len(log)) /\ UNCHANGED log
  /\ UNCHANGED <<screenVars, fetched, recovery>>

\* An answer arrives.  The hook ignores those about earlier selections, unless its
\* clean-up has not run yet.
Answer(c) ==
  LET call == calls[c]
      row == RowAt(call.task, call.at)
  IN  /\ \/ /\ call.stage = "served"
            /\ \/ call.kind = "detail" /\ installDetail(call)
               \/ call.kind = "cancel" /\ CancelSucceeded(call.task, row)
               \/ /\ call.kind = "create" /\ upsertRestTask(call.task, row)
                  /\ UNCHANGED <<applied, selected, generation, loading, detail, buffer,
                                 cancels>>
         \/ /\ call.stage = "failed"
            /\ \/ call.kind = "detail" /\ DetailFailed(call)
               \/ call.kind = "cancel" /\ CancelFailed(call.task)
               \/ call.kind = "create" /\ UNCHANGED screenVars
      /\ calls' = [calls EXCEPT ![c] = Idle]
      /\ UNCHANGED <<log, fetched, recovery>>

\* The server resets the stream, or it is not understood: SseClient.recover.
Recover ==
  /\ recovery = Open /\ generation < MaxSelections
  /\ recovery' = [stage |-> "sent", at |-> 0]
  /\ UNCHANGED <<log, screenVars, fetched, calls>>

\* Store::bootstrap_snapshot; the answer is lost, or read and on its way.
ServeBootstrap ==
  /\ recovery.stage # "none"
  /\ recovery' \in {[stage |-> "sent", at |-> 0], [stage |-> "served", at |-> Len(log)]}
  /\ UNCHANGED <<log, screenVars, fetched, calls>>

Next ==
  \/ \E t \in Tasks : Commit(t) \/ Select(t)
  \/ \E c \in Calls : Fetch(c) \/ SendCreate(c) \/ SendCancel(c) \/ Serve(c) \/ Answer(c)
  \/ Receive \/ Recover \/ ServeBootstrap \/ ReceiveBootstrap

Spec == Init /\ [][Next]_vars

-----------------------------------------------------------------------------
(* What the browser promises.                                              *)

\* However REST answers, events and bootstraps overtake each other, every task is shown
\* as it was at some time since the last event that was applied: no answer takes a
\* task back behind the events, none is missing, and none hides a newer event.
ShownTasksAreCurrent ==
  \A t \in Tasks : \E n \in applied..Len(log) : shown[t] = RowAt(t, n)

\* The detail on the screen is of the selected task and shows its whole history up to
\* some time since the last event that was applied, each event once, although it was
\* fetched while events went on and the user may have looked elsewhere meanwhile.
DetailIsTheHistory ==
  detail # NoDetail =>
    /\ detail.task = selected
    /\ \E n \in applied..Len(log) :
         detail.row = RowAt(selected, n) /\ detail.events = EventsOf(selected, n)

\* A cancellation whose call has been answered is not shown as pending or refused any
\* more when the events that were applied say its task is over.
CancelEndsWithTheTask ==
  \A t \in Tasks :
    /\ cancels[t] # "none"
    /\ \A c \in Calls : ~(calls[c].kind = "cancel" /\ calls[c].task = t)
    => ~isTerminalTask(RowAt(t, applied))
=============================================================================
